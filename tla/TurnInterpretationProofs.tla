------------------------ MODULE TurnInterpretationProofs ------------------------
(***************************************************************************)
(* Proofs about TurnInterpretation: what the compilation of a message      *)
(* makes of the turns before it.                                           *)
(***************************************************************************)
EXTENDS TurnInterpretation, IntentLemmas

-----------------------------------------------------------------------------
(* Lists that are put together element by element *)

LEMMA AddNewType ==
  ASSUME NEW S, NEW s \in Seq(S), NEW x \in S
  PROVE  /\ AddNew(s, x) \in Seq(S)
         /\ \A y : y \in Range(AddNew(s, x)) <=> y \in Range(s) \/ y = x
  <1>1. CASE Contains(s, x)
    <2>1. x \in Range(s)
      BY <1>1, ElementsOfList DEF Contains
    <2>2. QED
      BY <1>1, <2>1 DEF AddNew
  <1>2. CASE ~Contains(s, x)
    <2> DEFINE t == Append(s, x)
    <2>1. t \in Seq(S) /\ Len(t) = Len(s) + 1 /\ t[Len(s) + 1] = x /\ Len(s) \in Nat
          /\ \A k \in 1..Len(s) : t[k] = s[k]
      BY AppendProperties
    <2> HIDE DEF t
    <2>2. \A y \in Range(t) : y \in Range(s) \/ y = x
      <3> SUFFICES ASSUME NEW k \in 1..Len(t)
                   PROVE  t[k] \in Range(s) \/ t[k] = x
        BY <2>1, ElementsOfList
      <3>1. k \in 1..Len(s) \/ k = Len(s) + 1
        BY <2>1
      <3>2. QED
        BY <2>1, <3>1, ElementsOfList
    <2>3. \A y \in Range(s) : y \in Range(t)
      <3> SUFFICES ASSUME NEW k \in 1..Len(s)
                   PROVE  s[k] \in Range(t)
        BY ElementsOfList
      <3>1. k \in 1..Len(t) /\ t[k] = s[k]
        BY <2>1
      <3>2. QED
        BY <2>1, <3>1, ElementsOfList
    <2>4. x \in Range(t)
      <3>1. Len(s) + 1 \in 1..Len(t)
        BY <2>1
      <3>2. QED
        BY <2>1, <3>1, ElementsOfList
    <2>5. AddNew(s, x) = t
      BY <1>2 DEF AddNew, t
    <2>6. QED
      BY <2>1, <2>2, <2>3, <2>4, <2>5
  <1>3. QED
    BY <1>1, <1>2

\* The elements that are new, one by one.
LEMMA FirstOfEachSteps ==
  ASSUME NEW S, NEW s \in Seq(S)
  PROVE  \E p : /\ p[0] = <<>>
                /\ \A k \in 1..Len(s) : p[k] \in Seq(S) /\ p[k] = AddNew(p[k-1], s[k])
                /\ FirstOfEach(s) = p[Len(s)]
  <1> DEFINE n == Len(s)
             T == Seq(S)
             step == [x \in (1..n) \X T |-> AddNew(x[2], s[x[1]])]
             total == FirstOfEach(s)
             iter[t \in SUBSET (DOMAIN s)] ==
               IF t = {} THEN <<>> ELSE AddNew(iter[t \ {Max(t)}], s[Max(t)])
  <1>1. n \in Nat /\ DOMAIN s = 1..n /\ \A k \in 1..n : s[k] \in S
    OBVIOUS
  <1>2. <<>> \in T
    OBVIOUS
  <1>3. StepsWithin(n, T, step) /\ \A k \in 1..n, x \in T : step[<<k, x>>] = AddNew(x, s[k])
    BY <1>1, AddNewType DEF StepsWithin
  <1> HIDE DEF step
  <1>4. PICK h \in [SUBSET (1..n) -> T] : IsLeftFold(h, n, <<>>, step)
    BY <1>1, <1>2, <1>3, LeftFoldExists
  <1>5. ASSUME NEW t \in SUBSET (1..n)
        PROVE  h[t] = IF t = {} THEN <<>> ELSE AddNew(h[t \ {Max(t)}], s[Max(t)])
    <2>1. h = [u \in SUBSET (1..n) |->
                 IF u = {} THEN <<>> ELSE step[<<Max(u), h[u \ {Max(u)}]>>]]
      BY <1>4 DEF IsLeftFold
    <2>2. h[t] = IF t = {} THEN <<>> ELSE step[<<Max(t), h[t \ {Max(t)}]>>]
      BY <2>1, Zenon
    <2>3. CASE t = {}
      BY <2>2, <2>3
    <2>4. CASE t # {}
      <3>1. Max(t) \in 1..n
        BY <1>1, <2>4, MaxIsGreatest
      <3>2. h[t \ {Max(t)}] \in T
        BY <1>4
      <3>3. QED
        BY <1>3, <2>2, <2>4, <3>1, <3>2
    <2>5. QED
      BY <2>3, <2>4
  <1>6. h = [t \in SUBSET (1..n) |->
               IF t = {} THEN <<>> ELSE AddNew(h[t \ {Max(t)}], s[Max(t)])]
    <2>1. h = [t \in SUBSET (1..n) |-> h[t]]
      BY <1>4
    <2>2. QED
      BY <1>5, <2>1, Zenon
  <1> HIDE DEF n
  <1>7. iter = [t \in SUBSET (DOMAIN s) |->
                  IF t = {} THEN <<>> ELSE AddNew(iter[t \ {Max(t)}], s[Max(t)])]
    <2>1. \E f : f = [t \in SUBSET (DOMAIN s) |->
                        IF t = {} THEN <<>> ELSE AddNew(f[t \ {Max(t)}], s[Max(t)])]
      BY <1>1, <1>6, Zenon
    <2>2. QED
      BY <2>1, Zenon
  <1>8. total = iter[DOMAIN s]
    BY Zenon DEF FoldLeft, MapThenFoldSet, FirstOfEach
  <1> DEFINE p == [k \in 0..n |-> iter[1..k]]
  <1>9. total = p[n]
    <2>1. p[n] = iter[1..n]
      BY <1>1
    <2>2. QED
      BY <1>1, <1>8, <2>1
  <1>10. \A t \in SUBSET (1..n) :
           iter[t] = IF t = {} THEN <<>> ELSE AddNew(iter[t \ {Max(t)}], s[Max(t)])
    BY <1>1, <1>7, Zenon
  <1> HIDE DEF iter, total
  <1>11. p[0] = <<>>
    <2>1. 1..0 = {} /\ 0 \in 0..n /\ {} \in SUBSET (1..n)
      BY <1>1
    <2>2. iter[{}] = <<>>
      BY <1>10, <2>1
    <2>3. p[0] = iter[1..0]
      BY <2>1
    <2>4. QED
      BY <2>1, <2>2, <2>3
  <1>12. ASSUME NEW k \in 1..n
         PROVE  p[k] = AddNew(p[k-1], s[k])
    <2>0. n \in Nat /\ k \in Nat /\ 1 <= k /\ k <= n /\ k \in 1..k
      BY <1>1
    <2>1. 1..k \in SUBSET (1..n) /\ 1..k # {} /\ k - 1 \in 0..n /\ k \in 0..n
      <3>1. \A j \in 1..k : j \in 1..n
        BY <2>0
      <3>2. 1..k # {}
        BY <2>0
      <3>3. k - 1 \in 0..n /\ k \in 0..n
        BY <2>0
      <3>4. QED
        BY <3>1, <3>2, <3>3
    <2>2. Max(1..k) = k
      <3>1. Max(1..k) \in 1..k /\ \A y \in 1..k : y <= Max(1..k)
        BY <2>0, <2>1, MaxIsGreatest
      <3>2. QED
        BY <2>0, <3>1
    <2>3. (1..k) \ {k} = 1..k-1
      BY <2>0
    <2>4. iter[1..k] = AddNew(iter[1..k-1], s[k])
      BY <1>10, <2>1, <2>2, <2>3
    <2>5. p[k] = iter[1..k] /\ p[k-1] = iter[1..k-1]
      BY <2>1
    <2>6. QED
      BY <2>4, <2>5
  <1> HIDE DEF p
  <1>13. \A k \in 1..n : p[k] \in T
    <2> DEFINE I == {k \in Nat : k <= n => p[k] \in T}
    <2>1. 0 \in I
      BY <1>2, <1>11
    <2>2. ASSUME NEW k \in Nat, k \in I
          PROVE  k + 1 \in I
      <3> SUFFICES ASSUME k + 1 <= n
                   PROVE  p[k + 1] \in T
        OBVIOUS
      <3>1. k + 1 \in 1..n /\ (k + 1) - 1 = k /\ p[k] \in T
        BY <1>1, <2>2
      <3>2. p[k + 1] = AddNew(p[k], s[k + 1])
        BY <1>12, <3>1
      <3>3. QED
        BY <1>1, <3>1, <3>2, AddNewType
    <2> HIDE DEF I
    <2>3. Nat \subseteq I
      BY <2>1, <2>2, Induction
    <2>4. QED
      BY <1>1, <2>3 DEF I
  <1>14. QED
    BY <1>9, <1>11, <1>12, <1>13, Zenon DEF n, T, total

LEMMA FirstOfEachElements ==
  ASSUME NEW S, NEW s \in Seq(S)
  PROVE  FirstOfEach(s) \in Seq(S) /\ Range(FirstOfEach(s)) = Range(s)
  <1>1. PICK p : /\ p[0] = <<>>
                 /\ \A k \in 1..Len(s) : p[k] \in Seq(S) /\ p[k] = AddNew(p[k-1], s[k])
                 /\ FirstOfEach(s) = p[Len(s)]
    BY FirstOfEachSteps
  <1>2. Len(s) \in Nat /\ \A k \in 1..Len(s) : s[k] \in S
    OBVIOUS
  <1> DEFINE I == {k \in Nat : k <= Len(s) =>
                     p[k] \in Seq(S) /\ Range(p[k]) = {s[j] : j \in 1..k}}
  <1>3. 0 \in I
    <2>1. <<>> \in Seq(S) /\ Range(<<>>) = {}
      BY DEF Range
    <2>2. {s[j] : j \in 1..0} = {}
      OBVIOUS
    <2>3. QED
      BY <1>1, <2>1, <2>2
  <1>4. ASSUME NEW k \in Nat, k \in I
        PROVE  k + 1 \in I
    <2> SUFFICES ASSUME k + 1 <= Len(s)
                 PROVE  p[k + 1] \in Seq(S) /\ Range(p[k + 1]) = {s[j] : j \in 1..k+1}
      OBVIOUS
    <2>1. k + 1 \in 1..Len(s) /\ (k + 1) - 1 = k /\ k <= Len(s)
      BY <1>2
    <2>2. p[k] \in Seq(S) /\ Range(p[k]) = {s[j] : j \in 1..k}
      BY <1>4, <2>1
    <2>3. p[k + 1] = AddNew(p[k], s[k + 1]) /\ p[k + 1] \in Seq(S)
      BY <1>1, <2>1
    <2>4. \A y : y \in Range(p[k + 1]) <=> y \in Range(p[k]) \/ y = s[k + 1]
      <3> DEFINE a == p[k]
                 x == s[k + 1]
      <3>1. a \in Seq(S) /\ x \in S /\ p[k + 1] = AddNew(a, x)
        BY <1>2, <2>1, <2>2, <2>3
      <3> HIDE DEF a, x
      <3>2. \A y : y \in Range(AddNew(a, x)) <=> y \in Range(a) \/ y = x
        BY <3>1, AddNewType
      <3>3. QED
        BY <3>1, <3>2 DEF a, x
    <2>5. \A y : y \in {s[j] : j \in 1..k+1} <=> y \in {s[j] : j \in 1..k} \/ y = s[k + 1]
      <3>1. \A j : j \in 1..k+1 <=> j \in 1..k \/ j = k + 1
        OBVIOUS
      <3>2. QED
        BY <3>1, Zenon
    <2>6. QED
      BY <2>2, <2>3, <2>4, <2>5
  <1> HIDE DEF I
  <1>5. Nat \subseteq I
    BY <1>3, <1>4, Induction
  <1>6. p[Len(s)] \in Seq(S) /\ Range(p[Len(s)]) = {s[j] : j \in 1..Len(s)}
    <2>1. Len(s) \in I
      BY <1>2, <1>5
    <2>2. QED
      BY <1>2, <2>1 DEF I
  <1>7. Range(s) = {s[j] : j \in 1..Len(s)}
    BY DEF Range
  <1>8. QED
    BY <1>1, <1>6, <1>7

\* Where SelectInSeq looks: the first of some places, or nowhere.
LEMMA FirstPlace ==
  ASSUME NEW n \in Nat, NEW I \in SUBSET (1..n),
         NEW i, i = IF I # {} THEN Min(I) ELSE 0
  PROVE  /\ i = 0 <=> I = {}
         /\ i # 0 => i \in I /\ i \in 1..n
  <1>1. I # {} => Min(I) \in I
    <2>1. I \in SUBSET Nat
      OBVIOUS
    <2>2. QED
      BY <2>1, MinIsLeast
  <1>2. \A k \in I : k \in 1..n /\ k # 0
    OBVIOUS
  <1>3. CASE I = {}
    BY <1>3
  <1>4. CASE I # {}
    <2>1. i = Min(I)
      BY <1>4
    <2>2. i \in I
      BY <1>1, <1>4, <2>1
    <2>3. QED
      BY <1>2, <1>4, <2>2
  <1>5. QED
    BY <1>3, <1>4

LEMMA PutRoleType ==
  ASSUME NEW S, NEW s \in Seq(S), NEW e \in S
  PROVE  /\ PutRole(s, e) \in Seq(S) /\ PutRole(s, e) # <<>>
         /\ \A y \in Range(PutRole(s, e)) : y \in Range(s) \/ y = e
         /\ RolesDiffer(s) => RolesDiffer(PutRole(s, e))
  <1> DEFINE i == SelectInSeq(s, LAMBDA x : x.role = e.role)
             I == {k \in 1..Len(s) : s[k].role = e.role}
             t == PutRole(s, e)
  <1>1. /\ i = 0 => \A k \in 1..Len(s) : s[k].role # e.role
        /\ i # 0 => i \in 1..Len(s) /\ s[i].role = e.role
    <2>1. i = IF I # {} THEN Min(I) ELSE 0
      BY Zenon DEF SelectInSeq
    <2>2. /\ \A k \in I : k \in 1..Len(s) /\ s[k].role = e.role
          /\ \A k \in 1..Len(s) : s[k].role = e.role => k \in I
          /\ I \in SUBSET (1..Len(s)) /\ Len(s) \in Nat
      OBVIOUS
    <2> HIDE DEF i, I
    <2>3. (i = 0 <=> I = {}) /\ (i # 0 => i \in I)
      BY <2>1, <2>2, FirstPlace
    <2>4. QED
      BY <2>2, <2>3
  <1>2. t = IF i = 0 THEN Append(s, e) ELSE [s EXCEPT ![i] = e]
    BY DEF PutRole
  <1> HIDE DEF i, t
  <1>3. Len(s) \in Nat /\ \A k \in 1..Len(s) : s[k] \in S
    OBVIOUS
  <1>4. CASE i = 0
    <2>1. t \in Seq(S) /\ Len(t) = Len(s) + 1 /\ t[Len(s) + 1] = e
          /\ \A k \in 1..Len(s) : t[k] = s[k]
      BY <1>2, <1>4, AppendProperties
    <2>2. \A y \in Range(t) : y \in Range(s) \/ y = e
      <3> SUFFICES ASSUME NEW k \in 1..Len(t)
                   PROVE  t[k] \in Range(s) \/ t[k] = e
        BY <2>1, ElementsOfList
      <3>1. k \in 1..Len(s) \/ k = Len(s) + 1
        BY <1>3, <2>1
      <3>2. QED
        BY <2>1, <3>1, ElementsOfList
    <2>3. RolesDiffer(s) => RolesDiffer(t)
      BY <1>1, <1>3, <1>4, <2>1 DEF RolesDiffer
    <2>4. t # <<>>
      BY <1>3, <2>1
    <2>5. QED
      BY <2>1, <2>2, <2>3, <2>4 DEF t
  <1>5. CASE i # 0
    <2>1. /\ t \in Seq(S) /\ Len(t) = Len(s) /\ t[i] = e /\ i \in 1..Len(s)
          /\ \A k \in 1..Len(s) : k # i => t[k] = s[k]
      BY <1>1, <1>2, <1>5
    <2>2. \A y \in Range(t) : y \in Range(s) \/ y = e
      <3> SUFFICES ASSUME NEW k \in 1..Len(t)
                   PROVE  t[k] \in Range(s) \/ t[k] = e
        BY <2>1, ElementsOfList
      <3>1. QED
        BY <2>1, ElementsOfList
    <2>3. RolesDiffer(s) => RolesDiffer(t)
      <3>1. \A k \in 1..Len(s) : t[k].role = s[k].role
        BY <1>1, <1>5, <2>1
      <3>2. QED
        BY <2>1, <3>1 DEF RolesDiffer
    <2>4. t # <<>>
      BY <1>3, <2>1
    <2>5. QED
      BY <2>1, <2>2, <2>3, <2>4 DEF t
  <1>6. QED
    BY <1>4, <1>5

\* The entities, one by one, each in its role.
LEMMA RoleSteps ==
  ASSUME NEW S, NEW s \in Seq(S), NEW base \in Seq(S)
  PROVE  \E p : /\ p[0] = base
                /\ \A k \in 1..Len(s) : p[k] \in Seq(S) /\ p[k] = PutRole(p[k-1], s[k])
                /\ PutRoles(base, s) = p[Len(s)]
  <1> DEFINE n == Len(s)
             T == Seq(S)
             step == [x \in (1..n) \X T |-> PutRole(x[2], s[x[1]])]
             total == PutRoles(base, s)
             iter[t \in SUBSET (DOMAIN s)] ==
               IF t = {} THEN base ELSE PutRole(iter[t \ {Max(t)}], s[Max(t)])
  <1>1. n \in Nat /\ DOMAIN s = 1..n /\ \A k \in 1..n : s[k] \in S
    OBVIOUS
  <1>2. base \in T
    OBVIOUS
  <1>3. StepsWithin(n, T, step) /\ \A k \in 1..n, x \in T : step[<<k, x>>] = PutRole(x, s[k])
    BY <1>1, PutRoleType DEF StepsWithin
  <1> HIDE DEF step
  <1>4. PICK h \in [SUBSET (1..n) -> T] : IsLeftFold(h, n, base, step)
    BY <1>1, <1>2, <1>3, LeftFoldExists
  <1>5. ASSUME NEW t \in SUBSET (1..n)
        PROVE  h[t] = IF t = {} THEN base ELSE PutRole(h[t \ {Max(t)}], s[Max(t)])
    <2>1. h = [u \in SUBSET (1..n) |->
                 IF u = {} THEN base ELSE step[<<Max(u), h[u \ {Max(u)}]>>]]
      BY <1>4 DEF IsLeftFold
    <2>2. h[t] = IF t = {} THEN base ELSE step[<<Max(t), h[t \ {Max(t)}]>>]
      BY <2>1, Zenon
    <2>3. CASE t = {}
      BY <2>2, <2>3
    <2>4. CASE t # {}
      <3>1. Max(t) \in 1..n
        BY <1>1, <2>4, MaxIsGreatest
      <3>2. h[t \ {Max(t)}] \in T
        BY <1>4
      <3>3. QED
        BY <1>3, <2>2, <2>4, <3>1, <3>2
    <2>5. QED
      BY <2>3, <2>4
  <1>6. h = [t \in SUBSET (1..n) |->
               IF t = {} THEN base ELSE PutRole(h[t \ {Max(t)}], s[Max(t)])]
    <2>1. h = [t \in SUBSET (1..n) |-> h[t]]
      BY <1>4
    <2>2. QED
      BY <1>5, <2>1, Zenon
  <1> HIDE DEF n
  <1>7. iter = [t \in SUBSET (DOMAIN s) |->
                  IF t = {} THEN base ELSE PutRole(iter[t \ {Max(t)}], s[Max(t)])]
    <2>1. \E f : f = [t \in SUBSET (DOMAIN s) |->
                        IF t = {} THEN base ELSE PutRole(f[t \ {Max(t)}], s[Max(t)])]
      BY <1>1, <1>6, Zenon
    <2>2. QED
      BY <2>1, Zenon
  <1>8. total = iter[DOMAIN s]
    BY Zenon DEF FoldLeft, MapThenFoldSet, PutRoles
  <1> DEFINE p == [k \in 0..n |-> iter[1..k]]
  <1>9. total = p[n]
    <2>1. p[n] = iter[1..n]
      BY <1>1
    <2>2. QED
      BY <1>1, <1>8, <2>1
  <1>10. \A t \in SUBSET (1..n) :
           iter[t] = IF t = {} THEN base ELSE PutRole(iter[t \ {Max(t)}], s[Max(t)])
    BY <1>1, <1>7, Zenon
  <1> HIDE DEF iter, total
  <1>11. p[0] = base
    <2>1. 1..0 = {} /\ 0 \in 0..n /\ {} \in SUBSET (1..n)
      BY <1>1
    <2>2. iter[{}] = base
      BY <1>10, <2>1
    <2>3. p[0] = iter[1..0]
      BY <2>1
    <2>4. QED
      BY <2>1, <2>2, <2>3
  <1>12. ASSUME NEW k \in 1..n
         PROVE  p[k] = PutRole(p[k-1], s[k])
    <2>0. n \in Nat /\ k \in Nat /\ 1 <= k /\ k <= n /\ k \in 1..k
      BY <1>1
    <2>1. 1..k \in SUBSET (1..n) /\ 1..k # {} /\ k - 1 \in 0..n /\ k \in 0..n
      <3>1. \A j \in 1..k : j \in 1..n
        BY <2>0
      <3>2. 1..k # {}
        BY <2>0
      <3>3. k - 1 \in 0..n /\ k \in 0..n
        BY <2>0
      <3>4. QED
        BY <3>1, <3>2, <3>3
    <2>2. Max(1..k) = k
      <3>1. Max(1..k) \in 1..k /\ \A y \in 1..k : y <= Max(1..k)
        BY <2>0, <2>1, MaxIsGreatest
      <3>2. QED
        BY <2>0, <3>1
    <2>3. (1..k) \ {k} = 1..k-1
      BY <2>0
    <2>4. iter[1..k] = PutRole(iter[1..k-1], s[k])
      BY <1>10, <2>1, <2>2, <2>3
    <2>5. p[k] = iter[1..k] /\ p[k-1] = iter[1..k-1]
      BY <2>1
    <2>6. QED
      BY <2>4, <2>5
  <1> HIDE DEF p
  <1>13. \A k \in 1..n : p[k] \in T
    <2> DEFINE I == {k \in Nat : k <= n => p[k] \in T}
    <2>1. 0 \in I
      BY <1>2, <1>11
    <2>2. ASSUME NEW k \in Nat, k \in I
          PROVE  k + 1 \in I
      <3> SUFFICES ASSUME k + 1 <= n
                   PROVE  p[k + 1] \in T
        OBVIOUS
      <3>1. k + 1 \in 1..n /\ (k + 1) - 1 = k /\ p[k] \in T
        BY <1>1, <2>2
      <3> DEFINE a == p[k]
                 e == s[k + 1]
      <3>2. p[k + 1] = PutRole(a, e) /\ a \in Seq(S) /\ e \in S
        BY <1>1, <1>12, <3>1
      <3> HIDE DEF a, e
      <3>3. QED
        BY <3>2, PutRoleType
    <2> HIDE DEF I
    <2>3. Nat \subseteq I
      BY <2>1, <2>2, Induction
    <2>4. QED
      BY <1>1, <2>3 DEF I
  <1>14. QED
    BY <1>9, <1>11, <1>12, <1>13, Zenon DEF n, T, total

LEMMA RolesPut ==
  ASSUME NEW S, NEW s \in Seq(S), NEW base \in Seq(S),
         NEW t, t = PutRoles(base, s)
  PROVE  /\ t \in Seq(S)
         /\ RolesDiffer(base) => RolesDiffer(t)
         /\ \A y \in Range(t) : y \in Range(base) \/ y \in Range(s)
         /\ s # <<>> => t # <<>>
  <1>1. PICK p : /\ p[0] = base
                 /\ \A k \in 1..Len(s) : p[k] \in Seq(S) /\ p[k] = PutRole(p[k-1], s[k])
                 /\ PutRoles(base, s) = p[Len(s)]
    BY RoleSteps
  <1>2. Len(s) \in Nat /\ \A k \in 1..Len(s) : s[k] \in S /\ s[k] \in Range(s)
    BY ElementsOfList
  <1> DEFINE Good(l) == /\ l \in Seq(S)
                        /\ RolesDiffer(base) => RolesDiffer(l)
                        /\ \A y \in Range(l) : y \in Range(base) \/ y \in Range(s)
             I == {k \in Nat : k <= Len(s) => Good(p[k])}
  <1>3. 0 \in I
    BY <1>1
  <1>4. ASSUME NEW k \in Nat, k \in I
        PROVE  k + 1 \in I
    <2> SUFFICES ASSUME k + 1 <= Len(s)
                 PROVE  Good(p[k + 1])
      OBVIOUS
    <2>1. k + 1 \in 1..Len(s) /\ (k + 1) - 1 = k /\ k <= Len(s)
      BY <1>2
    <2> DEFINE a == p[k]
               e == s[k + 1]
               b == p[k + 1]
    <2>2. Good(a)
      BY <1>4, <2>1
    <2>3. e \in S /\ e \in Range(s) /\ b = PutRole(a, e)
      BY <1>1, <1>2, <2>1
    <2> HIDE DEF a, b, e
    <2>4. /\ b \in Seq(S)
          /\ \A y \in Range(b) : y \in Range(a) \/ y = e
          /\ RolesDiffer(a) => RolesDiffer(b)
      BY <2>2, <2>3, PutRoleType
    <2>5. Good(b)
      BY <2>2, <2>3, <2>4
    <2>6. QED
      BY <2>5 DEF b
  <1> HIDE DEF I
  <1>5. Nat \subseteq I
    BY <1>3, <1>4, Induction
  <1>6. Good(t)
    <2>1. Len(s) \in I
      BY <1>2, <1>5
    <2>2. QED
      BY <1>1, <1>2, <2>1 DEF I
  <1>7. s # <<>> => t # <<>>
    <2> SUFFICES ASSUME s # <<>>
                 PROVE  t # <<>>
      OBVIOUS
    <2>1. Len(s) \in 1..Len(s) /\ Len(s) - 1 \in Nat /\ Len(s) - 1 <= Len(s)
      BY <1>2, ElementsOfList
    <2> DEFINE a == p[Len(s) - 1]
               e == s[Len(s)]
    <2>2. Len(s) - 1 \in I
      BY <1>5, <2>1
    <2>3. a \in Seq(S) /\ e \in S /\ t = PutRole(a, e)
      BY <1>1, <1>2, <2>1, <2>2 DEF I
    <2> HIDE DEF a, e
    <2>4. QED
      BY <2>3, PutRoleType
  <1>8. QED
    BY <1>6, <1>7

-----------------------------------------------------------------------------
(* The registry and what is bound in it *)

LEMMA OnlyElement ==
  ASSUME NEW S, IsFiniteSet(S)
  PROVE  /\ Cardinality(S) = 1 => \E x \in S : S = {x} /\ Only(S) = <<x>>
         /\ Cardinality(S) # 1 => Only(S) = <<>>
         /\ \A x : S = {x} => Only(S) = <<x>> /\ Cardinality(S) = 1
         /\ Only(S) # <<>> => Cardinality(S) = 1
  <1>1. ASSUME NEW x, S = {x}
        PROVE  Only(S) = <<x>> /\ Cardinality(S) = 1
    <2>1. Cardinality(S) = 1
      BY <1>1, FS_Singleton
    <2> DEFINE f == CHOOSE g \in [1..Cardinality(S) -> S] : IsInjective(g)
    <2>2. \E g \in [1..Cardinality(S) -> S] : IsInjective(g)
      <3>1. [i \in 1..1 |-> x] \in [1..Cardinality(S) -> S]
        BY <1>1, <2>1
      <3>2. IsInjective([i \in 1..1 |-> x])
        BY DEF IsInjective
      <3>3. QED
        BY <3>1, <3>2
    <2>3. f \in [1..1 -> {x}]
      BY <1>1, <2>1, <2>2, Zenon
    <2> HIDE DEF f
    <2>4. f = <<x>>
      BY <2>3
    <2>5. Only(S) = f
      BY <2>1, Zenon DEF Only, SetToSeq, f
    <2>6. QED
      BY <2>1, <2>4, <2>5
  <1>2. Cardinality(S) = 1 => \E x \in S : S = {x}
    BY FS_Singleton
  <1>3. Cardinality(S) # 1 => Only(S) = <<>>
    BY DEF Only
  <1>4. QED
    BY <1>1, <1>2, <1>3, Zenon

LEMMA RangeIsFinite ==
  ASSUME NEW S, NEW s \in Seq(S)
  PROVE  IsFiniteSet(Range(s))
  <1>1. Len(s) \in Nat /\ DOMAIN s = 1..Len(s)
    OBVIOUS
  <1>2. IsFiniteSet(DOMAIN s)
    BY <1>1, FS_Interval
  <1>3. s \in Surjection(DOMAIN s, Range(s))
    <2>1. s \in [DOMAIN s -> Range(s)]
      BY DEF Range
    <2>2. \A y \in Range(s) : \E i \in DOMAIN s : s[i] = y
      BY DEF Range
    <2>3. QED
      BY <2>1, <2>2 DEF Surjection
  <1>4. QED
    BY <1>2, <1>3, FS_Surjection

LEMMA RefIsEntity ==
  ASSUME NEW role \in EntityRoles, NEW record \in Registry,
         role \in {"balance", "article"} => record.type = role
  PROVE  /\ Ref(role, record) \in Entities
         /\ Ref(role, record).role = role /\ Ref(role, record).name = record.name
         /\ Ref(role, record).id = record.id /\ Ref(role, record).type = record.type
  <1> DEFINE e == [role |-> role, record |-> record]
  <1>1. e \in [role : EntityRoles, record : Registry]
        /\ (e.role \in {"balance", "article"} => e.record.type = e.role)
        /\ Ref(role, record) = Ref(e.role, e.record)
    OBVIOUS
  <1> HIDE DEF e
  <1>2. Ref(role, record) \in Entities
    BY <1>1 DEF Entities
  <1>3. QED
    BY <1>2 DEF Ref

LEMMA EntityHasRecord ==
  ASSUME NEW e \in Entities
  PROVE  /\ e.role \in EntityRoles
         /\ \E record \in Registry :
              /\ e = Ref(e.role, record)
              /\ e.id = record.id /\ e.name = record.name /\ e.type = record.type
              /\ e.role \in {"balance", "article"} => record.type = e.role
  <1>1. PICK x \in [role : EntityRoles, record : Registry] :
          /\ x.role \in {"balance", "article"} => x.record.type = x.role
          /\ e = Ref(x.role, x.record)
    BY DEF Entities
  <1>2. x.role \in EntityRoles /\ x.record \in Registry
    OBVIOUS
  <1>3. e.role = x.role /\ e.id = x.record.id /\ e.name = x.record.name /\ e.type = x.record.type
    BY <1>1 DEF Ref
  <1>4. QED
    BY <1>1, <1>2, <1>3

\* The two lists of a flow: entities of different roles.
LEMMA ListOfTwo ==
  ASSUME NEW S, NEW a \in S, NEW b \in S
  PROVE  /\ <<a, b>> \in Seq(S) /\ Len(<<a, b>>) = 2 /\ Range(<<a, b>>) = {a, b}
         /\ <<a, b>> # <<>>
         /\ a.role # b.role => RolesDiffer(<<a, b>>)
  BY DEF Range, RolesDiffer

LEMMA ListOfThree ==
  ASSUME NEW S, NEW a \in S, NEW b \in S, NEW c \in S
  PROVE  /\ <<a, b, c>> \in Seq(S)
         /\ a.role # b.role /\ a.role # c.role /\ b.role # c.role =>
              RolesDiffer(<<a, b, c>>)
  BY DEF RolesDiffer

\* A mention has candidates of its own name, of the type its role asks for.
LEMMA CandidateRecords ==
  ASSUME NEW m, IsMention(m), NEW balance, NEW r \in Candidates(m, balance)
  PROVE  /\ r \in Registry /\ r.name = m.text
         /\ m.role \in {"balance", "article"} => r.type = m.role
  BY DEF Candidates, Named, ArticleCandidates, PlaceArticle, IsMention, EntityRoles

LEMMA CandidatesAreFinite ==
  ASSUME NEW m, NEW balance
  PROVE  IsFiniteSet(Candidates(m, balance))
  <1>1. Candidates(m, balance) \subseteq Registry
    BY DEF Candidates, Named, ArticleCandidates, PlaceArticle
  <1>2. QED
    BY <1>1, RegistryIsFinite, FS_Subset

LEMMA ElementsOfBoth ==
  ASSUME NEW S, NEW s \in Seq(S), NEW t \in Seq(S)
  PROVE  /\ s \o t \in Seq(S)
         /\ \A y : y \in Range(s \o t) <=> y \in Range(s) \/ y \in Range(t)
         /\ s \o t = <<>> <=> s = <<>> /\ t = <<>>
  <1> DEFINE u == s \o t
  <1>1. /\ u \in Seq(S) /\ Len(u) = Len(s) + Len(t)
        /\ Len(s) \in Nat /\ Len(t) \in Nat
        /\ \A k \in 1..Len(s) + Len(t) :
             u[k] = IF k <= Len(s) THEN s[k] ELSE t[k - Len(s)]
    BY ConcatProperties
  <1> HIDE DEF u
  <1>2. \A y \in Range(u) : y \in Range(s) \/ y \in Range(t)
    <2> SUFFICES ASSUME NEW k \in 1..Len(u)
                 PROVE  u[k] \in Range(s) \/ u[k] \in Range(t)
      BY <1>1, ElementsOfList
    <2>1. \/ k \in 1..Len(s) /\ u[k] = s[k]
          \/ k - Len(s) \in 1..Len(t) /\ u[k] = t[k - Len(s)]
      BY <1>1
    <2>2. CASE k \in 1..Len(s) /\ u[k] = s[k]
      BY <2>2, ElementsOfList
    <2>3. CASE k - Len(s) \in 1..Len(t) /\ u[k] = t[k - Len(s)]
      <3> DEFINE j == k - Len(s)
      <3>1. j \in 1..Len(t) /\ u[k] = t[j]
        BY <2>3
      <3> HIDE DEF j
      <3>2. QED
        BY <3>1, ElementsOfList
    <2>4. QED
      BY <2>1, <2>2, <2>3
  <1>3. \A y \in Range(s) : y \in Range(u)
    <2> SUFFICES ASSUME NEW k \in 1..Len(s)
                 PROVE  s[k] \in Range(u)
      BY ElementsOfList
    <2>1. k \in 1..Len(u) /\ u[k] = s[k]
      BY <1>1
    <2>2. QED
      BY <1>1, <2>1, ElementsOfList
  <1>4. \A y \in Range(t) : y \in Range(u)
    <2> SUFFICES ASSUME NEW k \in 1..Len(t)
                 PROVE  t[k] \in Range(u)
      BY ElementsOfList
    <2>1. Len(s) + k \in 1..Len(u) /\ u[Len(s) + k] = t[k]
      BY <1>1
    <2>2. QED
      BY <1>1, <2>1, ElementsOfList
  <1>5. u = <<>> <=> s = <<>> /\ t = <<>>
    <2>1. u = <<>> <=> Len(u) = 0
      BY <1>1, ElementsOfList
    <2>2. (s = <<>> <=> Len(s) = 0) /\ (t = <<>> <=> Len(t) = 0)
      BY ElementsOfList
    <2>3. QED
      BY <1>1, <2>1, <2>2
  <1>6. QED
    BY <1>1, <1>2, <1>3, <1>4, <1>5 DEF u

LEMMA BalancesFirstElements ==
  ASSUME NEW S, NEW s \in Seq(S), \A m \in Range(s) : m.role \in EntityRoles
  PROVE  BalancesFirst(s) \in Seq(S) /\ Range(BalancesFirst(s)) = Range(s)
  <1> DEFINE a == OfRoles(s, {"balance"})
             b == OfRoles(s, EntityRoles \ {"balance"})
  <1>1. a \in Seq(S) /\ Range(a) = {x \in Range(s) : x.role \in {"balance"}}
    BY ElementsOfRoles
  <1>2. b \in Seq(S) /\ Range(b) = {x \in Range(s) : x.role \in EntityRoles \ {"balance"}}
    BY ElementsOfRoles
  <1>3. BalancesFirst(s) = a \o b
    BY DEF BalancesFirst
  <1> HIDE DEF a, b
  <1>4. a \o b \in Seq(S) /\ \A y : y \in Range(a \o b) <=> y \in Range(a) \/ y \in Range(b)
    BY <1>1, <1>2, ElementsOfBoth
  <1>5. \A y : y \in Range(a \o b) <=> y \in Range(s)
    BY <1>1, <1>2, <1>4
  <1>6. QED
    BY <1>3, <1>4, <1>5

\* The balance and the article "from A to B" is read on.
LEMMA ViewpointEntities ==
  ASSUME NEW S, NEW mentions \in Seq(S), NEW metric, Viewpoint(mentions, metric) # <<>>
  PROVE  /\ Viewpoint(mentions, metric) \in Seq(Entities)
         /\ \A e \in Range(Viewpoint(mentions, metric)) :
              e.role = "article" \/ \E m \in Range(mentions) : m.text = e.name
         /\ RolesDiffer(Viewpoint(mentions, metric))
         /\ mentions # <<>>
  <1> DEFINE At(roles) == SelectLastInSeq(mentions, LAMBDA m : m.role \in roles)
             held == At({HeldEnd(metric)})
             named == At({"source", "destination"} \ {HeldEnd(metric)})
             balances == Named("balance", mentions[held].text)
             articles == UNION {FlowArticles(b.id, mentions[named].text, metric) : b \in balances}
             I == {i \in 1..Len(mentions) : mentions[i].role \in {HeldEnd(metric)}}
  <1>1. held = IF I # {} THEN Max(I) ELSE 0
    BY Zenon DEF SelectLastInSeq
  <1>2. held # 0 => mentions[held] \in Range(mentions)
    <2>1. I \in SUBSET (1..Len(mentions)) /\ Len(mentions) \in Nat
      OBVIOUS
    <2> HIDE DEF held, I
    <2>2. I # {} => Max(I) \in I
      BY <2>1, MaxIsGreatest
    <2>3. held # 0 => held \in 1..Len(mentions)
      BY <1>1, <2>1, <2>2
    <2>4. QED
      BY <2>3, ElementsOfList
  <1>3. /\ held # 0 /\ Cardinality(articles) = 1
        /\ Viewpoint(mentions, metric)
             = <<Ref("balance", Only(balances)[1]), Ref("article", Only(articles)[1])>>
    BY Zenon DEF Viewpoint
  <1> DEFINE text == mentions[held].text
             place == mentions[named].text
  <1>4. balances = Named("balance", text)
        /\ articles = UNION {FlowArticles(b.id, place, metric) : b \in balances}
    OBVIOUS
  <1>5. held # 0 => \E m \in Range(mentions) : m.text = text
    BY <1>2
  <1> HIDE DEF held, named, balances, articles, text, place, At, I
  <1>6. \A b \in balances : b \in Registry /\ b.type = "balance" /\ b.name = text
    BY <1>4 DEF Named
  <1>7. \A a \in articles : a \in Registry /\ a.type = "article" /\ \E b \in balances : TRUE
    BY <1>4 DEF FlowArticles, ArticlesOf
  <1>8. IsFiniteSet(articles) /\ IsFiniteSet(balances)
    <2>1. articles \subseteq Registry /\ balances \subseteq Registry
      BY <1>6, <1>7
    <2>2. QED
      BY <2>1, RegistryIsFinite, FS_Subset
  <1>9. PICK a \in articles : articles = {a} /\ Only(articles) = <<a>>
    BY <1>3, <1>8, OnlyElement
  <1>10. PICK b \in balances : balances = {b}
    <2>1. PICK b \in balances : TRUE
      BY <1>7, <1>9
    <2>2. \A c \in balances : c = b
      BY <1>6, <2>1, RegistryNames
    <2>3. QED
      BY <2>1, <2>2
  <1>11. Only(balances) = <<b>>
    BY <1>8, <1>10, OnlyElement
  <1> DEFINE x == Ref("balance", b)
             y == Ref("article", a)
  <1>12. Viewpoint(mentions, metric) = <<x, y>>
    BY <1>3, <1>9, <1>11
  <1>13. /\ x \in Entities /\ x.name = text
         /\ y \in Entities /\ y.role = "article" /\ x.role = "balance"
    <2>1. {"balance", "article"} \subseteq EntityRoles
      BY DEF EntityRoles
    <2>2. b \in Registry /\ b.type = "balance" /\ b.name = text /\ a \in Registry /\ a.type = "article"
      BY <1>6, <1>7
    <2>3. QED
      BY <2>1, <2>2, RefIsEntity
  <1> HIDE DEF x, y
  <1>14. PICK m \in Range(mentions) : m.text = text
    BY <1>3, <1>5
  <1>15. mentions # <<>>
    BY <1>14, ElementsOfList
  <1>16. QED
    BY <1>12, <1>13, <1>14, <1>15, ListOfTwo

LEMMA RolesDifferInBoth ==
  ASSUME NEW S, NEW s \in Seq(S), NEW t \in Seq(S), RolesDiffer(s), RolesDiffer(t),
         \A x \in Range(s), y \in Range(t) : x.role # y.role
  PROVE  RolesDiffer(s \o t)
  <1> DEFINE u == s \o t
  <1>1. /\ u \in Seq(S) /\ Len(u) = Len(s) + Len(t)
        /\ Len(s) \in Nat /\ Len(t) \in Nat
        /\ \A k \in 1..Len(s) + Len(t) :
             u[k] = IF k <= Len(s) THEN s[k] ELSE t[k - Len(s)]
    BY ConcatProperties
  <1>2. (\A k \in 1..Len(s) : s[k] \in Range(s)) /\ (\A k \in 1..Len(t) : t[k] \in Range(t))
    BY ElementsOfList
  <1>3. \A j \in 1..Len(s), k \in 1..Len(t) : s[j].role # t[k].role
    BY <1>2
  <1> HIDE DEF u
  <1> SUFFICES ASSUME NEW j \in 1..Len(u), NEW k \in 1..Len(u), u[j].role = u[k].role, j < k
               PROVE  FALSE
    BY <1>1 DEF RolesDiffer, u
  <1>4. CASE k <= Len(s)
    <2>1. j \in 1..Len(s) /\ k \in 1..Len(s) /\ u[j] = s[j] /\ u[k] = s[k]
      BY <1>1, <1>4
    <2>2. QED
      BY <2>1 DEF RolesDiffer
  <1>5. CASE j <= Len(s) /\ ~(k <= Len(s))
    <2> DEFINE l == k - Len(s)
    <2>1. j \in 1..Len(s) /\ l \in 1..Len(t) /\ u[j] = s[j] /\ u[k] = t[l]
      BY <1>1, <1>5
    <2> HIDE DEF l
    <2>2. QED
      BY <1>3, <2>1
  <1>6. CASE ~(j <= Len(s)) /\ ~(k <= Len(s))
    <2> DEFINE l == k - Len(s)
               i == j - Len(s)
    <2>1. i \in 1..Len(t) /\ l \in 1..Len(t) /\ u[j] = t[i] /\ u[k] = t[l] /\ i # l
      BY <1>1, <1>6
    <2> HIDE DEF l, i
    <2>2. QED
      BY <2>1 DEF RolesDiffer
  <1>7. QED
    BY <1>1, <1>4, <1>5, <1>6

LEMMA BalancesFirstRoles ==
  ASSUME NEW S, NEW s \in Seq(S), RolesDiffer(s)
  PROVE  RolesDiffer(BalancesFirst(s))
  <1> DEFINE a == OfRoles(s, {"balance"})
             b == OfRoles(s, EntityRoles \ {"balance"})
  <1>1. a \in Seq(S) /\ Range(a) = {x \in Range(s) : x.role \in {"balance"}} /\ RolesDiffer(a)
    BY ElementsOfRoles
  <1>2. /\ b \in Seq(S) /\ Range(b) = {x \in Range(s) : x.role \in EntityRoles \ {"balance"}}
        /\ RolesDiffer(b)
    BY ElementsOfRoles
  <1>3. BalancesFirst(s) = a \o b
    BY DEF BalancesFirst
  <1> HIDE DEF a, b
  <1>4. \A x \in Range(a), y \in Range(b) : x.role # y.role
    BY <1>1, <1>2
  <1>5. QED
    BY <1>1, <1>2, <1>3, <1>4, RolesDifferInBoth

\* What mentions are bound to: canonical entities, each of the name and in the
\* role of a mention, or the article a direction is read at.
LEMMA BindOperandEntities ==
  ASSUME NEW mentions, AreMentions(mentions), NEW inherited, NEW metric,
         Bindable(mentions, inherited, metric),
         NEW t, t = BindOperand(mentions, inherited, metric)
  PROVE  /\ t \in Seq(Entities)
         /\ mentions = <<>> => t = <<>>
         /\ mentions # <<>> => t # <<>>
         /\ \A e \in Range(t) : e.role = "article" \/ \E m \in Range(mentions) : m.text = e.name
         /\ RolesDiffer(mentions) => RolesDiffer(t)
  <1> DEFINE v == Viewpoint(mentions, metric)
             balance == Namespace(mentions, inherited)
             o == BalancesFirst(mentions)
             r(i) == CHOOSE x \in Candidates(o[i], balance) : TRUE
  <1>1. mentions \in Seq(Range(mentions)) /\ \A m \in Range(mentions) : IsMention(m)
    BY DEF AreMentions, IsList
  <1>2. \A m \in Range(mentions) : m.role \in EntityRoles
    BY <1>1 DEF IsMention
  <1>3. CASE v # <<>>
    <2>1. t = v
      BY <1>3, Zenon DEF BindOperand
    <2>2. /\ v \in Seq(Entities)
          /\ \A e \in Range(v) : e.role = "article" \/ \E m \in Range(mentions) : m.text = e.name
          /\ RolesDiffer(v)
      BY <1>1, <1>3, ViewpointEntities
    <2>3. mentions # <<>>
      BY <1>1, <1>3, ViewpointEntities
    <2>4. QED
      BY <1>3, <2>1, <2>2, <2>3
  <1>4. CASE v = <<>>
    <2>1. t = [i \in 1..Len(o) |-> Ref(o[i].role, r(i))]
      BY <1>4, Zenon DEF BindOperand
    <2>2. \A m \in Range(mentions) : Cardinality(Candidates(m, balance)) = 1
      BY <1>4, Zenon DEF Bindable
    <2>3. /\ o \in Seq(Range(mentions)) /\ Range(o) = Range(mentions)
          /\ RolesDiffer(mentions) => RolesDiffer(o)
      BY <1>1, <1>2, BalancesFirstElements, BalancesFirstRoles
    <2> HIDE DEF v, o, balance
    <2>4. ASSUME NEW i \in 1..Len(o)
          PROVE  /\ o[i] \in Range(mentions)
                 /\ Ref(o[i].role, r(i)) \in Entities
                 /\ Ref(o[i].role, r(i)).role = o[i].role
                 /\ Ref(o[i].role, r(i)).name = o[i].text
      <3> DEFINE m == o[i]
                 x == r(i)
      <3>1. m \in Range(mentions) /\ IsMention(m) /\ Cardinality(Candidates(m, balance)) = 1
        BY <1>1, <2>2, <2>3, ElementsOfList
      <3>2. x = CHOOSE y \in Candidates(m, balance) : TRUE
        OBVIOUS
      <3> HIDE DEF m, x
      <3>3. \E y : y \in Candidates(m, balance)
        BY <3>1, CandidatesAreFinite, OnlyElement
      <3>4. x \in Candidates(m, balance)
        BY <3>2, <3>3, Zenon
      <3>5. /\ x \in Registry /\ x.name = m.text
            /\ m.role \in {"balance", "article"} => x.type = m.role
        BY <3>1, <3>4, CandidateRecords
      <3>6. Ref(m.role, x) \in Entities /\ Ref(m.role, x).role = m.role
            /\ Ref(m.role, x).name = x.name
        BY <1>2, <3>1, <3>5, RefIsEntity
      <3>7. m \in Range(mentions) /\ Ref(m.role, x) \in Entities /\ Ref(m.role, x).role = m.role
            /\ Ref(m.role, x).name = m.text
        BY <3>1, <3>5, <3>6
      <3>8. QED
        BY <3>7 DEF m, x
    <2> HIDE DEF r
    <2>5. Len(o) \in Nat
      BY <2>3
    <2>6. t \in Seq(Entities) /\ Len(t) = Len(o)
          /\ \A i \in 1..Len(o) : t[i] = Ref(o[i].role, r(i))
      BY <2>1, <2>4, <2>5
    <2>7. \A e \in Range(t) : \E m \in Range(mentions) : m.text = e.name
      BY <2>4, <2>6, ElementsOfList
    <2>8. RolesDiffer(mentions) => RolesDiffer(t)
      BY <2>3, <2>4, <2>6 DEF RolesDiffer
    <2>9. mentions = <<>> <=> t = <<>>
      <3>1. (mentions = <<>> <=> Range(mentions) = {})
        BY <1>1, ElementsOfList
      <3>2. o = <<>> <=> Range(o) = {}
        BY <2>3, ElementsOfList
      <3>3. (o = <<>> <=> Len(o) = 0)
        BY <2>3, ElementsOfList
      <3>4. (t = <<>> <=> Len(t) = 0)
        BY <2>6, ElementsOfList
      <3>5. QED
        BY <2>3, <2>6, <3>1, <3>2, <3>3, <3>4
    <2>10. QED
      BY <2>6, <2>7, <2>8, <2>9
  <1>5. QED
    BY <1>3, <1>4

\* The entities of an operand that are in a role.
LEMMA RefsOfRole ==
  ASSUME NEW o, o.entities \in Seq(Entities), NEW role, NEW t, t = RefOf(o, role)
  PROVE  /\ t \in Seq(Entities)
         /\ t = <<>> <=> role \notin Roles(o)
         /\ t # <<>> => t[1] \in Range(o.entities) /\ t[1] \in Entities /\ t[1].role = role
         /\ RolesDiffer(o.entities) =>
              \A e \in Range(o.entities) : e.role = role => t # <<>> /\ t[1] = e
  <1> DEFINE s == o.entities
  <1>1. t = OfRoles(s, {role})
    BY DEF RefOf
  <1>2. Roles(o) = {e.role : e \in Range(s)}
    BY DEF Roles
  <1>3. s \in Seq(Entities) /\ (RolesDiffer(o.entities) <=> RolesDiffer(s))
    OBVIOUS
  <1> SUFFICES /\ t \in Seq(Entities)
               /\ t = <<>> <=> role \notin Roles(o)
               /\ t # <<>> => t[1] \in Range(s) /\ t[1] \in Entities /\ t[1].role = role
               /\ RolesDiffer(s) =>
                    \A e \in Range(s) : e.role = role => t # <<>> /\ t[1] = e
    OBVIOUS
  <1> HIDE DEF s
  <1>4. /\ t \in Seq(Entities)
        /\ Range(t) = {x \in Range(s) : x.role \in {role}}
        /\ \A k \in 1..Len(t) : t[k] \in Range(s) /\ t[k].role \in {role}
    BY <1>1, <1>3, ElementsOfRoles
  <1>5. (t = <<>> <=> Len(t) = 0) /\ (t = <<>> <=> Range(t) = {}) /\ Len(t) \in Nat
    BY <1>4, ElementsOfList
  <1>6. t = <<>> <=> role \notin Roles(o)
    BY <1>2, <1>4, <1>5
  <1>7. t # <<>> => t[1] \in Range(s) /\ t[1] \in Entities /\ t[1].role = role
    <2>1. t # <<>> => 1 \in 1..Len(t)
      BY <1>5
    <2>2. QED
      BY <1>4, <2>1
  <1>8. ASSUME RolesDiffer(s), NEW e \in Range(s), e.role = role
        PROVE  t # <<>> /\ t[1] = e
    <2>1. t # <<>>
      BY <1>4, <1>5, <1>8
    <2>2. PICK j \in 1..Len(s) : s[j] = e
      BY <1>3, ElementsOfList
    <2>3. PICK k \in 1..Len(s) : s[k] = t[1]
      BY <1>3, <1>7, <2>1, ElementsOfList
    <2>4. j = k
      BY <1>7, <1>8, <2>1, <2>2, <2>3 DEF RolesDiffer
    <2>5. QED
      BY <2>1, <2>2, <2>3, <2>4
  <1>9. QED
    BY <1>4, <1>6, <1>7, <1>8

\* One entity more, in a role no other has.
LEMMA OneEntityMore ==
  ASSUME NEW s \in Seq(Entities), NEW e \in Entities, \A x \in Range(s) : x.role # e.role,
         NEW t, t = Append(s, e)
  PROVE  /\ t \in Seq(Entities)
         /\ RolesDiffer(s) => RolesDiffer(t)
         /\ \A y : y \in Range(t) <=> y \in Range(s) \/ y = e
  <1>1. t \in Seq(Entities) /\ Len(t) = Len(s) + 1 /\ t[Len(s) + 1] = e
        /\ Len(s) \in Nat /\ \A k \in 1..Len(s) : t[k] = s[k]
    BY AppendProperties
  <1>2. \A k \in 1..Len(s) : s[k] \in Range(s)
    BY ElementsOfList
  <1>3. \A k \in 1..Len(s) : s[k].role # e.role
    BY <1>2
  <1>4. RolesDiffer(s) => RolesDiffer(t)
    BY <1>1, <1>3 DEF RolesDiffer
  <1>0. /\ \A k \in 1..Len(t) : t[k] \in Range(t)
        /\ \A y \in Range(t) : \E k \in 1..Len(t) : t[k] = y
    BY <1>1, ElementsOfList
  <1>5. \A y \in Range(t) : y \in Range(s) \/ y = e
    <2> SUFFICES ASSUME NEW k \in 1..Len(t)
                 PROVE  t[k] \in Range(s) \/ t[k] = e
      BY <1>0
    <2>1. k \in 1..Len(s) \/ k = Len(s) + 1
      BY <1>1
    <2>2. QED
      BY <1>1, <1>2, <2>1
  <1>6. \A y \in Range(s) : y \in Range(t)
    <2> SUFFICES ASSUME NEW k \in 1..Len(s)
                 PROVE  s[k] \in Range(t)
      BY ElementsOfList
    <2>1. k \in 1..Len(t) /\ t[k] = s[k]
      BY <1>1
    <2>2. QED
      BY <1>0, <1>1, <2>1
  <1>7. e \in Range(t)
    <2>1. Len(t) \in 1..Len(t) /\ t[Len(t)] = e
      BY <1>1
    <2>2. QED
      BY <1>0, <1>1, <2>1
  <1>8. QED
    BY <1>1, <1>4, <1>5, <1>6, <1>7

\* _bind_metric_article adds an article to a balance that has none, or nothing.
LEMMA MetricArticleAdded ==
  ASSUME NEW o, IsOperand(o), o.entities \in Seq(Entities), NEW t, t = WithMetricArticle(o)
  PROVE  /\ IsOperand(t)
         /\ t.id = o.id /\ t.metric = o.metric /\ t.agg = o.agg /\ t.periods = o.periods
         /\ t.entities \in Seq(Entities)
         /\ RolesDiffer(o.entities) => RolesDiffer(t.entities)
         /\ Range(o.entities) \subseteq Range(t.entities)
         /\ \A e \in Range(t.entities) \ Range(o.entities) : e.role = "article"
         /\ o.entities = <<>> => t = o
         /\ "article" \in Roles(o) => t = o
  <1> DEFINE balance == RefOf(o, "balance")
             article == RefOf(o, "article")
             names == MetricArticles(o.metric)
             Unique(k) == Cardinality(CuratedArticle(balance[1].id, names[k])) = 1
             n == SelectInSeq(names, LAMBDA name :
                    Cardinality(CuratedArticle(balance[1].id, name)) = 1)
             I == {k \in 1..Len(names) : Unique(k)}
             e == Ref("article", CHOOSE a \in CuratedArticle(balance[1].id, names[n]) : TRUE)
  <1>1. /\ balance = <<>> <=> "balance" \notin Roles(o)
        /\ article = <<>> <=> "article" \notin Roles(o)
    BY RefsOfRole
  <1>2. o.entities = <<>> => balance = <<>>
    <2>1. o.entities = <<>> => Range(o.entities) = {}
      BY ElementsOfList
    <2>2. QED
      BY <1>1, <2>1 DEF Roles
  <1>3. IF balance = <<>> \/ article # <<>> \/ names = <<>> \/ n = 0 THEN t = o
        ELSE t = [o EXCEPT !.entities = Append(o.entities, e)]
    BY Zenon DEF WithMetricArticle
  <1>4. CASE balance = <<>> \/ article # <<>> \/ names = <<>> \/ n = 0
    BY <1>3, <1>4
  <1>5. CASE balance # <<>> /\ article = <<>> /\ n # 0
    <2>1. n = IF I # {} THEN Min(I) ELSE 0
      BY Zenon DEF SelectInSeq
    <2>2. Len(names) \in Nat
      BY DEF MetricArticles
    <2>3. I \in SUBSET (1..Len(names)) /\ \A k \in I : Unique(k)
      OBVIOUS
    <2> HIDE DEF I, n
    <2>4. Unique(n)
      BY <1>5, <2>1, <2>2, <2>3, FirstPlace
    <2> DEFINE C == CuratedArticle(balance[1].id, names[n])
               a == CHOOSE x \in C : TRUE
    <2>5. C \subseteq Registry /\ \A x \in C : x.type = "article"
      BY DEF CuratedArticle, ArticlesOf
    <2>6. Cardinality(C) = 1 /\ e = Ref("article", a)
      BY <2>4
    <2>7. a = CHOOSE x \in C : TRUE
      OBVIOUS
    <2> HIDE DEF C, a, e
    <2>8. IsFiniteSet(C)
      BY <2>5, RegistryIsFinite, FS_Subset
    <2>9. \E x : x \in C
      BY <2>6, <2>8, OnlyElement
    <2>10. a \in C
      BY <2>7, <2>9, Zenon
    <2>11. e \in Entities /\ e.role = "article"
      <3>1. "article" \in EntityRoles
        BY DEF EntityRoles
      <3>2. QED
        BY <2>5, <2>6, <2>10, <3>1, RefIsEntity
    <2>12. CASE names = <<>>
      BY <1>3, <2>12
    <2>13. CASE names # <<>>
      <3> DEFINE s == o.entities
                 u == Append(s, e)
      <3>1. t = [o EXCEPT !.entities = u]
        BY <1>3, <1>5, <2>13
      <3>2. /\ t.entities = u
            /\ DOMAIN t = DOMAIN o
            /\ t.id = o.id /\ t.metric = o.metric /\ t.agg = o.agg /\ t.periods = o.periods
        BY <3>1 DEF IsOperand
      <3>3. IsOperand(t)
        BY <3>2 DEF IsOperand
      <3>4. \A x \in Range(s) : x.role # e.role
        BY <1>1, <1>5, <2>11 DEF Roles
      <3>5. s \in Seq(Entities) /\ s = o.entities
        OBVIOUS
      <3> HIDE DEF s, u
      <3>6. /\ u \in Seq(Entities)
            /\ RolesDiffer(s) => RolesDiffer(u)
            /\ \A y : y \in Range(u) <=> y \in Range(s) \/ y = e
        BY <2>11, <3>4, <3>5, OneEntityMore DEF u
      <3>7. QED
        BY <1>1, <1>2, <1>5, <2>11, <3>2, <3>3, <3>5, <3>6
    <2>14. QED
      BY <2>12, <2>13
  <1>6. QED
    BY <1>4, <1>5

\* An operand that differs from another in its entities alone.
OnlyEntitiesDiffer(t, o) ==
  /\ IsOperand(t)
  /\ t.id = o.id /\ t.metric = o.metric /\ t.agg = o.agg /\ t.periods = o.periods

LEMMA EntitiesReplaced ==
  ASSUME NEW o, IsOperand(o), NEW s, NEW t, t = [o EXCEPT !.entities = s]
  PROVE  OnlyEntitiesDiffer(t, o) /\ t.entities = s
  <1>1. /\ t.entities = s
        /\ DOMAIN t = DOMAIN o
        /\ t.id = o.id /\ t.metric = o.metric /\ t.agg = o.agg /\ t.periods = o.periods
    BY DEF IsOperand
  <1>2. QED
    BY <1>1 DEF IsOperand, OnlyEntitiesDiffer

\* An entity in the role of another that is not a balance or an article.
LEMMA RoleTaken ==
  ASSUME NEW e \in Entities, NEW role \in {"source", "destination"}
  PROVE  /\ [e EXCEPT !.role = role] \in Entities
         /\ [e EXCEPT !.role = role].role = role /\ [e EXCEPT !.role = role].name = e.name
  <1>1. PICK record \in Registry : e = Ref(e.role, record)
    BY EntityHasRecord
  <1>2. [e EXCEPT !.role = role] = Ref(role, record)
    BY <1>1 DEF Ref
  <1>3. role \in EntityRoles /\ ~(role \in {"balance", "article"})
    BY DEF EntityRoles
  <1>4. Ref(role, record) \in Entities /\ Ref(role, record).role = role
        /\ Ref(role, record).name = record.name
    BY <1>3, RefIsEntity
  <1>5. e.name = record.name
    <2>1. Ref(e.role, record).name = record.name
      BY DEF Ref
    <2>2. QED
      BY <1>1, <2>1
  <1>6. QED
    BY <1>2, <1>4, <1>5

\* _reverse_operand: the ends change places and no article is left.
LEMMA EndsSwapped ==
  ASSUME NEW o, IsOperand(o), o.entities \in Seq(Entities), NEW t, t = SwapEnds(o)
  PROVE  /\ OnlyEntitiesDiffer(t, o)
         /\ t.entities \in Seq(Entities)
         /\ RolesDiffer(o.entities) => RolesDiffer(t.entities)
         /\ "article" \notin Roles(t)
         /\ "source" \in Roles(o) => t.entities # <<>>
         /\ RolesDiffer(o.entities) /\ {"source", "destination"} \subseteq Roles(o) =>
              /\ RefOf(t, "source")[1].name = RefOf(o, "destination")[1].name
              /\ RefOf(t, "destination")[1].name = RefOf(o, "source")[1].name
  <1> DEFINE kept == OfRoles(o.entities, EntityRoles \ {"article"})
             both == RefOf(o, "source") # <<>> /\ RefOf(o, "destination") # <<>>
             Other(role) == RefOf(o, IF role = "source" THEN "destination" ELSE "source")[1]
             s == [i \in 1..Len(kept) |->
                     IF both /\ kept[i].role \in {"source", "destination"}
                     THEN [Other(kept[i].role) EXCEPT !.role = kept[i].role]
                     ELSE kept[i]]
  <1>1. t = [o EXCEPT !.entities = s]
    BY Zenon DEF SwapEnds
  <1>2. /\ kept \in Seq(Entities)
        /\ Range(kept) = {x \in Range(o.entities) : x.role \in EntityRoles \ {"article"}}
        /\ \A k \in 1..Len(kept) : kept[k] \in Range(o.entities)
                                    /\ kept[k].role \in EntityRoles \ {"article"}
        /\ RolesDiffer(o.entities) => RolesDiffer(kept)
    <2> DEFINE e == o.entities
               roles == EntityRoles \ {"article"}
               u == OfRoles(e, roles)
    <2>1. e \in Seq(Entities)
      OBVIOUS
    <2> HIDE DEF e, roles
    <2>2. /\ u \in Seq(Entities)
          /\ Range(u) = {x \in Range(e) : x.role \in roles}
          /\ \A k \in 1..Len(u) : u[k] \in Range(e) /\ u[k].role \in roles
          /\ RolesDiffer(e) => RolesDiffer(u)
      BY <2>1, ElementsOfRoles
    <2>3. QED
      BY <2>2 DEF e, roles
  <1>3. \A role \in {"source", "destination"} : RefOf(o, role) # <<>> =>
          RefOf(o, role)[1] \in Entities
    BY RefsOfRole
  <1>4. ASSUME NEW k \in 1..Len(kept)
        PROVE  /\ s[k] \in Entities /\ s[k].role = kept[k].role
               /\ both /\ kept[k].role = "source" =>
                    s[k].name = RefOf(o, "destination")[1].name
               /\ both /\ kept[k].role = "destination" =>
                    s[k].name = RefOf(o, "source")[1].name
    <2>0. kept[k] \in Entities
      BY <1>2
    <2>1. s[k] = IF both /\ kept[k].role \in {"source", "destination"}
                 THEN [Other(kept[k].role) EXCEPT !.role = kept[k].role]
                 ELSE kept[k]
      OBVIOUS
    <2> DEFINE a == Other("source")
               b == Other("destination")
    <2>2. a = RefOf(o, "destination")[1] /\ b = RefOf(o, "source")[1]
      OBVIOUS
    <2>3. both => a \in Entities /\ b \in Entities
      BY <1>3
    <2>4. CASE both /\ kept[k].role = "source"
      <3>1. s[k] = [a EXCEPT !.role = "source"]
        BY <2>1, <2>4
      <3>2. a \in Entities
        BY <2>3, <2>4
      <3> HIDE DEF s, kept, both, a, b, Other
      <3>3. /\ [a EXCEPT !.role = "source"] \in Entities
            /\ [a EXCEPT !.role = "source"].role = "source"
            /\ [a EXCEPT !.role = "source"].name = a.name
        BY <3>2, RoleTaken
      <3>4. QED
        BY <2>2, <2>4, <3>1, <3>3
    <2>5. CASE both /\ kept[k].role = "destination"
      <3>1. s[k] = [b EXCEPT !.role = "destination"]
        BY <2>1, <2>5
      <3>2. b \in Entities
        BY <2>3, <2>5
      <3> HIDE DEF s, kept, both, a, b, Other
      <3>3. /\ [b EXCEPT !.role = "destination"] \in Entities
            /\ [b EXCEPT !.role = "destination"].role = "destination"
            /\ [b EXCEPT !.role = "destination"].name = b.name
        BY <3>2, RoleTaken
      <3>4. QED
        BY <2>2, <2>5, <3>1, <3>3
    <2>6. CASE ~(both /\ kept[k].role \in {"source", "destination"})
      BY <2>0, <2>1, <2>6
    <2>7. QED
      BY <2>4, <2>5, <2>6
  <1>5. Len(kept) \in Nat
    BY <1>2
  <1>6. s \in Seq(Entities) /\ Len(s) = Len(kept)
    <2> DEFINE n == Len(kept)
    <2>1. s = [i \in 1..n |-> s[i]] /\ n \in Nat /\ \A i \in 1..n : s[i] \in Entities
      BY <1>4, <1>5
    <2> HIDE DEF n, s
    <2>2. s \in Seq(Entities) /\ Len(s) = n
      BY <2>1
    <2>3. QED
      BY <2>2 DEF n
  <1> HIDE DEF s, kept
  <1>7. OnlyEntitiesDiffer(t, o) /\ t.entities = s
    BY <1>1, EntitiesReplaced
  <1>8. RolesDiffer(o.entities) => RolesDiffer(s)
    BY <1>2, <1>4, <1>6 DEF RolesDiffer
  <1>9. "article" \notin Roles(t)
    <2>1. \A x \in Range(s) : \E k \in 1..Len(s) : s[k] = x
      BY <1>6, ElementsOfList
    <2>2. \A x \in Range(s) : x.role # "article"
      BY <1>2, <1>4, <1>6, <2>1
    <2>3. QED
      BY <1>7, <2>2 DEF Roles
  <1>10. ASSUME RolesDiffer(o.entities), {"source", "destination"} \subseteq Roles(o)
         PROVE  /\ RefOf(t, "source")[1].name = RefOf(o, "destination")[1].name
                /\ RefOf(t, "destination")[1].name = RefOf(o, "source")[1].name
    <2>1. both
      BY <1>10, RefsOfRole
    <2>2. ASSUME NEW role \in {"source", "destination"}
          PROVE  \E k \in 1..Len(kept) : kept[k].role = role /\ RefOf(t, role)[1] = s[k]
      <3>1. PICK x \in Range(o.entities) : x.role = role
        BY <1>10 DEF Roles
      <3>2. role \in EntityRoles \ {"article"}
        BY DEF EntityRoles
      <3>3. x \in Range(kept)
        BY <1>2, <3>1, <3>2
      <3>4. PICK k \in 1..Len(kept) : kept[k] = x
        BY <1>2, <3>3, ElementsOfList
      <3>5. s[k] \in Range(s)
        BY <1>6, ElementsOfList
      <3>6. s[k] \in Range(t.entities) /\ s[k].role = role
        BY <1>4, <1>7, <3>1, <3>4, <3>5
      <3> DEFINE y == s[k]
      <3>7. y \in Range(t.entities) /\ y.role = role
        BY <3>6
      <3> HIDE DEF y
      <3>8. t.entities \in Seq(Entities) /\ RolesDiffer(t.entities)
        BY <1>6, <1>7, <1>8, <1>10
      <3>9. RefOf(t, role)[1] = y
        BY <3>7, <3>8, RefsOfRole
      <3>10. QED
        BY <3>1, <3>4, <3>9 DEF y
    <2>3. PICK k \in 1..Len(kept) : kept[k].role = "source" /\ RefOf(t, "source")[1] = s[k]
      BY <2>2
    <2>4. PICK j \in 1..Len(kept) : kept[j].role = "destination" /\ RefOf(t, "destination")[1] = s[j]
      BY <2>2
    <2>5. QED
      BY <1>4, <2>1, <2>3, <2>4
  <1>11. "source" \in Roles(o) => t.entities # <<>>
    <2> SUFFICES ASSUME "source" \in Roles(o)
                 PROVE  s # <<>>
      BY <1>7
    <2>1. PICK x \in Range(o.entities) : x.role = "source"
      BY DEF Roles
    <2>2. x \in Range(kept)
      BY <1>2, <2>1 DEF EntityRoles
    <2>3. kept # <<>>
      BY <1>2, <2>2, ElementsOfList
    <2>4. Len(kept) # 0
      BY <1>2, <2>3, ElementsOfList
    <2>5. QED
      BY <1>6, <2>4, ElementsOfList
  <1>12. QED
    BY <1>6, <1>7, <1>8, <1>9, <1>10, <1>11

\* Two entities of an operand, in their roles.
LEMMA RefsOfTwo ==
  ASSUME NEW t, NEW x \in Entities, NEW y \in Entities, t.entities = <<x, y>>,
         x.role = "balance", y.role = "article"
  PROVE  /\ RolesDiffer(t.entities) /\ IsReadOnBalance(t)
         /\ RefOf(t, "balance")[1] = x /\ RefOf(t, "article")[1] = y
  <1>1. t.entities \in Seq(Entities) /\ RolesDiffer(t.entities)
        /\ x \in Range(t.entities) /\ y \in Range(t.entities)
    BY ListOfTwo
  <1>2. RefOf(t, "balance")[1] = x
    BY <1>1, RefsOfRole
  <1>3. RefOf(t, "article")[1] = y
    BY <1>1, RefsOfRole
  <1>4. RefOf(t, "balance") # <<>>
    BY <1>1, RefsOfRole
  <1>5. RefOf(t, "article") # <<>>
    BY <1>1, RefsOfRole
  <1>6. QED
    BY <1>1, <1>2, <1>3, <1>4, <1>5 DEF IsReadOnBalance

\* The way back is an article of the balance the old one leads to, named like
\* the balance it was read on.
LEMMA WayBackArticle ==
  ASSUME NEW o, o.entities \in Seq(Entities), IsReadOnBalance(o), NEW a \in WayBack(o)
  PROVE  /\ a \in Registry /\ a.type = "article" /\ a.section = "distribution"
         /\ a.name = RefOf(o, "balance")[1].name
         /\ \E b \in Registry : /\ b.type = "balance" /\ b.id = a.balance
                                /\ b.name = RefOf(o, "article")[1].name
                                /\ WithId("balance", a.balance) = {b}
  <1> DEFINE balance == RefOf(o, "balance")[1]
             article == RefOf(o, "article")[1]
             here == WithId("balance", balance.id)
             articles == WithId("article", article.id)
             there == UNION {Named("balance", x.name) : x \in articles}
  <1>1. balance \in Entities /\ balance.role = "balance"
        /\ article \in Entities /\ article.role = "article"
    BY RefsOfRole DEF IsReadOnBalance
  <1>0. a.section = "distribution"
    BY DEF WayBack
  <1>2. PICK h \in here, t \in there : a \in ArticleCandidates(h.name, t.id)
    BY DEF WayBack
  <1> HIDE DEF balance, article
  <1>3. PICK x \in articles : t \in Named("balance", x.name)
    OBVIOUS
  <1>4. h \in Registry /\ h.type = "balance" /\ h.id = balance.id
        /\ x \in Registry /\ x.type = "article" /\ x.id = article.id
        /\ t \in Registry /\ t.type = "balance" /\ t.name = x.name
    BY <1>3 DEF WithId, Named
  <1>5. a \in Registry /\ a.type = "article" /\ a.name = h.name /\ t.id \in {NoBalance, a.balance}
    BY <1>2 DEF ArticleCandidates, Named
  <1>6. t.id = a.balance
    BY <1>4, <1>5, RegistryNames
  <1>7. h.name = balance.name
    <2>1. PICK r \in Registry : r.id = balance.id /\ r.name = balance.name /\ r.type = "balance"
      BY <1>1, EntityHasRecord
    <2>2. r = h
      BY <1>4, <2>1, RegistryNames
    <2>3. QED
      BY <2>1, <2>2
  <1>8. x.name = article.name
    <2>1. PICK r \in Registry : r.id = article.id /\ r.name = article.name /\ r.type = "article"
      BY <1>1, EntityHasRecord
    <2>2. r = x
      BY <1>4, <2>1, RegistryNames
    <2>3. QED
      BY <2>1, <2>2
  <1>9. \A c \in WithId("balance", a.balance) : c = t
    BY <1>4, <1>6, RegistryNames DEF WithId
  <1>10. t \in WithId("balance", a.balance)
    BY <1>4, <1>6 DEF WithId
  <1>11. WithId("balance", a.balance) = {t}
    BY <1>9, <1>10
  <1>12. QED
    BY <1>0, <1>4, <1>5, <1>6, <1>7, <1>8, <1>11 DEF balance, article

\* An operand turned round, or the attempt at it: entities of different roles,
\* and the ends exchanged if the direction exists.
LEMMA DirectionReversed ==
  ASSUME NEW o, IsOperand(o), o.entities \in Seq(Entities), NEW t, t = Reversed(o)
  PROVE  /\ OnlyEntitiesDiffer(t, o)
         /\ t.entities \in Seq(Entities)
         /\ RolesDiffer(o.entities) => RolesDiffer(t.entities)
         /\ Reversible(o) => t.entities # <<>>
         /\ IsReadOnBalance(o) /\ Reversible(o) =>
              /\ RefOf(t, "balance")[1].name = RefOf(o, "article")[1].name
              /\ RefOf(t, "article")[1].name = RefOf(o, "balance")[1].name
              /\ IsReadOnBalance(t) /\ LeavesItsBalance(t)
         /\ ~IsReadOnBalance(o) /\ Reversible(o) /\ RolesDiffer(o.entities) =>
              /\ RefOf(t, "source")[1].name = RefOf(o, "destination")[1].name
              /\ RefOf(t, "destination")[1].name = RefOf(o, "source")[1].name
              /\ "article" \notin Roles(t)
  <1>1. CASE ~IsReadOnBalance(o)
    <2>1. t = SwapEnds(o)
      BY <1>1 DEF Reversed
    <2>2. Reversible(o) => {"source", "destination"} \subseteq Roles(o)
      BY <1>1 DEF Reversible
    <2>3. QED
      BY <1>1, <2>1, <2>2, EndsSwapped
  <1>2. CASE IsReadOnBalance(o) /\ ~Reversible(o)
    BY <1>2 DEF Reversed, OnlyEntitiesDiffer
  <1>3. CASE IsReadOnBalance(o) /\ Reversible(o)
    <2> DEFINE W == WayBack(o)
               a == CHOOSE x \in W : TRUE
               B == WithId("balance", a.balance)
               b == CHOOSE x \in B : TRUE
               s == <<Ref("balance", b), Ref("article", a)>>
    <2>1. t = [o EXCEPT !.entities = s]
      BY <1>3, Zenon DEF Reversed
    <2>2. Cardinality(W) = 1
      BY <1>3 DEF Reversible
    <2>3. IsFiniteSet(W)
      <3>1. W \subseteq Registry
        BY <1>3, WayBackArticle
      <3>2. QED
        BY <3>1, RegistryIsFinite, FS_Subset
    <2>4. a = CHOOSE x \in W : TRUE
      OBVIOUS
    <2>5. W = WayBack(o)
      OBVIOUS
    <2>6. t = [o EXCEPT !.entities = <<Ref("balance", b), Ref("article", a)>>]
      BY <2>1
    <2> HIDE DEF s, W
    <2>7. \E x : x \in W
      BY <2>2, <2>3, OnlyElement
    <2>8. a \in W
      BY <2>4, <2>7, Zenon
    <2> HIDE DEF a
    <2>9. PICK c \in Registry : /\ c.type = "balance" /\ c.id = a.balance
                                /\ c.name = RefOf(o, "article")[1].name
                                /\ B = {c}
      BY <1>3, <2>5, <2>8, WayBackArticle
    <2>10. b = c
      BY <2>9
    <2>11. /\ a \in Registry /\ a.type = "article" /\ a.section = "distribution"
           /\ a.name = RefOf(o, "balance")[1].name
      BY <1>3, <2>5, <2>8, WayBackArticle
    <2> DEFINE x == Ref("balance", c)
               y == Ref("article", a)
    <2>12. t = [o EXCEPT !.entities = <<x, y>>]
      BY <2>6, <2>10
    <2>13. /\ x \in Entities /\ x.role = "balance" /\ x.name = c.name
           /\ y \in Entities /\ y.role = "article" /\ y.name = a.name /\ y.id = a.id
      <3>1. {"balance", "article"} \subseteq EntityRoles
        BY DEF EntityRoles
      <3>2. QED
        BY <2>9, <2>11, <3>1, RefIsEntity
    <2> HIDE DEF x, y
    <2>14. OnlyEntitiesDiffer(t, o) /\ t.entities = <<x, y>>
      BY <2>12, EntitiesReplaced
    <2>15. /\ RolesDiffer(t.entities) /\ IsReadOnBalance(t)
           /\ RefOf(t, "balance")[1] = x /\ RefOf(t, "article")[1] = y
      BY <2>13, <2>14, RefsOfTwo
    <2>16. a \in WithId("article", y.id)
      BY <2>11, <2>13 DEF WithId
    <2>17. LeavesItsBalance(t)
      BY <2>11, <2>15, <2>16 DEF LeavesItsBalance
    <2>18. QED
      BY <1>3, <2>9, <2>11, <2>13, <2>14, <2>15, <2>17
  <1>4. QED
    BY <1>1, <1>2, <1>3

-----------------------------------------------------------------------------
(* The operand a spec is compiled to *)

\* An operand of a bound intent.
IsBoundOperand(o) == IsOperand(o) /\ o.entities \in Seq(Entities) /\ RolesDiffer(o.entities)

BoundFrames(frames) == IsList(frames) /\ \A f \in Range(frames) : IsBound(f.intent)

LEMMA ListOfAny ==
  ASSUME NEW S, NEW s \in Seq(S)
  PROVE  IsList(s)
  <1>1. \A k \in 1..Len(s) : s[k] \in Range(s)
    BY ElementsOfList
  <1>2. QED
    BY <1>1 DEF IsList

LEMMA BothLists ==
  ASSUME NEW s, IsList(s), NEW t, IsList(t)
  PROVE  IsList(s \o t) /\ Range(s \o t) = Range(s) \cup Range(t)
  <1> DEFINE S == Range(s) \cup Range(t)
  <1>1. s \in Seq(S) /\ t \in Seq(S)
    BY DEF IsList
  <1> HIDE DEF S
  <1>2. s \o t \in Seq(S) /\ \A y : y \in Range(s \o t) <=> y \in Range(s) \/ y \in Range(t)
    BY <1>1, ElementsOfBoth
  <1>3. QED
    BY <1>2, ListOfAny

LEMMA ListWithout ==
  ASSUME NEW s, IsList(s), NEW T
  PROVE  IsList(Without(s, T)) /\ Range(Without(s, T)) = Range(s) \ T
  <1>1. s \in Seq(Range(s))
    BY DEF IsList
  <1>2. Without(s, T) \in Seq(Range(s)) /\ Range(Without(s, T)) = Range(s) \ T
    BY <1>1, ElementsWithout
  <1>3. QED
    BY <1>2, ListOfAny

LEMMA FirstOfEachList ==
  ASSUME NEW s, IsList(s)
  PROVE  IsList(FirstOfEach(s)) /\ Range(FirstOfEach(s)) = Range(s)
  <1>1. s \in Seq(Range(s))
    BY DEF IsList
  <1>2. FirstOfEach(s) \in Seq(Range(s)) /\ Range(FirstOfEach(s)) = Range(s)
    BY <1>1, FirstOfEachElements
  <1>3. QED
    BY <1>2, ListOfAny

\* The periods of handles and of values are a list of both.
HandlePeriods(h, frames) == [i \in 1..Len(h) |-> PeriodOf(h[i], frames)]

LEMMA SameElements ==
  ASSUME NEW A, NEW B, \A y \in A : y \in B, \A y \in B : y \in A
  PROVE  A = B
  OBVIOUS

LEMMA ReferencedPeriods ==
  ASSUME NEW h, IsList(h), NEW v, IsList(v), NEW frames
  PROVE  /\ IsList(Referenced(h, v, frames))
         /\ Range(Referenced(h, v, frames))
              = {PeriodOf(x, frames) : x \in Range(h)} \cup Range(v)
  <1> DEFINE k == HandlePeriods(h, frames)
             S == {PeriodOf(x, frames) : x \in Range(h)}
  <1>1. h \in Seq(Range(h)) /\ Len(h) \in Nat
    BY DEF IsList
  <1>2. \A i \in 1..Len(h) : k[i] = PeriodOf(h[i], frames) /\ k[i] \in S
    BY <1>1, ElementsOfList DEF HandlePeriods
  <1>3. k \in Seq(S) /\ Len(k) = Len(h)
    BY <1>1, <1>2 DEF HandlePeriods
  <1>4. \A y \in S : \E i \in 1..Len(h) : k[i] = y
    <2> SUFFICES ASSUME NEW x \in Range(h)
                 PROVE  \E i \in 1..Len(h) : k[i] = PeriodOf(x, frames)
      OBVIOUS
    <2>1. PICK i \in 1..Len(h) : h[i] = x
      BY <1>1, ElementsOfList
    <2>2. QED
      BY <1>2, <2>1
  <1>5. Referenced(h, v, frames) = FirstOfEach(k \o v)
    BY DEF Referenced, HandlePeriods
  <1> HIDE DEF k, S
  <1>a. IsList(k)
    BY <1>3, ListOfAny
  <1>b. Range(k) = S
    <2>1. \A y \in Range(k) : y \in S
      BY <1>3, ElementsOfList
    <2>2. \A j \in 1..Len(h) : k[j] \in Range(k)
      BY <1>3, ElementsOfList
    <2>3. \A y \in S : y \in Range(k)
      BY <2>2, <1>4
    <2>4. QED
      BY <2>1, <2>3, SameElements
  <1>6. IsList(k) /\ Range(k) = S
    BY <1>a, <1>b
  <1>7. IsList(k \o v) /\ Range(k \o v) = S \cup Range(v)
    BY <1>6, BothLists
  <1>8. QED
    BY <1>5, <1>7, FirstOfEachList DEF S

\* The lists of periods the frames hold are a list, and it is not empty if one of
\* them is found in it.
LEMMA ListsOfPeriods ==
  ASSUME NEW frames, IsList(frames), \A f \in Range(frames) : Len(f.intent.operands) \in Nat
  PROVE  IsList(PeriodLists(frames))
  <1> DEFINE n == Len(frames)
             each == [i \in 1..n |-> FramePeriods(frames[i])]
             S == UNION {Range(FramePeriods(f)) : f \in Range(frames)}
  <1>1. frames \in Seq(Range(frames)) /\ n \in Nat
    BY DEF IsList
  <1>2. PeriodLists(frames) = FlattenSeq(each)
    BY DEF PeriodLists
  <1>3. \A i \in 1..n : each[i] \in Seq(S)
    <2> SUFFICES ASSUME NEW i \in 1..n
                 PROVE  each[i] \in Seq(S)
      OBVIOUS
    <2> DEFINE f == frames[i]
               own == [k \in 1..Len(f.intent.operands) |-> f.intent.operands[k].periods]
               all == FramePeriods(f)
    <2>1. f \in Range(frames)
      BY <1>1, ElementsOfList
    <2>2. all = Append(own, f.intent.periods) /\ each[i] = all
      BY DEF FramePeriods
    <2>3. Len(f.intent.operands) \in Nat
      BY <2>1
    <2>4. Range(all) \subseteq S
      BY <2>1
    <2> HIDE DEF f, S, each
    <2>5. own \in Seq({own[k] : k \in 1..Len(f.intent.operands)})
      BY <2>3
    <2> DEFINE T == {own[k] : k \in 1..Len(f.intent.operands)} \cup {f.intent.periods}
    <2>6. own \in Seq(T) /\ f.intent.periods \in T
      BY <2>5
    <2> HIDE DEF own, T, all
    <2>7. all \in Seq(T)
      BY <2>2, <2>6, AppendProperties
    <2>8. \A k \in 1..Len(all) : all[k] \in Range(all)
      BY <2>7, ElementsOfList
    <2>9. all \in Seq(S)
      BY <2>4, <2>7, <2>8
    <2>10. QED
      BY <2>2, <2>9
  <1>4. Len(each) = n
    BY <1>1
  <1> HIDE DEF each, S
  <1>5. CASE n > 0
    BY <1>1, <1>2, <1>3, <1>4, <1>5, FlattenedLists, ListOfAny
  <1>6. CASE n = 0
    <2>1. each = <<>>
      BY <1>6 DEF each
    <2>2. PeriodLists(frames) = each
      BY <1>2, <1>4, <1>6, Zenon DEF FlattenSeq
    <2>3. QED
      BY <2>1, <2>2 DEF IsList
  <1>7. QED
    BY <1>1, <1>5, <1>6

\* The period a handle stands for is of the handle's days.
LEMMA PeriodOfHandle ==
  ASSUME NEW frames, IsList(PeriodLists(frames)), NEW h,
         \E l \in Range(PeriodLists(frames)) : h \in Range(DaysOf(l))
  PROVE  Days(PeriodOf(h, frames)) = h
  <1> DEFINE lists == PeriodLists(frames)
             at == SelectLastInSeq(lists, LAMBDA l : h \in Range(DaysOf(l)))
             I == {i \in 1..Len(lists) : h \in Range(DaysOf(lists[i]))}
             list == lists[at]
             first == SelectInSeq(list, LAMBDA p : Days(p) = h)
             J == {j \in 1..Len(list) : Days(list[j]) = h}
  <1>1. PeriodOf(h, frames) = list[first]
    BY DEF PeriodOf
  <1>2. at = IF I # {} THEN Max(I) ELSE 0
    BY Zenon DEF SelectLastInSeq
  <1>3. first = IF J # {} THEN Min(J) ELSE 0
    BY Zenon DEF SelectInSeq
  <1>4. lists \in Seq(Range(lists)) /\ Len(lists) \in Nat
    BY DEF IsList
  <1>5. I \in SUBSET (1..Len(lists)) /\ \A i \in I : h \in Range(DaysOf(lists[i]))
    OBVIOUS
  <1>6. \A i \in 1..Len(lists) : h \in Range(DaysOf(lists[i])) => i \in I
    OBVIOUS
  <1>7. J \in SUBSET Nat /\ \A j \in J : Days(list[j]) = h
    <2>1. \A j \in J : j \in 1..Len(list) /\ Days(list[j]) = h
      OBVIOUS
    <2>2. \A n : \A j \in 1..n : j \in Nat
      OBVIOUS
    <2> HIDE DEF J, list
    <2>3. QED
      BY <2>1, <2>2
  <1>8. \A j \in 1..Len(list) : Days(list[j]) = h => j \in J
    OBVIOUS
  <1> HIDE DEF I, at, lists, J
  <1>9. I # {}
    BY <1>4, <1>6, ElementsOfList DEF lists
  <1>10. at \in I
    BY <1>2, <1>4, <1>5, <1>9, MaxIsGreatest
  <1>11. h \in Range(DaysOf(list))
    BY <1>5, <1>10
  <1> HIDE DEF list
  <1>12. \E j \in 1..Len(list) : Days(list[j]) = h
    BY <1>11 DEF DaysOf, Range
  <1>13. first \in J
    BY <1>3, <1>7, <1>8, <1>12, MinIsLeast
  <1>14. QED
    BY <1>1, <1>7, <1>13

LEMMA RangeOfDays ==
  ASSUME NEW s, IsList(s)
  PROVE  Range(DaysOf(s)) = {Days(p) : p \in Range(s)}
  <1>1. s \in Seq(Range(s)) /\ Len(s) \in Nat
    BY DEF IsList
  <1>2. \A p : p \in Range(s) <=> \E i \in 1..Len(s) : s[i] = p
    BY <1>1, ElementsOfList
  <1>3. Range(DaysOf(s)) = {Days(s[i]) : i \in 1..Len(s)}
    BY DEF DaysOf, Range
  <1>4. QED
    BY <1>2, <1>3

\* The days handles and values name, however they name them.
LEMMA DaysReferenced ==
  ASSUME NEW h, IsList(h), NEW v, IsList(v), NEW frames, IsList(PeriodLists(frames)),
         PeriodsKnown(h, frames)
  PROVE  Range(DaysOf(Referenced(h, v, frames))) = Range(h) \cup Range(DaysOf(v))
  <1> DEFINE r == Referenced(h, v, frames)
  <1>1. /\ IsList(r)
        /\ Range(r) = {PeriodOf(x, frames) : x \in Range(h)} \cup Range(v)
    BY ReferencedPeriods
  <1> HIDE DEF r
  <1>2. Range(DaysOf(r)) = {Days(p) : p \in Range(r)}
    BY <1>1, RangeOfDays
  <1>3. Range(DaysOf(v)) = {Days(p) : p \in Range(v)}
    BY RangeOfDays
  <1>4. \A x \in Range(h) : Days(PeriodOf(x, frames)) = x
    BY PeriodOfHandle DEF PeriodsKnown
  <1>5. QED
    BY <1>1, <1>2, <1>3, <1>4 DEF r

LEMMA BoundOperands ==
  ASSUME NEW i, IsBound(i)
  PROVE  \A o \in Range(i.operands) : IsBoundOperand(o)
  <1>1. i.operands \in Seq(Range(i.operands))
        /\ \A k \in 1..Len(i.operands) : IsOperand(i.operands[k])
    BY DEF IsBound, IsIntent
  <1>2. \A k \in 1..Len(i.operands) : RolesDiffer(i.operands[k].entities)
    BY DEF IsBound, ValidShape, RolesDiffer
  <1>3. SUFFICES ASSUME NEW o \in Range(i.operands)
                 PROVE  IsBoundOperand(o)
    OBVIOUS
  <1>4. PICK k \in 1..Len(i.operands) : i.operands[k] = o
    BY <1>1, ElementsOfList
  <1>5. o.entities \in Seq(Entities)
    BY DEF IsBound
  <1>6. QED
    BY <1>1, <1>2, <1>4, <1>5 DEF IsBoundOperand

LEMMA IndexedEntities ==
  ASSUME NEW frames, BoundFrames(frames)
  PROVE  EntityIndex(frames) \subseteq Entities
  <1> SUFFICES ASSUME NEW f \in Range(frames), NEW o \in Range(f.intent.operands),
                      NEW e \in Range(o.entities)
               PROVE  e \in Entities
    BY DEF EntityIndex
  <1>1. IsBound(f.intent)
    BY DEF BoundFrames
  <1>2. o.entities \in Seq(Entities)
    BY <1>1, BoundOperands DEF IsBoundOperand
  <1>3. QED
    BY <1>2, ElementsOfList

\* The entities the handles of a spec stand for.
LEMMA KnownEntitiesBound ==
  ASSUME NEW spec, IsSpec(spec), NEW frames, BoundFrames(frames),
         EntitiesKnown(spec.handles, frames), NEW k, k = KnownEntities(spec, frames)
  PROVE  /\ k \in Seq(Entities)
         /\ k = <<>> <=> spec.handles = <<>>
         /\ \A e \in Range(k) : Handle(e) \in Range(spec.handles)
  <1> DEFINE n == Len(spec.handles)
  <1>1. spec.handles \in Seq(Range(spec.handles)) /\ n \in Nat
    BY DEF IsSpec, IsList
  <1>2. k = [i \in 1..n |-> EntityOf(spec.handles[i], frames)]
    BY DEF KnownEntities
  <1>3. ASSUME NEW i \in 1..n
        PROVE  k[i] \in Entities /\ Handle(k[i]) \in Range(spec.handles)
    <2> DEFINE h == spec.handles[i]
               x == EntityOf(h, frames)
    <2>1. h \in Range(spec.handles) /\ k[i] = x
      BY <1>1, <1>2, ElementsOfList
    <2> HIDE DEF h
    <2>2. \E e \in EntityIndex(frames) : Handle(e) = h
      BY <2>1 DEF EntitiesKnown
    <2>3. x \in EntityIndex(frames) /\ Handle(x) = h
      BY <2>2, Zenon DEF EntityOf
    <2>4. QED
      BY <2>1, <2>3, IndexedEntities
  <1> HIDE DEF n
  <1>4. k \in Seq(Entities) /\ Len(k) = n
    BY <1>1, <1>2, <1>3
  <1>5. \A e \in Range(k) : \E i \in 1..n : k[i] = e
    BY <1>4, ElementsOfList
  <1>6. (k = <<>> <=> Len(k) = 0)
    BY <1>4, ElementsOfList
  <1>7. (spec.handles = <<>> <=> n = 0)
    BY <1>1, ElementsOfList DEF n
  <1>8. QED
    BY <1>3, <1>4, <1>5, <1>6, <1>7

\* What a spec continues: an operand of a bound intent, or nothing.
IsSource(source) == source = <<>> \/ \E o : IsBoundOperand(o) /\ source = <<o>>

LEMMA SourceFields ==
  ASSUME NEW source, IsSource(source)
  PROVE  /\ FieldOf(source, "entities") \in Seq(Entities)
         /\ RolesDiffer(FieldOf(source, "entities"))
         /\ IsList(FieldOf(source, "periods"))
         /\ source # <<>> => /\ IsBoundOperand(source[1])
                             /\ FieldOf(source, "entities") = source[1].entities
                             /\ FieldOf(source, "periods") = source[1].periods
  <1>1. CASE source = <<>>
    BY <1>1 DEF FieldOf, RolesDiffer, IsList
  <1>2. CASE source # <<>>
    <2>1. PICK o : IsBoundOperand(o) /\ source = <<o>>
      BY <1>2 DEF IsSource
    <2>2. FieldOf(source, "entities") = o.entities /\ FieldOf(source, "periods") = o.periods
          /\ source[1] = o
      BY <1>2, <2>1 DEF FieldOf
    <2>3. QED
      BY <2>1, <2>2 DEF IsBoundOperand, IsOperand, IsList
  <1>3. QED
    BY <1>1, <1>2

\* _graph_entities
LEMMA GraphEntitiesBound ==
  ASSUME NEW mode \in {"inherit", "replace", "add", "clear"},
         NEW held \in Seq(Entities), RolesDiffer(held), NEW selected \in Seq(Entities),
         NEW t, t = GraphEntities(mode, held, selected)
  PROVE  /\ t \in Seq(Entities) /\ RolesDiffer(t)
         /\ mode = "inherit" => t = held
         /\ mode \in {"replace", "add"} /\ selected # <<>> => t # <<>>
         /\ \A e \in Range(t) :
              \/ mode \in {"inherit", "add"} /\ e \in Range(held)
              \/ mode \in {"replace", "add"} /\ e \in Range(selected)
  <1>1. CASE mode = "inherit"
    BY <1>1 DEF GraphEntities
  <1>2. CASE mode = "clear"
    <2>1. t = <<>>
      BY <1>2 DEF GraphEntities
    <2>2. <<>> \in Seq(Entities) /\ RolesDiffer(<<>>)
      BY DEF RolesDiffer
    <2>3. Range(t) = {}
      BY <2>1 DEF Range
    <2>4. QED
      BY <1>2, <2>1, <2>2, <2>3
  <1>3. CASE mode \in {"replace", "add"}
    <2> DEFINE base == IF mode = "add" THEN held ELSE <<>>
    <2>1. t = PutRoles(base, selected)
      BY <1>3 DEF GraphEntities
    <2>2. /\ base \in Seq(Entities) /\ RolesDiffer(base)
          /\ \A e \in Range(base) : mode = "add" /\ e \in Range(held)
      BY DEF RolesDiffer, Range
    <2> HIDE DEF base
    <2>3. /\ t \in Seq(Entities)
          /\ RolesDiffer(base) => RolesDiffer(t)
          /\ \A y \in Range(t) : y \in Range(base) \/ y \in Range(selected)
          /\ selected # <<>> => t # <<>>
      BY <2>1, <2>2, RolesPut
    <2>4. QED
      BY <1>3, <2>2, <2>3
  <1>4. QED
    BY <1>1, <1>2, <1>3

\* _graph_periods
LEMMA GraphPeriodsList ==
  ASSUME NEW mode \in {"inherit", "replace", "add", "clear"},
         NEW held, IsList(held), NEW selected, IsList(selected),
         NEW t, t = GraphPeriods(mode, held, selected)
  PROVE  IsList(t) /\ (mode = "inherit" => t = held) /\ (mode = "clear" => t = <<>>)
  <1>1. CASE mode \in {"inherit", "replace"}
    BY <1>1 DEF GraphPeriods
  <1>2. CASE mode = "clear"
    BY <1>2 DEF GraphPeriods, IsList
  <1>3. CASE mode = "add"
    <2> DEFINE w == Without(selected, Range(held))
    <2>1. t = held \o w /\ IsList(w)
      BY <1>3, ListWithout DEF GraphPeriods
    <2> HIDE DEF w
    <2>2. IsList(held \o w)
      BY <2>1, BothLists
    <2>3. QED
      BY <1>3, <2>1, <2>2
  <1>4. QED
    BY <1>1, <1>2, <1>3

\* SpecOperand before it takes the metric's article.
RawOperand(spec, source, metric, held, frames) ==
  [id |-> spec.id, metric |-> metric, agg |-> AggregateOf(spec, metric, source),
   entities |-> SpecEntities(spec, metric, held, frames),
   periods |-> GraphPeriods(PeriodModeOf(spec), FieldOf(source, "periods"),
                            Referenced(spec.periodHandles, spec.periods, frames))]

LEMMA ModesOfSpec ==
  ASSUME NEW spec, IsSpec(spec)
  PROVE  /\ EntityModeOf(spec) \in {"inherit", "replace", "add", "clear"}
         /\ PeriodModeOf(spec) \in {"inherit", "replace", "add", "clear"}
         /\ EntityModeOf(spec) = "inherit" <=>
              spec.entityMode = "inherit" /\ spec.handles = <<>> /\ spec.mentions = <<>>
         /\ PeriodModeOf(spec) = "inherit" <=>
              spec.periodMode = "inherit" /\ spec.periodHandles = <<>> /\ spec.periods = <<>>
         /\ EntityModeOf(spec) = "clear" <=> spec.entityMode = "clear"
  BY DEF IsSpec, EntityModeOf, PeriodModeOf, Mode

LEMMA RawOperandBound ==
  ASSUME NEW spec, IsSpec(spec), NEW source, IsSource(source), NEW metric,
         NEW frames, BoundFrames(frames), NEW held, held = FieldOf(source, "entities"),
         LegalSpec(spec, source, metric, held, frames),
         NEW t, t = RawOperand(spec, source, metric, held, frames)
  PROVE  /\ IsBoundOperand(t)
         /\ t.id = spec.id /\ t.metric = metric /\ t.agg = AggregateOf(spec, metric, source)
         /\ t.periods = GraphPeriods(PeriodModeOf(spec), FieldOf(source, "periods"),
                                     Referenced(spec.periodHandles, spec.periods, frames))
         /\ EntityModeOf(spec) = "inherit" => t.entities = held
         /\ spec.entityMode # "clear" /\ (spec.handles # <<>> \/ spec.mentions # <<>>) =>
              t.entities # <<>>
         /\ \A e \in Range(t.entities) :
              \/ e.role = "article"
              \/ e \in Range(held)
              \/ Handle(e) \in Range(spec.handles)
              \/ \E m \in Range(spec.mentions) : m.text = e.name
  <1> DEFINE known == KnownEntities(spec, frames)
             named == BindOperand(spec.mentions, held \o known, metric)
             selected == known \o named
             mode == EntityModeOf(spec)
             entities == GraphEntities(mode, held, selected)
             periods == GraphPeriods(PeriodModeOf(spec), FieldOf(source, "periods"),
                                     Referenced(spec.periodHandles, spec.periods, frames))
  <1>1. t = [id |-> spec.id, metric |-> metric, agg |-> AggregateOf(spec, metric, source),
             entities |-> entities, periods |-> periods]
    BY Zenon DEF RawOperand, SpecEntities
  <1>2. /\ held \in Seq(Entities) /\ RolesDiffer(held) /\ IsList(FieldOf(source, "periods"))
    BY SourceFields
  <1>3. AreMentions(spec.mentions) /\ IsList(spec.periodHandles) /\ IsList(spec.periods)
    BY DEF IsSpec
  <1>4. /\ EntitiesKnown(spec.handles, frames)
        /\ Bindable(spec.mentions, held \o known, metric)
    BY DEF LegalSpec
  <1>5. mode \in {"inherit", "replace", "add", "clear"}
        /\ PeriodModeOf(spec) \in {"inherit", "replace", "add", "clear"}
    BY ModesOfSpec
  <1>6. /\ known \in Seq(Entities)
        /\ known = <<>> <=> spec.handles = <<>>
        /\ \A e \in Range(known) : Handle(e) \in Range(spec.handles)
    BY <1>4, KnownEntitiesBound
  <1> HIDE DEF known
  <1>7. /\ named \in Seq(Entities)
        /\ spec.mentions = <<>> <=> named = <<>>
        /\ \A e \in Range(named) :
             e.role = "article" \/ \E m \in Range(spec.mentions) : m.text = e.name
    <2> DEFINE mentions == spec.mentions
               inherited == held \o known
    <2>1. AreMentions(mentions) /\ Bindable(mentions, inherited, metric)
          /\ named = BindOperand(mentions, inherited, metric)
      BY <1>3, <1>4
    <2> HIDE DEF mentions, inherited, named
    <2>2. /\ named \in Seq(Entities)
          /\ mentions = <<>> => named = <<>>
          /\ mentions # <<>> => named # <<>>
          /\ \A e \in Range(named) :
               e.role = "article" \/ \E m \in Range(mentions) : m.text = e.name
      BY <2>1, BindOperandEntities
    <2>3. QED
      BY <2>2 DEF mentions
  <1> HIDE DEF named
  <1>8. /\ selected \in Seq(Entities)
        /\ \A y : y \in Range(selected) <=> y \in Range(known) \/ y \in Range(named)
        /\ selected = <<>> <=> known = <<>> /\ named = <<>>
    BY <1>6, <1>7, ElementsOfBoth
  <1> HIDE DEF selected
  <1>9. /\ entities \in Seq(Entities) /\ RolesDiffer(entities)
        /\ mode = "inherit" => entities = held
        /\ mode \in {"replace", "add"} /\ selected # <<>> => entities # <<>>
        /\ \A e \in Range(entities) :
             \/ mode \in {"inherit", "add"} /\ e \in Range(held)
             \/ mode \in {"replace", "add"} /\ e \in Range(selected)
    <2>1. mode \in {"inherit", "replace", "add", "clear"} /\ entities = GraphEntities(mode, held, selected)
      BY <1>5
    <2> HIDE DEF entities, mode
    <2>2. QED
      BY <1>2, <1>8, <2>1, GraphEntitiesBound
  <1>10. IsList(periods)
    <2> DEFINE r == Referenced(spec.periodHandles, spec.periods, frames)
    <2>1. IsList(r)
      BY <1>3, ReferencedPeriods
    <2> HIDE DEF r
    <2>2. IsList(GraphPeriods(PeriodModeOf(spec), FieldOf(source, "periods"), r))
      BY <1>2, <1>5, <2>1, GraphPeriodsList
    <2>3. QED
      BY <2>2 DEF r
  <1>11. spec.entityMode # "clear" /\ (spec.handles # <<>> \/ spec.mentions # <<>>) =>
           mode \in {"replace", "add"} /\ selected # <<>>
    BY <1>5, <1>6, <1>7, <1>8 DEF EntityModeOf, Mode
  <1> HIDE DEF entities, periods, mode
  <1>12. /\ t.entities = entities /\ t.periods = periods
         /\ t.id = spec.id /\ t.metric = metric /\ t.agg = AggregateOf(spec, metric, source)
         /\ DOMAIN t = {"id", "metric", "agg", "entities", "periods"}
    BY <1>1
  <1>13. IsBoundOperand(t)
    BY <1>9, <1>10, <1>12 DEF IsBoundOperand, IsOperand, IsList
  <1>14. \A e \in Range(entities) :
              \/ e.role = "article"
              \/ e \in Range(held)
              \/ Handle(e) \in Range(spec.handles)
              \/ \E m \in Range(spec.mentions) : m.text = e.name
    BY <1>6, <1>7, <1>8, <1>9
  <1>15. QED
    BY <1>9, <1>11, <1>12, <1>13, <1>14 DEF mode, periods

AreBoundOperands(s) == IsList(s) /\ \A o \in Range(s) : IsBoundOperand(o)

LEMMA OneOfOperands ==
  ASSUME NEW s, AreBoundOperands(s), NEW S, S \subseteq Range(s)
  PROVE  /\ IsSource(Only(S))
         /\ Only(S) # <<>> => S = {Only(S)[1]} /\ Only(S)[1] \in Range(s)
         /\ Only(S) = <<>> <=> Cardinality(S) # 1
  <1>1. s \in Seq(Range(s))
    BY DEF AreBoundOperands, IsList
  <1>2. IsFiniteSet(S)
    <2>1. IsFiniteSet(Range(s))
      BY <1>1, RangeIsFinite
    <2>2. QED
      BY <2>1, FS_Subset
  <1>3. CASE Cardinality(S) = 1
    <2>1. PICK o \in S : S = {o} /\ Only(S) = <<o>>
      BY <1>2, <1>3, OnlyElement
    <2>2. IsBoundOperand(o)
      BY <2>1 DEF AreBoundOperands
    <2>3. QED
      BY <1>3, <2>1, <2>2 DEF IsSource
  <1>4. CASE Cardinality(S) # 1
    <2>1. Only(S) = <<>>
      BY <1>2, <1>4, OnlyElement
    <2>2. QED
      BY <1>4, <2>1 DEF IsSource
  <1>5. QED
    BY <1>3, <1>4

LEMMA SourceOperandBound ==
  ASSUME NEW handle, NEW frames, BoundFrames(frames),
         NEW source, source = SourceOperand(handle, frames)
  PROVE  /\ IsSource(source)
         /\ source # <<>> =>
              \E f \in Range(frames) : /\ f.turn = handle.turn
                                       /\ source[1] \in Range(f.intent.operands)
                                       /\ source[1].id = handle.operand
  <1> DEFINE found == {x \in OperandIndex(frames) :
                         x.turn = handle.turn /\ x.operand.id = handle.operand}
             y == CHOOSE x \in found : TRUE
  <1>1. source = IF found = {} THEN <<>> ELSE <<y.operand>>
    BY DEF SourceOperand
  <1>2. CASE found = {}
    BY <1>1, <1>2 DEF IsSource
  <1>3. CASE found # {}
    <2>1. y \in found
      BY <1>3
    <2> HIDE DEF y
    <2>2. PICK f \in Range(frames) : \E o \in Range(f.intent.operands) :
                                       y = [turn |-> f.turn, operand |-> o]
      BY <2>1 DEF OperandIndex
    <2>3. PICK o \in Range(f.intent.operands) : y = [turn |-> f.turn, operand |-> o]
      BY <2>2
    <2>4. y.turn = handle.turn /\ y.operand.id = handle.operand
      BY <2>1
    <2>5. source = <<o>> /\ o.id = handle.operand /\ f.turn = handle.turn
      BY <1>1, <1>3, <2>3, <2>4
    <2>6. IsBoundOperand(o)
      BY BoundOperands DEF BoundFrames
    <2>7. QED
      BY <2>5, <2>6 DEF IsSource
  <1>4. QED
    BY <1>2, <1>3

LEMMA SourceIsBound ==
  ASSUME NEW spec, NEW mode, NEW active, AreBoundOperands(active), NEW globals,
         NEW frames, BoundFrames(frames), NEW source,
         source = Source(spec, mode, active, globals, frames)
  PROVE  IsSource(source)
  <1>1. CASE spec.source # <<>>
    <2>1. source = SourceOperand(spec.source[1], frames)
      BY <1>1 DEF Source
    <2>2. QED
      BY <2>1, SourceOperandBound
  <1>2. CASE spec.source = <<>> /\ mode # "mutation"
    BY <1>2 DEF Source, IsSource
  <1>3. CASE spec.source = <<>> /\ mode = "mutation" /\ Len(active) = 1
    <2>1. source = active
      BY <1>3 DEF Source
    <2>2. active \in Seq(Range(active)) /\ \A o \in Range(active) : IsBoundOperand(o)
      BY DEF AreBoundOperands, IsList
    <2>3. active = <<active[1]>> /\ active[1] \in Range(active)
      BY <1>3, <2>2, ElementsOfList
    <2>4. QED
      BY <2>1, <2>2, <2>3 DEF IsSource
  <1>4. CASE spec.source = <<>> /\ mode = "mutation" /\ Len(active) # 1
    <2> DEFINE asked == IF spec.periodHandles # <<>> \/ spec.periods # <<>>
                        THEN Referenced(spec.periodHandles, spec.periods, frames) ELSE globals
               S == Over(active, asked)
    <2>1. source = IF asked = <<>> THEN <<>> ELSE Only(S)
      BY <1>4 DEF Source, OperandOfPeriods
    <2>2. S \subseteq Range(active)
      BY DEF Over
    <2> HIDE DEF S, asked
    <2>3. IsSource(Only(S))
      BY <2>2, OneOfOperands
    <2>4. IsSource(<<>>)
      BY DEF IsSource
    <2>5. QED
      BY <2>1, <2>3, <2>4
  <1>5. QED
    BY <1>1, <1>2, <1>3, <1>4

\* A spec is compiled to an operand, in its direction or against it, or to
\* nothing; the operand whose opposite does not exist is reported.
LEMMA GraphOperandResult ==
  ASSUME NEW spec, IsSpec(spec), NEW mode, NEW active, AreBoundOperands(active), NEW globals,
         NEW frames, BoundFrames(frames), NEW source,
         source = Source(spec, mode, active, globals, frames),
         NEW metric, metric = MetricOf(spec, source),
         NEW held, held = FieldOf(source, "entities"),
         NEW o, o = SpecOperand(spec, source, metric, held, frames),
         NEW r, r = GraphOperand(spec, mode, active, globals, frames)
  PROVE  /\ r.kind \in {"bound", "binding", "relation"}
         /\ r.kind # "binding" =>
              /\ IsSource(source)
              /\ PeriodsKnown(spec.periodHandles, frames)
              /\ ~Ambiguous(spec, mode, active, source)
              /\ LegalSpec(spec, source, metric, held, frames)
              /\ IsBoundOperand(o)
         /\ r.kind = "bound" =>
              /\ spec.reverse => Reversible(o)
              /\ r.operand = <<IF spec.reverse THEN Reversed(o) ELSE o>>
         /\ r.kind = "relation" => r.operand = <<Reversed(o)>>
         /\ r.kind # "binding" => \E x : IsBoundOperand(x) /\ r.operand = <<x>>
  <1>1. IsSource(source)
    BY SourceIsBound
  <1>2. r = IF ~PeriodsKnown(spec.periodHandles, frames) THEN BindingError
            ELSE IF Ambiguous(spec, mode, active, source) THEN BindingError
            ELSE IF LegalSpec(spec, source, metric, held, frames)
            THEN InDirection(o, spec.reverse) ELSE BindingError
    BY Zenon DEF GraphOperand, Continued, FromSource
  <1>3. BindingError.kind = "binding"
    BY DEF BindingError
  <1>4. CASE \/ ~PeriodsKnown(spec.periodHandles, frames)
             \/ Ambiguous(spec, mode, active, source)
             \/ ~LegalSpec(spec, source, metric, held, frames)
    BY <1>2, <1>3, <1>4
  <1>5. CASE /\ PeriodsKnown(spec.periodHandles, frames)
             /\ ~Ambiguous(spec, mode, active, source)
             /\ LegalSpec(spec, source, metric, held, frames)
    <2>1. r = InDirection(o, spec.reverse)
      BY <1>2, <1>5
    <2>2. IsBoundOperand(o)
      <3> DEFINE raw == RawOperand(spec, source, metric, held, frames)
      <3>1. o = WithMetricArticle(raw)
        BY Zenon DEF SpecOperand, RawOperand
      <3>2. IsBoundOperand(raw)
        BY <1>1, <1>5, RawOperandBound
      <3> HIDE DEF raw
      <3>3. QED
        BY <3>1, <3>2, MetricArticleAdded DEF IsBoundOperand
    <2>3. IsBoundOperand(Reversed(o))
      <3>1. IsOperand(o) /\ o.entities \in Seq(Entities) /\ RolesDiffer(o.entities)
        BY <2>2 DEF IsBoundOperand
      <3>2. OnlyEntitiesDiffer(Reversed(o), o) /\ Reversed(o).entities \in Seq(Entities)
            /\ RolesDiffer(Reversed(o).entities)
        BY <3>1, DirectionReversed
      <3>3. QED
        BY <3>2 DEF IsBoundOperand, OnlyEntitiesDiffer
    <2>4. CASE spec.reverse /\ ~Reversible(o)
      <3>1. r = RelationMissing(Reversed(o))
        BY <2>1, <2>4 DEF InDirection
      <3>2. r.kind = "relation" /\ r.operand = <<Reversed(o)>>
        BY <3>1 DEF RelationMissing
      <3>3. QED
        BY <1>1, <1>5, <2>2, <2>3, <3>2
    <2>5. CASE ~(spec.reverse /\ ~Reversible(o))
      <3> DEFINE x == IF spec.reverse THEN Reversed(o) ELSE o
      <3>1. r = [BindingError EXCEPT !.kind = "bound", !.operand = <<x>>]
        BY <2>1, <2>5 DEF InDirection
      <3>2. IsBoundOperand(x)
        BY <2>2, <2>3
      <3>3. x = IF spec.reverse THEN Reversed(o) ELSE o
        OBVIOUS
      <3> HIDE DEF x
      <3>4. r.kind = "bound" /\ r.operand = <<x>>
        BY <3>1 DEF BindingError
      <3>5. QED
        BY <1>1, <1>5, <2>2, <2>5, <3>2, <3>3, <3>4
    <2>6. QED
      BY <2>4, <2>5
  <1>6. QED
    BY <1>4, <1>5

-----------------------------------------------------------------------------
(* The specs of a graph, after its shape is settled *)

AreSpecs(specs) == IsList(specs) /\ \A s \in Range(specs) : IsSpec(s)

\* A spec that differs from another in the entities it asks for alone.
AsksOtherEntities(t, s) ==
  /\ IsSpec(t)
  /\ t.id = s.id /\ t.source = s.source /\ t.metric = s.metric /\ t.agg = s.agg
  /\ t.periodMode = s.periodMode /\ t.periodHandles = s.periodHandles
  /\ t.periods = s.periods /\ t.reverse = s.reverse

LEMMA SpecWithEntities ==
  ASSUME NEW s, IsSpec(s), NEW t, DOMAIN t = DOMAIN s,
         t.id = s.id, t.source = s.source, t.metric = s.metric, t.agg = s.agg,
         t.periodMode = s.periodMode, t.periodHandles = s.periodHandles,
         t.periods = s.periods, t.reverse = s.reverse,
         t.entityMode \in {"inherit", "replace", "add", "clear"},
         IsList(t.handles), AreMentions(t.mentions)
  PROVE  AsksOtherEntities(t, s)
  BY DEF IsSpec, AsksOtherEntities

\* Spec i of a list of specs.
LEMMA SpecOfList ==
  ASSUME NEW specs, AreSpecs(specs)
  PROVE  /\ specs \in Seq(Range(specs)) /\ Len(specs) \in Nat
         /\ \A i \in 1..Len(specs) : specs[i] \in Range(specs) /\ IsSpec(specs[i])
  <1>1. specs \in Seq(Range(specs))
    BY DEF AreSpecs, IsList
  <1>2. QED
    BY <1>1, ElementsOfList DEF AreSpecs

LEMMA ListOfSpecs ==
  ASSUME NEW n \in Nat, NEW t, t = [i \in 1..n |-> t[i]], \A i \in 1..n : IsSpec(t[i])
  PROVE  AreSpecs(t) /\ Len(t) = n
  <1>1. t \in Seq(Range(t)) /\ Len(t) = n
    BY ListOfItsElements
  <1>2. \A x \in Range(t) : \E i \in 1..n : t[i] = x
    BY <1>1, ElementsOfList
  <1>3. QED
    BY <1>1, <1>2 DEF AreSpecs, IsList

LEMMA MentionsInRoles ==
  ASSUME NEW mentions, AreMentions(mentions), NEW roles
  PROVE  AreMentions(OfRoles(mentions, roles))
  <1>1. mentions \in Seq(Range(mentions)) /\ \A m \in Range(mentions) : IsMention(m)
    BY DEF AreMentions, IsList
  <1>2. OfRoles(mentions, roles) \in Seq(Range(mentions))
    BY <1>1, ElementsOfRoles
  <1>3. QED
    BY <1>1, <1>2, ListOfAny, ElementsOfList DEF AreMentions

LEMMA MentionsTogether ==
  ASSUME NEW s, AreMentions(s), NEW t, AreMentions(t)
  PROVE  AreMentions(s \o t)
  BY BothLists DEF AreMentions

LEMMA OneMention ==
  ASSUME NEW m, IsMention(m)
  PROVE  AreMentions(<<m>>) /\ <<m>> # <<>>
  BY DEF AreMentions, IsList, Range

LEMMA NoMention == AreMentions(<<>>)
  BY DEF AreMentions, IsList, Range

\* _normalize_graph_shape keeps the contract.
LEMMA ShapeOfGraph ==
  ASSUME NEW g, IsGraph(g), NEW mentions, AreMentions(mentions),
         NEW t, t = NormalShape(g, mentions)
  PROVE  IsGraph(t)
  <1>1. /\ DOMAIN g = {"operation", "operands", "periodHandles", "periods", "grouping", "grain",
                 "comparison", "formula", "ranking"}
        /\ g.operation \in Operations
        /\ IsList(g.operands) /\ IsList(g.periodHandles) /\ IsList(g.periods) /\ IsList(g.grouping)
        /\ g.operands # <<>> /\ AreSpecs(g.operands)
    BY DEF IsGraph, AreSpecs
  <1>2. 1 \in 1..Len(g.operands) /\ IsSpec(g.operands[1])
    <2>1. Len(g.operands) # 0 /\ Len(g.operands) \in Nat
      BY <1>1, SpecOfList, ElementsOfList
    <2>2. QED
      BY <1>1, <2>1, SpecOfList
  <1>3. ASSUME NEW u, DOMAIN u = DOMAIN g, u.operation = g.operation, u.grouping = g.grouping,
               IsList(u.periodHandles), IsList(u.periods), AreSpecs(u.operands), u.operands # <<>>
        PROVE  IsGraph(u)
    BY <1>1, <1>3 DEF IsGraph, AreSpecs
  <1>4. CASE g.operation = "compare_periods"
    <2>1. t = TwoPeriods(g)
      BY <1>4 DEF NormalShape
    <2>2. CASE Len(g.operands) = 2
               /\ SameSource(g.operands[1], g.operands[2])
               /\ \A i \in 1..2 : Len(g.operands[i].periods) = 1
      <3> DEFINE a == g.operands[1]
                 b == g.operands[2]
                 c == [a EXCEPT !.periodMode = "clear", !.periodHandles = <<>>, !.periods = <<>>]
      <3>1. t = [g EXCEPT !.operands = <<c>>, !.periodHandles = <<>>,
                          !.periods = a.periods \o b.periods, !.comparison = <<>>]
        BY <2>1, <2>2 DEF TwoPeriods
      <3>2. IsSpec(a) /\ IsSpec(b)
        BY <1>1, <2>2, SpecOfList
      <3>3. IsSpec(c)
        <4>1. IsList(<<>>)
          BY DEF IsList
        <4>2. QED
          BY <3>2, <4>1 DEF IsSpec
      <3>4. IsList(a.periods \o b.periods)
        BY <3>2, BothLists DEF IsSpec
      <3> DEFINE p == a.periods \o b.periods
      <3> HIDE DEF c, p, a, b
      <3>5. t = [g EXCEPT !.operands = <<c>>, !.periodHandles = <<>>,
                          !.periods = p, !.comparison = <<>>]
        BY <3>1 DEF p
      <3>6. DOMAIN t = DOMAIN g /\ t.operation = g.operation /\ t.grouping = g.grouping
            /\ t.operands = <<c>> /\ t.periodHandles = <<>> /\ t.periods = p
        BY <1>1, <3>5
      <3>7. AreSpecs(<<c>>) /\ <<c>> # <<>>
        <4>1. <<c>> \in Seq({c}) /\ Range(<<c>>) = {c} /\ <<c>> # <<>>
          BY DEF Range
        <4>2. QED
          BY <3>3, <4>1 DEF AreSpecs, IsList
      <3>8. IsList(p) /\ IsList(<<>>)
        BY <3>4 DEF p, IsList
      <3>9. QED
        BY <1>3, <3>6, <3>7, <3>8
    <2>3. CASE ~(Len(g.operands) = 2
               /\ SameSource(g.operands[1], g.operands[2])
               /\ \A i \in 1..2 : Len(g.operands[i].periods) = 1)
      <3>1. t = g \/ t = [g EXCEPT !.comparison = <<>>]
        BY <2>1, <2>3, Zenon DEF TwoPeriods
      <3>2. DOMAIN t = DOMAIN g /\ t.operation = g.operation /\ t.grouping = g.grouping
            /\ t.operands = g.operands /\ t.periodHandles = g.periodHandles
            /\ t.periods = g.periods
        BY <1>1, <3>1
      <3>3. QED
        BY <1>1, <1>3, <3>2
    <2>4. QED
      BY <2>2, <2>3
  <1>5. CASE g.operation # "compare_periods" /\ IsPeerComparison(g, mentions)
    <2> DEFINE d == Destinations(mentions)
               a == g.operands[1]
               id(i) == Append(a.id, i)
               s == [i \in 1..Len(d) |->
                      [a EXCEPT !.id = id(i), !.entityMode = "replace", !.handles = <<>>,
                                !.mentions = <<d[i]>>]]
               c == <<[baseline |-> id(1), target |-> id(2)]>>
    <2>1. t = [g EXCEPT !.operands = s, !.comparison = c]
      BY <1>5, Zenon DEF NormalShape, PeerOperands
    <2>2. IsList(d) /\ (\A m \in Range(d) : IsMention(m)) /\ Len(d) >= 2
      <3>1. AreMentions(OfRoles(mentions, {"destination"}))
        BY MentionsInRoles
      <3>2. QED
        BY <1>5, <3>1, FirstOfEachList DEF AreMentions, Destinations, IsPeerComparison
    <2>3. Len(d) \in Nat /\ \A i \in 1..Len(d) : IsMention(d[i])
      <3>1. d \in Seq(Range(d))
        BY <2>2 DEF IsList
      <3>2. QED
        BY <2>2, <3>1, ElementsOfList
    <2>4. IsSpec(a)
      BY <1>2
    <2> HIDE DEF d, a, id
    <2>5. \A i \in 1..Len(d) : IsSpec(s[i])
      <3> SUFFICES ASSUME NEW i \in 1..Len(d)
                   PROVE  IsSpec([a EXCEPT !.id = id(i), !.entityMode = "replace",
                                           !.handles = <<>>, !.mentions = <<d[i]>>])
        OBVIOUS
      <3>1. AreMentions(<<d[i]>>)
        BY <2>3, OneMention
      <3> DEFINE m == <<d[i]>>
      <3>2. AreMentions(m) /\ IsList(<<>>)
        BY <3>1 DEF IsList
      <3> HIDE DEF m
      <3>3. IsSpec([a EXCEPT !.id = id(i), !.entityMode = "replace",
                             !.handles = <<>>, !.mentions = m])
        BY <2>4, <3>2 DEF IsSpec
      <3>4. QED
        BY <3>3 DEF m
    <2>6. AreSpecs(s) /\ Len(s) = Len(d)
      <3> DEFINE n == Len(d)
      <3>1. n \in Nat /\ s = [i \in 1..n |-> s[i]] /\ \A i \in 1..n : IsSpec(s[i])
        BY <2>3, <2>5
      <3> HIDE DEF s, n
      <3>2. AreSpecs(s) /\ Len(s) = n
        BY <3>1, ListOfSpecs
      <3>3. QED
        BY <3>2 DEF n
    <2> HIDE DEF s, c
    <2>7. DOMAIN t = DOMAIN g /\ t.operation = g.operation /\ t.grouping = g.grouping
          /\ t.operands = s /\ t.periodHandles = g.periodHandles /\ t.periods = g.periods
      BY <1>1, <2>1
    <2>8. s # <<>>
      BY <2>2, <2>3, <2>6
    <2>9. QED
      BY <1>1, <1>3, <2>6, <2>7, <2>8
  <1>6. CASE g.operation # "compare_periods" /\ ~IsPeerComparison(g, mentions)
    BY <1>6 DEF NormalShape
  <1>7. QED
    BY <1>4, <1>5, <1>6

LEMMA HandlesDropped ==
  ASSUME NEW g, IsGraph(g), NEW mentions, NEW frames, NEW t, t = WithoutHandles(g, mentions, frames)
  PROVE  IsGraph(t)
  <1>1. /\ DOMAIN g = {"operation", "operands", "periodHandles", "periods", "grouping", "grain",
                 "comparison", "formula", "ranking"}
        /\ g.operation \in Operations
        /\ IsList(g.operands) /\ IsList(g.periodHandles) /\ IsList(g.periods) /\ IsList(g.grouping)
        /\ g.operands # <<>> /\ AreSpecs(g.operands)
    BY DEF IsGraph, AreSpecs
  <1> DEFINE Drop(handles) == IF PeriodsKnown(handles, frames) THEN handles ELSE <<>>
             old == g.operands
             s == [i \in 1..Len(old) |->
                    [old[i] EXCEPT
                      !.periodHandles = Drop(old[i].periodHandles),
                      !.handles = IF mentions # <<>> THEN <<>> ELSE old[i].handles]]
             h == Drop(g.periodHandles)
  <1>0. t = [g EXCEPT !.periodHandles = h, !.operands = s]
    BY Zenon DEF WithoutHandles
  <1>2. DOMAIN t = DOMAIN g /\ t.operation = g.operation /\ t.grouping = g.grouping
        /\ t.periods = g.periods /\ t.operands = s /\ t.periodHandles = h
    BY <1>0, <1>1
  <1>3. IsList(<<>>)
    BY DEF IsList
  <1>4. IsList(h)
    BY <1>1, <1>3
  <1>5. Len(old) \in Nat /\ \A i \in 1..Len(old) : IsSpec(old[i])
    BY <1>1, SpecOfList
  <1>6. ASSUME NEW i \in 1..Len(old)
        PROVE  IsSpec(s[i])
    <2> DEFINE x == old[i]
               a == Drop(x.periodHandles)
               b == IF mentions # <<>> THEN <<>> ELSE x.handles
    <2>1. IsSpec(x)
      BY <1>5
    <2>2. IsList(a) /\ IsList(b)
      BY <1>3, <2>1 DEF IsSpec
    <2>3. s[i] = [x EXCEPT !.periodHandles = a, !.handles = b]
      BY <2>1 DEF IsSpec
    <2> HIDE DEF s, x, a, b
    <2>4. QED
      BY <2>1, <2>2, <2>3 DEF IsSpec
  <1>7. AreSpecs(s) /\ Len(s) = Len(old)
    <2> DEFINE n == Len(old)
    <2>1. n \in Nat /\ s = [i \in 1..n |-> s[i]] /\ \A i \in 1..n : IsSpec(s[i])
      BY <1>5, <1>6
    <2> HIDE DEF s, n
    <2>2. AreSpecs(s) /\ Len(s) = n
      BY <2>1, ListOfSpecs
    <2>3. QED
      BY <2>2 DEF n
  <1>8. s # <<>>
    <2>1. Len(old) # 0
      BY <1>1, SpecOfList, ElementsOfList
    <2>2. s \in Seq(Range(s))
      BY <1>7, SpecOfList
    <2> HIDE DEF s, old
    <2>3. QED
      BY <1>7, <2>1, <2>2, ElementsOfList
  <1> HIDE DEF s, h
  <1>9. QED
    BY <1>1, <1>2, <1>4, <1>7, <1>8 DEF IsGraph, AreSpecs

LEMMA TopologyMentions ==
  ASSUME NEW mentions, AreMentions(mentions), NEW metric
  PROVE  AreMentions(Topology(metric, mentions))
  <1> DEFINE Of(role) == OfRoles(mentions, {role})
             route == IF Len(Of("source")) = 1 /\ Len(Of("destination")) = 1
                      THEN Of("source") \o Of("destination") ELSE <<>>
             balance == IF Len(Of("balance")) = 1 THEN Of("balance") ELSE <<>>
  <1>1. \A role : AreMentions(Of(role))
    BY MentionsInRoles
  <1>2. AreMentions(Of("source") \o Of("destination"))
    <2> DEFINE a == Of("source")
               b == Of("destination")
    <2>1. AreMentions(a) /\ AreMentions(b)
      BY <1>1
    <2> HIDE DEF a, b, Of
    <2>2. AreMentions(a \o b)
      BY <2>1, MentionsTogether
    <2>3. QED
      BY <2>2 DEF a, b
  <1>3. AreMentions(route) /\ AreMentions(balance)
    BY <1>1, <1>2, NoMention
  <1>4. Topology(metric, mentions) = CASE metric = "incoming" -> route
                                       [] metric = "distribution" -> IF balance # <<>> THEN balance ELSE route
                                       [] OTHER -> balance
    BY Zenon DEF Topology
  <1> HIDE DEF route, balance, Of
  <1>5. Topology(metric, mentions) = route \/ Topology(metric, mentions) = balance
    BY <1>4
  <1>6. QED
    BY <1>3, <1>5

\* A spec may ask for nothing more only if it asked for nothing before.
AsksMore(t, s) ==
  /\ AsksOtherEntities(t, s)
  /\ s.entityMode = "inherit" =>
       \/ t.entityMode = "inherit"
       \/ t.entityMode \in {"replace", "add"} /\ t.mentions # <<>>

LEMMA CompleteSpec ==
  ASSUME NEW s, IsSpec(s), NEW mentions, AreMentions(mentions), NEW t, t = Complete(s, mentions)
  PROVE  AsksMore(t, s)
  <1> DEFINE selected == Topology(s.metric, mentions)
  <1>1. AreMentions(selected)
    BY TopologyMentions
  <1>2. \/ t = s
        \/ selected # <<>> /\ t = [s EXCEPT !.entityMode = "replace", !.mentions = selected]
    BY Zenon DEF Complete
  <1> HIDE DEF selected
  <1>3. CASE t = s
    BY <1>3 DEF AsksMore, AsksOtherEntities
  <1>4. CASE selected # <<>> /\ t = [s EXCEPT !.entityMode = "replace", !.mentions = selected]
    <2>1. /\ DOMAIN t = DOMAIN s /\ t.entityMode = "replace"
          /\ t.handles = s.handles /\ t.mentions = selected
          /\ t.id = s.id /\ t.source = s.source /\ t.metric = s.metric /\ t.agg = s.agg
          /\ t.periodMode = s.periodMode /\ t.periodHandles = s.periodHandles
          /\ t.periods = s.periods /\ t.reverse = s.reverse
      BY <1>4 DEF IsSpec
    <2>2. IsList(s.handles)
      BY DEF IsSpec
    <2>3. AsksOtherEntities(t, s)
      BY <1>1, <2>1, <2>2, SpecWithEntities
    <2>4. QED
      BY <1>4, <2>1, <2>3 DEF AsksMore
  <1>5. QED
    BY <1>2, <1>3, <1>4

LEMMA AsksMoreStill ==
  ASSUME NEW s, NEW t, AsksMore(t, s), NEW u, AsksMore(u, t),
         t.entityMode \in {"replace", "add"} /\ t.mentions # <<>> =>
           u.entityMode \in {"replace", "add"} /\ u.mentions # <<>>
  PROVE  AsksMore(u, s)
  <1>1. AsksOtherEntities(u, s)
    BY DEF AsksMore, AsksOtherEntities
  <1>2. QED
    BY <1>1 DEF AsksMore

\* A spec that asks for these mentions.
Asked(s, mentions) == [s EXCEPT !.entityMode = "replace", !.mentions = mentions]

LEMMA AskedSpec ==
  ASSUME NEW s, IsSpec(s), NEW mentions, AreMentions(mentions), mentions # <<>>,
         NEW t, \/ t = Asked(s, mentions)
                \/ t = [Asked(s, mentions) EXCEPT !.handles = <<>>]
                \/ t = [Asked(s, mentions) EXCEPT
                         !.entityMode = IF s.entityMode = "inherit" THEN "add" ELSE s.entityMode]
  PROVE  AsksMore(t, s) /\ t.mentions # <<>>
         /\ (s.entityMode \in {"replace", "add"} => t.entityMode \in {"replace", "add"})
  <1>0. IsList(<<>>)
    BY DEF IsList
  <1>1. /\ DOMAIN t = DOMAIN s
        /\ t.entityMode \in {"inherit", "replace", "add", "clear"}
        /\ s.entityMode = "inherit" => t.entityMode \in {"replace", "add"}
        /\ s.entityMode \in {"replace", "add"} => t.entityMode \in {"replace", "add"}
        /\ t.handles = s.handles \/ t.handles = <<>>
        /\ t.mentions = mentions
        /\ t.id = s.id /\ t.source = s.source /\ t.metric = s.metric /\ t.agg = s.agg
        /\ t.periodMode = s.periodMode /\ t.periodHandles = s.periodHandles
        /\ t.periods = s.periods /\ t.reverse = s.reverse
    <2>1. IsSpec(s) /\ (\/ t = Asked(s, mentions)
                        \/ t = [Asked(s, mentions) EXCEPT !.handles = <<>>]
                        \/ t = [Asked(s, mentions) EXCEPT
                         !.entityMode = IF s.entityMode = "inherit" THEN "add" ELSE s.entityMode])
      OBVIOUS
    <2>2. CASE t = Asked(s, mentions)
      BY <2>2 DEF IsSpec, Asked
    <2>3. CASE t = [Asked(s, mentions) EXCEPT !.handles = <<>>]
      BY <2>3 DEF IsSpec, Asked
    <2>4. CASE t = [Asked(s, mentions) EXCEPT
                         !.entityMode = IF s.entityMode = "inherit" THEN "add" ELSE s.entityMode]
      BY <2>4 DEF IsSpec, Asked
    <2>5. QED
      BY <2>1, <2>2, <2>3, <2>4
  <1>2. AsksOtherEntities(t, s)
    <2>1. IsList(t.handles) /\ AreMentions(t.mentions)
      BY <1>0, <1>1 DEF IsSpec
    <2>2. QED
      BY <1>1, <2>1, SpecWithEntities
  <1>3. QED
    BY <1>1, <1>2 DEF AsksMore

LEMMA ListOfAsked ==
  ASSUME NEW specs, AreSpecs(specs), NEW n, n = Len(specs), NEW t, t = [i \in 1..n |-> t[i]],
         \A i \in 1..n : AsksMore(t[i], specs[i])
  PROVE  AreSpecs(t) /\ Len(t) = Len(specs) /\ \A i \in 1..Len(specs) : AsksMore(t[i], specs[i])
  <1>1. n \in Nat
    BY SpecOfList
  <1>2. \A i \in 1..n : IsSpec(t[i])
    BY DEF AsksMore, AsksOtherEntities
  <1>3. AreSpecs(t) /\ Len(t) = n
    BY <1>1, <1>2, ListOfSpecs
  <1>4. QED
    BY <1>3

LEMMA SpecUnchanged ==
  ASSUME NEW s, IsSpec(s)
  PROVE  AsksMore(s, s)
  BY DEF AsksMore, AsksOtherEntities

\* _reconcile_current_mentions adds what the message names; it takes no spec
\* away and none of what it says but the entities.
LEMMA ReconciledSpecs ==
  ASSUME NEW specs, AreSpecs(specs), NEW mentions, AreMentions(mentions), NEW frames,
         NEW t, t = Reconciled(specs, mentions, frames)
  PROVE  /\ AreSpecs(t) /\ Len(t) = Len(specs)
         /\ \A i \in 1..Len(specs) : AsksMore(t[i], specs[i])
         /\ mentions = <<>> => t = specs
  <1> DEFINE n == Len(specs)
             complete == [i \in 1..n |-> Complete(specs[i], mentions)]
             missing == Missing(complete, mentions, frames)
             mode == complete[1].entityMode
  <1>1. n \in Nat /\ \A i \in 1..n : IsSpec(specs[i])
    BY SpecOfList
  <1>2. ASSUME NEW i \in 1..n
        PROVE  AsksMore(complete[i], specs[i]) /\ IsSpec(complete[i])
    <2>1. complete[i] = Complete(specs[i], mentions) /\ IsSpec(specs[i])
      BY <1>1
    <2> HIDE DEF complete
    <2>2. AsksMore(complete[i], specs[i])
      <3> DEFINE s == specs[i]
                 c == complete[i]
      <3>1. IsSpec(s) /\ c = Complete(s, mentions)
        BY <2>1
      <3> HIDE DEF s, c
      <3>2. AsksMore(c, s)
        BY <3>1, CompleteSpec
      <3>3. QED
        BY <3>2 DEF s, c
    <2>3. QED
      BY <2>2 DEF AsksMore, AsksOtherEntities
  <1>3. AreMentions(missing)
    <2> HIDE DEF complete
    <2>1. PICK T : missing = Without(mentions, T)
      BY Zenon DEF Missing
    <2> HIDE DEF missing
    <2>2. IsList(missing) /\ Range(missing) = Range(mentions) \ T
      BY <2>1, ListWithout DEF AreMentions
    <2>3. QED
      BY <2>2 DEF AreMentions
  <1>4. IF mentions = <<>> THEN t = specs
        ELSE IF Len(mentions) = n /\ n > 1
        THEN t = [i \in 1..n |-> [Asked(complete[i], <<mentions[i]>>) EXCEPT !.handles = <<>>]]
        ELSE IF missing = <<>> THEN t = complete
        ELSE IF n = 1
        THEN t = <<[Asked(complete[1], complete[1].mentions \o missing) EXCEPT
                       !.entityMode = IF mode = "inherit" THEN "add" ELSE mode]>>
        ELSE IF Len(missing) = n THEN t = [i \in 1..n |-> Asked(complete[i], <<missing[i]>>)]
        ELSE IF Len(missing) = 1
        THEN t = [complete EXCEPT ![n] = Asked(complete[n], Append(complete[n].mentions, missing[1]))]
        ELSE t = complete
    BY Zenon DEF Reconciled, Asked
  <1>5. complete = [i \in 1..n |-> complete[i]]
    OBVIOUS
  <1>6. \A s : AreMentions(s) => \A i \in 1..Len(s) : AreMentions(<<s[i]>>) /\ <<s[i]>> # <<>>
    <2> SUFFICES ASSUME NEW s, AreMentions(s), NEW i \in 1..Len(s)
                 PROVE  AreMentions(<<s[i]>>) /\ <<s[i]>> # <<>>
      OBVIOUS
    <2>1. s \in Seq(Range(s)) /\ \A m \in Range(s) : IsMention(m)
      BY DEF AreMentions, IsList
    <2>2. IsMention(s[i])
      BY <2>1, ElementsOfList
    <2> DEFINE m == s[i]
    <2> HIDE DEF m
    <2>3. IsMention(m) => AreMentions(<<m>>) /\ <<m>> # <<>>
      BY OneMention
    <2>4. QED
      BY <2>2, <2>3 DEF m
  <1>7. missing # <<>> => Len(missing) \in Nat /\ Len(missing) > 0
    <2>1. missing \in Seq(Range(missing))
      BY <1>3 DEF AreMentions, IsList
    <2> HIDE DEF missing
    <2>2. QED
      BY <2>1, ElementsOfList
  <1> HIDE DEF complete, missing, mode
  <1>8. ASSUME NEW u, u = [i \in 1..n |-> u[i]], \A i \in 1..n : AsksMore(u[i], specs[i])
        PROVE  AreSpecs(u) /\ Len(u) = Len(specs) /\ \A i \in 1..Len(specs) : AsksMore(u[i], specs[i])
    <2>1. n = Len(specs)
      OBVIOUS
    <2> HIDE DEF n
    <2>2. QED
      BY <1>8, <2>1, ListOfAsked
  <1>9. ASSUME NEW i \in 1..n, NEW named, AreMentions(named), named # <<>>,
               NEW u, \/ u = Asked(complete[i], named)
                      \/ u = [Asked(complete[i], named) EXCEPT !.handles = <<>>]
                      \/ u = [Asked(complete[i], named) EXCEPT
                               !.entityMode = IF complete[i].entityMode = "inherit" THEN "add"
                                              ELSE complete[i].entityMode]
        PROVE  AsksMore(u, specs[i])
    <2> DEFINE c == complete[i]
               s == specs[i]
    <2>1. AsksMore(c, s) /\ IsSpec(c)
      BY <1>2
    <2>2. \/ u = Asked(c, named)
          \/ u = [Asked(c, named) EXCEPT !.handles = <<>>]
          \/ u = [Asked(c, named) EXCEPT
                    !.entityMode = IF c.entityMode = "inherit" THEN "add" ELSE c.entityMode]
      BY <1>9
    <2> HIDE DEF c, s
    <2>3. AsksMore(u, c) /\ u.mentions # <<>>
          /\ (c.entityMode \in {"replace", "add"} => u.entityMode \in {"replace", "add"})
      BY <1>9, <2>1, <2>2, AskedSpec
    <2>4. AsksMore(u, s)
      BY <2>1, <2>3, AsksMoreStill
    <2>5. QED
      BY <2>4 DEF s
  <1>10. CASE mentions = <<>>
    <2>1. t = specs
      BY <1>4, <1>10
    <2>2. QED
      BY <1>1, <2>1, SpecUnchanged
  <1>11. CASE mentions # <<>> /\ t = complete
    BY <1>2, <1>5, <1>8, <1>11
  <1>12. CASE mentions # <<>> /\ Len(mentions) = n
              /\ t = [i \in 1..n |-> [Asked(complete[i], <<mentions[i]>>) EXCEPT !.handles = <<>>]]
    <2>1. ASSUME NEW i \in 1..n
          PROVE  AsksMore(t[i], specs[i])
      <3> DEFINE named == <<mentions[i]>>
      <3>1. AreMentions(named) /\ named # <<>>
        BY <1>6, <1>12
      <3>2. t[i] = [Asked(complete[i], named) EXCEPT !.handles = <<>>]
        BY <1>12
      <3> HIDE DEF named
      <3>3. QED
        BY <1>9, <3>1, <3>2
    <2>2. t = [i \in 1..n |-> t[i]]
      BY <1>12
    <2>3. QED
      BY <1>8, <1>12, <2>1, <2>2
  <1>13. CASE mentions # <<>> /\ missing # <<>> /\ n = 1
              /\ t = <<[Asked(complete[1], complete[1].mentions \o missing) EXCEPT
                          !.entityMode = IF mode = "inherit" THEN "add" ELSE mode]>>
    <2> DEFINE named == complete[1].mentions \o missing
               u == [Asked(complete[1], named) EXCEPT
                          !.entityMode = IF mode = "inherit" THEN "add" ELSE mode]
    <2>1. AreMentions(complete[1].mentions) /\ 1 \in 1..n
      BY <1>2, <1>13 DEF IsSpec
    <2>2. AreMentions(named) /\ named # <<>>
      <3> DEFINE a == complete[1].mentions
      <3>1. AreMentions(a)
        BY <2>1
      <3> HIDE DEF a
      <3>2. AreMentions(a \o missing)
        BY <1>3, <3>1, MentionsTogether
      <3>3. a \o missing # <<>>
        <4> DEFINE S == Range(a) \cup Range(missing)
        <4>1. a \in Seq(S) /\ missing \in Seq(S)
          BY <1>3, <3>1 DEF AreMentions, IsList
        <4> HIDE DEF S
        <4>2. QED
          BY <1>13, <4>1, ElementsOfBoth
      <3>4. QED
        BY <3>2, <3>3 DEF a
    <2>3. u = [Asked(complete[1], named) EXCEPT
                 !.entityMode = IF complete[1].entityMode = "inherit" THEN "add"
                                ELSE complete[1].entityMode]
      BY DEF mode
    <2>4. t = <<u>>
      BY <1>13
    <2> HIDE DEF named, u
    <2>5. AsksMore(u, specs[1])
      BY <1>9, <2>1, <2>2, <2>3
    <2>6. t = [i \in 1..n |-> t[i]] /\ \A i \in 1..n : AsksMore(t[i], specs[i])
      BY <1>13, <2>4, <2>5
    <2>7. QED
      BY <1>8, <1>13, <2>6
  <1>14. CASE mentions # <<>> /\ Len(missing) = n
              /\ t = [i \in 1..n |-> Asked(complete[i], <<missing[i]>>)]
    <2>1. ASSUME NEW i \in 1..n
          PROVE  AsksMore(t[i], specs[i])
      <3> DEFINE named == <<missing[i]>>
      <3>1. AreMentions(named) /\ named # <<>>
        BY <1>3, <1>6, <1>14
      <3>2. t[i] = Asked(complete[i], named)
        BY <1>14
      <3> HIDE DEF named
      <3>3. QED
        BY <1>9, <3>1, <3>2
    <2>2. t = [i \in 1..n |-> t[i]]
      BY <1>14
    <2>3. QED
      BY <1>8, <1>14, <2>1, <2>2
  <1>15. CASE mentions # <<>> /\ missing # <<>> /\ Len(missing) = 1
              /\ t = [complete EXCEPT ![n] = Asked(complete[n], Append(complete[n].mentions, missing[1]))]
    <2> DEFINE a == complete[n].mentions
               m == missing[1]
               named == Append(a, m)
               u == Asked(complete[n], named)
    <2>1. CASE n = 0
      <3>1. t = [i \in 1..n |-> t[i]] /\ \A i \in 1..n : AsksMore(t[i], specs[i])
        BY <1>5, <1>15, <2>1
      <3>2. QED
        BY <1>8, <1>15, <3>1
    <2>2. CASE n # 0
      <3>1. n \in 1..n
        BY <1>1, <2>2
      <3>2. AreMentions(a)
        BY <1>2, <3>1 DEF IsSpec
      <3>3. IsMention(m)
        <4>1. missing \in Seq(Range(missing)) /\ 1 \in 1..Len(missing)
              /\ \A x \in Range(missing) : IsMention(x)
          BY <1>3, <1>15 DEF AreMentions, IsList
        <4>2. QED
          BY <4>1, ElementsOfList
      <3>4. t = [complete EXCEPT ![n] = u]
        BY <1>15
      <3>5. u = Asked(complete[n], named) /\ named = Append(a, m)
        OBVIOUS
      <3> HIDE DEF a, m, named, u
      <3>6. AreMentions(named) /\ named # <<>>
        <4>1. a \in Seq(Range(a)) /\ \A x \in Range(a) : IsMention(x)
          BY <3>2 DEF AreMentions, IsList
        <4> DEFINE S == Range(a) \cup {m}
        <4>2. a \in Seq(S) /\ m \in S /\ \A x \in S : IsMention(x)
          BY <3>3, <4>1
        <4> HIDE DEF S
        <4>3. named \in Seq(S) /\ Len(named) = Len(a) + 1 /\ Len(a) \in Nat
          BY <3>5, <4>2
        <4>4. IsList(named) /\ \A x \in Range(named) : x \in S
          BY <4>3, ListOfAny, ElementsOfList
        <4>5. QED
          BY <4>2, <4>3, <4>4, ElementsOfList DEF AreMentions
      <3>7. AsksMore(u, specs[n])
        BY <1>9, <3>1, <3>5, <3>6
      <3>8. /\ t = [i \in 1..n |-> t[i]]
            /\ t[n] = u /\ \A i \in 1..n : i # n => t[i] = complete[i]
        BY <1>5, <3>1, <3>4
      <3>9. \A i \in 1..n : AsksMore(t[i], specs[i])
        BY <1>2, <3>7, <3>8
      <3>10. QED
        BY <1>8, <1>15, <3>8, <3>9
    <2>3. QED
      BY <2>1, <2>2
  <1>16. QED
    BY <1>4, <1>10, <1>11, <1>12, <1>13, <1>14, <1>15

-----------------------------------------------------------------------------
(* The graph *)

\* The intent in force, if there is one.
IsActive(active) == active = <<>> \/ \E i : IsBound(i) /\ active = <<i>>

LEMMA ActiveOperands ==
  ASSUME NEW active, IsActive(active)
  PROVE  AreBoundOperands(FieldOf(active, "operands"))
  <1>1. CASE active = <<>>
    <2>1. FieldOf(active, "operands") = <<>>
      BY <1>1 DEF FieldOf
    <2>2. AreBoundOperands(<<>>)
      BY DEF AreBoundOperands, IsList, Range
    <2>3. QED
      BY <2>1, <2>2
  <1>2. CASE active # <<>>
    <2>1. PICK i : IsBound(i) /\ active = <<i>>
      BY <1>2 DEF IsActive
    <2>2. FieldOf(active, "operands") = i.operands
      BY <1>2, <2>1 DEF FieldOf
    <2>3. AreBoundOperands(i.operands)
      BY <2>1, BoundOperands DEF AreBoundOperands, IsBound, IsIntent, IsList
    <2>4. QED
      BY <2>2, <2>3
  <1>3. QED
    BY <1>1, <1>2

\* A list of operands that are each well formed makes an intent.
LEMMA BoundIntent ==
  ASSUME NEW i, DOMAIN i = {"operation", "operands", "periods", "grouping", "grain",
                            "comparison", "formula", "ranking"},
         NEW n \in Nat, i.operands = [k \in 1..n |-> i.operands[k]],
         \A k \in 1..n : IsOperand(i.operands[k]) /\ i.operands[k].entities \in Seq(Entities),
         IsList(i.grouping)
  PROVE  IsIntent(i) /\ Len(i.operands) = n /\ (ValidShape(i) => IsBound(i))
  <1> DEFINE s == i.operands
  <1>0. s = [k \in 1..n |-> s[k]]
        /\ \A k \in 1..n : IsOperand(s[k]) /\ s[k].entities \in Seq(Entities)
    OBVIOUS
  <1>a. s = i.operands
    OBVIOUS
  <1> HIDE DEF s
  <1>1. s \in Seq(Range(s)) /\ Len(s) = n
    BY <1>0, ListOfItsElements
  <1>2. \A x \in Range(s) : \E k \in 1..n : s[k] = x
    BY <1>1, ElementsOfList
  <1>3. IsIntent(i)
    BY <1>0, <1>1, <1>a DEF IsIntent, IsList
  <1>4. \A x \in Range(s) : x.entities \in Seq(Entities)
    BY <1>0, <1>2
  <1>5. QED
    BY <1>1, <1>3, <1>4, <1>a DEF IsBound

\* Each spec's own operand, the message's mentions taken in.
Compiled(g, mode, active, frames, mentions) ==
  [i \in 1..Len(g.operands) |->
     GraphOperand(Reconciled(g.operands, mentions, frames)[i], mode,
                  FieldOf(active, "operands"), GlobalPeriods(g, active, frames), frames)]

RunsAs(x, q) == q.kind = "bound" /\ x = q.operand[1]
AllRun(made, all, n) == \A j \in 1..n : RunsAs(made[j], all[j])

LEMMA ShapedGraphResult ==
  ASSUME NEW g, IsGraph(g), NEW mode, NEW active, IsActive(active),
         NEW frames, BoundFrames(frames), NEW mentions, AreMentions(mentions),
         NEW r, r = CompileShaped(g, mode, active, frames, mentions)
  PROVE  /\ r.kind \in {"bound", "binding", "relation"}
         /\ r.kind = "bound" =>
              /\ IsBound(r.intent)
              /\ Len(r.intent.operands) = Len(g.operands)
              /\ r.intent.periods = GlobalPeriods(g, active, frames)
              /\ AllRun(r.intent.operands, Compiled(g, mode, active, frames, mentions),
                        Len(g.operands))
         /\ r.kind = "relation" => \E x : IsBoundOperand(x) /\ r.operand = <<x>>
  <1> DEFINE specs == Reconciled(g.operands, mentions, frames)
             operands == FieldOf(active, "operands")
             globals == GlobalPeriods(g, active, frames)
             results == [i \in 1..Len(specs) |->
                           GraphOperand(specs[i], mode, operands, globals, frames)]
             all == Compiled(g, mode, active, frames, mentions)
             made == [i \in 1..Len(results) |-> results[i].operand[1]]
             intent == GraphIntent(g, made, globals)
             failed == SelectInSeq(results, LAMBDA x : x.kind # "bound")
             I == {i \in 1..Len(results) : results[i].kind # "bound"}
             n == Len(g.operands)
  <1>1. AreSpecs(g.operands)
    BY DEF IsGraph, AreSpecs
  <1>2. AreSpecs(specs) /\ Len(specs) = n
    BY <1>1, ReconciledSpecs
  <1>3. n \in Nat /\ \A i \in 1..n : IsSpec(specs[i])
    <2> HIDE DEF specs, n
    <2>1. QED
      BY <1>2, SpecOfList
  <1>4. AreBoundOperands(operands)
    BY ActiveOperands
  <1>5. ASSUME NEW i \in 1..n
        PROVE  /\ results[i] = all[i]
               /\ results[i].kind \in {"bound", "binding", "relation"}
               /\ results[i].kind # "binding" =>
                    \E x : IsBoundOperand(x) /\ results[i].operand = <<x>>
    <2> DEFINE spec == specs[i]
               x == GraphOperand(spec, mode, operands, globals, frames)
    <2>1. results[i] = x /\ all[i] = x
      BY <1>2 DEF Compiled
    <2>2. IsSpec(spec)
      BY <1>3
    <2> HIDE DEF spec, operands, globals, results, all
    <2>3. /\ x.kind \in {"bound", "binding", "relation"}
          /\ x.kind # "binding" => \E y : IsBoundOperand(y) /\ x.operand = <<y>>
      BY <1>4, <2>2, GraphOperandResult
    <2>4. QED
      BY <2>1, <2>3
  <1>6. results \in Seq(Range(results)) /\ Len(results) = n
    <2>1. results = [i \in 1..n |-> results[i]]
      BY <1>2
    <2> HIDE DEF results, n
    <2>2. QED
      BY <1>3, <2>1, ListOfItsElements
  <1>7. \/ r = BindingError
        \/ r = IF failed # 0 THEN results[failed]
               ELSE IF ValidShape(intent) THEN Bound(intent) ELSE BindingError
    BY Zenon DEF CompileShaped, CompileOperands, Combined, Validated
  <1>8. failed = IF I # {} THEN Min(I) ELSE 0
    BY Zenon DEF SelectInSeq
  <1>9. /\ failed = 0 => \A i \in 1..n : results[i].kind = "bound"
        /\ failed # 0 => failed \in 1..n /\ results[failed].kind # "bound"
    <2>1. /\ I \in SUBSET (1..Len(results)) /\ \A i \in I : results[i].kind # "bound"
          /\ \A i \in 1..Len(results) : results[i].kind # "bound" => i \in I
      OBVIOUS
    <2> HIDE DEF I, failed, results, n
    <2>2. (failed = 0 <=> I = {}) /\ (failed # 0 => failed \in I /\ failed \in 1..Len(results))
      BY <1>3, <1>6, <1>8, <2>1, FirstPlace
    <2>3. QED
      BY <1>6, <2>1, <2>2
  <1>10. intent.operands = made /\ intent.periods = globals /\ intent.grouping = g.grouping
         /\ DOMAIN intent = {"operation", "operands", "periods", "grouping", "grain",
                             "comparison", "formula", "ranking"}
    BY DEF GraphIntent
  <1>11. made = [i \in 1..n |-> made[i]] /\ \A i \in 1..n : made[i] = results[i].operand[1]
    BY <1>6
  <1>12. IsList(g.grouping)
    BY DEF IsGraph
  <1> HIDE DEF results, all, made, intent, failed, I, globals, operands, specs
  <1>13. CASE r = BindingError
    BY <1>13 DEF BindingError
  <1>14. CASE failed # 0 /\ r = results[failed]
    BY <1>5, <1>9, <1>14
  <1>15. CASE failed = 0 /\ ValidShape(intent) /\ r = Bound(intent)
    <2>1. r.kind = "bound" /\ r.intent = intent
      BY <1>15 DEF Bound
    <2>2. \A i \in 1..n : /\ results[i].kind = "bound"
                          /\ IsBoundOperand(made[i]) /\ made[i] = all[i].operand[1]
      BY <1>5, <1>9, <1>11, <1>15
    <2>3. \A i \in 1..n : IsOperand(made[i]) /\ made[i].entities \in Seq(Entities)
      BY <2>2 DEF IsBoundOperand
    <2> HIDE DEF n
    <2>4. IsIntent(intent) /\ Len(intent.operands) = n /\ IsBound(intent)
      BY <1>3, <1>10, <1>11, <1>12, <1>15, <2>3, BoundIntent
    <2>5. AllRun(made, all, n)
      BY <1>5, <1>9, <1>15, <2>2 DEF AllRun, RunsAs
    <2>6. QED
      BY <1>10, <2>1, <2>4, <2>5 DEF all, globals, n
  <1>16. QED
    BY <1>7, <1>13, <1>14, <1>15

\* _compile_graph
HasOperand(r) == \E x : IsBoundOperand(x) /\ r.operand = <<x>>

LEMMA GraphResult ==
  ASSUME NEW g, IsGraph(g), NEW mode, NEW active, IsActive(active),
         NEW frames, BoundFrames(frames), NEW mentions, AreMentions(mentions),
         NEW shaped, shaped = NormalShape(g, mentions),
         NEW r, r = CompileGraph(g, mode, active, frames, mentions)
  PROVE  /\ IsGraph(shaped)
         /\ r.kind \in {"bound", "binding", "relation"}
         /\ r.kind = "bound" => IsBound(r.intent)
         /\ r.kind = "relation" => HasOperand(r)
         /\ mode = "mutation" \/ frames # <<>> \/ active # <<>> =>
              r = CompileShaped(shaped, mode, active, frames, mentions)
         /\ mode # "mutation" /\ frames = <<>> /\ active = <<>> /\ r.kind = "bound" =>
              \A s \in Range(shaped.operands) : s.source = <<>>
  <1>1. IsGraph(shaped)
    BY ShapeOfGraph
  <1>2. CASE mode = "mutation" \/ frames # <<>> \/ active # <<>>
    <2>1. r = CompileShaped(shaped, mode, active, frames, mentions)
      BY <1>2 DEF CompileGraph
    <2>2. QED
      BY <1>1, <1>2, <2>1, ShapedGraphResult DEF HasOperand
  <1>3. CASE ~(mode = "mutation" \/ frames # <<>> \/ active # <<>>)
    <2> DEFINE freed == WithoutHandles(shaped, mentions, frames)
    <2>1. r = IF InventsPeriods(shaped, frames) THEN BindingError
              ELSE CompileShaped(freed, mode, active, frames, mentions)
      BY <1>3, Zenon DEF CompileGraph
    <2>2. CASE InventsPeriods(shaped, frames)
      BY <1>1, <1>3, <2>1, <2>2 DEF BindingError
    <2>3. CASE ~InventsPeriods(shaped, frames)
      <3>1. IsGraph(freed)
        BY <1>1, HandlesDropped
      <3>2. \A s \in Range(shaped.operands) : s.source = <<>>
        BY <2>3 DEF InventsPeriods
      <3> HIDE DEF freed
      <3>3. r = CompileShaped(freed, mode, active, frames, mentions)
        BY <2>1, <2>3
      <3>4. QED
        BY <1>1, <1>3, <3>1, <3>2, <3>3, ShapedGraphResult DEF HasOperand
    <2>4. QED
      BY <2>2, <2>3
  <1>4. QED
    BY <1>2, <1>3

-----------------------------------------------------------------------------
(* The draft *)

\* Lists one after the other.
LEMMA FlattenedList ==
  ASSUME NEW S, NEW s \in Seq(Seq(S))
  PROVE  FlattenSeq(s) \in Seq(S)
  <1> DEFINE n == Len(s)
  <1>1. n \in Nat /\ \A i \in 1..n : s[i] \in Seq(S)
    OBVIOUS
  <1>2. CASE n = 0
    <2>1. s = <<>>
      BY <1>2
    <2>2. FlattenSeq(s) = s
      BY <1>2, Zenon DEF FlattenSeq
    <2>3. <<>> \in Seq(S)
      OBVIOUS
    <2>4. QED
      BY <2>1, <2>2, <2>3
  <1>3. CASE n > 0
    BY <1>1, <1>3, FlattenedLists
  <1>4. QED
    BY <1>1, <1>2, <1>3

LEMMA ListFrom ==
  ASSUME NEW S, NEW n \in Nat, NEW t, t = [k \in 1..n |-> t[k]], \A k \in 1..n : t[k] \in S
  PROVE  t \in Seq(S) /\ Len(t) = n
  <1>1. t \in [1..n -> S]
    OBVIOUS
  <1>2. QED
    BY <1>1

LEMMA EditableFields ==
  ASSUME NEW i, IsBound(i)
  PROVE  /\ IsList(Editable(i).metrics) /\ Len(Editable(i).metrics) = Len(i.operands)
         /\ \A k \in 1..Len(i.operands) : Editable(i).metrics[k] = i.operands[k].metric
         /\ Editable(i).entities \in Seq(Entities)
         /\ Editable(i).grouping = i.grouping /\ IsList(i.grouping)
         /\ Editable(i).periods = i.periods /\ Editable(i).operation = <<i.operation>>
  <1> DEFINE n == Len(i.operands)
             s == Metrics(i)
             t == [k \in 1..Len(i.operands) |-> i.operands[k].entities]
  <1>1. i.operands \in Seq(Range(i.operands)) /\ n \in Nat /\ IsList(i.grouping)
    BY DEF IsBound, IsIntent, IsList
  <1>2. s = [k \in 1..n |-> i.operands[k].metric] /\ Editable(i).metrics = s
    BY DEF Metrics, Editable
  <1>3. IsList(s) /\ Len(s) = n /\ \A k \in 1..n : s[k] = i.operands[k].metric
    <2>1. s = [k \in 1..n |-> s[k]] /\ \A k \in 1..n : s[k] = i.operands[k].metric
      BY <1>2
    <2> HIDE DEF s, n
    <2>2. s \in Seq(Range(s)) /\ Len(s) = n
      BY <1>1, <2>1, ListOfItsElements
    <2>3. QED
      BY <2>1, <2>2 DEF IsList
  <1>4. FirstOfEach(FlattenSeq(t)) \in Seq(Entities)
    <2>1. t = [k \in 1..n |-> t[k]] /\ \A k \in 1..n : t[k] \in Seq(Entities)
      BY <1>1, ElementsOfList DEF IsBound
    <2> HIDE DEF t, n
    <2> DEFINE S == Seq(Entities)
    <2>5. t \in Seq(S)
      <3>1. \A k \in 1..n : t[k] \in S
        BY <2>1
      <3> HIDE DEF S
      <3>2. QED
        BY <1>1, <2>1, <3>1, ListFrom
    <2>2. t \in Seq(Seq(Entities))
      BY <2>5
    <2>3. FlattenSeq(t) \in Seq(Entities)
      BY <2>2, FlattenedList
    <2>4. QED
      BY <2>3, FirstOfEachElements
  <1>5. Editable(i).entities = FirstOfEach(FlattenSeq(t))
    BY DEF Editable, AllEntities
  <1>6. Editable(i).grouping = i.grouping /\ Editable(i).periods = i.periods
        /\ Editable(i).operation = <<i.operation>>
    BY DEF Editable
  <1>7. QED
    BY <1>1, <1>2, <1>3, <1>4, <1>5, <1>6

\* A directive makes a list of what it is given.
LEMMA DirectedType ==
  ASSUME NEW S, NEW d, NEW base, NEW scopes, NEW field,
         d.action \in {"keep", "set", "add", "remove", "clear", "reference"},
         d.action \in {"set", "add"} => d.values \in Seq(S),
         base # <<>> => Editable(base[1])[field] \in Seq(S),
         d.action = "reference" => Editable(scopes[d.scope][1])[field] \in Seq(S),
         NEW t, t = Directed(d, base, scopes, field)
  PROVE  t \in Seq(S)
  <1> DEFINE current == IF base = <<>> THEN <<>> ELSE Editable(base[1])[field]
  <1>1. current \in Seq(S)
    BY EmptySeq
  <1>2. /\ d.action = "keep" => t = current
        /\ d.action = "clear" => t = <<>>
        /\ d.action = "set" => t = d.values
        /\ d.action = "reference" => t = Editable(scopes[d.scope][1])[field]
        /\ d.action = "add" => t = current \o Without(d.values, Range(current))
        /\ d.action = "remove" => t = Without(current, Range(d.values))
    BY DEF Directed
  <1> HIDE DEF current
  <1>3. CASE d.action = "add"
    <2> DEFINE v == d.values
               w == Without(v, Range(current))
    <2>1. v \in Seq(S)
      BY <1>3
    <2> HIDE DEF v
    <2>2. w \in Seq(S)
      BY <2>1, ElementsWithout
    <2> HIDE DEF w
    <2>3. current \o w \in Seq(S)
      BY <1>1, <2>2, ElementsOfBoth
    <2>4. QED
      BY <1>2, <1>3, <2>3 DEF w, v
  <1>4. CASE d.action = "remove"
    <2>1. Without(current, Range(d.values)) \in Seq(S)
      BY <1>1, ElementsWithout
    <2>2. QED
      BY <1>2, <1>4, <2>1
  <1>5. CASE d.action = "clear"
    <2>1. <<>> \in Seq(S)
      OBVIOUS
    <2>2. QED
      BY <1>2, <1>5, <2>1
  <1>6. CASE d.action \in {"keep", "set", "reference"}
    BY <1>1, <1>2, <1>6
  <1>7. QED
    BY <1>3, <1>4, <1>5, <1>6

AreScopes(scopes) ==
  \A s \in {"active_dialog_scope", "last_attempted_scope", "last_successful_scope"} :
    IsActive(scopes[s])

LEMMA DirectedLists ==
  ASSUME NEW base, IsActive(base), NEW scopes, AreScopes(scopes), NEW d,
         IsDirective(d, {"keep", "set", "add", "remove", "clear", "reference"}),
         d.action = "reference" => scopes[d.scope] # <<>>,
         NEW field \in {"metrics", "grouping"},
         NEW t, t = Directed(d, base, scopes, field)
  PROVE  /\ IsList(t)
         /\ d.action = "keep" /\ base # <<>> => t = Editable(base[1])[field]
  <1> DEFINE current == IF base = <<>> THEN <<>> ELSE Editable(base[1])[field]
             referred == Editable(scopes[d.scope][1])[field]
             S == Range(current) \cup Range(d.values) \cup Range(referred)
  <1>1. \A i : IsBound(i) => IsList(Editable(i)[field])
    BY EditableFields
  <1>2. base # <<>> => IsList(Editable(base[1])[field])
    BY <1>1 DEF IsActive
  <1>3. d.action = "reference" => IsList(referred)
    <2> SUFFICES ASSUME d.action = "reference"
                 PROVE  IsList(referred)
      OBVIOUS
    <2>1. d.scope \in {"active_dialog_scope", "last_attempted_scope", "last_successful_scope"}
      BY DEF IsDirective
    <2>2. PICK i : IsBound(i) /\ scopes[d.scope] = <<i>>
      BY <2>1 DEF AreScopes, IsActive
    <2>3. QED
      BY <1>1, <2>2
  <1>4. IsList(d.values) /\ d.action \in {"keep", "set", "add", "remove", "clear", "reference"}
    BY DEF IsDirective
  <1>5. /\ base # <<>> => Editable(base[1])[field] \in Seq(S)
        /\ d.action = "reference" => referred \in Seq(S)
        /\ d.values \in Seq(S)
    <2>1. \A x : IsList(x) /\ Range(x) \subseteq S => x \in Seq(S)
      BY DEF IsList
    <2>2. /\ base # <<>> => Range(Editable(base[1])[field]) \subseteq S
          /\ Range(referred) \subseteq S /\ Range(d.values) \subseteq S
      OBVIOUS
    <2> HIDE DEF S
    <2>3. QED
      BY <1>2, <1>3, <1>4, <2>1, <2>2
  <1> HIDE DEF S
  <1>6. t \in Seq(S)
    BY <1>4, <1>5, DirectedType
  <1>7. d.action = "keep" /\ base # <<>> => t = Editable(base[1])[field]
    BY DEF Directed
  <1>8. QED
    BY <1>6, <1>7, ListOfAny

LEMMA DraftEntitiesBound ==
  ASSUME NEW base, IsActive(base), NEW d,
         d.action \in {"keep", "set", "add", "remove", "clear"},
         AreMentions(d.mentions), MentionsBound(d),
         NEW t, t = DraftEntities(d, base)
  PROVE  t \in Seq(Entities)
  <1> DEFINE named == IF d.action \in {"keep", "clear"} THEN <<>>
                      ELSE BindOperand(d.mentions, <<>>, None)
             e == [action |-> d.action, values |-> named]
             noScopes == <<>>
  <1>1. named \in Seq(Entities)
    <2>1. CASE d.action \in {"keep", "clear"}
      <3>1. <<>> \in Seq(Entities)
        OBVIOUS
      <3>2. QED
        BY <2>1, <3>1
    <2>2. CASE d.action \notin {"keep", "clear"}
      <3> DEFINE mentions == d.mentions
                 b == BindOperand(mentions, <<>>, None)
      <3>1. AreMentions(mentions) /\ Bindable(mentions, <<>>, None) /\ named = b
        BY <2>2 DEF MentionsBound
      <3> HIDE DEF mentions, named
      <3>2. b \in Seq(Entities)
        BY <3>1, BindOperandEntities
      <3>3. QED
        BY <3>1, <3>2
    <2>3. QED
      BY <2>1, <2>2
  <1>2. t = Directed(e, base, noScopes, "entities")
    BY Zenon DEF DraftEntities
  <1>3. base # <<>> => Editable(base[1]).entities \in Seq(Entities)
    BY EditableFields DEF IsActive
  <1> HIDE DEF named
  <1>4. e.action = d.action /\ e.values = named
    OBVIOUS
  <1> HIDE DEF e, noScopes
  <1> DEFINE field == "entities"
  <1>5. base # <<>> => Editable(base[1])[field] \in Seq(Entities)
    BY <1>3
  <1>6. t = Directed(e, base, noScopes, field)
    BY <1>2
  <1> HIDE DEF field
  <1>7. QED
    BY <1>1, <1>4, <1>5, <1>6, DirectedType

\* Operands before the contract has seen their entities.
PlainOperands(s) ==
  IsList(s) /\ \A k \in 1..Len(s) : IsOperand(s[k]) /\ s[k].entities \in Seq(Entities)

LEMMA ListOfPlain ==
  ASSUME NEW n \in Nat, NEW t, t = [k \in 1..n |-> t[k]],
         \A k \in 1..n : IsOperand(t[k]) /\ t[k].entities \in Seq(Entities)
  PROVE  PlainOperands(t) /\ Len(t) = n
  <1>1. t \in Seq(Range(t)) /\ Len(t) = n
    BY ListOfItsElements
  <1>2. QED
    BY <1>1 DEF PlainOperands, IsList

LEMMA PlainBound ==
  ASSUME NEW i, IsBound(i)
  PROVE  PlainOperands(i.operands) /\ Len(i.operands) \in Nat /\ i.operands # <<>>
  <1> DEFINE s == i.operands
  <1>1. s \in Seq(Range(s)) /\ \A o \in Range(s) : IsBoundOperand(o)
    BY BoundOperands DEF IsBound, IsIntent
  <1>2. Len(s) >= 1
    BY DEF IsBound, ValidShape
  <1> HIDE DEF s
  <1>3. \A k \in 1..Len(s) : s[k] \in Range(s)
    BY <1>1, ElementsOfList
  <1>4. Len(s) \in Nat /\ s # <<>>
    BY <1>1, <1>2
  <1>5. PlainOperands(s)
    BY <1>1, <1>3 DEF PlainOperands, IsList, IsBoundOperand
  <1>6. QED
    BY <1>4, <1>5 DEF s

LEMMA NewOperand ==
  ASSUME NEW o, DOMAIN o = {"id", "metric", "agg", "entities", "periods"}, o.periods = <<>>
  PROVE  IsOperand(o)
  <1> DEFINE S == Range(o.periods)
  <1>1. <<>> \in Seq(S)
    OBVIOUS
  <1>2. o.periods \in Seq(S)
    BY <1>1
  <1>3. QED
    BY <1>2 DEF IsOperand

\* _materialize_operands
LEMMA MadeOperands ==
  ASSUME NEW base, IsActive(base), NEW metrics, IsList(metrics),
         NEW entities \in Seq(Entities), NEW action, NEW operation,
         Materializable(base, metrics, entities, action, operation),
         NEW t, t = DraftOperands(base, metrics, entities, action, operation)
  PROVE  /\ PlainOperands(t) /\ t # <<>>
         /\ action = "keep" /\ base # <<>> =>
              /\ Len(t) = Len(base[1].operands)
              /\ \A k \in 1..Len(t) : t[k] = [base[1].operands[k] EXCEPT !.metric = metrics[k]]
  <1> DEFINE existing == IF base = <<>> THEN <<>> ELSE base[1].operands
             role == CHOOSE r \in VaryingRoles(entities) : TRUE
             varying == OfRoles(entities, {role})
             shared == OfRoles(entities, EntityRoles \ {role})
  <1>1. /\ base = <<>> => existing = <<>>
        /\ base # <<>> => existing = base[1].operands /\ PlainOperands(existing) /\ existing # <<>>
                          /\ Len(existing) \in Nat
    BY PlainBound DEF IsActive
  <1>2. metrics # <<>> /\ Len(metrics) \in Nat
    BY DEF Materializable, IsList
  <1>3. CASE IsMatrix(operation, action, entities)
    <2>1. varying \in Seq(Entities) /\ shared \in Seq(Entities)
      BY ElementsOfRoles
    <2>2. role \in VaryingRoles(entities) /\ action = "set"
      BY <1>3 DEF IsMatrix
    <2>3. varying # <<>>
      <3>1. Len(varying) > 1
        BY <2>2 DEF VaryingRoles
      <3> HIDE DEF varying
      <3>2. QED
        BY <3>1
    <2> DEFINE n == Len(varying)
    <2>4. t = [i \in 1..n |->
                 [[id |-> <<"operand", i>>, metric |-> metrics[1],
                   agg |-> MetricDefinition(metrics[1]).default,
                   entities |-> Append(shared, varying[i]), periods |-> <<>>] EXCEPT !.agg = "sum"]]
      BY <1>3, Zenon DEF DraftOperands
    <2> HIDE DEF varying, shared
    <2>5. n \in Nat /\ n # 0
      BY <2>1, <2>3
    <2>6. ASSUME NEW k \in 1..n
          PROVE  IsOperand(t[k]) /\ t[k].entities \in Seq(Entities)
      <3>1. varying[k] \in Entities
        BY <2>1
      <3>2. Append(shared, varying[k]) \in Seq(Entities)
        BY <2>1, <3>1
      <3>3. /\ t[k].entities = Append(shared, varying[k]) /\ t[k].periods = <<>>
            /\ DOMAIN t[k] = {"id", "metric", "agg", "entities", "periods"}
        BY <2>4
      <3>4. QED
        BY <3>2, <3>3, NewOperand
    <2>7. t = [k \in 1..n |-> t[k]]
      BY <2>4
    <2>8. PlainOperands(t) /\ Len(t) = n
      BY <2>5, <2>6, <2>7, ListOfPlain
    <2>9. QED
      BY <2>2, <2>5, <2>8
  <1>4. CASE ~IsMatrix(operation, action, entities) /\ action = "keep" /\ existing # <<>>
    <2> DEFINE n == Len(existing)
    <2>1. t = [i \in 1..n |-> [existing[i] EXCEPT !.metric = metrics[i]]]
      BY <1>4 DEF DraftOperands
    <2>2. base # <<>> /\ PlainOperands(existing) /\ n \in Nat /\ n # 0
      BY <1>1, <1>4 DEF PlainOperands, IsList
    <2> HIDE DEF existing
    <2>3. ASSUME NEW k \in 1..n
          PROVE  IsOperand(t[k]) /\ t[k].entities \in Seq(Entities)
      <3>1. IsOperand(existing[k]) /\ existing[k].entities \in Seq(Entities)
        BY <2>2 DEF PlainOperands
      <3>2. QED
        BY <2>1, <3>1 DEF IsOperand
    <2>4. t = [k \in 1..n |-> t[k]]
      BY <2>1
    <2>5. PlainOperands(t) /\ Len(t) = n
      BY <2>2, <2>3, <2>4, ListOfPlain
    <2>6. QED
      BY <1>1, <2>1, <2>2, <2>5
  <1>5. CASE ~IsMatrix(operation, action, entities) /\ ~(action = "keep" /\ existing # <<>>)
    <2> DEFINE n == Len(metrics)
               template(i) == existing[IF i < Len(existing) THEN i ELSE Len(existing)]
    <2>1. n \in Nat /\ n # 0
      BY <1>2 DEF IsList
    <2>2. t = [i \in 1..n |->
                 IF existing = <<>>
                 THEN [id |-> <<"operand", i>>, metric |-> metrics[i],
                       agg |-> MetricDefinition(metrics[i]).default,
                       entities |-> entities, periods |-> <<>>]
                 ELSE [id |-> IF Len(metrics) = Len(existing) THEN template(i).id
                              ELSE <<"operand", i>>,
                       metric |-> metrics[i],
                       agg |-> IF template(i).metric = metrics[i] THEN template(i).agg
                               ELSE MetricDefinition(metrics[i]).default,
                       entities |-> entities, periods |-> template(i).periods]]
      BY <1>5 DEF DraftOperands
    <2> HIDE DEF existing
    <2>3. ASSUME NEW k \in 1..n
          PROVE  IsOperand(t[k]) /\ t[k].entities \in Seq(Entities)
      <3>1. CASE existing = <<>>
        <4>1. /\ t[k].entities = entities /\ t[k].periods = <<>>
              /\ DOMAIN t[k] = {"id", "metric", "agg", "entities", "periods"}
          BY <2>2, <3>1
        <4>2. QED
          BY <4>1, NewOperand
      <3>2. CASE existing # <<>>
        <4> DEFINE j == IF k < Len(existing) THEN k ELSE Len(existing)
        <4>1. PlainOperands(existing) /\ Len(existing) \in Nat /\ Len(existing) # 0
          BY <1>1, <3>2 DEF PlainOperands, IsList
        <4>2. j \in 1..Len(existing)
          BY <4>1, <2>1
        <4>3. IsOperand(existing[j])
          BY <4>1, <4>2 DEF PlainOperands
        <4>4. t[k].entities = entities /\ t[k].periods = existing[j].periods
              /\ DOMAIN t[k] = {"id", "metric", "agg", "entities", "periods"}
          BY <2>2, <3>2
        <4>5. QED
          BY <4>3, <4>4 DEF IsOperand
      <3>3. QED
        BY <3>1, <3>2
    <2>4. t = [k \in 1..n |-> t[k]]
      BY <2>2
    <2>5. PlainOperands(t) /\ Len(t) = n
      BY <2>1, <2>3, <2>4, ListOfPlain
    <2>6. ~(action = "keep" /\ base # <<>>)
      BY <1>1, <1>5
    <2>7. QED
      BY <2>1, <2>5, <2>6
  <1>6. QED
    BY <1>3, <1>4, <1>5

LEMMA AggregateSet ==
  ASSUME NEW made, PlainOperands(made), NEW d, NEW t, t = WithAggregate(made, d)
  PROVE  /\ PlainOperands(t) /\ Len(t) = Len(made)
         /\ \A k \in 1..Len(made) :
              /\ t[k].metric = made[k].metric /\ t[k].periods = made[k].periods
              /\ t[k].entities = made[k].entities
  <1> DEFINE n == Len(made)
  <1>1. n \in Nat /\ \A k \in 1..n : IsOperand(made[k]) /\ made[k].entities \in Seq(Entities)
    BY DEF PlainOperands, IsList
  <1>2. t = [k \in 1..n |-> t[k]]
    BY DEF WithAggregate
  <1>3. ASSUME NEW k \in 1..n
        PROVE  /\ IsOperand(t[k]) /\ t[k].entities \in Seq(Entities)
               /\ t[k].metric = made[k].metric /\ t[k].periods = made[k].periods
               /\ t[k].entities = made[k].entities
    <2>1. t[k] = [made[k] EXCEPT !.agg = CASE d.action = "set" -> d.values[1]
                                           [] d.action = "clear" -> made[k].agg
                                           [] OTHER -> made[1].agg]
      BY DEF WithAggregate
    <2>2. \E a : t[k] = [made[k] EXCEPT !.agg = a]
      BY <2>1, Zenon
    <2>3. IsOperand(made[k]) /\ made[k].entities \in Seq(Entities)
      BY <1>1
    <2>4. QED
      BY <2>2, <2>3 DEF IsOperand
  <1>4. PlainOperands(t) /\ Len(t) = n
    BY <1>1, <1>2, <1>3, ListOfPlain
  <1>5. QED
    BY <1>3, <1>4

LEMMA TurnedOperands ==
  ASSUME NEW made, PlainOperands(made), NEW reverse, NEW t, t = Turned(made, reverse)
  PROVE  /\ PlainOperands(t) /\ Len(t) = Len(made)
         /\ \A k \in 1..Len(made) :
              /\ t[k].metric = made[k].metric /\ t[k].periods = made[k].periods
              /\ ~reverse => t[k].entities = made[k].entities
  <1>1. CASE ~reverse
    BY <1>1 DEF Turned
  <1>2. CASE reverse
    <2> DEFINE n == Len(made)
    <2>1. n \in Nat /\ \A k \in 1..n : IsOperand(made[k]) /\ made[k].entities \in Seq(Entities)
      BY DEF PlainOperands, IsList
    <2>2. t = [k \in 1..n |-> SwapEnds(made[k])]
      BY <1>2 DEF Turned
    <2>3. ASSUME NEW k \in 1..n
          PROVE  OnlyEntitiesDiffer(t[k], made[k]) /\ t[k].entities \in Seq(Entities)
      <3> DEFINE o == made[k]
                 u == SwapEnds(o)
      <3>1. IsOperand(o) /\ o.entities \in Seq(Entities) /\ t[k] = u
        BY <2>1, <2>2
      <3> HIDE DEF o
      <3>2. OnlyEntitiesDiffer(u, o) /\ u.entities \in Seq(Entities)
        BY <3>1, EndsSwapped
      <3>3. QED
        BY <3>1, <3>2 DEF o
    <2>4. t = [k \in 1..n |-> t[k]]
      BY <2>2
    <2>5. \A k \in 1..n : IsOperand(t[k]) /\ t[k].metric = made[k].metric
                          /\ t[k].periods = made[k].periods
      BY <2>3 DEF OnlyEntitiesDiffer
    <2>6. PlainOperands(t) /\ Len(t) = n
      BY <2>1, <2>3, <2>4, <2>5, ListOfPlain
    <2>7. QED
      BY <1>2, <2>5, <2>6
  <1>3. QED
    BY <1>1, <1>2

\* _scalar gives one operation or none.
LEMMA DirectedOperation ==
  ASSUME NEW base, IsActive(base), NEW scopes, AreScopes(scopes), NEW d,
         IsDirective(d, {"keep", "set", "clear", "reference"}), Len(d.values) <= 1,
         d.action = "reference" => scopes[d.scope] # <<>>,
         NEW t, t = Directed(d, base, scopes, "operation"), t # <<>>
  PROVE  /\ t = <<t[1]>>
         /\ d.action = "keep" /\ base # <<>> => t[1] = base[1].operation
  <1>1. \A i : Editable(i).operation = <<i.operation>>
    BY DEF Editable
  <1>2. d.action \in {"keep", "set", "clear", "reference"}
    BY DEF IsDirective
  <1>3. CASE d.action = "keep"
    BY <1>1, <1>3 DEF Directed
  <1>4. CASE d.action = "set"
    <2> DEFINE v == d.values
    <2>1. v \in Seq(Range(v)) /\ Len(v) <= 1 /\ t = v
      BY <1>4 DEF IsDirective, IsList, Directed
    <2> HIDE DEF v
    <2>2. t = <<t[1]>>
      BY <2>1
    <2>3. QED
      BY <1>4, <2>2
  <1>5. CASE d.action = "reference"
    BY <1>1, <1>5 DEF Directed
  <1>6. CASE d.action = "clear"
    BY <1>6 DEF Directed
  <1>7. QED
    BY <1>2, <1>3, <1>4, <1>5, <1>6

\* A draft is compiled to an intent the contract accepts, or to nothing; what its
\* directives keep is that of the intent it edits.
KeptByDraft(d, was, is) ==
  /\ d.operation.action = "keep" => is.operation = was.operation
  /\ d.periods.action = "keep" => is.periods = was.periods
  /\ d.metrics.action = "keep" /\ d.entities.action = "keep" =>
       /\ Len(is.operands) = Len(was.operands)
       /\ \A k \in 1..Len(was.operands) :
            /\ is.operands[k].metric = was.operands[k].metric
            /\ is.operands[k].periods = was.operands[k].periods
            /\ ~d.reverse => is.operands[k].entities = was.operands[k].entities

LEMMA DraftResult ==
  ASSUME NEW d, IsDraft(d), NEW base, IsActive(base), NEW scopes, AreScopes(scopes),
         NEW asked, asked = Directed(d.operation, base, scopes, "operation"),
         NEW r, r = FromBase(d, base, scopes)
  PROVE  /\ r.kind \in {"bound", "binding", "crash"}
         /\ r.kind = "bound" =>
              /\ IsBound(r.intent)
              /\ asked = <<r.intent.operation>>
              /\ base # <<>> => KeptByDraft(d, base[1], r.intent)
  <1> DEFINE metrics == Directed(d.metrics, base, scopes, "metrics")
             grouping == Directed(d.grouping, base, scopes, "grouping")
             entities == DraftEntities(d.entities, base)
             action == d.entities.action
             operation == asked[1]
             made == DraftOperands(base, metrics, entities, action, operation)
             summed == WithAggregate(made, d.agg)
             operands == Turned(summed, d.reverse)
             intent == DraftIntent(d, base, scopes, operation, operands)
  <1>1. /\ r.kind \in {"bound", "binding", "crash"}
        /\ r.kind = "bound" =>
             /\ Referable(d, scopes) /\ MentionsBound(d.entities) /\ asked # <<>>
             /\ Materializable(base, metrics, entities, action, operation)
             /\ r = FromMade(d, base, scopes, operation, made)
    BY Zenon DEF FromBase, FromFields, BindingError, FromMade, FromOperands, Crash, Bound
  <1>2. r.kind = "bound" => ValidShape(intent) /\ r.intent = intent
    <2>1. FromMade(d, base, scopes, operation, made).kind = "bound" =>
            FromMade(d, base, scopes, operation, made)
              = FromOperands(d, base, scopes, operation, operands)
      BY DEF FromMade, Crash
    <2>2. FromOperands(d, base, scopes, operation, operands).kind = "bound" =>
            /\ ValidShape(intent)
            /\ FromOperands(d, base, scopes, operation, operands).intent = intent
      BY DEF FromOperands, Crash, BindingError, Bound
    <2> HIDE DEF operation, made, operands, intent
    <2>3. QED
      BY <1>1, <2>1, <2>2
  <1> SUFFICES ASSUME r.kind = "bound"
               PROVE  /\ IsBound(intent)
                      /\ asked = <<intent.operation>>
                      /\ base # <<>> => KeptByDraft(d, base[1], intent)
    <2> HIDE DEF intent, made, entities, metrics, operation
    <2>1. QED
      BY <1>1, <1>2
  <1>3. /\ d.metrics.action = "reference" => scopes[d.metrics.scope] # <<>>
        /\ d.grouping.action = "reference" => scopes[d.grouping.scope] # <<>>
        /\ d.operation.action = "reference" => scopes[d.operation.scope] # <<>>
    BY <1>1 DEF Referable
  <1>4. /\ IsDirective(d.metrics, {"keep", "set", "add", "remove", "clear", "reference"})
        /\ IsDirective(d.grouping, {"keep", "set", "add", "remove", "clear", "reference"})
        /\ IsDirective(d.operation, {"keep", "set", "clear", "reference"})
        /\ Len(d.operation.values) <= 1
    BY DEF IsDraft
  <1>5. /\ IsList(metrics)
        /\ d.metrics.action = "keep" /\ base # <<>> => metrics = Editable(base[1]).metrics
    <2> DEFINE e == d.metrics
               field == "metrics"
    <2>1. field \in {"metrics", "grouping"} /\ metrics = Directed(e, base, scopes, field)
      OBVIOUS
    <2>2. /\ IsDirective(e, {"keep", "set", "add", "remove", "clear", "reference"})
          /\ e.action = "reference" => scopes[e.scope] # <<>>
      BY <1>3, <1>4
    <2> HIDE DEF e, metrics, field
    <2>3. IsList(metrics) /\ (e.action = "keep" /\ base # <<>> => metrics = Editable(base[1])[field])
      BY <2>1, <2>2, DirectedLists
    <2>4. QED
      BY <2>3 DEF e, field
  <1>6. IsList(grouping)
    <2> DEFINE e == d.grouping
               field == "grouping"
    <2>1. field \in {"metrics", "grouping"} /\ grouping = Directed(e, base, scopes, field)
      OBVIOUS
    <2>2. /\ IsDirective(e, {"keep", "set", "add", "remove", "clear", "reference"})
          /\ e.action = "reference" => scopes[e.scope] # <<>>
      BY <1>3, <1>4
    <2> HIDE DEF e, grouping, field
    <2>3. QED
      BY <2>1, <2>2, DirectedLists
  <1>7. entities \in Seq(Entities)
    <2> DEFINE e == d.entities
    <2>1. /\ e.action \in {"keep", "set", "add", "remove", "clear"}
          /\ AreMentions(e.mentions) /\ MentionsBound(e) /\ entities = DraftEntities(e, base)
      BY <1>1 DEF IsDraft
    <2> HIDE DEF e, entities
    <2>2. QED
      BY <2>1, DraftEntitiesBound
  <1>8. /\ asked = <<operation>>
        /\ d.operation.action = "keep" /\ base # <<>> => operation = base[1].operation
    <2> DEFINE e == d.operation
    <2>1. /\ IsDirective(e, {"keep", "set", "clear", "reference"}) /\ Len(e.values) <= 1
          /\ e.action = "reference" => scopes[e.scope] # <<>>
          /\ asked = Directed(e, base, scopes, "operation") /\ asked # <<>>
      BY <1>1, <1>3, <1>4
    <2> HIDE DEF e
    <2>2. asked = <<asked[1]>> /\ (e.action = "keep" /\ base # <<>> => asked[1] = base[1].operation)
      BY <2>1, DirectedOperation
    <2>3. QED
      BY <2>2 DEF e
  <1>9. /\ PlainOperands(made)
        /\ action = "keep" /\ base # <<>> =>
             /\ Len(made) = Len(base[1].operands)
             /\ \A k \in 1..Len(made) : made[k] = [base[1].operands[k] EXCEPT !.metric = metrics[k]]
    <2> HIDE DEF metrics, entities, action, operation
    <2>1. made = DraftOperands(base, metrics, entities, action, operation)
      OBVIOUS
    <2>2. Materializable(base, metrics, entities, action, operation)
      BY <1>1
    <2> HIDE DEF made
    <2>3. QED
      BY <1>5, <1>7, <2>1, <2>2, MadeOperands
  <1>10. /\ PlainOperands(summed) /\ Len(summed) = Len(made)
         /\ \A k \in 1..Len(made) :
              /\ summed[k].metric = made[k].metric /\ summed[k].periods = made[k].periods
              /\ summed[k].entities = made[k].entities
    <2> DEFINE e == d.agg
    <2>1. summed = WithAggregate(made, e)
      OBVIOUS
    <2> HIDE DEF made, e, summed
    <2>2. QED
      BY <1>9, <2>1, AggregateSet
  <1>11. /\ PlainOperands(operands) /\ Len(operands) = Len(made)
         /\ \A k \in 1..Len(made) :
              /\ operands[k].metric = made[k].metric /\ operands[k].periods = made[k].periods
              /\ ~d.reverse => operands[k].entities = made[k].entities
    <2> DEFINE reverse == d.reverse
    <2>1. operands = Turned(summed, reverse)
      OBVIOUS
    <2> HIDE DEF summed, reverse, operands, made
    <2>2. /\ PlainOperands(operands) /\ Len(operands) = Len(summed)
          /\ \A k \in 1..Len(summed) :
               /\ operands[k].metric = summed[k].metric /\ operands[k].periods = summed[k].periods
               /\ ~reverse => operands[k].entities = summed[k].entities
      BY <1>10, <2>1, TurnedOperands
    <2>3. QED
      BY <1>10, <2>2 DEF reverse
  <1>12. /\ DOMAIN intent = {"operation", "operands", "periods", "grouping", "grain",
                             "comparison", "formula", "ranking"}
         /\ intent.operands = operands /\ intent.grouping = grouping
         /\ intent.operation = operation
         /\ intent.periods = Directed(d.periods, base, scopes, "periods")
    <2> HIDE DEF operands, operation
    <2>1. QED
      BY DEF DraftIntent
  <1>13. IsBound(intent)
    <2> HIDE DEF operands, grouping, intent, made
    <2> DEFINE n == Len(operands)
    <2>1. n \in Nat /\ operands = [k \in 1..n |-> operands[k]]
          /\ \A k \in 1..n : IsOperand(operands[k]) /\ operands[k].entities \in Seq(Entities)
      BY <1>11 DEF PlainOperands, IsList
    <2> HIDE DEF n
    <2>2. QED
      BY <1>2, <1>6, <1>12, <2>1, BoundIntent
  <1>14. d.periods.action = "keep" /\ base # <<>> => intent.periods = base[1].periods
    <2>1. \A i : Editable(i)["periods"] = i.periods
      BY DEF Editable
    <2>2. d.periods.action = "keep" /\ base # <<>> =>
            Directed(d.periods, base, scopes, "periods") = Editable(base[1])["periods"]
      BY DEF Directed
    <2> HIDE DEF intent
    <2>3. QED
      BY <1>12, <2>1, <2>2
  <1>15. d.metrics.action = "keep" /\ d.entities.action = "keep" /\ base # <<>> =>
           /\ Len(operands) = Len(base[1].operands)
           /\ \A k \in 1..Len(base[1].operands) :
                /\ operands[k].metric = base[1].operands[k].metric
                /\ operands[k].periods = base[1].operands[k].periods
                /\ ~d.reverse => operands[k].entities = base[1].operands[k].entities
    <2> SUFFICES ASSUME d.metrics.action = "keep", action = "keep", base # <<>>
                 PROVE  /\ Len(operands) = Len(base[1].operands)
                        /\ \A k \in 1..Len(base[1].operands) :
                             /\ operands[k].metric = base[1].operands[k].metric
                             /\ operands[k].periods = base[1].operands[k].periods
                             /\ ~d.reverse => operands[k].entities = base[1].operands[k].entities
      OBVIOUS
    <2> DEFINE b == base[1]
    <2>1. IsBound(b)
      BY DEF IsActive
    <2> HIDE DEF operands, made, metrics, action
    <2>2. /\ PlainOperands(b.operands)
          /\ \A k \in 1..Len(b.operands) : metrics[k] = b.operands[k].metric
      BY <1>5, <2>1, EditableFields, PlainBound
    <2>3. /\ Len(made) = Len(b.operands)
          /\ \A k \in 1..Len(b.operands) : made[k] = [b.operands[k] EXCEPT !.metric = metrics[k]]
      BY <1>9
    <2> HIDE DEF b
    <2>4. ASSUME NEW k \in 1..Len(b.operands)
          PROVE  /\ operands[k].metric = b.operands[k].metric
                 /\ operands[k].periods = b.operands[k].periods
                 /\ ~d.reverse => operands[k].entities = b.operands[k].entities
      <3>1. IsOperand(b.operands[k])
        BY <2>2 DEF PlainOperands
      <3>2. /\ made[k].metric = b.operands[k].metric /\ made[k].periods = b.operands[k].periods
            /\ made[k].entities = b.operands[k].entities
        BY <2>2, <2>3, <3>1 DEF IsOperand
      <3>3. QED
        BY <1>11, <2>3, <3>2
    <2>5. QED
      BY <1>11, <2>3, <2>4 DEF b
  <1>16. QED
    <2> HIDE DEF intent, operands, operation
    <2>1. QED
      BY <1>8, <1>12, <1>13, <1>14, <1>15 DEF KeptByDraft

-----------------------------------------------------------------------------
(* The session a turn starts from *)

JournalBound == IsList(journal) /\ \A row \in Range(journal) : IsBound(row.intent)

\* The turn a frame stands for.
TurnOf(turn) == IF Revision = since THEN Active ELSE turn

LEMMA StoredTurns ==
  ASSUME JournalBound
  PROVE  /\ Revision \in Nat /\ \A t \in 1..Revision : IsBound(journal[t].intent)
         /\ Active = 0 \/ Active \in 1..Revision
         /\ IsActive(ActiveIntent)
         /\ Active = 0 => ActiveIntent = <<>>
         /\ Active # 0 => ActiveIntent = <<journal[Active].intent>>
                          /\ IsBound(journal[Active].intent)
  <1>1. journal \in Seq(Range(journal)) /\ Revision \in Nat
    BY DEF JournalBound, IsList, Revision
  <1>2. \A t \in 1..Revision : IsBound(journal[t].intent)
    <2>1. \A t \in 1..Revision : journal[t] \in Range(journal)
      BY <1>1, ElementsOfList DEF Revision
    <2>2. QED
      BY <2>1 DEF JournalBound
  <1>3. Active = 0 \/ Active \in 1..Revision
    <2> DEFINE S == Successful
    <2>1. S \in SUBSET (1..Revision)
      BY DEF Successful
    <2>2. Active = IF S = {} THEN 0 ELSE CHOOSE t \in S : \A u \in S : u <= t
      BY DEF Active
    <2> HIDE DEF S
    <2>3. S # {} => \E t \in S : \A u \in S : u <= t
      BY <1>1, <2>1, MaxIsGreatest
    <2>4. QED
      BY <2>1, <2>2, <2>3
  <1>4. Active = 0 => ActiveIntent = <<>>
    BY DEF ActiveIntent
  <1>5. Active # 0 => ActiveIntent = <<journal[Active].intent>> /\ IsBound(journal[Active].intent)
    BY <1>2, <1>3 DEF ActiveIntent
  <1>6. QED
    BY <1>1, <1>2, <1>3, <1>4, <1>5 DEF IsActive

LEMMA StoredScopes ==
  ASSUME JournalBound
  PROVE  AreScopes(ScopesOfSession)
         /\ ScopesOfSession["active_dialog_scope"] = ActiveIntent
  <1>1. \A s \in {"active_dialog_scope", "last_attempted_scope", "last_successful_scope"} :
          ScopesOfSession[s] \in {<<journal[Revision].intent>>, ActiveIntent}
            /\ (Revision > 0 \/ ScopesOfSession[s] = ActiveIntent)
    BY StoredTurns DEF ScopesOfSession
  <1>2. Revision > 0 => IsBound(journal[Revision].intent)
    BY StoredTurns
  <1>3. AreScopes(ScopesOfSession)
    BY <1>1, <1>2, StoredTurns DEF AreScopes, IsActive
  <1>4. QED
    BY <1>3 DEF ScopesOfSession

LEMMA StoredFrames ==
  ASSUME JournalBound, since \in 0..Revision
  PROVE  /\ BoundFrames(Frames)
         /\ \A f \in Range(Frames) :
              /\ TurnOf(f.turn) \in 1..Revision
              /\ f.intent = journal[TurnOf(f.turn)].intent
  <1> DEFINE kept == IF Revision - since < WindowLimit THEN Revision - since ELSE WindowLimit
             s == Frames
             Stands(f) == /\ TurnOf(f.turn) \in 1..Revision
                          /\ f.intent = journal[TurnOf(f.turn)].intent
  <1>1. /\ Revision \in Nat /\ kept \in Nat /\ kept <= Revision
        /\ kept = 0 <=> Revision = since
        /\ Active = 0 \/ Active \in 1..Revision
    BY StoredTurns, BoundsAssumption
  <1>2. IsList(s) /\ \A f \in Range(s) : Stands(f)
    <2>1. CASE kept > 0
      <3>1. s = [k \in 1..kept |-> [turn |-> Revision - kept + k,
                                    intent |-> journal[Revision - kept + k].intent]]
        BY <2>1 DEF Frames
      <3> HIDE DEF kept, s
      <3>2. s = [k \in 1..kept |-> s[k]]
        BY <3>1
      <3>3. s \in Seq(Range(s)) /\ Len(s) = kept
        BY <1>1, <3>2, ListOfItsElements
      <3>4. ASSUME NEW k \in 1..kept
            PROVE  Stands(s[k])
        <4>1. s[k].turn = Revision - kept + k /\ s[k].intent = journal[Revision - kept + k].intent
          BY <3>1
        <4>2. TurnOf(s[k].turn) = s[k].turn
          BY <1>1, <2>1 DEF TurnOf
        <4>3. Revision - kept + k \in 1..Revision
          BY <1>1
        <4>4. QED
          BY <4>1, <4>2, <4>3
      <3> HIDE DEF Stands
      <3>5. \A f \in Range(s) : \E k \in 1..kept : f = s[k]
        BY <3>3, ElementsOfList
      <3>6. QED
        BY <3>3, <3>4, <3>5 DEF IsList
    <2>2. CASE kept = 0 /\ Active # 0
      <3> DEFINE f == [turn |-> Revision, intent |-> journal[Active].intent]
      <3>1. s = <<f>>
        BY <2>2 DEF Frames
      <3>2. Stands(f)
        BY <1>1, <2>2 DEF TurnOf
      <3> HIDE DEF f, Stands, s
      <3>3. <<f>> \in Seq({f})
        OBVIOUS
      <3>4. IsList(s)
        BY <3>1, <3>3, ListOfAny
      <3>5. Range(s) = {f}
        BY <3>1, <3>3, ElementsOfList DEF Range
      <3>6. QED
        BY <3>2, <3>4, <3>5
    <2>3. CASE kept = 0 /\ Active = 0
      <3>1. s = <<>>
        BY <2>3 DEF Frames
      <3> HIDE DEF s
      <3>2. <<>> \in Seq({})
        OBVIOUS
      <3>3. IsList(s) /\ Range(s) = {}
        BY <3>1, <3>2, ListOfAny, ElementsOfList
      <3>4. QED
        BY <3>3
    <2>4. QED
      BY <1>1, <2>1, <2>2, <2>3
  <1>3. \A f \in Range(s) : IsBound(f.intent)
    BY <1>2, StoredTurns
  <1>4. QED
    BY <1>2, <1>3 DEF BoundFrames

LEMMA ListOfMentions ==
  ASSUME NEW n \in Nat, NEW t, t = [k \in 1..n |-> t[k]], \A k \in 1..n : IsMention(t[k])
  PROVE  AreMentions(t)
  <1>1. t \in Seq(Range(t)) /\ Len(t) = n
    BY ListOfItsElements
  <1>2. \A x \in Range(t) : \E k \in 1..n : t[k] = x
    BY <1>1, ElementsOfList
  <1>3. \A x \in Range(t) : IsMention(x)
    BY <1>2
  <1>4. QED
    BY <1>1, <1>3 DEF AreMentions, IsList

LEMMA TagsAreMentions ==
  ASSUME NEW m \in Messages
  PROVE  AreMentions(Tags(m))
  <1> DEFINE spans == m.spans
             places == {i \in 1..Len(m.spans) : BalanceNamed(m.spans[i].name) # {}}
             s == BusinessMentions(m)
             geos == m.geos
             t == [i \in 1..Len(m.geos) |-> [text |-> m.geos[i], role |-> "destination"]]
  <1>1. /\ spans \in Seq(Range(spans)) /\ \A x \in Range(spans) : x.before \in EntityRoles
        /\ geos \in Seq(Range(geos))
    BY MessagesAreRead DEF IsList
  <1>2. AreMentions(s)
    <2> DEFINE n == Len(Spans(m))
    <2>1. places \in SUBSET (1..Len(spans)) /\ Spans(m) = Picked(spans, places)
      BY Zenon DEF Spans
    <2> HIDE DEF places
    <2>2. Spans(m) \in Seq(Range(spans))
      BY <1>1, <2>1, PickedElements
    <2> HIDE DEF spans
    <2>3. n \in Nat /\ \A k \in 1..n : Spans(m)[k].before \in EntityRoles
      BY <1>1, <2>2
    <2>4. s = [k \in 1..n |-> [text |-> Spans(m)[k].name,
                               role |-> IF Len(Businesses(m)) = 1 THEN "balance"
                                        ELSE Spans(m)[k].before]]
      BY DEF BusinessMentions
    <2>5. s = [k \in 1..n |-> s[k]] /\ \A k \in 1..n : IsMention(s[k])
      BY <2>3, <2>4 DEF IsMention, EntityRoles
    <2> HIDE DEF s, n
    <2>7. QED
      BY <2>3, <2>5, ListOfMentions
  <1>3. AreMentions(t)
    <2> DEFINE n == Len(geos)
    <2>1. n \in Nat
      BY <1>1
    <2>2. t = [k \in 1..n |-> t[k]] /\ \A k \in 1..n : IsMention(t[k])
      BY <2>1 DEF IsMention, EntityRoles
    <2> HIDE DEF t, n
    <2>3. QED
      BY <2>1, <2>2, ListOfMentions
  <1>4. Tags(m) = s \o t
    BY DEF Tags
  <1> HIDE DEF s, t
  <1>5. QED
    BY <1>2, <1>3, <1>4, MentionsTogether

-----------------------------------------------------------------------------
(* The deterministic routes *)

\* An intent of one operand: a show, an aggregate or a comparison of two periods.
LEMMA OneOperandBound ==
  ASSUME NEW i, DOMAIN i = {"operation", "operands", "periods", "grouping", "grain",
                            "comparison", "formula", "ranking"},
         NEW o, IsBoundOperand(o), i.operands = <<o>>,
         i.grouping = <<>>, i.comparison = <<>>, i.formula = <<>>, i.ranking = <<>>,
         \/ i.operation \in {"show", "aggregate"}
         \/ i.operation = "compare_periods" /\ Len(i.periods) = 2
  PROVE  IsBound(i)
  <1> DEFINE n == 1
             S == {}
  <1>1. i.operands = [k \in 1..n |-> i.operands[k]]
        /\ \A k \in 1..n : i.operands[k] = o
    OBVIOUS
  <1>2. IsList(i.grouping)
    <2>1. <<>> \in Seq(S)
      OBVIOUS
    <2> HIDE DEF S
    <2>2. QED
      BY <2>1, ListOfAny
  <1>3. ValidShape(i)
    <2> DEFINE s == i.operands
    <2>1. Len(s) = 1 /\ s[1] = o
      OBVIOUS
    <2> HIDE DEF s
    <2>2. /\ \A j, k \in 1..Len(s) : s[j].id = s[k].id => j = k
          /\ \A k \in 1..Len(s) : s[k] = o
      BY <2>1
    <2>3. \A j, k \in 1..Len(o.entities) : o.entities[j].role = o.entities[k].role => j = k
      BY DEF IsBoundOperand, RolesDiffer
    <2>4. Len(s) = 1 /\ s = i.operands
      BY <2>1 DEF s
    <2>5. QED
      BY <2>2, <2>3, <2>4 DEF ValidShape
  <1> HIDE DEF n
  <1>4. n \in Nat
    BY DEF n
  <1>5. \A k \in 1..n : IsOperand(i.operands[k]) /\ i.operands[k].entities \in Seq(Entities)
    BY <1>1 DEF IsBoundOperand
  <1>6. QED
    BY <1>1, <1>2, <1>3, <1>4, <1>5, BoundIntent

LEMMA ShownBound ==
  ASSUME NEW entities \in Seq(Entities), RolesDiffer(entities),
         NEW id, NEW metric, NEW periods
  PROVE  IsBound(ShowIntent(id, metric, entities, periods))
  <1> DEFINE i == ShowIntent(id, metric, entities, periods)
             o == [id |-> <<id>>, metric |-> metric, agg |-> "sum",
                   entities |-> entities, periods |-> <<>>]
  <1>1. /\ DOMAIN i = {"operation", "operands", "periods", "grouping", "grain",
                       "comparison", "formula", "ranking"}
        /\ i.operands = <<o>> /\ i.operation = "show"
        /\ i.grouping = <<>> /\ i.comparison = <<>> /\ i.formula = <<>> /\ i.ranking = <<>>
    BY DEF ShowIntent
  <1>2. o.entities = entities /\ o.periods = <<>>
        /\ DOMAIN o = {"id", "metric", "agg", "entities", "periods"}
    OBVIOUS
  <1> HIDE DEF o, i
  <1>3. IsBoundOperand(o)
    BY <1>2, NewOperand DEF IsBoundOperand
  <1>4. IsBound(i)
    BY <1>1, <1>3, OneOperandBound
  <1>5. QED
    BY <1>4 DEF i

LEMMA OnlyRecord ==
  ASSUME NEW S \in SUBSET Registry, Only(S) # <<>>
  PROVE  Only(S)[1] \in S
  <1>1. IsFiniteSet(S)
    BY RegistryIsFinite, FS_Subset
  <1>2. QED
    BY <1>1, OnlyElement

LEMMA OneOf ==
  ASSUME NEW S, S # {}
  PROVE  One(S) \in S
  BY DEF One

LEMMA FlowBound ==
  ASSUME NEW balance \in Registry, balance.type = "balance",
         NEW target \in Registry, NEW role \in {"source", "destination"},
         NEW article \in Registry, article.type = "article"
  PROVE  /\ FlowEntities(balance, role, target, article) \in Seq(Entities)
         /\ RolesDiffer(FlowEntities(balance, role, target, article))
  <1> DEFINE a == Ref("balance", balance)
             b == Ref(role, target)
             c == Ref("article", article)
  <1>1. /\ a \in Entities /\ b \in Entities /\ c \in Entities
        /\ a.role = "balance" /\ b.role = role /\ c.role = "article"
    BY RefIsEntity DEF EntityRoles
  <1>2. FlowEntities(balance, role, target, article) = <<a, b, c>>
    BY DEF FlowEntities
  <1> HIDE DEF a, b, c
  <1>3. a.role # b.role /\ a.role # c.role /\ b.role # c.role
    BY <1>1
  <1>4. <<a, b, c>> \in Seq(Entities) /\ RolesDiffer(<<a, b, c>>)
    BY <1>1, <1>3, ListOfThree
  <1>5. QED
    BY <1>2, <1>4

LEMMA DirectionArticleRecord ==
  ASSUME NEW balance, NEW target, NEW metric, DirectionArticle(balance, target, metric) # <<>>
  PROVE  /\ DirectionArticle(balance, target, metric)[1] \in Registry
         /\ DirectionArticle(balance, target, metric)[1].type = "article"
         /\ DirectionArticle(balance, target, metric)[1].name = target
  <1> DEFINE S == {a \in ArticlesOf(balance) :
                     /\ a.name = target
                     /\ IF metric = "incoming" THEN {"incoming"} \in Range(a.path)
                        ELSE a.section = "distribution"}
  <1>1. DirectionArticle(balance, target, metric) = Only(S)
    BY DEF DirectionArticle
  <1>2. S \in SUBSET Registry /\ \A a \in S : a.type = "article" /\ a.name = target
    BY DEF ArticlesOf
  <1> HIDE DEF S
  <1>3. QED
    BY <1>1, <1>2, OnlyRecord

\* A flow that is read on a balance, at the article of the name of its other end.
LEMMA FlowOnItsEnd ==
  ASSUME NEW balance \in Registry, balance.type = "balance",
         NEW target \in Registry, NEW role \in {"source", "destination"},
         NEW article \in Registry, article.type = "article", article.name = target.name,
         NEW o, o.entities = FlowEntities(balance, role, target, article),
         NEW a, NEW b,
         /\ balance.name = IF o.metric = "incoming" THEN b ELSE a
         /\ target.name = IF o.metric = "incoming" THEN a ELSE b
  PROVE  OnItsEnd(o, a, b)
  <1> DEFINE x == Ref("balance", balance)
             y == Ref(role, target)
             z == Ref("article", article)
  <1>1. o.entities \in Seq(Entities) /\ RolesDiffer(o.entities)
    BY FlowBound
  <1>2. /\ x.role = "balance" /\ x.name = balance.name
        /\ z.role = "article" /\ z.name = target.name
    BY RefIsEntity DEF EntityRoles
  <1>3. o.entities = <<x, y, z>>
    BY DEF FlowEntities
  <1> HIDE DEF x, y, z
  <1>4. x \in Range(o.entities) /\ z \in Range(o.entities)
    BY <1>3 DEF Range
  <1>5. RefOf(o, "balance") # <<>> /\ RefOf(o, "balance")[1] = x
    BY <1>1, <1>2, <1>4, RefsOfRole
  <1>6. RefOf(o, "article") # <<>> /\ RefOf(o, "article")[1] = z
    BY <1>1, <1>2, <1>4, RefsOfRole
  <1>7. QED
    BY <1>2, <1>5, <1>6 DEF OnItsEnd, IsReadOnBalance

LEMMA BalanceRecords ==
  ASSUME NEW name
  PROVE  \A b \in BalanceNamed(name) : b \in Registry /\ b.type = "balance" /\ b.name = name
  BY DEF BalanceNamed, Named

\* The tagger's spans are names of balances.
LEMMA SpansAreBalances ==
  ASSUME NEW m \in Messages
  PROVE  /\ Len(Spans(m)) \in Nat
         /\ \A k \in 1..Len(Spans(m)) : BalanceNamed(Spans(m)[k].name) # {}
  <1> DEFINE spans == m.spans
             places == {i \in 1..Len(m.spans) : BalanceNamed(m.spans[i].name) # {}}
             s == Spans(m)
  <1>1. spans \in Seq(Range(spans)) /\ s = Picked(spans, places)
        /\ places \in SUBSET (1..Len(spans)) /\ \A i \in places : BalanceNamed(spans[i].name) # {}
    BY MessagesAreRead, Zenon DEF IsList, Spans
  <1> HIDE DEF spans, places, s
  <1>2. s \in Seq(Range(spans)) /\ \A k \in 1..Len(s) : \E i \in places : s[k] = spans[i]
    <2>1. s \in Seq(Range(spans)) /\ IsPickedAt(s, spans, places)
      BY <1>1, PickedElements
    <2>2. PICK p \in [1..Len(s) -> places] : \A k \in 1..Len(s) : s[k] = spans[p[k]]
      BY <2>1, Zenon DEF IsPickedAt
    <2>3. QED
      BY <2>1, <2>2
  <1>3. QED
    BY <1>1, <1>2 DEF s

LEMMA BusinessesAreBalances ==
  ASSUME NEW m \in Messages
  PROVE  /\ IsList(Businesses(m))
         /\ \A name \in Range(Businesses(m)) : BalanceNamed(name) # {}
         /\ \A k \in 1..Len(Businesses(m)) : Businesses(m)[k] \in Range(Businesses(m))
  <1> DEFINE names == [i \in 1..Len(Spans(m)) |-> Spans(m)[i].name]
             b == Businesses(m)
             n == Len(Spans(m))
  <1>1. n \in Nat /\ \A k \in 1..n : BalanceNamed(names[k]) # {}
    BY SpansAreBalances
  <1>2. names = [k \in 1..n |-> names[k]]
    OBVIOUS
  <1>3. b = FirstOfEach(names)
    BY DEF Businesses
  <1> HIDE DEF names, n, b
  <1>4. names \in Seq(Range(names)) /\ Len(names) = n
    BY <1>1, <1>2, ListOfItsElements
  <1>5. IsList(b) /\ Range(b) = Range(names)
    BY <1>3, <1>4, FirstOfEachList DEF IsList
  <1>6. \A x \in Range(names) : \E k \in 1..n : names[k] = x
    BY <1>4, ElementsOfList
  <1>7. \A k \in 1..Len(b) : b[k] \in Range(b)
    BY <1>5, ElementsOfList DEF IsList
  <1>8. QED
    BY <1>1, <1>5, <1>6, <1>7 DEF b

LEMMA MentionsOfBusinesses ==
  ASSUME NEW m \in Messages
  PROVE  /\ BusinessMentions(m) \in Seq(Range(BusinessMentions(m)))
         /\ \A x \in Range(BusinessMentions(m)) :
              /\ BalanceNamed(x.text) # {}
              /\ Len(Businesses(m)) = 1 => x.role = "balance"
  <1> DEFINE s == BusinessMentions(m)
             n == Len(Spans(m))
  <1>1. n \in Nat /\ \A k \in 1..n : BalanceNamed(Spans(m)[k].name) # {}
    BY SpansAreBalances
  <1>2. s = [k \in 1..n |-> [text |-> Spans(m)[k].name,
                             role |-> IF Len(Businesses(m)) = 1 THEN "balance"
                                      ELSE Spans(m)[k].before]]
    BY DEF BusinessMentions
  <1>3. /\ s = [k \in 1..n |-> s[k]]
        /\ \A k \in 1..n : /\ BalanceNamed(s[k].text) # {}
                           /\ Len(Businesses(m)) = 1 => s[k].role = "balance"
    BY <1>1, <1>2
  <1> HIDE DEF s, n
  <1>4. s \in Seq(Range(s)) /\ Len(s) = n
    BY <1>1, <1>3, ListOfItsElements
  <1>5. \A x \in Range(s) : \E k \in 1..n : s[k] = x
    BY <1>4, ElementsOfList
  <1>6. QED
    BY <1>3, <1>4, <1>5 DEF s

\* The only name in a role is that of the first business in it.
LEMMA OnlyNameInRole ==
  ASSUME NEW m \in Messages, NEW role, NEW a,
         NamesIn(Range(BusinessMentions(m)), role) = {a}
  PROVE  /\ InRole(m, {role}) = BalanceNamed(a) /\ BalanceNamed(a) # {}
         /\ Len(Businesses(m)) = 1 => role = "balance"
  <1> DEFINE s == BusinessMentions(m)
             found == OfRoles(s, {role})
  <1>1. s \in Seq(Range(s))
    BY MentionsOfBusinesses
  <1>2. PICK x \in Range(s) : x.role = role /\ x.text = a
    BY DEF NamesIn
  <1>3. found \in Seq(Range(s)) /\ Range(found) = {y \in Range(s) : y.role \in {role}}
    BY <1>1, ElementsOfRoles
  <1>4. InRole(m, {role}) = IF found = <<>> THEN {} ELSE BalanceNamed(found[1].text)
    BY DEF InRole
  <1>5. \A y \in Range(s) : y.role = role => y.text = a
    BY DEF NamesIn
  <1> HIDE DEF found
  <1>6. found # <<>> /\ found[1] \in Range(found)
    <2>1. Range(found) # {}
      BY <1>2, <1>3
    <2>2. found # <<>> /\ Len(found) \in Nat /\ Len(found) # 0
      BY <1>3, <2>1, ElementsOfList
    <2>3. QED
      BY <1>3, <2>2, ElementsOfList
  <1>7. found[1].text = a
    BY <1>3, <1>5, <1>6
  <1>8. QED
    BY <1>2, <1>4, <1>6, <1>7, MentionsOfBusinesses

LEMMA TheBusinessRecord ==
  ASSUME NEW m \in Messages, Len(Businesses(m)) = 1
  PROVE  TheBusiness(m) \in Registry /\ TheBusiness(m).type = "balance"
  <1>1. BalanceNamed(Businesses(m)[1]) # {}
    BY BusinessesAreBalances
  <1>2. TheBusiness(m) \in BalanceNamed(Businesses(m)[1])
    BY <1>1, OneOf DEF TheBusiness
  <1>3. QED
    BY <1>2, BalanceRecords

\* _deterministic_analyzed_flow_mutation
LEMMA AnalyzedFlowBound ==
  ASSUME NEW m, AnalyzedFlow(m) # <<>>
  PROVE  /\ IsBound(AnalyzedFlow(m)[1])
         /\ AnalyzedFlow(m)[1].operation # "compare"
         /\ OnItsEnd(AnalyzedFlow(m)[1].operands[1], m.analyzed.from, m.analyzed.to)
  <1> DEFINE a == m.analyzed
             from == One(BalanceNamed(m.analyzed.from))
             to == One(BalanceNamed(m.analyzed.to))
             found == DirectionArticle(from.id, to.name, "distribution")
             entities == FlowEntities(from, "destination", to, found[1])
             i == AnalyzedFlow(m)[1]
             o == [id |-> <<"directed_flow">>, metric |-> "distribution", agg |-> m.analyzed.agg,
                   entities |-> entities, periods |-> <<>>]
             shown == ShowIntent("directed_flow", "distribution", entities, a.periods)
             operation == IF Len(a.periods) = 2 /\ a.intent = "compare"
                          THEN "compare_periods" ELSE "show"
  <1>1. /\ BalanceNamed(a.from) # {} /\ BalanceNamed(a.to) # {} /\ found # <<>>
        /\ i = [shown EXCEPT !.operands[1].agg = a.agg, !.operation = operation]
    BY Zenon DEF AnalyzedFlow
  <1>2. /\ from \in Registry /\ from.type = "balance" /\ to \in Registry
        /\ from.name = a.from /\ to.name = a.to
    BY <1>1, OneOf, BalanceRecords
  <1>3. found[1] \in Registry /\ found[1].type = "article" /\ found[1].name = to.name
    <2> DEFINE id == from.id
               name == to.name
    <2>1. found = DirectionArticle(id, name, "distribution")
      OBVIOUS
    <2> HIDE DEF id, name
    <2>2. QED
      BY <1>1, <2>1, DirectionArticleRecord
  <1> HIDE DEF from, to, found, a
  <1>4. entities \in Seq(Entities) /\ RolesDiffer(entities)
    BY <1>2, <1>3, FlowBound
  <1>5. OnItsEnd(o, a.from, a.to)
    BY <1>2, <1>3, FlowOnItsEnd
  <1> HIDE DEF entities, operation
  <1>6. /\ DOMAIN i = {"operation", "operands", "periods", "grouping", "grain",
                       "comparison", "formula", "ranking"}
        /\ i.operands = <<o>> /\ i.operation = operation /\ i.periods = a.periods
        /\ i.grouping = <<>> /\ i.comparison = <<>> /\ i.formula = <<>> /\ i.ranking = <<>>
    <2> DEFINE u == [id |-> <<"directed_flow">>, metric |-> "distribution", agg |-> "sum",
                     entities |-> entities, periods |-> <<>>]
    <2>1. /\ DOMAIN shown = {"operation", "operands", "periods", "grouping", "grain",
                             "comparison", "formula", "ranking"}
          /\ shown.operands = <<u>> /\ shown.periods = a.periods
          /\ shown.grouping = <<>> /\ shown.comparison = <<>> /\ shown.formula = <<>>
          /\ shown.ranking = <<>>
      BY DEF ShowIntent
    <2>2. o = [u EXCEPT !.agg = a.agg]
      BY DEF a
    <2> HIDE DEF u, o, i, shown
    <2>3. [shown.operands EXCEPT ![1].agg = a.agg] = <<o>>
      BY <2>1, <2>2
    <2>4. QED
      BY <1>1, <2>1, <2>3
  <1>7. o.entities = entities /\ o.periods = <<>>
        /\ DOMAIN o = {"id", "metric", "agg", "entities", "periods"}
    OBVIOUS
  <1> HIDE DEF o, i
  <1>8. IsBoundOperand(o)
    BY <1>4, <1>7, NewOperand DEF IsBoundOperand
  <1>9. \/ operation = "show"
        \/ operation = "compare_periods" /\ Len(i.periods) = 2
    BY <1>6 DEF operation
  <1>10. IsBound(i)
    BY <1>6, <1>8, <1>9, OneOperandBound
  <1>11. i.operands[1] = o /\ i.operation # "compare"
    BY <1>6, <1>9
  <1>12. QED
    BY <1>5, <1>10, <1>11 DEF i, a

\* _deterministic_balance_section_mutation and _deterministic_full_balance_mutation
LEMMA SnapshotsBound ==
  ASSUME NEW m \in Messages
  PROVE  /\ SectionSnapshot(m) # <<>> => IsBound(SectionSnapshot(m)[1])
         /\ BalanceSnapshot(m) # <<>> => IsBound(BalanceSnapshot(m)[1])
  <1> DEFINE b == TheBusiness(m)
             x == Ref("balance", b)
  <1>1. Snapshot(m) => x \in Entities /\ x.role = "balance"
    BY TheBusinessRecord, RefIsEntity DEF Snapshot, EntityRoles
  <1>2. ASSUME SectionSnapshot(m) # <<>>
        PROVE  IsBound(SectionSnapshot(m)[1])
    <2> DEFINE S == {a \in ArticlesOf(b.id) :
                       /\ a.name = m.section
                       /\ \E c \in ArticlesOf(b.id) : IsPrefix(a.path, c.path) /\ a.path # c.path}
               y == Ref("article", SectionArticle(m)[1])
               s == <<x, y>>
               periods == m.day
    <2>1. Snapshot(m) /\ SectionArticle(m) # <<>>
          /\ SectionSnapshot(m)[1] = ShowIntent("section_snapshot", "balance_section", s, periods)
      BY <1>2, Zenon DEF SectionSnapshot
    <2>2. SectionArticle(m) = Only(S) /\ S \in SUBSET Registry /\ \A a \in S : a.type = "article"
      BY DEF SectionArticle, ArticlesOf
    <2>3. SectionArticle(m)[1] \in S
      <3> HIDE DEF S
      <3>1. QED
        BY <2>1, <2>2, OnlyRecord
    <2>4. y \in Entities /\ y.role = "article"
      BY <2>2, <2>3, RefIsEntity DEF EntityRoles
    <2> HIDE DEF S, x, y, periods
    <2>5. s \in Seq(Entities) /\ RolesDiffer(s)
      BY <1>1, <2>1, <2>4, ListOfTwo
    <2> HIDE DEF s
    <2>6. QED
      BY <2>1, <2>5, ShownBound
  <1>3. ASSUME BalanceSnapshot(m) # <<>>
        PROVE  IsBound(BalanceSnapshot(m)[1])
    <2> DEFINE s == <<x>>
               periods == m.day
    <2>1. Snapshot(m) /\ BalanceSnapshot(m)[1] = ShowIntent("balance_snapshot", "balance", s, periods)
      BY <1>3, Zenon DEF BalanceSnapshot
    <2> HIDE DEF x, periods
    <2>2. s \in Seq(Entities) /\ RolesDiffer(s)
      BY <1>1, <2>1 DEF RolesDiffer
    <2> HIDE DEF s
    <2>3. QED
      BY <2>1, <2>2, ShownBound
  <1>4. QED
    BY <1>2, <1>3

\* _deterministic_directed_flow_mutation
LEMMA DirectedFlowBound ==
  ASSUME NEW m \in Messages, DirectedFlow(m) # <<>>
  PROVE  /\ IsBound(DirectedFlow(m)[1])
         /\ DirectedFlow(m)[1].operation # "compare"
         /\ \A a, b : AsksFromTo(Range(BusinessMentions(m)), a, b) =>
                       OnItsEnd(DirectedFlow(m)[1].operands[1], a, b)
  <1> DEFINE metric == m.analyzed.metric
             from == IF InRole(m, {"source"}) # {} THEN InRole(m, {"source"})
                     ELSE IF metric = "distribution" THEN InRole(m, {"balance"}) ELSE {}
             to == InRole(m, {"destination"})
             between == m.geos = <<>> /\ from # {} /\ to # {} /\ Len(Businesses(m)) = 2
             toGeo == metric = "distribution" /\ Len(Businesses(m)) = 1 /\ Len(m.geos) = 1
             balance == IF toGeo THEN TheBusiness(m)
                        ELSE IF metric = "incoming" THEN One(to) ELSE One(from)
             target == IF toGeo THEN One(Named("geo_object", m.geos[1]))
                       ELSE IF metric = "incoming" THEN One(from) ELSE One(to)
             found == DirectionArticle(balance.id, target.name, metric)
             role == IF metric = "incoming" THEN "source" ELSE "destination"
             entities == FlowEntities(balance, role, target, found[1])
             periods == m.day
  <1>1. /\ between \/ toGeo
        /\ found # <<>>
        /\ DirectedFlow(m)[1] = ShowIntent("directed_flow", metric, entities, periods)
    BY Zenon DEF DirectedFlow
  <1> DEFINE o == [id |-> <<"directed_flow">>, metric |-> metric, agg |-> "sum",
                   entities |-> entities, periods |-> <<>>]
             i == DirectedFlow(m)[1]
  <1>2. i.operands[1] = o /\ i.operation = "show"
    BY <1>1 DEF ShowIntent
  <1>3. ASSUME NEW a, NEW b, AsksFromTo(Range(BusinessMentions(m)), a, b)
        PROVE  /\ balance.name = IF metric = "incoming" THEN b ELSE a
               /\ target.name = IF metric = "incoming" THEN a ELSE b
    <2> DEFINE tags == Range(BusinessMentions(m))
    <2>a. NamesIn(tags, "source") = {a} /\ NamesIn(tags, "destination") = {b}
      BY <1>3 DEF AsksFromTo
    <2>1. /\ InRole(m, {"source"}) = BalanceNamed(a) /\ BalanceNamed(a) # {}
          /\ Len(Businesses(m)) # 1
      BY <2>a, OnlyNameInRole
    <2>2. to = BalanceNamed(b) /\ BalanceNamed(b) # {}
      BY <2>a, OnlyNameInRole
    <2>3. from = BalanceNamed(a)
      BY <2>1
    <2>4. ~toGeo
      BY <2>1
    <2>5. One(from).name = a /\ One(to).name = b
      BY <2>1, <2>2, <2>3, OneOf, BalanceRecords
    <2>6. QED
      BY <2>4, <2>5
  <1>4. \A roles : \A b \in InRole(m, roles) : b \in Registry /\ b.type = "balance"
    BY BalanceRecords DEF InRole
  <1>5. \A b \in from \cup to : b \in Registry /\ b.type = "balance"
    BY <1>4
  <1>6. /\ balance \in Registry /\ balance.type = "balance"
        /\ target \in Registry
    <2>1. CASE toGeo
      <3>1. balance \in Registry /\ balance.type = "balance"
        BY <2>1, TheBusinessRecord
      <3> DEFINE geos == m.geos
                 G == Named("geo_object", geos[1])
      <3>2. geos \in Seq(Range(geos)) /\ Len(geos) = 1 /\ \A g \in Range(geos) : Named("geo_object", g) # {}
        BY <2>1, MessagesAreRead DEF IsList
      <3>3. target = One(G)
        BY <2>1
      <3>4. geos[1] \in Range(geos)
        <4> HIDE DEF geos
        <4>1. QED
          BY <3>2
      <3>5. G # {} /\ G \subseteq Registry
        BY <3>2, <3>4 DEF Named
      <3> HIDE DEF G
      <3>6. QED
        BY <3>1, <3>3, <3>5, OneOf
    <2>2. CASE ~toGeo
      <3>1. from # {} /\ to # {} /\ balance \in {One(from), One(to)} /\ target \in {One(from), One(to)}
        BY <1>1, <2>2
      <3> HIDE DEF from, to
      <3>2. One(from) \in from /\ One(to) \in to
        BY <3>1, OneOf
      <3>3. QED
        BY <1>5, <3>1, <3>2
    <2>3. QED
      BY <2>1, <2>2
  <1>7. found[1] \in Registry /\ found[1].type = "article" /\ found[1].name = target.name
    <2> DEFINE id == balance.id
               name == target.name
    <2>1. found = DirectionArticle(id, name, metric)
      OBVIOUS
    <2> HIDE DEF id, name, metric
    <2>2. QED
      BY <1>1, <2>1, DirectionArticleRecord
  <1>8. role \in {"source", "destination"}
    OBVIOUS
  <1> HIDE DEF role, balance, target, found, periods
  <1>9. ASSUME NEW a, NEW b, AsksFromTo(Range(BusinessMentions(m)), a, b)
        PROVE  OnItsEnd(o, a, b)
    <2>1. /\ o.entities = FlowEntities(balance, role, target, found[1])
          /\ balance.name = IF o.metric = "incoming" THEN b ELSE a
          /\ target.name = IF o.metric = "incoming" THEN a ELSE b
      BY <1>3, <1>9
    <2> HIDE DEF o
    <2>2. QED
      BY <1>6, <1>7, <1>8, <2>1, FlowOnItsEnd
  <1> HIDE DEF metric
  <1>10. entities \in Seq(Entities) /\ RolesDiffer(entities)
    BY <1>6, <1>7, <1>8, FlowBound
  <1> HIDE DEF entities
  <1>11. IsBound(i)
    BY <1>1, <1>10, ShownBound
  <1> HIDE DEF o, i
  <1>12. i.operation # "compare" /\ \A a, b : AsksFromTo(Range(BusinessMentions(m)), a, b) =>
                                              OnItsEnd(i.operands[1], a, b)
    BY <1>2, <1>9
  <1>13. QED
    BY <1>11, <1>12 DEF i

\* The two sides of a comparison.
AreSides(peers) == \A k \in 1..2 : peers[k] \in Seq(Entities) /\ RolesDiffer(peers[k])

LEMMA OnBalanceEntities ==
  ASSUME NEW article \in Registry, article.type = "article"
  PROVE  OnBalance(article) \in Seq(Entities) /\ RolesDiffer(OnBalance(article))
  <1> DEFINE B == WithId("balance", article.balance)
             x == Ref("balance", One(B))
             y == Ref("article", article)
  <1>1. CASE B = {}
    <2>1. OnBalance(article) = <<>>
      BY <1>1 DEF OnBalance
    <2>2. <<>> \in Seq(Entities) /\ RolesDiffer(<<>>)
      BY DEF RolesDiffer
    <2>3. QED
      BY <2>1, <2>2
  <1>2. CASE B # {}
    <2>1. One(B) \in Registry /\ One(B).type = "balance"
      BY <1>2, OneOf DEF WithId
    <2>2. OnBalance(article) = <<x, y>>
      BY <1>2, Zenon DEF OnBalance
    <2> HIDE DEF B
    <2>3. x \in Entities /\ y \in Entities /\ x.role = "balance" /\ y.role = "article"
      BY <2>1, RefIsEntity DEF EntityRoles
    <2> HIDE DEF x, y
    <2>4. <<x, y>> \in Seq(Entities) /\ RolesDiffer(<<x, y>>)
      BY <2>3, ListOfTwo
    <2>5. QED
      BY <2>2, <2>4
  <1>3. QED
    BY <1>1, <1>2

LEMMA DistributionArticleRecord ==
  ASSUME NEW name, DistributionArticle(name) # <<>>
  PROVE  DistributionArticle(name)[1] \in Registry /\ DistributionArticle(name)[1].type = "article"
  <1> DEFINE S == {a \in ArticleCandidates(name, NoBalance) : a.section = "distribution"}
  <1>1. DistributionArticle(name) = Only(S)
    BY DEF DistributionArticle
  <1>2. S \in SUBSET Registry /\ \A a \in S : a.type = "article"
    BY DEF ArticleCandidates, Named
  <1> HIDE DEF S
  <1>3. QED
    BY <1>1, <1>2, OnlyRecord

\* _matched_distribution_own_consumers
LEMMA OwnConsumersBound ==
  ASSUME NEW m, OwnConsumers(m) # <<>>
  PROVE  AreSides(OwnConsumers(m))
  <1> DEFINE name == m.own[1]
             to == DistributionArticle(name)
             id == One(BalanceNamed(m.own[2])).id
             S == {a \in ArticlesOf(id) : a.name = {"own", "consumers"} /\ a.section = "distribution"}
             own == Only(S)
  <1>1. to # <<>> /\ own # <<>> /\ OwnConsumers(m) = <<OnBalance(to[1]), OnBalance(own[1])>>
    BY Zenon DEF OwnConsumers
  <1>2. S \in SUBSET Registry /\ \A a \in S : a.type = "article"
    BY DEF ArticlesOf
  <1> HIDE DEF S, name
  <1>3. own[1] \in Registry /\ own[1].type = "article"
    BY <1>1, <1>2, OnlyRecord
  <1>4. to[1] \in Registry /\ to[1].type = "article"
    BY <1>1, DistributionArticleRecord
  <1> DEFINE a == to[1]
             b == own[1]
             s == OnBalance(a)
             t == OnBalance(b)
  <1>5. a \in Registry /\ a.type = "article" /\ b \in Registry /\ b.type = "article"
    BY <1>3, <1>4
  <1>6. OwnConsumers(m) = <<s, t>>
    BY <1>1
  <1> HIDE DEF a, b
  <1>7. s \in Seq(Entities) /\ RolesDiffer(s) /\ t \in Seq(Entities) /\ RolesDiffer(t)
    BY <1>5, OnBalanceEntities
  <1> HIDE DEF s, t
  <1>8. OwnConsumers(m)[1] = s /\ OwnConsumers(m)[2] = t
    BY <1>6
  <1>9. \A k \in 1..2 : k = 1 \/ k = 2
    OBVIOUS
  <1>10. QED
    BY <1>7, <1>8, <1>9 DEF AreSides

\* _matched_peer_entities
LEMMA PeersBound ==
  ASSUME NEW m \in Messages, PeerEntities(m) # <<>>
  PROVE  AreSides(PeerEntities(m))
  <1> DEFINE named == m.peers
             Of(name) ==
               IF DistributionArticle(name) # <<>> THEN OnBalance(DistributionArticle(name)[1])
               ELSE IF Named("geo_object", name) # {}
               THEN <<Ref("destination", One(Named("geo_object", name)))>> ELSE <<>>
             peers == [i \in 1..Len(m.peers) |-> Of(m.peers[i])]
  <1>1. PeerEntities(m) = peers
    BY Zenon DEF PeerEntities
  <1>2. named \in Seq(Range(named)) /\ Len(named) \in {0, 2}
    BY MessagesAreRead DEF IsList
  <1>3. Len(named) = 2
    <2>1. Len(named) = 0 => peers = <<>>
      OBVIOUS
    <2>2. QED
      BY <1>1, <1>2, <2>1
  <1>4. ASSUME NEW name
        PROVE  Of(name) \in Seq(Entities) /\ RolesDiffer(Of(name))
    <2>1. CASE DistributionArticle(name) # <<>>
      <3> DEFINE a == DistributionArticle(name)[1]
      <3>1. a \in Registry /\ a.type = "article" /\ Of(name) = OnBalance(a)
        BY <2>1, DistributionArticleRecord
      <3> HIDE DEF a, Of
      <3>2. QED
        BY <3>1, OnBalanceEntities
    <2>2. CASE DistributionArticle(name) = <<>> /\ Named("geo_object", name) # {}
      <3> DEFINE r == One(Named("geo_object", name))
                 x == Ref("destination", r)
      <3>1. r \in Registry
        BY <2>2, OneOf DEF Named
      <3>2. Of(name) = <<x>>
        BY <2>2
      <3> HIDE DEF r, Of
      <3>3. x \in Entities
        BY <3>1, RefIsEntity DEF EntityRoles
      <3> HIDE DEF x
      <3>4. QED
        BY <3>2, <3>3 DEF RolesDiffer
    <2>3. CASE DistributionArticle(name) = <<>> /\ Named("geo_object", name) = {}
      <3>1. Of(name) = <<>>
        BY <2>3
      <3> HIDE DEF Of
      <3>2. <<>> \in Seq(Entities) /\ RolesDiffer(<<>>)
        BY DEF RolesDiffer
      <3>3. QED
        BY <3>1, <3>2
    <2>4. QED
      BY <2>1, <2>2, <2>3
  <1>5. \A k \in 1..2 : peers[k] = Of(named[k])
    BY <1>3
  <1> HIDE DEF Of, peers
  <1>6. QED
    BY <1>1, <1>4, <1>5 DEF AreSides

\* _canonical_entity_comparison
LEMMA ComparedBound ==
  ASSUME NEW plan, NEW peers, AreSides(peers), NEW metrics, PeerIntent(plan, peers, metrics) # <<>>
  PROVE  IsBound(PeerIntent(plan, peers, metrics)[1])
  <1> DEFINE i == PeerIntent(plan, peers, metrics)[1]
             s == i.operands
             n == 2
             S == {}
  <1>1. /\ DOMAIN i = {"operation", "operands", "periods", "grouping", "grain",
                       "comparison", "formula", "ranking"}
        /\ s = [k \in 1..n |->
                  [id |-> <<"operand", k>>,
                   metric |-> IF metrics = <<>> THEN plan.metric ELSE metrics[k],
                   agg |-> plan.agg, entities |-> peers[k], periods |-> <<>>]]
        /\ i.operation = "compare" /\ i.grouping = <<>> /\ i.formula = <<>> /\ i.ranking = <<>>
        /\ i.comparison = <<[baseline |-> <<"operand", 1>>, target |-> <<"operand", 2>>]>>
    BY DEF PeerIntent
  <1>2. ASSUME NEW k \in 1..n
        PROVE  /\ IsOperand(s[k]) /\ s[k].entities \in Seq(Entities) /\ RolesDiffer(s[k].entities)
               /\ s[k].id = <<"operand", k>>
    <2>1. /\ DOMAIN s[k] = {"id", "metric", "agg", "entities", "periods"}
          /\ s[k].periods = <<>> /\ s[k].entities = peers[k] /\ s[k].id = <<"operand", k>>
      BY <1>1
    <2> HIDE DEF s
    <2>2. QED
      BY <2>1, NewOperand DEF AreSides
  <1>3. s = [k \in 1..n |-> s[k]]
    BY <1>1
  <1> HIDE DEF i
  <1>4. IsList(i.grouping)
    <2>1. <<>> \in Seq(S)
      OBVIOUS
    <2> HIDE DEF S
    <2>2. QED
      BY <1>1, <2>1, ListOfAny
  <1>5. s \in Seq(Range(s)) /\ Len(s) = 2
    BY <1>3, ListOfItsElements
  <1>6. ValidShape(i)
    <2>1. /\ \A j, k \in 1..Len(s) : s[j].id = s[k].id => j = k
          /\ \A k \in 1..Len(s) : \A j, l \in 1..Len(s[k].entities) :
               s[k].entities[j].role = s[k].entities[l].role => j = l
      BY <1>2, <1>5 DEF RolesDiffer
    <2>2. {<<"operand", 1>>, <<"operand", 2>>} \subseteq OperandIds(i)
      <3>1. s[1] \in Range(s) /\ s[2] \in Range(s)
        BY <1>5, ElementsOfList
      <3>2. s[1].id = <<"operand", 1>> /\ s[2].id = <<"operand", 2>>
        BY <1>2
      <3>3. QED
        BY <3>1, <3>2 DEF OperandIds
    <2>3. /\ i.comparison # <<>> /\ <<"operand", 1>> # <<"operand", 2>>
          /\ i.comparison[1].baseline = <<"operand", 1>> /\ i.comparison[1].target = <<"operand", 2>>
      BY <1>1
    <2>4. Len(s) = 2 /\ s = i.operands /\ i.operation = "compare" /\ i.grouping = <<>>
          /\ i.formula = <<>> /\ i.ranking = <<>> /\ i.comparison # <<>>
      BY <1>1, <1>5, <2>3
    <2>5. /\ i.comparison[1].baseline # i.comparison[1].target
          /\ {i.comparison[1].baseline, i.comparison[1].target} \subseteq OperandIds(i)
      BY <2>2, <2>3
    <2> HIDE DEF s
    <2>6. QED
      BY <2>1, <2>4, <2>5 DEF ValidShape
  <1> HIDE DEF s, n
  <1>7. n \in Nat /\ s = i.operands
    BY DEF n, s
  <1>8. QED
    BY <1>1, <1>2, <1>3, <1>4, <1>6, <1>7, BoundIntent DEF i

-----------------------------------------------------------------------------
(* What the pipeline resolves *)

IsExpression(e) ==
  /\ DOMAIN e = {"metric", "agg", "entities", "geos"}
  /\ {e.entities, e.geos} \subseteq Seq(Entities)

IsPlan(plan) ==
  /\ IsList(plan.periods) /\ IsList(plan.expressions) /\ IsList(plan.groupBy)
  /\ \A e \in Range(plan.expressions) : IsExpression(e)

LEMMA PlansOfMessages ==
  ASSUME NEW m \in Messages
  PROVE  IsPlan(m.plan) /\ m.geo \in Seq(Entities)
  BY MessagesAreRead DEF IsPlan, IsExpression

\* One expression for each geo object.
LEMMA ExpandedExpressions ==
  ASSUME NEW plan, IsPlan(plan), NEW t, t = Expanded(plan)
  PROVE  IsList(t) /\ \A k \in 1..Len(t) : IsExpression(t[k])
  <1> DEFINE s == plan.expressions
             n == Len(plan.expressions)
             S == Range(s) \cup {[e EXCEPT !.geos = <<g>>] : e \in Range(s), g \in Entities}
             lists == [i \in 1..Len(s) |->
                         IF Len(s[i].geos) <= 1 THEN <<s[i]>>
                         ELSE [j \in 1..Len(s[i].geos) |-> [s[i] EXCEPT !.geos = <<s[i].geos[j]>>]]]
  <1>1. s \in Seq(Range(s)) /\ n \in Nat /\ \A e \in Range(s) : IsExpression(e)
    BY DEF IsPlan, IsList
  <1>2. t = FlattenSeq(lists)
    BY Zenon DEF Expanded
  <1>3. \A x \in S : IsExpression(x)
    <2>1. ASSUME NEW e \in Range(s), NEW g \in Entities
          PROVE  IsExpression([e EXCEPT !.geos = <<g>>])
      <3>1. <<g>> \in Seq(Entities)
        OBVIOUS
      <3>2. IsExpression(e)
        BY <1>1
      <3>3. QED
        BY <3>1, <3>2 DEF IsExpression
    <2>2. QED
      BY <1>1, <2>1
  <1>4. ASSUME NEW k \in 1..n
        PROVE  lists[k] \in Seq(S)
    <2> DEFINE e == s[k]
               u == lists[k]
               geos == e.geos
    <2>1. e \in Range(s)
      BY <1>1, ElementsOfList
    <2>2. geos \in Seq(Entities)
      BY <1>1, <2>1 DEF IsExpression
    <2>3. u = IF Len(geos) <= 1 THEN <<e>>
              ELSE [j \in 1..Len(geos) |-> [e EXCEPT !.geos = <<geos[j]>>]]
      OBVIOUS
    <2>4. e \in S /\ \A g \in Entities : [e EXCEPT !.geos = <<g>>] \in S
      BY <2>1
    <2> HIDE DEF e, geos, u, S, lists, s
    <2>5. CASE Len(geos) <= 1
      BY <2>3, <2>4, <2>5 DEF u
    <2>6. CASE ~(Len(geos) <= 1)
      <3> DEFINE l == Len(geos)
      <3>1. l \in Nat /\ \A j \in 1..l : geos[j] \in Entities
        BY <2>2
      <3>2. u = [j \in 1..l |-> u[j]] /\ \A j \in 1..l : u[j] = [e EXCEPT !.geos = <<geos[j]>>]
        BY <2>3, <2>6
      <3> HIDE DEF l
      <3>3. \A j \in 1..l : u[j] \in S
        BY <2>4, <3>1, <3>2
      <3>4. QED
        BY <3>1, <3>2, <3>3, ListFrom DEF u
    <2>7. QED
      BY <2>5, <2>6 DEF u
  <1>5. t \in Seq(S)
    <2> DEFINE T == Seq(S)
    <2>1. lists = [k \in 1..n |-> lists[k]]
      OBVIOUS
    <2> HIDE DEF lists, S, n
    <2>5. \A k \in 1..n : lists[k] \in T
      BY <1>4
    <2> HIDE DEF T
    <2>2. lists \in Seq(T)
      BY <1>1, <2>1, <2>5, ListFrom
    <2>3. lists \in Seq(Seq(S))
      BY <2>2 DEF T
    <2>4. QED
      BY <1>2, <2>3, FlattenedList
  <1> HIDE DEF S
  <1>6. IsList(t) /\ \A k \in 1..Len(t) : t[k] \in S
    BY <1>5, ListOfAny
  <1>7. QED
    BY <1>3, <1>6

LEMMA OperandOfExpression ==
  ASSUME NEW e, IsExpression(e), NEW k, NEW o, o = ExpressionOperand(e, k)
  PROVE  IsOperand(o) /\ o.entities \in Seq(Entities)
  <1> DEFINE a == e.entities
             b == e.geos
  <1>1. a \in Seq(Entities) /\ b \in Seq(Entities)
    BY DEF IsExpression
  <1>2. /\ DOMAIN o = {"id", "metric", "agg", "entities", "periods"} /\ o.periods = <<>>
        /\ o.entities = a \o b
    BY DEF ExpressionOperand
  <1> HIDE DEF a, b
  <1>3. a \o b \in Seq(Entities)
    BY <1>1
  <1>4. QED
    BY <1>2, <1>3, NewOperand

LEMMA OnePlain ==
  ASSUME NEW o, IsOperand(o), o.entities \in Seq(Entities)
  PROVE  PlainOperands(<<o>>) /\ Len(<<o>>) = 1
  <1> DEFINE s == <<o>>
             n == 1
  <1>1. s = [k \in 1..n |-> s[k]] /\ \A k \in 1..n : s[k] = o
    OBVIOUS
  <1> HIDE DEF s, n
  <1>2. n \in Nat
    BY DEF n
  <1>3. PlainOperands(s) /\ Len(s) = n
    BY <1>1, <1>2, ListOfPlain
  <1>4. QED
    BY <1>3 DEF s, n

LEMMA PlannedOperands ==
  ASSUME NEW plan, IsPlan(plan), NEW geo \in Seq(Entities),
         NEW t, t = PlanOperands(plan, geo)
  PROVE  PlainOperands(t)
  <1> DEFINE s == Expanded(plan)
             n == Len(Expanded(plan))
  <1>1. IsList(s) /\ n \in Nat /\ \A k \in 1..n : IsExpression(s[k])
    BY ExpandedExpressions DEF IsList
  <1>2. CASE Collapses(plan) /\ geo # <<>>
    <2> DEFINE e == s[1]
               u == ExpressionOperand(e, 1)
               o == [u EXCEPT !.entities = geo]
    <2>1. t = <<o>>
      BY <1>2, Zenon DEF PlanOperands
    <2>2. 1 \in 1..n
      BY <1>1, <1>2 DEF Collapses
    <2>3. IsExpression(e)
      BY <1>1, <2>2
    <2> HIDE DEF e
    <2>4. IsOperand(u)
      BY <2>3, OperandOfExpression
    <2> HIDE DEF u
    <2>5. OnlyEntitiesDiffer(o, u) /\ o.entities = geo
      BY <2>4, EntitiesReplaced
    <2> HIDE DEF o
    <2>6. IsOperand(o)
      BY <2>5 DEF OnlyEntitiesDiffer
    <2>7. QED
      BY <2>1, <2>5, <2>6, OnePlain
  <1>3. CASE ~(Collapses(plan) /\ geo # <<>>) /\ s = <<>>
    <2> DEFINE o == [id |-> <<"operand", 1>>, metric |-> plan.metric, agg |-> "sum",
                     entities |-> <<>>, periods |-> <<>>]
    <2>1. t = <<o>>
      BY <1>3, Zenon DEF PlanOperands
    <2>2. /\ DOMAIN o = {"id", "metric", "agg", "entities", "periods"} /\ o.periods = <<>>
          /\ o.entities = <<>>
      OBVIOUS
    <2>3. <<>> \in Seq(Entities)
      OBVIOUS
    <2> HIDE DEF o
    <2>4. IsOperand(o) /\ o.entities \in Seq(Entities)
      BY <2>2, <2>3, NewOperand
    <2>5. QED
      BY <2>1, <2>4, OnePlain
  <1>4. CASE ~(Collapses(plan) /\ geo # <<>>) /\ s # <<>>
    <2>1. t = [k \in 1..n |-> ExpressionOperand(s[k], k)]
      BY <1>4, Zenon DEF PlanOperands
    <2> HIDE DEF n
    <2>2. ASSUME NEW k \in 1..n
          PROVE  IsOperand(t[k]) /\ t[k].entities \in Seq(Entities)
      <3> DEFINE e == s[k]
      <3>1. IsExpression(e) /\ t[k] = ExpressionOperand(e, k)
        BY <1>1, <2>1
      <3> HIDE DEF e
      <3>2. QED
        BY <3>1, OperandOfExpression
    <2>3. t = [k \in 1..n |-> t[k]]
      BY <2>1
    <2>4. QED
      BY <1>1, <2>2, <2>3, ListOfPlain
  <1>5. QED
    BY <1>2, <1>3, <1>4

\* PipelineEnvelopeTranslator.intent: an intent the contract accepts, or the
\* reason there is none.
LEMMA TranslatedBound ==
  ASSUME NEW plan, IsPlan(plan), NEW geo \in Seq(Entities), NEW answered,
         NEW r, r = Translated(plan, geo, answered)
  PROVE  /\ r.intent # <<>> => IsBound(r.intent[1])
         /\ r.intent = <<>> => r.reason \in Codes
  <1> DEFINE operands == PlanOperands(plan, geo)
             operation == SettledOperation(plan, operands)
             i == PlanIntent(plan, operands, operation)
             s == i.operands
             grouping == i.grouping
  <1>1. /\ r.intent # <<>> => r.intent = <<i>> /\ ValidShape(i)
        /\ r.intent = <<>> => r.reason \in Codes
    <2> HIDE DEF operands, operation, i
    <2>1. OfOperands(plan, operands, operation).intent # <<>> =>
            OfOperands(plan, operands, operation).intent = <<i>> /\ ValidShape(i)
      BY DEF OfOperands, Readable, Unreadable, i
    <2>2. OfOperands(plan, operands, operation).intent = <<>> =>
            OfOperands(plan, operands, operation).reason \in Codes
      BY DEF OfOperands, Readable, Unreadable, Codes
    <2>3. r.intent # <<>> => r = OfOperands(plan, operands, operation)
      BY DEF Translated, Unreadable, operands, operation
    <2>4. r = OfOperands(plan, operands, operation) \/ r.reason \in Codes
      BY DEF Translated, Unreadable, operands, operation, Codes
    <2>5. QED
      BY <2>1, <2>2, <2>3, <2>4
  <1>2. PlainOperands(operands)
    BY PlannedOperands
  <1>3. operation = "aggregate" /\ plan.operation = "show" => Len(operands) = 1
    BY DEF SettledOperation
  <1>4. PlainOperands(s)
    <2>1. CASE operation = "aggregate" /\ plan.operation = "show"
      <3> DEFINE u == operands[1]
                 o == [u EXCEPT !.agg = plan.rank]
      <3>1. s = <<o>>
        BY <2>1 DEF PlanIntent
      <3> HIDE DEF operands, operation
      <3>5. Len(operands) = 1 /\ 1 \in 1..1
        BY <1>3, <2>1
      <3>2. IsOperand(u) /\ u.entities \in Seq(Entities)
        BY <1>2, <3>5 DEF PlainOperands
      <3> HIDE DEF u
      <3>3. IsOperand(o) /\ o.entities \in Seq(Entities)
        BY <3>2 DEF IsOperand
      <3> HIDE DEF o, s
      <3>4. QED
        BY <3>1, <3>3, OnePlain
    <2>2. CASE ~(operation = "aggregate" /\ plan.operation = "show")
      <3>1. s = operands
        BY <2>2 DEF PlanIntent
      <3> HIDE DEF s, operands
      <3>2. QED
        BY <1>2, <3>1
    <2>3. QED
      BY <2>1, <2>2
  <1>5. IsList(grouping)
    <2> DEFINE n == Len(plan.groupBy)
    <2>1. n \in Nat
      BY DEF IsPlan, IsList
    <2>2. grouping = PlanGrouping(plan)
      BY DEF PlanIntent
    <2>3. PlanGrouping(plan) = [k \in 1..n |-> PlanGrouping(plan)[k]]
      BY DEF PlanGrouping
    <2> HIDE DEF grouping, n
    <2>4. grouping = [k \in 1..n |-> grouping[k]]
      BY <2>2, <2>3
    <2>5. QED
      BY <2>1, <2>4, ListOfItsElements DEF IsList
  <1>6. DOMAIN i = {"operation", "operands", "periods", "grouping", "grain",
                    "comparison", "formula", "ranking"}
    BY DEF PlanIntent
  <1> HIDE DEF i
  <1>7. ValidShape(i) => IsBound(i)
    <2> DEFINE n == Len(s)
    <2>1. n \in Nat /\ s = [k \in 1..n |-> s[k]]
          /\ \A k \in 1..n : IsOperand(s[k]) /\ s[k].entities \in Seq(Entities)
      BY <1>4 DEF PlainOperands, IsList
    <2>2. s = i.operands /\ grouping = i.grouping
      OBVIOUS
    <2> HIDE DEF s, n, grouping
    <2>3. QED
      BY <1>5, <1>6, <2>1, <2>2, BoundIntent
  <1>8. QED
    BY <1>1, <1>7

-----------------------------------------------------------------------------
(* The intents a turn is given *)

LEMMA RouteApplies ==
  ASSUME NEW m
  PROVE  /\ Route(m) = "analyzed_flow" => AnalyzedFlow(m) # <<>>
         /\ Route(m) = "section" => SectionSnapshot(m) # <<>>
         /\ Route(m) = "full_balance" => BalanceSnapshot(m) # <<>>
         /\ Route(m) = "directed_flow" => DirectedFlow(m) # <<>>
         /\ Route(m) = "own_consumers" => OwnConsumers(m) # <<>>
         /\ Route(m) = "peers" => PeerEntities(m) # <<>>
  <1> DEFINE routes == Routes(m)
             I == {k \in 1..Len(routes) : routes[k].applies}
             i == SelectInSeq(routes, LAMBDA r : r.applies)
  <1>1. i = IF I # {} THEN Min(I) ELSE 0
    BY Zenon DEF SelectInSeq
  <1>2. Route(m) = routes[i].name
    BY DEF Route, FirstThatApplies
  <1>3. Len(routes) = 11 /\ routes[11].applies
    BY DEF Routes
  <1>4. i \in 1..11 /\ routes[i].applies
    <2> DEFINE n == 11
    <2>1. n \in Nat /\ I \in SUBSET (1..n) /\ I # {}
      BY <1>3
    <2>2. \A k \in I : routes[k].applies
      OBVIOUS
    <2> HIDE DEF n, I, i
    <2>3. i \in I /\ i \in 1..n
      BY <1>1, <2>1, FirstPlace
    <2>4. QED
      BY <2>2, <2>3 DEF n
  <1> HIDE DEF i
  <1>5. /\ routes[1].applies => AnalyzedFlow(m) # <<>>
        /\ routes[3].applies => SectionSnapshot(m) # <<>>
        /\ routes[4].applies => BalanceSnapshot(m) # <<>>
        /\ routes[5].applies => DirectedFlow(m) # <<>>
        /\ routes[7].applies => OwnConsumers(m) # <<>>
        /\ routes[9].applies => PeerEntities(m) # <<>>
    BY DEF Routes
  <1>6. /\ routes[i].name = "analyzed_flow" => i = 1
        /\ routes[i].name = "section" => i = 3
        /\ routes[i].name = "full_balance" => i = 4
        /\ routes[i].name = "directed_flow" => i = 5
        /\ routes[i].name = "own_consumers" => i = 7
        /\ routes[i].name = "peers" => i = 9
    BY <1>4 DEF Routes
  <1> HIDE DEF routes
  <1>7. QED
    BY <1>2, <1>4, <1>5, <1>6

\* Other operands of the same names.
OnlyOperandsDiffer(j, i, n) ==
  /\ DOMAIN j = DOMAIN i
  /\ n = Len(i.operands) /\ j.operands = [k \in 1..n |-> j.operands[k]]
  /\ \A k \in 1..n : IsBoundOperand(j.operands[k]) /\ j.operands[k].id = i.operands[k].id
  /\ j.operation = i.operation /\ j.periods = i.periods /\ j.grouping = i.grouping
  /\ j.comparison = i.comparison /\ j.formula = i.formula /\ j.ranking = i.ranking

LEMMA EntitiesChanged ==
  ASSUME NEW i, IsBound(i), NEW j, NEW n, OnlyOperandsDiffer(j, i, n)
  PROVE  IsBound(j)
  <1> USE DEF OnlyOperandsDiffer
  <1> DEFINE s == i.operands
             t == j.operands
  <1>1. /\ s \in Seq(Range(s)) /\ n \in Nat /\ ValidShape(i) /\ IsList(i.grouping)
        /\ DOMAIN i = {"operation", "operands", "periods", "grouping", "grain",
                       "comparison", "formula", "ranking"}
    BY DEF IsBound, IsIntent, IsList
  <1> HIDE DEF t
  <1>2. t = [k \in 1..n |-> t[k]] /\ \A k \in 1..n : IsBoundOperand(t[k]) /\ t[k].id = s[k].id
    BY DEF t
  <1> HIDE DEF s
  <1>3. t \in Seq(Range(t)) /\ Len(t) = n
    BY <1>1, <1>2, ListOfItsElements
  <1>4. OperandIds(j) = OperandIds(i)
    <2>1. Range(s) = {s[k] : k \in 1..n} /\ Range(t) = {t[k] : k \in 1..n}
      <3>1. DOMAIN s = 1..n /\ DOMAIN t = 1..n
        BY <1>1, <1>2 DEF s
      <3>2. QED
        BY <3>1 DEF Range
    <2>2. OperandIds(i) = {o.id : o \in Range(s)} /\ OperandIds(j) = {o.id : o \in Range(t)}
      BY DEF OperandIds, s, t
    <2>3. /\ \A x : x \in OperandIds(i) <=> \E k \in 1..n : x = s[k].id
          /\ \A x : x \in OperandIds(j) <=> \E k \in 1..n : x = t[k].id
      BY <2>1, <2>2
    <2>4. \A k \in 1..n : t[k].id = s[k].id
      BY <1>2
    <2>5. ASSUME NEW x
          PROVE  x \in OperandIds(j) <=> x \in OperandIds(i)
      <3>1. ASSUME x \in OperandIds(j) PROVE x \in OperandIds(i)
        BY <2>3, <2>4, <3>1
      <3>2. ASSUME x \in OperandIds(i) PROVE x \in OperandIds(j)
        BY <2>3, <2>4, <3>2
      <3>3. QED
        BY <3>1, <3>2
    <2>6. QED
      BY <2>2, <2>5
  <1>5. ValidShape(j)
    <2>1. /\ Len(j.operands) = Len(i.operands)
          /\ \A k \in 1..Len(i.operands) :
               /\ j.operands[k].id = i.operands[k].id
               /\ \A a, b \in 1..Len(j.operands[k].entities) :
                    j.operands[k].entities[a].role = j.operands[k].entities[b].role => a = b
      BY <1>2, <1>3 DEF s, t, IsBoundOperand, RolesDiffer
    <2>2. QED
      BY <1>1, <1>4, <2>1 DEF ValidShape
  <1>6. /\ j.operands = [k \in 1..n |-> j.operands[k]] /\ IsList(j.grouping)
        /\ \A k \in 1..n : IsOperand(j.operands[k]) /\ j.operands[k].entities \in Seq(Entities)
    BY <1>1 DEF IsBoundOperand
  <1>7. QED
    BY <1>1, <1>5, <1>6, BoundIntent

\* _role_separated_standalone
LEMMA SeparatedBound ==
  ASSUME NEW i, IsBound(i), Len(i.operands) = 1, NEW a, NEW b,
         NEW roles, roles = <<[text |-> a, role |-> "balance"], [text |-> b, role |-> "destination"]>>,
         Bindable(roles, <<>>, None),
         NEW j, j = [i EXCEPT !.operands[1].entities = BindOperand(roles, <<>>, None)]
  PROVE  IsBound(j)
  <1> DEFINE entities == BindOperand(roles, <<>>, None)
             s == i.operands
             u == s[1]
             o == [u EXCEPT !.entities = entities]
  <1>1. AreMentions(roles) /\ RolesDiffer(roles)
    <2> DEFINE n == 2
    <2>1. /\ roles = [k \in 1..n |-> roles[k]] /\ \A k \in 1..n : IsMention(roles[k])
      BY DEF IsMention, EntityRoles
    <2>2. RolesDiffer(roles)
      BY DEF RolesDiffer
    <2> HIDE DEF n
    <2>3. n \in Nat
      BY DEF n
    <2>4. QED
      BY <2>1, <2>2, <2>3, ListOfMentions
  <1>2. entities \in Seq(Entities) /\ RolesDiffer(entities)
    BY <1>1, BindOperandEntities
  <1> HIDE DEF entities
  <1>3. s \in Seq(Range(s)) /\ Len(s) = 1 /\ s[1] \in Range(s)
    <2>1. s \in Seq(Range(s)) /\ Len(s) = 1
      BY DEF IsBound, IsIntent
    <2> HIDE DEF s
    <2>2. QED
      BY <2>1, ElementsOfList
  <1>4. IsBoundOperand(u)
    BY <1>3, BoundOperands
  <1>5. /\ DOMAIN j = DOMAIN i /\ j.operands = [s EXCEPT ![1] = o]
        /\ j.operation = i.operation /\ j.periods = i.periods /\ j.grouping = i.grouping
        /\ j.comparison = i.comparison /\ j.formula = i.formula /\ j.ranking = i.ranking
    <2>1. DOMAIN i = {"operation", "operands", "periods", "grouping", "grain",
                      "comparison", "formula", "ranking"}
      BY DEF IsBound, IsIntent
    <2>2. j = [i EXCEPT !.operands = [s EXCEPT ![1] = o]]
      BY Zenon DEF entities
    <2> HIDE DEF o, s
    <2>3. QED
      BY <2>1, <2>2
  <1> HIDE DEF s, u
  <1>6. OnlyEntitiesDiffer(o, u) /\ o.entities = entities
    BY <1>4, EntitiesReplaced DEF IsBoundOperand
  <1> HIDE DEF o
  <1>7. IsBoundOperand(o) /\ o.id = u.id
    BY <1>2, <1>6 DEF OnlyEntitiesDiffer, IsBoundOperand
  <1> DEFINE n == Len(i.operands)
  <1>8. n = 1 /\ j.operands = [k \in 1..n |-> j.operands[k]] /\ j.operands[1] = o
    BY <1>3, <1>5 DEF s
  <1>9. \A k \in 1..n : IsBoundOperand(j.operands[k]) /\ j.operands[k].id = i.operands[k].id
    BY <1>7, <1>8 DEF u, s
  <1> HIDE DEF n
  <1>10. n = Len(i.operands)
    BY DEF n
  <1>11. j.operands = [k \in 1..n |-> j.operands[k]]
    BY <1>8
  <1> HIDE DEF entities
  <1>12. OnlyOperandsDiffer(j, i, n)
    BY <1>5, <1>9, <1>10, <1>11, Zenon DEF OnlyOperandsDiffer
  <1>13. QED
    BY <1>12, EntitiesChanged

\* _single_operand_attempt
LEMMA AttemptBound ==
  ASSUME NEW base, IsBound(base), NEW o, IsBoundOperand(o)
  PROVE  IsBound(SingleOperandAttempt(base, o))
  <1> DEFINE i == SingleOperandAttempt(base, o)
  <1>1. /\ DOMAIN i = {"operation", "operands", "periods", "grouping", "grain",
                       "comparison", "formula", "ranking"}
        /\ i.operands = <<o>> /\ i.operation \in {"show", "aggregate"}
        /\ i.grouping = <<>> /\ i.comparison = <<>> /\ i.formula = <<>> /\ i.ranking = <<>>
    BY DEF SingleOperandAttempt
  <1> HIDE DEF i
  <1>2. IsBound(i)
    BY <1>1, OneOperandBound
  <1>3. QED
    BY <1>2 DEF i

\* What the normalisations leave of an intent: its operands, or one of two that
\* differ in their periods alone.
NormalForm(j, i) ==
  /\ IsBound(j)
  /\ \/ j.operands = i.operands /\ j.periods = i.periods /\ j.operation = i.operation
     \/ /\ i.operation = "compare" /\ Len(i.operands) = 2
        /\ j.operation = "compare_periods" /\ Len(j.operands) = 1

LEMMA NormalisedIntent ==
  ASSUME NEW m, NEW i, IsBound(i), NEW rows, NEW j, j = Normalised(m, i, rows)
  PROVE  NormalForm(j, i)
  <1> DEFINE words == m.words
             active == IF Active = 0 THEN <<>> ELSE <<[intent |-> journal[Active].intent, rows |-> rows]>>
             g == TemporalGrouping(i, words)
             c == PeriodComparison(g)
             Held(x) == \A o \in Range(x.operands) : o.entities \in Seq(Entities)
  <1>1. j = SeriesReduction(c, words, active)
    BY Zenon DEF Normalised
  <1>2. IsIntent(i) /\ ValidShape(i) /\ Held(i)
    BY DEF IsBound
  <1> HIDE DEF words, active
  <1>3. /\ IsIntent(g) /\ ValidShape(g)
        /\ g.operands = i.operands /\ g.periods = i.periods /\ g.operation = i.operation
    <2>1. IsIntent(g) /\ ValidShape(g)
      BY <1>2, GroupingKeepsShape
    <2>2. g.operands = i.operands /\ g.periods = i.periods /\ g.operation = i.operation
      BY <1>2 DEF TemporalGrouping, IsIntent
    <2>3. QED
      BY <2>1, <2>2
  <1> HIDE DEF g
  <1>4. /\ IsIntent(c) /\ ValidShape(c) /\ Held(c)
        /\ \/ c = g
           \/ /\ g.operation = "compare" /\ Len(g.operands) = 2
              /\ c.operation = "compare_periods" /\ Len(c.operands) = 1
    <2>1. IsIntent(c) /\ ValidShape(c)
      BY <1>3, ComparisonKeepsShape
    <2>2. CASE ~IsPeriodComparison(g)
      BY <1>2, <1>3, <2>1, <2>2 DEF PeriodComparison
    <2>3. CASE IsPeriodComparison(g)
      <3> DEFINE s == g.operands
                 a == s[1]
                 o == [a EXCEPT !.periods = <<>>]
      <3>1. g.operation = "compare" /\ Len(s) = 2
        BY <2>3 DEF IsPeriodComparison
      <3>2. s \in Seq(Range(s)) /\ a \in Range(s) /\ IsOperand(a)
        <4>1. s \in Seq(Range(s)) /\ \A k \in 1..Len(s) : IsOperand(s[k])
          BY <1>3 DEF IsIntent
        <4> HIDE DEF s
        <4>2. QED
          BY <3>1, <4>1, ElementsOfList
      <3>3. c.operands = <<o>> /\ c.operation = "compare_periods"
        BY <1>3, <2>3 DEF PeriodComparison, IsIntent
      <3> HIDE DEF c
      <3>4. o.entities \in Seq(Entities)
        BY <1>2, <1>3, <3>2 DEF IsOperand
      <3> HIDE DEF o
      <3>5. <<o>> \in Seq({o}) /\ Len(<<o>>) = 1
        OBVIOUS
      <3>6. \A x \in Range(c.operands) : x = o
        <4> DEFINE u == <<o>>
                   S == {o}
        <4>1. u \in Seq(S)
          BY <3>5
        <4> HIDE DEF u, S
        <4>2. \A x \in Range(u) : x \in S
          BY <4>1, ElementsOfList
        <4>3. QED
          BY <3>3, <4>2 DEF u, S
      <3>7. QED
        BY <2>1, <3>1, <3>3, <3>4, <3>5, <3>6
    <2>4. QED
      BY <2>2, <2>3
  <1> HIDE DEF c
  <1>5. IsIntent(j) /\ ValidShape(j)
    BY <1>1, <1>4, ReductionKeepsShape
  <1>6. j.operands = c.operands /\ j.periods = c.periods /\ j.operation = c.operation
    BY <1>1, <1>4 DEF SeriesReduction, IsIntent
  <1>7. IsBound(j)
    BY <1>4, <1>5, <1>6 DEF IsBound
  <1>8. QED
    BY <1>3, <1>4, <1>6, <1>7 DEF NormalForm

-----------------------------------------------------------------------------
(* The inductive invariant *)

\* What a turn executes: a bound intent with periods, the interpreter's if the
\* turn follows a decision.
IsAdmitted(i) ==
  /\ IsBound(i)
  /\ \A o \in Range(i.operands) : EffectivePeriods(i, o) # <<>>

Follows(i, d, m) ==
  /\ IsDecision(d) /\ d.kind \in {"graph", "draft"}
  /\ Compile(m, d).kind = "bound"
  /\ NormalForm(i, Compile(m, d).intent)

\* Why an intent may run for a message: it is what its route or its decision bound,
\* and holds the names that route has to find.
Grounds(i, d, m) ==
  /\ EvidenceComplete(i, Evidence(m))
  /\ d # <<>> => \E x : d = <<x>> /\ Follows(i, x, m)
  /\ d = <<>> /\ Route(m) = "analyzed_flow" => NormalForm(i, AnalyzedFlow(m)[1])
  /\ d = <<>> /\ Route(m) = "directed_flow" => NormalForm(i, DirectedFlow(m)[1])

Inv ==
  /\ JournalBound
  /\ since \in 0..Revision
  /\ limit \in Nat /\ Revision <= limit
  /\ stage \in {"idle", "repairing", "execute"}
  /\ reply \in Codes \cup {"none", "committed"}
  /\ stage = "idle" => bound = <<>>
  /\ stage # "idle" => Revision < limit /\ \E m \in Messages : message = <<m>>
  /\ stage = "repairing" => bound = <<>> /\ Route(message[1]) = "interpret"
  /\ stage = "execute" =>
       /\ \E i : IsAdmitted(i) /\ bound = <<i>>
       /\ Grounds(bound[1], decision, message[1])

\* How a session routes a message and reads a decision depends on its journal alone.
LEMMA SameReading ==
  ASSUME UNCHANGED <<journal, since>>, NEW m, NEW d
  PROVE  Compile(m, d)' = Compile(m, d) /\ Route(m)' = Route(m)
  <1>1. Revision' = Revision
    BY DEF Revision
  <1>2. Successful' = Successful
    BY <1>1 DEF Successful
  <1>3. Active' = Active
    BY <1>2 DEF Active
  <1>4. ActiveIntent' = ActiveIntent
    BY <1>3 DEF ActiveIntent
  <1>5. ScopesOfSession' = ScopesOfSession
    BY <1>1, <1>4 DEF ScopesOfSession
  <1>6. Frames' = Frames
    BY <1>1, <1>3 DEF Frames
  <1>7. Compile(m, d)' = Compile(m, d)
    BY <1>3, <1>4, <1>5, <1>6 DEF Compile
  <1>8. Routes(m)' = Routes(m)
    BY <1>3 DEF Routes
  <1>9. QED
    BY <1>7, <1>8 DEF Route

LEMMA SameGrounds ==
  ASSUME UNCHANGED <<journal, since>>, NEW i, NEW d, NEW m, Grounds(i, d, m)
  PROVE  Grounds(i, d, m)'
  <1>1. Route(m)' = Route(m)
    BY SameReading
  <1>2. Evidence(m)' = Evidence(m)
    BY <1>1 DEF Evidence, EvidenceFor
  <1>3. (d # <<>> => \E x : d = <<x>> /\ Follows(i, x, m))'
    <2> SUFFICES ASSUME d # <<>>
                 PROVE  \E x : d = <<x>> /\ Follows(i, x, m)'
      OBVIOUS
    <2>1. PICK x : d = <<x>> /\ Follows(i, x, m)
      BY DEF Grounds
    <2>2. Compile(m, x)' = Compile(m, x)
      BY SameReading
    <2>3. Follows(i, x, m)'
      BY <2>1, <2>2 DEF Follows
    <2>4. QED
      BY <2>1, <2>3
  <1>4. QED
    BY <1>1, <1>2, <1>3 DEF Grounds

LEMMA RefusedKeepsInv ==
  ASSUME Inv, NEW code \in Codes, Refuse(code)
  PROVE  Inv'
  <1>1. /\ stage' = "idle" /\ bound' = <<>> /\ reply' = code
        /\ UNCHANGED <<journal, since, limit>>
    BY DEF Refuse, Finish
  <1>2. JournalBound'
    BY <1>1 DEF Inv, JournalBound
  <1>3. QED
    BY <1>1, <1>2 DEF Inv, Revision

LEMMA OneRowMore ==
  ASSUME NEW s, s \in Seq(Range(s)), NEW row, NEW t, t = Append(s, row)
  PROVE  t \in Seq(Range(t)) /\ Len(t) = Len(s) + 1 /\ \A x \in Range(t) : x \in Range(s) \/ x = row
  <1>1. /\ t \in Seq(Range(t)) /\ Len(t) = Len(s) + 1 /\ t[Len(s) + 1] = row
        /\ \A k \in 1..Len(s) : t[k] = s[k]
    <2>1. t \in Seq(Range(t)) /\ Len(t) = Len(s) + 1
      BY OneMore
    <2>2. t[Len(s) + 1] = row
      BY OneMore
    <2>3. \A k \in 1..Len(s) : t[k] = s[k]
      BY OneMore
    <2>4. QED
      BY <2>1, <2>2, <2>3
  <1>2. \A x \in Range(t) : \E k \in 1..Len(t) : t[k] = x
    BY <1>1, ElementsOfList
  <1>3. Len(s) \in Nat /\ \A k \in 1..Len(s) : s[k] \in Range(s)
    BY ElementsOfList
  <1>4. ASSUME NEW k \in 1..Len(t)
        PROVE  t[k] \in Range(s) \/ t[k] = row
    <2>1. CASE k = Len(s) + 1
      BY <1>1, <2>1
    <2>2. CASE k # Len(s) + 1
      <3>1. k \in 1..Len(s)
        BY <1>1, <1>3, <2>2
      <3>2. QED
        BY <1>1, <1>3, <3>1
    <2>3. QED
      BY <2>1, <2>2
  <1>5. QED
    BY <1>1, <1>2, <1>4

LEMMA CommittedKeepsInv ==
  ASSUME Inv, Revision < limit, NEW i, IsBound(i), NEW outcome, Commit(i, outcome)
  PROVE  Inv'
  <1> DEFINE row == [intent |-> i, outcome |-> outcome]
  <1>1. /\ stage' = "idle" /\ bound' = <<>> /\ reply' = "committed"
        /\ journal' = Append(journal, row) /\ UNCHANGED <<since, limit>>
    BY DEF Commit, Finish
  <1>2. IsBound(row.intent)
    OBVIOUS
  <1>3. journal \in Seq(Range(journal)) /\ \A x \in Range(journal) : IsBound(x.intent)
    BY DEF Inv, JournalBound, IsList
  <1>4. since \in 0..Len(journal) /\ limit \in Nat /\ Len(journal) < limit
    BY DEF Inv, Revision
  <1> HIDE DEF row
  <1>5. /\ journal' \in Seq(Range(journal')) /\ Len(journal') = Len(journal) + 1
        /\ \A x \in Range(journal') : x \in Range(journal) \/ x = row
    BY <1>1, <1>3, OneRowMore
  <1>6. \A x \in Range(journal') : IsBound(x.intent)
    BY <1>2, <1>3, <1>5
  <1>7. JournalBound'
    BY <1>5, <1>6 DEF JournalBound, IsList
  <1>8. since' \in 0..Revision' /\ limit' \in Nat /\ Revision' <= limit'
    <2>1. Len(journal) \in Nat
      BY <1>3
    <2>2. QED
      BY <1>1, <1>4, <1>5, <2>1 DEF Revision
  <1>9. QED
    BY <1>1, <1>7, <1>8 DEF Inv

LEMMA AdmittedKeepsInv ==
  ASSUME Inv, Revision < limit, NEW m \in Messages, NEW d, NEW i, IsBound(i), NEW explicit,
         Admit(m, d, i, explicit),
         \A n : NormalForm(n, i) /\ EvidenceComplete(n, explicit) => Grounds(n, d, m)
  PROVE  Inv'
  <1>1. PICK rows \in 1..2 : \E n \in {Normalised(m, i, rows)} :
          IF EvidenceComplete(n, explicit) THEN Proceed(m, d, n)
          ELSE Refuse("routing_evidence_incomplete")
    BY DEF Admit
  <1>2. PICK n : /\ n = Normalised(m, i, rows)
                 /\ IF EvidenceComplete(n, explicit) THEN Proceed(m, d, n)
                    ELSE Refuse("routing_evidence_incomplete")
    BY <1>1
  <1>3. NormalForm(n, i)
    BY <1>2, NormalisedIntent
  <1>4. CASE ~EvidenceComplete(n, explicit)
    <2> DEFINE code == "routing_evidence_incomplete"
    <2>1. Refuse(code) /\ code \in Codes
      BY <1>2, <1>4 DEF Codes
    <2> HIDE DEF code
    <2>2. QED
      BY <2>1, RefusedKeepsInv
  <1>5. CASE EvidenceComplete(n, explicit)
    <2>1. /\ message' = <<m>> /\ decision' = d /\ bound' = <<n>> /\ stage' = "execute"
          /\ reply' = "none" /\ UNCHANGED <<journal, since, limit>>
      BY <1>2, <1>5 DEF Proceed
    <2>2. IsAdmitted(n)
      BY <1>3, <1>5 DEF IsAdmitted, NormalForm, EvidenceComplete
    <2>3. JournalBound'
      BY <2>1 DEF Inv, JournalBound
    <2>4. (/\ since \in 0..Revision /\ limit \in Nat /\ Revision < limit)'
      BY <2>1 DEF Inv, Revision
    <2>5. Grounds(bound[1], decision, message[1])'
      <3>1. Grounds(n, d, m)'
        BY <1>3, <1>5, <2>1, SameGrounds
      <3>2. bound'[1] = n /\ message'[1] = m
        BY <2>1
      <3>3. QED
        BY <2>1, <3>1, <3>2 DEF Grounds, Follows
    <2>6. (/\ stage # "idle" => Revision < limit /\ \E y \in Messages : message = <<y>>
           /\ stage = "idle" => bound = <<>>
           /\ stage # "repairing")'
      BY <2>1, <2>4
    <2>7. (\E y : IsAdmitted(y) /\ bound = <<y>>)'
      BY <2>1, <2>2
    <2>8. (/\ JournalBound /\ since \in 0..Revision /\ limit \in Nat /\ Revision <= limit)'
      BY <2>3, <2>4 DEF Revision, JournalBound, IsList
    <2>9. (/\ stage \in {"idle", "repairing", "execute"}
           /\ reply \in Codes \cup {"none", "committed"})'
      BY <2>1
    <2>10. QED
      BY <2>5, <2>6, <2>7, <2>8, <2>9 DEF Inv
  <1>6. QED
    BY <1>4, <1>5

-----------------------------------------------------------------------------
(* Steps *)

LEMMA InitHoldsInv ==
  ASSUME Init
  PROVE  Inv
  <1>1. PICK s \in Sessions \cup {[journal |-> <<>>, since |-> 0]} :
          journal = s.journal /\ since = s.since
    BY DEF Init
  <1>2. JournalBound /\ since \in 0..Len(journal)
    <2>1. CASE s \in Sessions
      BY <1>1, <2>1, SessionsAreBound DEF JournalBound
    <2>2. CASE s = [journal |-> <<>>, since |-> 0]
      <3>1. journal = <<>> /\ since = 0
        BY <1>1, <2>2
      <3>2. <<>> \in Seq({}) /\ Range(<<>>) = {} /\ Len(<<>>) = 0
        BY DEF Range
      <3>3. QED
        BY <3>1, <3>2 DEF JournalBound, IsList
    <2>3. QED
      BY <2>1, <2>2
  <1>3. Len(journal) \in Nat
    BY <1>2 DEF JournalBound, IsList
  <1>4. limit = Len(journal) + MaxTurns /\ MaxTurns \in Nat
    BY BoundsAssumption DEF Init
  <1>5. limit \in Nat /\ Len(journal) <= limit
    BY <1>3, <1>4
  <1>6. stage = "idle" /\ bound = <<>> /\ reply = "none"
    BY DEF Init
  <1>7. QED
    BY <1>2, <1>5, <1>6 DEF Inv, Revision

\* The intent a draft edits: the active one, if it is a continuation.
BaseOf(d) == IF d.mode = "mutation" THEN ActiveIntent ELSE <<>>

LEMMA ReadingOf ==
  ASSUME JournalBound, NEW m, NEW d, IsDecision(d)
  PROVE  /\ d.kind = "graph" =>
              Compile(m, d) = CompileGraph(d.graph, d.mode, ActiveIntent, Frames, Tags(m))
         /\ d.kind = "draft" => Compile(m, d) = FromBase(d.draft, BaseOf(d), ScopesOfSession)
         /\ IsActive(BaseOf(d))
  <1>1. Compile(m, d) = IF d.kind = "graph"
                        THEN CompileGraph(d.graph, d.mode, ActiveIntent, Frames, Tags(m))
                        ELSE CompileDraft(d.draft, d.mode, ScopesOfSession)
    BY DEF Compile
  <1>2. CompileDraft(d.draft, d.mode, ScopesOfSession) = FromBase(d.draft, BaseOf(d), ScopesOfSession)
    <2>1. ScopesOfSession["active_dialog_scope"] = ActiveIntent
      BY StoredScopes
    <2> DEFINE base == IF d.mode = "mutation" THEN ScopesOfSession["active_dialog_scope"] ELSE <<>>
    <2>2. base = BaseOf(d)
      BY <2>1 DEF BaseOf
    <2>3. CompileDraft(d.draft, d.mode, ScopesOfSession) = FromBase(d.draft, base, ScopesOfSession)
      BY Zenon DEF CompileDraft
    <2>4. QED
      BY <2>2, <2>3
  <1>3. IsActive(ActiveIntent) /\ IsActive(<<>>)
    BY StoredTurns DEF IsActive
  <1>4. QED
    BY <1>1, <1>2, <1>3 DEF BaseOf

LEMMA ReadBound ==
  ASSUME NEW d, IsDecision(d), d.kind \in {"graph", "draft"},
         NEW mode, NEW active, IsActive(active), NEW frames, BoundFrames(frames),
         NEW base, IsActive(base), NEW scopes, AreScopes(scopes), NEW tags, AreMentions(tags),
         NEW r, /\ d.kind = "graph" => r = CompileGraph(d.graph, mode, active, frames, tags)
                /\ d.kind = "draft" => r = FromBase(d.draft, base, scopes)
  PROVE  /\ r.kind \in {"bound", "binding", "crash", "relation"}
         /\ r.kind = "bound" => IsBound(r.intent)
         /\ r.kind = "relation" => HasOperand(r)
  <1>1. CASE d.kind = "graph"
    <2> DEFINE g == d.graph
               shaped == NormalShape(g, tags)
    <2>1. IsGraph(g)
      BY <1>1 DEF IsDecision
    <2>2. r = CompileGraph(g, mode, active, frames, tags)
      BY <1>1
    <2>3. shaped = NormalShape(g, tags)
      OBVIOUS
    <2> HIDE DEF g, shaped
    <2>4. r.kind \in {"bound", "binding", "relation"} /\ (r.kind = "bound" => IsBound(r.intent))
      BY <2>1, <2>2, <2>3, GraphResult
    <2>5. ASSUME r.kind = "relation"
          PROVE  HasOperand(r)
      BY <2>1, <2>2, <2>3, <2>5, GraphResult
    <2>6. QED
      BY <2>4, <2>5
  <1>2. CASE d.kind = "draft"
    <2> DEFINE f == d.draft
               asked == Directed(f.operation, base, scopes, "operation")
    <2>1. IsDraft(f)
      BY <1>2 DEF IsDecision
    <2>2. r = FromBase(f, base, scopes)
      BY <1>2
    <2>3. asked = Directed(f.operation, base, scopes, "operation")
      OBVIOUS
    <2> HIDE DEF f, asked
    <2>4. r.kind \in {"bound", "binding", "crash"} /\ (r.kind = "bound" => IsBound(r.intent))
      BY <2>1, <2>2, <2>3, DraftResult
    <2>5. QED
      BY <2>4
  <1>3. QED
    BY <1>1, <1>2

LEMMA CompiledBound ==
  ASSUME JournalBound, since \in 0..Revision, NEW m \in Messages,
         NEW d, IsDecision(d), d.kind \in {"graph", "draft"}, NEW r, r = Compile(m, d)
  PROVE  /\ r.kind \in {"bound", "binding", "crash", "relation"}
         /\ r.kind = "bound" => IsBound(r.intent)
         /\ r.kind = "relation" => HasOperand(r)
  <1>1. /\ d.kind = "graph" => r = CompileGraph(d.graph, d.mode, ActiveIntent, Frames, Tags(m))
        /\ d.kind = "draft" => r = FromBase(d.draft, BaseOf(d), ScopesOfSession)
        /\ IsActive(BaseOf(d))
    BY ReadingOf
  <1>2. /\ IsActive(ActiveIntent) /\ AreScopes(ScopesOfSession)
        /\ BoundFrames(Frames) /\ AreMentions(Tags(m))
    BY StoredTurns, StoredScopes, StoredFrames, TagsAreMentions
  <1>3. QED
    BY <1>1, <1>2, ReadBound

\* A route of its own, which follows no decision; `explicit` are the names it passes
\* to the gate.
LEMMA AdmittedAlone ==
  ASSUME Inv, Revision < limit, NEW m \in Messages, NEW i, IsBound(i),
         NEW explicit, explicit = Evidence(m), Admit(m, <<>>, i, explicit),
         Route(m) = "analyzed_flow" => i = AnalyzedFlow(m)[1],
         Route(m) = "directed_flow" => i = DirectedFlow(m)[1]
  PROVE  Inv'
  <1>1. \A n : NormalForm(n, i) /\ EvidenceComplete(n, explicit) => Grounds(n, <<>>, m)
    BY DEF Grounds
  <1>2. QED
    BY <1>1, AdmittedKeepsInv

LEMMA WordsKeepInv ==
  ASSUME Inv, NEW m \in Messages, BindAnalyzedFlow(m) \/ BindSnapshot(m) \/ BindDirectedFlow(m)
  PROVE  Inv'
  <1>1. CASE BindAnalyzedFlow(m)
    <2>1. /\ Revision < limit /\ Route(m) = "analyzed_flow"
          /\ Admit(m, <<>>, AnalyzedFlow(m)[1], {})
      BY <1>1 DEF BindAnalyzedFlow, Ready
    <2>2. IsBound(AnalyzedFlow(m)[1])
      BY <2>1, RouteApplies, AnalyzedFlowBound
    <2>3. Evidence(m) = {}
      BY <2>1 DEF Evidence, EvidenceFor
    <2>4. QED
      BY <2>1, <2>2, <2>3, AdmittedAlone
  <1>2. CASE Ready(m, "section") /\ Admit(m, <<>>, SectionSnapshot(m)[1], Range(Businesses(m)))
    <2>1. Revision < limit /\ Route(m) = "section"
      BY <1>2 DEF Ready
    <2>2. IsBound(SectionSnapshot(m)[1])
      BY <2>1, RouteApplies, SnapshotsBound
    <2>3. Evidence(m) = Range(Businesses(m))
      BY <2>1 DEF Evidence, EvidenceFor
    <2>4. QED
      BY <1>2, <2>1, <2>2, <2>3, AdmittedAlone
  <1>3. CASE Ready(m, "full_balance") /\ Admit(m, <<>>, BalanceSnapshot(m)[1], Range(Businesses(m)))
    <2>1. Revision < limit /\ Route(m) = "full_balance"
      BY <1>3 DEF Ready
    <2>2. IsBound(BalanceSnapshot(m)[1])
      BY <2>1, RouteApplies, SnapshotsBound
    <2>3. Evidence(m) = Range(Businesses(m))
      BY <2>1 DEF Evidence, EvidenceFor
    <2>4. QED
      BY <1>3, <2>1, <2>2, <2>3, AdmittedAlone
  <1>4. CASE BindDirectedFlow(m)
    <2>1. /\ Revision < limit /\ Route(m) = "directed_flow"
          /\ Admit(m, <<>>, DirectedFlow(m)[1], Explicit(m))
      BY <1>4 DEF BindDirectedFlow, Ready
    <2>2. IsBound(DirectedFlow(m)[1])
      BY <2>1, RouteApplies, DirectedFlowBound
    <2>3. Evidence(m) = Explicit(m)
      BY <2>1 DEF Evidence, EvidenceFor
    <2>4. QED
      BY <2>1, <2>2, <2>3, AdmittedAlone
  <1>5. QED
    BY <1>1, <1>2, <1>3, <1>4 DEF BindSnapshot

LEMMA ComparisonKeepsInv ==
  ASSUME Inv, NEW m \in Messages, NEW route, NEW peers, NEW metrics,
         BindComparison(m, route, peers, metrics), Route(m) = route => AreSides(peers),
         route \in {"own_consumers", "peers"}
  PROVE  Inv'
  <1>1. Revision < limit /\ AreSides(peers) /\ Route(m) = route
    BY DEF BindComparison, Ready
  <1>2. \E compared \in {PeerIntent(m.plan, peers, metrics)} :
          IF compared = <<>> THEN Refuse("explicit_operand_binding_failed")
          ELSE Admit(m, <<>>, compared[1], {})
    BY DEF BindComparison
  <1>3. PICK compared : /\ compared = PeerIntent(m.plan, peers, metrics)
                        /\ IF compared = <<>> THEN Refuse("explicit_operand_binding_failed")
                           ELSE Admit(m, <<>>, compared[1], {})
    BY <1>2
  <1>4. CASE compared = <<>>
    <2>1. "explicit_operand_binding_failed" \in Codes
      BY DEF Codes
    <2>2. QED
      BY <1>3, <1>4, <2>1, RefusedKeepsInv
  <1>5. CASE compared # <<>>
    <2>1. IsBound(compared[1])
      BY <1>1, <1>3, <1>5, ComparedBound
    <2>2. Evidence(m) = {}
      BY <1>1 DEF Evidence, EvidenceFor
    <2>3. QED
      BY <1>1, <1>3, <1>5, <2>1, <2>2, AdmittedAlone
  <1>6. QED
    BY <1>4, <1>5

LEMMA SeparatedKeepsInv ==
  ASSUME Inv, NEW m \in Messages, BindRoleSeparated(m)
  PROVE  Inv'
  <1>1. Revision < limit /\ Route(m) = "role_separated"
    BY DEF BindRoleSeparated, Ready
  <1> DEFINE roles == <<[text |-> Businesses(m)[1], role |-> "balance"],
                        [text |-> m.geos[1], role |-> "destination"]>>
             Made(read) == [read.intent[1] EXCEPT
                             !.operands[1].entities = BindOperand(roles, <<>>, None)]
  <1>2. PICK answered \in BOOLEAN : \E read \in {Translated(m.plan, <<>>, answered)} :
          IF read.intent = <<>> THEN Refuse(read.reason)
          ELSE IF Len(read.intent[1].operands) # 1 \/ read.intent[1].grouping # <<>>
          THEN Refuse("resolved_plan_translation_failed")
          ELSE IF Bindable(roles, <<>>, None) THEN Admit(m, <<>>, Made(read), {})
          ELSE Refuse("turn_failed")
    BY DEF BindRoleSeparated
  <1>3. PICK read : /\ read = Translated(m.plan, <<>>, answered)
                    /\ IF read.intent = <<>> THEN Refuse(read.reason)
                       ELSE IF Len(read.intent[1].operands) # 1 \/ read.intent[1].grouping # <<>>
                       THEN Refuse("resolved_plan_translation_failed")
                       ELSE IF Bindable(roles, <<>>, None) THEN Admit(m, <<>>, Made(read), {})
                       ELSE Refuse("turn_failed")
    BY <1>2
  <1>4. /\ read.intent # <<>> => IsBound(read.intent[1])
        /\ read.intent = <<>> => read.reason \in Codes
    <2>1. IsPlan(m.plan) /\ <<>> \in Seq(Entities)
      BY PlansOfMessages
    <2>2. QED
      BY <1>3, <2>1, TranslatedBound
  <1>5. {"resolved_plan_translation_failed", "turn_failed"} \subseteq Codes
    BY DEF Codes
  <1>6. CASE \E code \in Codes : Refuse(code)
    BY <1>6, RefusedKeepsInv
  <1>7. CASE read.intent # <<>> /\ Len(read.intent[1].operands) = 1 /\ Bindable(roles, <<>>, None)
             /\ Admit(m, <<>>, Made(read), {})
    <2> DEFINE i == read.intent[1]
               j == Made(read)
               a == Businesses(m)[1]
               b == m.geos[1]
    <2>1. IsBound(i) /\ Len(i.operands) = 1
      BY <1>4, <1>7
    <2>2. roles = <<[text |-> a, role |-> "balance"], [text |-> b, role |-> "destination"]>>
      OBVIOUS
    <2>3. j = [i EXCEPT !.operands[1].entities = BindOperand(roles, <<>>, None)]
      OBVIOUS
    <2> HIDE DEF i, j, a, b, roles
    <2>4. IsBound(j)
      BY <1>7, <2>1, <2>2, <2>3, SeparatedBound
    <2>5. Admit(m, <<>>, j, {})
      BY <1>7 DEF j, roles
    <2>6. Evidence(m) = {}
      BY <1>1 DEF Evidence, EvidenceFor
    <2>7. QED
      BY <1>1, <2>4, <2>5, <2>6, AdmittedAlone
  <1>8. QED
    BY <1>3, <1>4, <1>5, <1>6, <1>7

LEMMA StandaloneKeepsInv ==
  ASSUME Inv, NEW m \in Messages, Standalone(m)
  PROVE  Inv'
  <1>1. Revision < limit
    BY DEF Standalone, Ready
  <1>2. PICK outcome \in {"success", "no_data", "error"} :
          \E read \in {Translated(m.plan, m.geo, outcome = "success")} :
            IF read.intent = <<>> THEN Refuse(read.reason) ELSE Commit(read.intent[1], outcome)
    BY DEF Standalone
  <1>3. PICK read : /\ read = Translated(m.plan, m.geo, outcome = "success")
                    /\ IF read.intent = <<>> THEN Refuse(read.reason)
                       ELSE Commit(read.intent[1], outcome)
    BY <1>2
  <1> DEFINE answered == outcome = "success"
  <1>4. /\ read.intent # <<>> => IsBound(read.intent[1])
        /\ read.intent = <<>> => read.reason \in Codes
    <2>1. IsPlan(m.plan) /\ m.geo \in Seq(Entities)
      BY PlansOfMessages
    <2>2. read = Translated(m.plan, m.geo, answered)
      BY <1>3
    <2> HIDE DEF answered
    <2>3. QED
      BY <2>1, <2>2, TranslatedBound
  <1>5. CASE read.intent = <<>>
    BY <1>3, <1>4, <1>5, RefusedKeepsInv
  <1>6. CASE read.intent # <<>>
    BY <1>1, <1>3, <1>4, <1>6, CommittedKeepsInv
  <1>7. QED
    BY <1>5, <1>6

LEMMA UndecidedKeepsInv ==
  ASSUME Inv, Revision < limit, NEW d, IsDecision(d), d.kind \notin {"graph", "draft"}, Undecided(d)
  PROVE  Inv'
  <1>1. d.kind \in {"clarify", "unsupported"}
    BY DEF IsDecision
  <1>2. CASE d.kind = "clarify" /\ Active # 0
    <2>1. Commit(ActiveIntent[1], "clarification")
      BY <1>2 DEF Undecided
    <2>2. IsBound(ActiveIntent[1])
      BY <1>2, StoredTurns DEF Inv
    <2>3. QED
      BY <2>1, <2>2, CommittedKeepsInv
  <1>3. CASE ~(d.kind = "clarify" /\ Active # 0)
    <2>1. Refuse("turn_failed")
      BY <1>1, <1>3 DEF Undecided
    <2>2. "turn_failed" \in Codes
      BY DEF Codes
    <2>3. QED
      BY <2>1, <2>2, RefusedKeepsInv
  <1>4. QED
    BY <1>2, <1>3

LEMMA UnboundKeepsInv ==
  ASSUME Inv, Revision < limit, NEW r, r.kind \in {"binding", "crash", "relation"},
         r.kind = "relation" => HasOperand(r), Unbound(r)
  PROVE  Inv'
  <1>1. {"interpretation_binding_failed", "turn_failed"} \subseteq Codes
    BY DEF Codes
  <1>2. CASE r.kind = "relation" /\ Active # 0
    <2>1. Commit(SingleOperandAttempt(ActiveIntent[1], r.operand[1]), "no_data")
      BY <1>2 DEF Unbound
    <2>2. IsBound(ActiveIntent[1])
      BY <1>2, StoredTurns DEF Inv
    <2>3. IsBoundOperand(r.operand[1])
      BY <1>2 DEF HasOperand
    <2>4. IsBound(SingleOperandAttempt(ActiveIntent[1], r.operand[1]))
      BY <2>2, <2>3, AttemptBound
    <2>5. QED
      BY <2>1, <2>4, CommittedKeepsInv
  <1>3. CASE r.kind = "binding"
    <2>1. Refuse("interpretation_binding_failed")
      BY <1>3 DEF Unbound
    <2>2. QED
      BY <1>1, <2>1, RefusedKeepsInv
  <1>4. CASE r.kind = "crash" \/ (r.kind = "relation" /\ Active = 0)
    <2>1. Refuse("turn_failed")
      BY <1>4 DEF Unbound
    <2>2. QED
      BY <1>1, <2>1, RefusedKeepsInv
  <1>5. QED
    BY <1>2, <1>3, <1>4

\* A decision that is compiled and complete goes to the gate as its intent.
LEMMA DecidedKeepsInv ==
  ASSUME Inv, Revision < limit, NEW m \in Messages, NEW d, IsDecision(d),
         d.kind \in {"graph", "draft"}, NEW r, r = Compile(m, d), r.kind = "bound",
         Route(m) = "interpret", Admit(m, <<d>>, r.intent, Explicit(m))
  PROVE  Inv'
  <1>1. IsBound(r.intent)
    BY CompiledBound DEF Inv
  <1>2. Evidence(m) = Explicit(m)
    BY DEF Evidence, EvidenceFor
  <1>3. ASSUME NEW n, NormalForm(n, r.intent), EvidenceComplete(n, Explicit(m))
        PROVE  Grounds(n, <<d>>, m)
    <2>1. Follows(n, d, m)
      BY <1>3 DEF Follows
    <2>2. QED
      BY <1>2, <1>3, <2>1 DEF Grounds
  <1>4. QED
    BY <1>1, <1>3, AdmittedKeepsInv

LEMMA AskedAgainKeepsInv ==
  ASSUME Inv, stage = "idle", Revision < limit, NEW m \in Messages,
         Route(m) = "interpret", stage' = "repairing", message' = <<m>>, reply' = "none",
         UNCHANGED <<journal, since, limit, decision, bound>>
  PROVE  Inv'
  <1>1. JournalBound'
    BY DEF Inv, JournalBound
  <1>2. (/\ since \in 0..Revision /\ limit \in Nat /\ Revision <= limit /\ Revision < limit)'
    BY DEF Inv, Revision
  <1>3. bound' = <<>>
    BY DEF Inv
  <1>4. (\E x \in Messages : message = <<x>>)'
    OBVIOUS
  <1>5. Route(message[1])' = "interpret"
    <2>1. Route(m)' = "interpret" /\ message'[1] = m
      BY SameReading
    <2>2. QED
      BY <2>1 DEF Route, Routes
  <1>6. QED
    BY <1>1, <1>2, <1>3, <1>4, <1>5 DEF Inv

LEMMA InterpretKeepsInv ==
  ASSUME Inv, NEW m \in Messages, Interpret(m)
  PROVE  Inv'
  <1>1. stage = "idle" /\ Revision < limit /\ Route(m) = "interpret"
    BY DEF Interpret, Ready
  <1>2. PICK d \in Interpretations(m, Frames) :
          IF ~IsDecision(d) THEN Refuse("interpretation_contract_invalid")
          ELSE IF d.kind \notin {"graph", "draft"} THEN Undecided(d)
          ELSE \E result \in {Compile(m, d)} :
            IF result.kind # "bound" THEN Unbound(result)
            ELSE IF EvidenceComplete(result.intent, Explicit(m))
            THEN Admit(m, <<d>>, result.intent, Explicit(m))
            ELSE /\ stage' = "repairing"
                 /\ message' = <<m>>
                 /\ reply' = "none"
                 /\ UNCHANGED <<journal, since, limit, decision, bound>>
    BY DEF Interpret
  <1>3. CASE ~IsDecision(d)
    <2>1. "interpretation_contract_invalid" \in Codes
      BY DEF Codes
    <2>2. QED
      BY <1>2, <1>3, <2>1, RefusedKeepsInv
  <1>4. CASE IsDecision(d) /\ d.kind \notin {"graph", "draft"}
    BY <1>1, <1>2, <1>4, UndecidedKeepsInv
  <1>5. CASE IsDecision(d) /\ d.kind \in {"graph", "draft"}
    <2>1. PICK r : /\ r = Compile(m, d)
                   /\ IF r.kind # "bound" THEN Unbound(r)
                      ELSE IF EvidenceComplete(r.intent, Explicit(m))
                      THEN Admit(m, <<d>>, r.intent, Explicit(m))
                      ELSE /\ stage' = "repairing"
                           /\ message' = <<m>>
                           /\ reply' = "none"
                           /\ UNCHANGED <<journal, since, limit, decision, bound>>
      BY <1>2, <1>5
    <2>2. /\ r.kind \in {"bound", "binding", "crash", "relation"}
          /\ r.kind = "relation" => HasOperand(r)
      BY <1>5, <2>1, CompiledBound DEF Inv
    <2>3. CASE r.kind # "bound"
      BY <1>1, <2>1, <2>2, <2>3, UnboundKeepsInv
    <2>4. CASE r.kind = "bound" /\ EvidenceComplete(r.intent, Explicit(m))
      BY <1>1, <1>5, <2>1, <2>4, DecidedKeepsInv
    <2>5. CASE r.kind = "bound" /\ ~EvidenceComplete(r.intent, Explicit(m))
      BY <1>1, <2>1, <2>5, AskedAgainKeepsInv
    <2>6. QED
      BY <2>3, <2>4, <2>5
  <1>6. QED
    BY <1>3, <1>4, <1>5

LEMMA RepairKeepsInv ==
  ASSUME Inv, Repair
  PROVE  Inv'
  <1>1. stage = "repairing" /\ Revision < limit /\ \E m \in Messages : message = <<m>>
    BY DEF Repair, Inv
  <1>2. message[1] \in Messages /\ Route(message[1]) = "interpret"
    BY <1>1 DEF Inv
  <1>3. {"routing_evidence_incomplete", "turn_failed"} \subseteq Codes
    BY DEF Codes
  <1>4. PICK d \in Interpretations(message[1], Frames) :
          IF ~IsDecision(d) \/ d.kind \notin {"graph", "draft"}
          THEN Refuse("routing_evidence_incomplete")
          ELSE \E result \in {Compile(message[1], d)} :
            IF result.kind = "crash" THEN Refuse("turn_failed")
            ELSE IF result.kind = "bound" /\ EvidenceComplete(result.intent, Explicit(message[1]))
            THEN Admit(message[1], <<d>>, result.intent, Explicit(message[1]))
            ELSE Refuse("routing_evidence_incomplete")
    BY DEF Repair
  <1>5. CASE ~IsDecision(d) \/ d.kind \notin {"graph", "draft"}
    BY <1>3, <1>4, <1>5, RefusedKeepsInv
  <1>6. CASE IsDecision(d) /\ d.kind \in {"graph", "draft"}
    <2>1. PICK r : /\ r = Compile(message[1], d)
                   /\ IF r.kind = "crash" THEN Refuse("turn_failed")
                      ELSE IF r.kind = "bound" /\ EvidenceComplete(r.intent, Explicit(message[1]))
                      THEN Admit(message[1], <<d>>, r.intent, Explicit(message[1]))
                      ELSE Refuse("routing_evidence_incomplete")
      BY <1>4, <1>6
    <2>2. CASE r.kind = "bound" /\ Admit(message[1], <<d>>, r.intent, Explicit(message[1]))
      BY <1>1, <1>2, <1>6, <2>1, <2>2, DecidedKeepsInv
    <2>3. CASE Refuse("turn_failed") \/ Refuse("routing_evidence_incomplete")
      BY <1>3, <2>3, RefusedKeepsInv
    <2>4. QED
      BY <2>1, <2>2, <2>3
  <1>7. QED
    BY <1>5, <1>6

LEMMA ExecuteKeepsInv ==
  ASSUME Inv, Execute
  PROVE  Inv'
  <1>1. stage = "execute" /\ Revision < limit
    BY DEF Execute, Inv
  <1>2. IsBound(bound[1])
    <2>1. PICK i : IsAdmitted(i) /\ bound = <<i>>
      BY <1>1 DEF Inv
    <2>2. QED
      BY <2>1 DEF IsAdmitted
  <1>3. CASE \E outcome \in {"success", "no_data", "error"} : Commit(bound[1], outcome)
    BY <1>1, <1>2, <1>3, CommittedKeepsInv
  <1>4. CASE Refuse("turn_failed")
    <2>1. "turn_failed" \in Codes
      BY DEF Codes
    <2>2. QED
      BY <1>4, <2>1, RefusedKeepsInv
  <1>5. QED
    BY <1>3, <1>4 DEF Execute

LEMMA StutterKeepsInv ==
  ASSUME Inv, UNCHANGED vars
  PROVE  Inv'
  <1>1. UNCHANGED <<journal, since, limit, stage, message, decision, bound, reply>>
    BY DEF vars
  <1>2. (/\ JournalBound /\ since \in 0..Revision /\ limit \in Nat /\ Revision <= limit
         /\ stage \in {"idle", "repairing", "execute"}
         /\ reply \in Codes \cup {"none", "committed"}
         /\ stage = "idle" => bound = <<>>
         /\ stage # "idle" => Revision < limit /\ \E m \in Messages : message = <<m>>
         /\ stage = "repairing" => bound = <<>>
         /\ stage = "execute" => \E i : IsAdmitted(i) /\ bound = <<i>>)'
    BY <1>1 DEF Inv, JournalBound, Revision
  <1>3. (stage = "repairing" => Route(message[1]) = "interpret")'
    <2> SUFFICES ASSUME stage = "repairing"
                 PROVE  Route(message[1])' = "interpret"
      BY <1>1
    <2>1. PICK m : m = message[1]
      OBVIOUS
    <2>2. Route(m)' = "interpret" /\ message'[1] = m
      BY <1>1, <2>1, SameReading DEF Inv
    <2>3. QED
      BY <2>2 DEF Route, Routes
  <1>4. (stage = "execute" => Grounds(bound[1], decision, message[1]))'
    <2> SUFFICES ASSUME stage = "execute"
                 PROVE  Grounds(bound[1], decision, message[1])'
      BY <1>1
    <2>1. PICK i, d, m : i = bound[1] /\ d = decision /\ m = message[1]
      OBVIOUS
    <2>2. Grounds(i, d, m)'
      BY <1>1, <2>1, SameGrounds DEF Inv
    <2>3. bound'[1] = i /\ decision' = d /\ message'[1] = m
      BY <1>1, <2>1
    <2>4. QED
      BY <2>2, <2>3 DEF Grounds, Follows
  <1>5. QED
    BY <1>2, <1>3, <1>4 DEF Inv

LEMMA NextKeepsInv ==
  ASSUME Inv, [Next]_vars
  PROVE  Inv'
  <1>1. ASSUME NEW m \in Messages,
               \/ BindAnalyzedFlow(m) \/ BindSnapshot(m) \/ BindDirectedFlow(m)
        PROVE  Inv'
    BY <1>1, WordsKeepInv
  <1>2. ASSUME NEW m \in Messages,
               BindComparison(m, "own_consumers", OwnConsumers(m), <<"distribution", "consumption">>)
        PROVE  Inv'
    <2>1. Route(m) = "own_consumers" => AreSides(OwnConsumers(m))
      BY RouteApplies, OwnConsumersBound
    <2>2. QED
      BY <1>2, <2>1, ComparisonKeepsInv
  <1>3. ASSUME NEW m \in Messages, BindComparison(m, "peers", PeerEntities(m), <<>>)
        PROVE  Inv'
    <2>1. Route(m) = "peers" => AreSides(PeerEntities(m))
      BY RouteApplies, PeersBound
    <2>2. QED
      BY <1>3, <2>1, ComparisonKeepsInv
  <1>4. ASSUME NEW m \in Messages, BindRoleSeparated(m)
        PROVE  Inv'
    BY <1>4, SeparatedKeepsInv
  <1>5. ASSUME NEW m \in Messages, Standalone(m)
        PROVE  Inv'
    BY <1>5, StandaloneKeepsInv
  <1>6. ASSUME NEW m \in Messages, Interpret(m)
        PROVE  Inv'
    BY <1>6, InterpretKeepsInv
  <1>7. ASSUME Repair \/ Execute
        PROVE  Inv'
    BY <1>7, RepairKeepsInv, ExecuteKeepsInv
  <1>8. ASSUME UNCHANGED vars
        PROVE  Inv'
    BY <1>8, StutterKeepsInv
  <1>9. QED
    BY <1>1, <1>2, <1>3, <1>4, <1>5, <1>6, <1>7, <1>8 DEF Next

-----------------------------------------------------------------------------
(* Theorems *)

\* In every session what is stored and what runs was bound from the registry, in a
\* shape the contract accepts, and what follows a decision is that decision as the
\* compiler and the two normalisations read it against the turns before it.
THEOREM InvHolds == Spec => []Inv
  <1>1. Init => Inv
    BY InitHoldsInv
  <1>2. Inv /\ [Next]_vars => Inv'
    BY NextKeepsInv
  <1>3. QED
    BY <1>1, <1>2, PTL DEF Spec

LEMMA InvTypes ==
  ASSUME Inv
  PROVE  TypeOK
  <1>1. \A row \in Range(journal) : ValidShape(row.intent)
    BY DEF Inv, JournalBound, IsBound
  <1>2. \A intent \in Range(bound) :
          ValidShape(intent) /\ \A o \in Range(intent.operands) : EffectivePeriods(intent, o) # <<>>
    <2>1. CASE stage # "execute"
      <3>1. bound = <<>>
        BY <2>1 DEF Inv
      <3>2. Range(<<>>) = {}
        BY DEF Range
      <3>3. QED
        BY <3>1, <3>2
    <2>2. CASE stage = "execute"
      <3>1. PICK i : IsAdmitted(i) /\ bound = <<i>>
        BY <2>2 DEF Inv
      <3>2. \A x \in Range(<<i>>) : x = i
        BY DEF Range
      <3>3. QED
        BY <3>1, <3>2 DEF IsAdmitted, IsBound
    <2>3. QED
      BY <2>1, <2>2
  <1>3. since <= Revision /\ Revision <= limit
    BY DEF Inv
  <1>4. QED
    BY <1>1, <1>2, <1>3 DEF Inv, TypeOK

\* Every intent the session keeps or runs has a shape the contract accepts and a
\* period, whatever was done to it since it was validated (processor.py,
\* model_copy).
THEOREM InterpretationTypesHold == Spec => []TypeOK
  BY InvHolds, InvTypes, PTL

\* What a draft keeps of the intent `was` that it edits.
LEMMA DraftKeeps ==
  ASSUME NEW d, IsDraft(d), NEW was, IsBound(was), NEW base, base = <<was>>,
         NEW scopes, AreScopes(scopes),
         NEW asked, asked = Directed(d.operation, base, scopes, "operation"),
         NEW r, r = FromBase(d, base, scopes), r.kind = "bound",
         NEW is, NormalForm(is, r.intent)
  PROVE  \/ /\ d.operation.action = "keep" => is.operation = was.operation
            /\ d.periods.action = "keep" => is.periods = was.periods
            /\ d.metrics.action = "keep" /\ d.entities.action = "keep" =>
                 /\ Len(is.operands) = Len(was.operands)
                 /\ \A i \in 1..Len(is.operands) :
                      /\ is.operands[i].metric = was.operands[i].metric
                      /\ is.operands[i].periods = was.operands[i].periods
                      /\ ~d.reverse => is.operands[i].entities = was.operands[i].entities
         \/ asked = <<"compare">> /\ is.operation = "compare_periods"
  <1>1. IsActive(base)
    BY DEF IsActive
  <1>2. base # <<>> /\ base[1] = was
    OBVIOUS
  <1>3. asked = <<r.intent.operation>> /\ KeptByDraft(d, was, r.intent)
    BY <1>1, <1>2, DraftResult
  <1>4. CASE is.operands = r.intent.operands /\ is.periods = r.intent.periods
             /\ is.operation = r.intent.operation
    BY <1>3, <1>4 DEF KeptByDraft
  <1>5. CASE r.intent.operation = "compare" /\ is.operation = "compare_periods"
    BY <1>3, <1>5
  <1>6. QED
    BY <1>4, <1>5 DEF NormalForm

LEMMA InvKeepsDrafts ==
  ASSUME Inv
  PROVE  DraftKeepsTheRest
  <1> SUFFICES ASSUME stage = "execute", decision # <<>>, decision[1].kind = "draft",
                      Active # 0, Continues
               PROVE  DraftKeepsTheRest
    BY DEF DraftKeepsTheRest
  <1>1. PICK x : decision = <<x>> /\ Follows(bound[1], x, message[1])
    BY DEF Inv, Grounds
  <1>2. IsDraft(x.draft) /\ x.kind = "draft"
    BY <1>1 DEF Follows, IsDecision
  <1>3. IsBound(journal[Active].intent) /\ ActiveIntent = <<journal[Active].intent>>
    BY StoredTurns DEF Inv
  <1>4. AreScopes(ScopesOfSession)
    BY StoredScopes DEF Inv
  <1>5. Compile(message[1], x) = FromBase(x.draft, ActiveIntent, ScopesOfSession)
    <2>1. BaseOf(x) = ActiveIntent
      BY <1>1 DEF BaseOf, Continues
    <2>2. IsDecision(x)
      BY <1>1 DEF Follows
    <2>3. QED
      BY <1>2, <2>1, <2>2, ReadingOf DEF Inv
  <1>6. Compile(message[1], x).kind = "bound" /\ NormalForm(bound[1], Compile(message[1], x).intent)
    BY <1>1 DEF Follows
  <1>7. decision[1] = x
    BY <1>1
  <1>8. QED
    BY <1>2, <1>3, <1>4, <1>5, <1>6, <1>7, DraftKeeps DEF DraftKeepsTheRest

SpecsBecome(operands, specs, asks, mode, active, globals, frames) ==
  \A k \in 1..Len(specs) :
    /\ IsSpec(specs[k]) /\ AsksMore(asks[k], specs[k])
    /\ GraphOperand(asks[k], mode, active, globals, frames).kind = "bound"
    /\ operands[k] = GraphOperand(asks[k], mode, active, globals, frames).operand[1]

\* What became of the specs of a graph: `asks` are those specs with the entities of
\* the message, one operand for each.
LEMMA GraphFollowed ==
  ASSUME NEW g, IsGraph(g), NEW mode, NEW active, IsActive(active),
         NEW frames, BoundFrames(frames), NEW mentions, AreMentions(mentions),
         mode = "mutation" \/ frames # <<>> \/ active # <<>>,
         NEW r, r = CompileGraph(g, mode, active, frames, mentions), r.kind = "bound",
         NEW shaped, shaped = NormalShape(g, mentions),
         NEW specs, specs = shaped.operands,
         NEW i, NormalForm(i, r.intent), Len(i.operands) = Len(specs),
         NEW globals, globals = GlobalPeriods(shaped, active, frames),
         NEW asks, asks = Reconciled(specs, mentions, frames)
  PROVE  /\ i.periods = globals
         /\ mentions = <<>> => asks = specs
         /\ SpecsBecome(i.operands, specs, asks, mode, FieldOf(active, "operands"), globals, frames)
  <1>1. IsGraph(shaped) /\ r = CompileShaped(shaped, mode, active, frames, mentions)
    BY GraphResult
  <1>2. /\ Len(r.intent.operands) = Len(specs)
        /\ r.intent.periods = globals
        /\ \A k \in 1..Len(specs) :
             /\ Compiled(shaped, mode, active, frames, mentions)[k].kind = "bound"
             /\ r.intent.operands[k] =
                  Compiled(shaped, mode, active, frames, mentions)[k].operand[1]
    <2>1. Len(r.intent.operands) = Len(shaped.operands)
      BY <1>1, ShapedGraphResult
    <2>2. r.intent.periods = GlobalPeriods(shaped, active, frames)
      BY <1>1, ShapedGraphResult
    <2>3. ASSUME NEW k \in 1..Len(shaped.operands)
          PROVE  /\ Compiled(shaped, mode, active, frames, mentions)[k].kind = "bound"
                 /\ r.intent.operands[k] =
                      Compiled(shaped, mode, active, frames, mentions)[k].operand[1]
      <3>1. AllRun(r.intent.operands, Compiled(shaped, mode, active, frames, mentions),
                   Len(shaped.operands))
        BY <1>1, ShapedGraphResult
      <3>2. QED
        BY <2>3, <3>1 DEF AllRun, RunsAs
    <2>4. QED
      BY <2>1, <2>2, <2>3
  <1>3. i.operands = r.intent.operands /\ i.periods = r.intent.periods
    BY <1>2 DEF NormalForm
  <1>4. AreSpecs(specs)
    BY <1>1 DEF IsGraph, AreSpecs
  <1>5. /\ mentions = <<>> => asks = specs
        /\ \A k \in 1..Len(specs) : AsksMore(asks[k], specs[k])
    BY <1>4, ReconciledSpecs
  <1>6. \A k \in 1..Len(specs) : IsSpec(specs[k])
    BY <1>4, SpecOfList
  <1>7. ASSUME NEW k \in 1..Len(specs)
        PROVE  Compiled(shaped, mode, active, frames, mentions)[k] =
                 GraphOperand(asks[k], mode, FieldOf(active, "operands"), globals, frames)
    BY Zenon, <1>7 DEF Compiled
  <1>8. QED
    BY <1>2, <1>3, <1>5, <1>6, <1>7 DEF SpecsBecome

\* The operand `raw` that a spec selects, before the article of its metric is added
\* and its direction reversed; `t` is the spec with the entities of the message.
Selects(raw, t, source) ==
  /\ IsBoundOperand(raw)
  /\ raw.metric = MetricOf(t, source)
  /\ raw.agg = AggregateOf(t, MetricOf(t, source), source)
  /\ PeriodModeOf(t) = "inherit" => raw.periods = FieldOf(source, "periods")
  /\ EntityModeOf(t) = "inherit" => raw.entities = FieldOf(source, "entities")
  /\ t.entityMode # "clear" /\ (t.handles # <<>> \/ t.mentions # <<>>) => raw.entities # <<>>
  /\ \A e \in Range(raw.entities) :
       \/ e.role = "article"
       \/ e \in Range(FieldOf(source, "entities"))
       \/ Handle(e) \in Range(t.handles)
       \/ \E m \in Range(t.mentions) : m.text = e.name

Directs(is, raw, t) ==
  /\ t.reverse => Reversible(WithMetricArticle(raw))
  /\ is = IF t.reverse THEN Reversed(WithMetricArticle(raw)) ELSE WithMetricArticle(raw)

LEMMA OperandSelected ==
  ASSUME NEW t, IsSpec(t), NEW mode, NEW active, AreBoundOperands(active),
         NEW globals, NEW frames, BoundFrames(frames),
         NEW source, source = Source(t, mode, active, globals, frames),
         NEW q, q = GraphOperand(t, mode, active, globals, frames), q.kind = "bound"
  PROVE  /\ IsSource(source) /\ (t.source # <<>> => source # <<>>)
         /\ ~Ambiguous(t, mode, active, source)
         /\ PeriodsKnown(t.periodHandles, frames)
         /\ \E raw : Selects(raw, t, source) /\ Directs(q.operand[1], raw, t)
  <1> DEFINE metric == MetricOf(t, source)
             held == FieldOf(source, "entities")
             o == SpecOperand(t, source, metric, held, frames)
             raw == RawOperand(t, source, metric, held, frames)
  <1>1. metric = MetricOf(t, source) /\ held = FieldOf(source, "entities")
    OBVIOUS
  <1>2. o = SpecOperand(t, source, metric, held, frames)
    OBVIOUS
  <1>3. o = WithMetricArticle(raw)
    BY Zenon DEF SpecOperand, RawOperand
  <1>4. raw = RawOperand(t, source, metric, held, frames)
    OBVIOUS
  <1> HIDE DEF metric, held, o, raw
  <1>5. /\ IsSource(source) /\ ~Ambiguous(t, mode, active, source)
        /\ LegalSpec(t, source, metric, held, frames)
        /\ PeriodsKnown(t.periodHandles, frames)
    BY <1>1, <1>2, GraphOperandResult
  <1>6. /\ t.reverse => Reversible(o)
        /\ q.operand = <<IF t.reverse THEN Reversed(o) ELSE o>>
    BY <1>1, <1>2, GraphOperandResult
  <1>7. Directs(q.operand[1], raw, t)
    BY <1>3, <1>6 DEF Directs
  <1>8. t.source # <<>> => source # <<>>
    BY <1>5 DEF LegalSpec
  <1>9. /\ IsBoundOperand(raw)
        /\ raw.metric = metric /\ raw.agg = AggregateOf(t, metric, source)
        /\ raw.periods = GraphPeriods(PeriodModeOf(t), FieldOf(source, "periods"),
                                      Referenced(t.periodHandles, t.periods, frames))
        /\ EntityModeOf(t) = "inherit" => raw.entities = held
    BY <1>1, <1>4, <1>5, RawOperandBound
  <1>10. t.entityMode # "clear" /\ (t.handles # <<>> \/ t.mentions # <<>>) => raw.entities # <<>>
    BY <1>1, <1>4, <1>5, RawOperandBound
  <1>11. \A e \in Range(raw.entities) :
           \/ e.role = "article"
           \/ e \in Range(held)
           \/ Handle(e) \in Range(t.handles)
           \/ \E m \in Range(t.mentions) : m.text = e.name
    BY <1>1, <1>4, <1>5, RawOperandBound
  <1>12. PeriodModeOf(t) = "inherit" => raw.periods = FieldOf(source, "periods")
    BY <1>9 DEF GraphPeriods
  <1>13. Selects(raw, t, source)
    BY <1>1, <1>9, <1>10, <1>11, <1>12 DEF Selects
  <1>14. QED
    BY <1>5, <1>7, <1>8, <1>13

\* The entities that were there stay, but for the direction; only articles are added.
LEMMA ArticleOnly ==
  ASSUME NEW raw, IsBoundOperand(raw), NEW o, o = WithMetricArticle(raw)
  PROVE  /\ IsBoundOperand(o)
         /\ o.metric = raw.metric /\ o.agg = raw.agg /\ o.periods = raw.periods
         /\ Range(raw.entities) \subseteq Range(o.entities)
         /\ \A e \in Range(o.entities) \ Range(raw.entities) : e.role = "article"
         /\ raw.entities # <<>> => o.entities # <<>>
         /\ RefOf(raw, "balance") = <<>> \/ RefOf(raw, "article") # <<>> => o = raw
  <1>1. IsOperand(raw) /\ raw.entities \in Seq(Entities) /\ RolesDiffer(raw.entities)
    BY DEF IsBoundOperand
  <1>2. /\ IsOperand(o) /\ o.entities \in Seq(Entities) /\ RolesDiffer(o.entities)
        /\ o.metric = raw.metric /\ o.agg = raw.agg /\ o.periods = raw.periods
        /\ Range(raw.entities) \subseteq Range(o.entities)
    BY <1>1, MetricArticleAdded
  <1>3. \A e \in Range(o.entities) \ Range(raw.entities) : e.role = "article"
    BY <1>1, MetricArticleAdded
  <1>4. raw.entities # <<>> => o.entities # <<>>
    <2>1. /\ raw.entities = <<>> <=> Range(raw.entities) = {}
          /\ o.entities = <<>> <=> Range(o.entities) = {}
      BY <1>1, <1>2, ElementsOfList
    <2>2. QED
      BY <1>2, <2>1
  <1>5. RefOf(raw, "balance") = <<>> \/ RefOf(raw, "article") # <<>> => o = raw
    BY Zenon DEF WithMetricArticle
  <1>6. QED
    BY <1>2, <1>3, <1>4, <1>5 DEF IsBoundOperand

LEMMA TheOtherWay ==
  ASSUME NEW o, IsBoundOperand(o), NEW t, t = Reversed(o)
  PROVE  /\ IsBoundOperand(t)
         /\ t.metric = o.metric /\ t.agg = o.agg /\ t.periods = o.periods
         /\ Reversible(o) => t.entities # <<>>
  <1>1. IsOperand(o) /\ o.entities \in Seq(Entities) /\ RolesDiffer(o.entities)
    BY DEF IsBoundOperand
  <1>2. /\ OnlyEntitiesDiffer(t, o) /\ t.entities \in Seq(Entities) /\ RolesDiffer(t.entities)
        /\ Reversible(o) => t.entities # <<>>
    BY <1>1, DirectionReversed
  <1>3. QED
    BY <1>2 DEF OnlyEntitiesDiffer, IsBoundOperand

LEMMA DirectedOperand ==
  ASSUME NEW is, NEW raw, IsBoundOperand(raw), NEW t, Directs(is, raw, t)
  PROVE  /\ is.metric = raw.metric /\ is.agg = raw.agg /\ is.periods = raw.periods
         /\ raw.entities # <<>> => is.entities # <<>>
         /\ ~t.reverse => /\ Range(raw.entities) \subseteq Range(is.entities)
                          /\ \A e \in Range(is.entities) \ Range(raw.entities) : e.role = "article"
  <1> DEFINE o == WithMetricArticle(raw)
  <1>1. o = WithMetricArticle(raw)
    OBVIOUS
  <1>2. /\ t.reverse => Reversible(o) /\ is = Reversed(o)
        /\ ~t.reverse => is = o
    BY DEF Directs
  <1> HIDE DEF o
  <1>3. /\ IsBoundOperand(o)
        /\ o.metric = raw.metric /\ o.agg = raw.agg /\ o.periods = raw.periods
        /\ Range(raw.entities) \subseteq Range(o.entities)
        /\ \A e \in Range(o.entities) \ Range(raw.entities) : e.role = "article"
        /\ raw.entities # <<>> => o.entities # <<>>
    BY <1>1, ArticleOnly
  <1>4. CASE t.reverse
    BY <1>2, <1>3, <1>4, TheOtherWay
  <1>5. CASE ~t.reverse
    BY <1>2, <1>3, <1>5
  <1>6. QED
    BY <1>4, <1>5

\* What ReversalSwapsTheEnds says of an operand and what became of it.
EndsSwap(is, was) ==
  IF IsReadOnBalance(was)
  THEN /\ IsReadOnBalance(is) /\ LeavesItsBalance(is)
       /\ RefOf(is, "balance")[1].name = RefOf(was, "article")[1].name
       /\ LeavesItsBalance(was) => Opposite(is, was)
  ELSE "balance" \notin Roles(was) => Opposite(is, was) /\ "article" \notin Roles(is)

LEMMA EndsTurned ==
  ASSUME NEW was, NEW raw, IsBoundOperand(raw), raw.entities = was.entities,
         NEW t, t.reverse, NEW is, Directs(is, raw, t)
  PROVE  EndsSwap(is, was)
  <1>1. /\ \A role : RefOf(raw, role) = RefOf(was, role)
        /\ Roles(raw) = Roles(was)
    BY DEF RefOf, Roles
  <1>2. IsReadOnBalance(raw) <=> IsReadOnBalance(was)
    BY <1>1 DEF IsReadOnBalance
  <1>3. IsOperand(raw) /\ raw.entities \in Seq(Entities) /\ RolesDiffer(raw.entities)
    BY DEF IsBoundOperand
  <1>4. CASE IsReadOnBalance(was)
    <2>1. WithMetricArticle(raw) = raw
      BY <1>1, <1>4, ArticleOnly DEF IsReadOnBalance
    <2>2. is = Reversed(raw) /\ Reversible(raw)
      BY <2>1 DEF Directs
    <2>3. /\ RefOf(is, "balance")[1].name = RefOf(raw, "article")[1].name
          /\ RefOf(is, "article")[1].name = RefOf(raw, "balance")[1].name
          /\ IsReadOnBalance(is) /\ LeavesItsBalance(is)
      BY <1>2, <1>3, <1>4, <2>2, DirectionReversed
    <2>4. FlowOf(is) = <<RefOf(is, "balance")[1].name, RefOf(is, "article")[1].name>>
      BY <2>3 DEF FlowOf
    <2>5. LeavesItsBalance(was) =>
            FlowOf(was) = <<RefOf(was, "balance")[1].name, RefOf(was, "article")[1].name>>
      BY <1>4 DEF FlowOf
    <2>6. QED
      BY <1>1, <1>4, <2>3, <2>4, <2>5 DEF EndsSwap, Opposite
  <1>5. CASE ~IsReadOnBalance(was) /\ "balance" \notin Roles(was)
    <2>1. RefOf(raw, "balance") = <<>>
      BY <1>1, <1>3, <1>5, RefsOfRole
    <2>2. WithMetricArticle(raw) = raw
      BY <2>1, ArticleOnly
    <2>3. is = Reversed(raw) /\ Reversible(raw)
      BY <2>2 DEF Directs
    <2>4. /\ RefOf(is, "source")[1].name = RefOf(raw, "destination")[1].name
          /\ RefOf(is, "destination")[1].name = RefOf(raw, "source")[1].name
          /\ "article" \notin Roles(is) /\ is.entities \in Seq(Entities)
      BY <1>2, <1>3, <1>5, <2>3, DirectionReversed
    <2>5. ~IsReadOnBalance(is)
      BY <2>4, RefsOfRole DEF IsReadOnBalance
    <2>6. /\ FlowOf(is) = <<RefOf(is, "source")[1].name, RefOf(is, "destination")[1].name>>
          /\ FlowOf(was) = <<RefOf(was, "source")[1].name, RefOf(was, "destination")[1].name>>
      BY <1>5, <2>5 DEF FlowOf
    <2>7. QED
      BY <1>1, <1>5, <2>4, <2>6 DEF EndsSwap, Opposite
  <1>6. QED
    BY <1>4, <1>5 DEF EndsSwap

LEMMA OnlyNamed ==
  ASSUME NEW i, IsBound(i), NEW x \in Range(i.operands), NEW y,
         y = Only({o \in Range(i.operands) : o.id = x.id}), y # <<>>
  PROVE  y[1] = x
  <1> DEFINE s == i.operands
             S == {o \in Range(s) : o.id = x.id}
  <1>1. AreBoundOperands(s)
    <2>1. s \in Seq(Range(s))
      BY DEF IsBound, IsIntent
    <2>2. IsList(s)
      BY <2>1 DEF IsList
    <2>3. QED
      BY <2>2, BoundOperands DEF AreBoundOperands
  <1>2. S \subseteq Range(s) /\ x \in S /\ y = Only(S)
    OBVIOUS
  <1> HIDE DEF s, S
  <1>3. S = {y[1]}
    BY <1>1, <1>2, OneOfOperands
  <1>4. QED
    BY <1>2, <1>3

\* A spec continues the operand it means.
LEMMA MeantIsContinued ==
  ASSUME Inv, NEW s, MeantBy(s) # <<>>, NEW globals, NEW source,
         source = Source(s, decision[1].mode, FieldOf(ActiveIntent, "operands"), globals, Frames),
         s.source # <<>> => source # <<>>
  PROVE  source # <<>> /\ source[1] = MeantBy(s)[1]
  <1>1. JournalBound /\ since \in 0..Revision
    BY DEF Inv
  <1>2. CASE s.source # <<>>
    <2> DEFINE h == s.source[1]
    <2>1. source = SourceOperand(h, Frames) /\ source # <<>>
      BY <1>2 DEF Source
    <2>2. BoundFrames(Frames)
      BY <1>1, StoredFrames
    <2>3. PICK f \in Range(Frames) : /\ f.turn = h.turn
                                     /\ source[1] \in Range(f.intent.operands)
                                     /\ source[1].id = h.operand
      BY <2>1, <2>2, SourceOperandBound
    <2>4. IsBound(f.intent) /\ f.intent = journal[TurnOf(h.turn)].intent
      BY <1>1, <2>2, <2>3, StoredFrames DEF BoundFrames
    <2>5. MeantBy(s) = Only({o \in Range(f.intent.operands) : o.id = source[1].id})
      BY <1>2, <2>3, <2>4 DEF MeantBy, TurnOf
    <2>6. source[1] = MeantBy(s)[1]
      BY <2>3, <2>4, <2>5, OnlyNamed
    <2>7. QED
      BY <2>1, <2>6
  <1>3. CASE s.source = <<>>
    <2>1. /\ decision[1].mode = "mutation"
          /\ Active # 0 /\ Len(journal[Active].intent.operands) = 1
          /\ MeantBy(s) = journal[Active].intent.operands
      BY <1>3 DEF MeantBy, Continues
    <2>2. ActiveIntent = <<journal[Active].intent>>
      BY <1>1, <2>1, StoredTurns
    <2>3. FieldOf(ActiveIntent, "operands") = journal[Active].intent.operands
      BY <2>2 DEF FieldOf
    <2>4. source = journal[Active].intent.operands
      BY <1>3, <2>1, <2>3 DEF Source
    <2>5. QED
      BY <2>1, <2>4
  <1>4. QED
    BY <1>2, <1>3

\* The operand `is` that became of spec s: t is s with the entities of the message.
Reads(is, s, t, source, raw, mentions) ==
  /\ IsSpec(s) /\ AsksMore(t, s)
  /\ mentions = <<>> => t = s
  /\ IsSource(source)
  /\ s.source # <<>> => source # <<>>
  /\ Selects(raw, t, source) /\ Directs(is, raw, t)

LEMMA SameSourceAsked ==
  ASSUME NEW t, NEW s, AsksMore(t, s), NEW mode, NEW active, NEW globals, NEW frames
  PROVE  Source(t, mode, active, globals, frames) = Source(s, mode, active, globals, frames)
  BY DEF Source, AsksMore, AsksOtherEntities

SpecIsRead(i, k, specs, g, mode, active, frames, mentions, source) ==
  /\ PeriodsKnown(specs[k].periodHandles, frames)
  /\ i.periods = GlobalPeriods(NormalShape(g, mentions), active, frames)
  /\ \E t : /\ ~Ambiguous(t, mode, FieldOf(active, "operands"), source)
            /\ \E raw : Reads(i.operands[k], specs[k], t, source, raw, mentions)

LEMMA SpecRead ==
  ASSUME NEW g, IsGraph(g), NEW mode, NEW active, IsActive(active),
         NEW frames, BoundFrames(frames), NEW mentions, AreMentions(mentions),
         NEW r, r = CompileGraph(g, mode, active, frames, mentions), r.kind = "bound",
         NEW specs, specs = NormalShape(g, mentions).operands,
         NEW i, NormalForm(i, r.intent), Len(i.operands) = Len(specs),
         NEW k \in 1..Len(specs),
         active # <<>> \/ mode = "mutation" \/ specs[k].source # <<>>,
         NEW source,
         source = Source(specs[k], mode, FieldOf(active, "operands"), i.periods, frames)
  PROVE  SpecIsRead(i, k, specs, g, mode, active, frames, mentions, source)
  <1> DEFINE shaped == NormalShape(g, mentions)
             globals == GlobalPeriods(shaped, active, frames)
             asks == Reconciled(specs, mentions, frames)
             operands == FieldOf(active, "operands")
             t == asks[k]
             q == GraphOperand(t, mode, operands, globals, frames)
  <1>1. /\ shaped = NormalShape(g, mentions) /\ specs = shaped.operands
        /\ globals = GlobalPeriods(shaped, active, frames)
        /\ asks = Reconciled(specs, mentions, frames)
        /\ operands = FieldOf(active, "operands")
    OBVIOUS
  <1> HIDE DEF shaped, globals, asks, operands
  <1>2. IsGraph(shaped)
    BY <1>1, GraphResult
  <1>3. mode = "mutation" \/ frames # <<>> \/ active # <<>>
    <2> SUFFICES ASSUME mode # "mutation", frames = <<>>, active = <<>>
                 PROVE  FALSE
      OBVIOUS
    <2>1. \A s \in Range(shaped.operands) : s.source = <<>>
      BY <1>1, GraphResult
    <2>2. specs[k] \in Range(shaped.operands)
      BY <1>1, <1>2, SpecOfList DEF IsGraph, AreSpecs
    <2>3. QED
      BY <2>1, <2>2
  <1>4. /\ i.periods = globals /\ (mentions = <<>> => asks = specs)
        /\ SpecsBecome(i.operands, specs, asks, mode, operands, globals, frames)
    BY <1>1, <1>3, GraphFollowed
  <1>5. /\ IsSpec(specs[k]) /\ AsksMore(t, specs[k])
        /\ q.kind = "bound" /\ i.operands[k] = q.operand[1]
    BY <1>4 DEF SpecsBecome
  <1>6. source = Source(t, mode, operands, globals, frames)
    BY <1>1, <1>4, <1>5, SameSourceAsked
  <1>7. AreBoundOperands(operands)
    BY <1>1, ActiveOperands
  <1>8. IsSpec(t) /\ t.source = specs[k].source /\ t.periodHandles = specs[k].periodHandles
    BY <1>5 DEF AsksMore, AsksOtherEntities
  <1>9. mentions = <<>> => t = specs[k]
    BY <1>4
  <1>10. q = GraphOperand(t, mode, operands, globals, frames)
    OBVIOUS
  <1> HIDE DEF t, q
  <1>11. /\ IsSource(source) /\ (t.source # <<>> => source # <<>>)
         /\ ~Ambiguous(t, mode, operands, source)
         /\ PeriodsKnown(t.periodHandles, frames)
    BY <1>5, <1>6, <1>7, <1>8, <1>10, OperandSelected
  <1>12. PICK raw : Selects(raw, t, source) /\ Directs(q.operand[1], raw, t)
    BY <1>5, <1>6, <1>7, <1>8, <1>10, OperandSelected
  <1>13. Reads(i.operands[k], specs[k], t, source, raw, mentions)
    BY <1>5, <1>8, <1>9, <1>11, <1>12 DEF Reads
  <1>14. PeriodsKnown(specs[k].periodHandles, frames)
    BY <1>8, <1>11
  <1>15. i.periods = GlobalPeriods(NormalShape(g, mentions), active, frames)
    BY <1>1, <1>4
  <1>16. ~Ambiguous(t, mode, FieldOf(active, "operands"), source)
    BY <1>1, <1>11
  <1>17. QED
    BY <1>13, <1>14, <1>15, <1>16, Zenon DEF SpecIsRead

\* A spec of the graph that is followed, and the operand that runs for it.
LEMMA SpecFollowed ==
  ASSUME Inv, NEW i \in 1..Len(Specs), Active # 0 \/ MeantBy(Specs[i]) # <<>>,
         NEW mode, mode = decision[1].mode, NEW source,
         source = Source(Specs[i], mode, FieldOf(ActiveIntent, "operands"), bound[1].periods, Frames)
  PROVE  /\ PeriodsKnown(Specs[i].periodHandles, Frames)
         /\ bound[1].periods = GlobalPeriods(GraphUsed, ActiveIntent, Frames)
         /\ \E t : /\ ~Ambiguous(t, mode, FieldOf(ActiveIntent, "operands"), source)
                   /\ \E raw : Reads(bound[1].operands[i], Specs[i], t, source, raw,
                                      Tags(message[1]))
  <1>1. Len(<<>>) = 0
    OBVIOUS
  <1>2. /\ stage = "execute" /\ decision # <<>> /\ decision[1].kind = "graph"
        /\ Specs = NormalShape(decision[1].graph, Tags(message[1])).operands
        /\ Len(bound[1].operands) = Len(Specs)
    BY <1>1 DEF Specs, GraphUsed
  <1>3. PICK d : decision = <<d>> /\ Follows(bound[1], d, message[1])
    BY <1>2 DEF Inv, Grounds
  <1>4. d.kind = "graph" /\ IsDecision(d) /\ IsGraph(d.graph) /\ decision[1] = d
    BY <1>2, <1>3 DEF Follows, IsDecision
  <1>5. message[1] \in Messages
    BY <1>2 DEF Inv
  <1>6. /\ IsActive(ActiveIntent) /\ BoundFrames(Frames) /\ AreMentions(Tags(message[1]))
    BY <1>5, StoredTurns, StoredFrames, TagsAreMentions DEF Inv
  <1>7. Compile(message[1], d) = CompileGraph(d.graph, mode, ActiveIntent, Frames, Tags(message[1]))
    BY <1>4, ReadingOf DEF Inv
  <1>8. /\ Compile(message[1], d).kind = "bound"
        /\ NormalForm(bound[1], Compile(message[1], d).intent)
    BY <1>3 DEF Follows
  <1>9. ActiveIntent # <<>> \/ mode = "mutation" \/ Specs[i].source # <<>>
    <2>1. Active # 0 => ActiveIntent # <<>>
      BY DEF ActiveIntent
    <2>2. QED
      BY <2>1 DEF MeantBy, Continues
  <1>10. /\ Specs = NormalShape(d.graph, Tags(message[1])).operands
         /\ GraphUsed = NormalShape(d.graph, Tags(message[1]))
    BY <1>2, <1>4 DEF GraphUsed
  <1>11. PICK g, r, mentions, active, frames, b, specs :
           /\ specs = Specs /\ g = d.graph /\ r = Compile(message[1], d) /\ mentions = Tags(message[1])
           /\ active = ActiveIntent /\ frames = Frames /\ b = bound[1]
    OBVIOUS
  <1>12. /\ r = CompileGraph(g, mode, active, frames, mentions) /\ r.kind = "bound"
         /\ NormalForm(b, r.intent) /\ specs = NormalShape(g, mentions).operands
         /\ Len(b.operands) = Len(specs) /\ i \in 1..Len(specs)
         /\ IsGraph(g) /\ IsActive(active) /\ BoundFrames(frames) /\ AreMentions(mentions)
         /\ active # <<>> \/ mode = "mutation" \/ specs[i].source # <<>>
         /\ source = Source(specs[i], mode, FieldOf(active, "operands"), b.periods, frames)
    BY <1>2, <1>4, <1>6, <1>7, <1>8, <1>9, <1>10, <1>11
  <1>s. SpecIsRead(b, i, specs, g, mode, active, frames, mentions, source)
    BY <1>12, SpecRead
  <1>13. PeriodsKnown(specs[i].periodHandles, frames)
    BY <1>s DEF SpecIsRead
  <1>14. b.periods = GlobalPeriods(NormalShape(g, mentions), active, frames)
    BY <1>s DEF SpecIsRead
  <1>15. \E t : /\ ~Ambiguous(t, mode, FieldOf(active, "operands"), source)
                /\ \E raw : Reads(b.operands[i], specs[i], t, source, raw, mentions)
    BY <1>s, Zenon DEF SpecIsRead
  <1>16. QED
    BY <1>10, <1>11, <1>13, <1>14, <1>15

LEMMA NothingNamed ==
  ASSUME NEW s, IsSpec(s), NamesNothing(s)
  PROVE  EntityModeOf(s) = "inherit"
  BY ModesOfSpec DEF NamesNothing

KeepsRest(is, s, was, mentions) ==
  /\ s.metric = None => is.metric = was.metric
  /\ s.metric = None /\ s.agg = None => is.agg = was.agg
  /\ s.periodMode = "inherit" /\ NamesNoPeriods(s) => is.periods = was.periods
  /\ NamesNothing(s) /\ mentions = <<>> /\ ~s.reverse =>
       /\ Range(was.entities) \subseteq Range(is.entities)
       /\ \A e \in Range(is.entities) \ Range(was.entities) : e.role = "article"

Turns(s, mentions) == s.reverse /\ NamesNothing(s) /\ mentions = <<>>

TurnedInto(is, o, t, was) ==
  IsBoundOperand(o) /\ o.entities = was.entities /\ t.reverse /\ Directs(is, o, t)

LEMMA FollowedKeeps ==
  ASSUME NEW is, NEW s, NEW t, NEW source, source # <<>>, NEW raw, NEW mentions,
         Reads(is, s, t, source, raw, mentions), NEW was, was = source[1]
  PROVE  /\ KeepsRest(is, s, was, mentions)
         /\ Turns(s, mentions) => \E o : TurnedInto(is, o, t, was)
  <1>1. /\ IsSpec(s) /\ IsSpec(t) /\ t.metric = s.metric /\ t.agg = s.agg
        /\ t.periodMode = s.periodMode /\ t.periodHandles = s.periodHandles
        /\ t.periods = s.periods /\ t.reverse = s.reverse
        /\ mentions = <<>> => t = s
        /\ Selects(raw, t, source) /\ Directs(is, raw, t)
    BY DEF Reads, AsksMore, AsksOtherEntities
  <1>2. IsBoundOperand(raw)
    BY <1>1 DEF Selects
  <1>3. /\ is.metric = raw.metric /\ is.agg = raw.agg /\ is.periods = raw.periods
        /\ ~t.reverse => /\ Range(raw.entities) \subseteq Range(is.entities)
                         /\ \A e \in Range(is.entities) \ Range(raw.entities) : e.role = "article"
    BY <1>1, <1>2, DirectedOperand
  <1>4. /\ raw.metric = MetricOf(t, source) /\ raw.agg = AggregateOf(t, MetricOf(t, source), source)
        /\ PeriodModeOf(t) = "inherit" => raw.periods = FieldOf(source, "periods")
        /\ EntityModeOf(t) = "inherit" => raw.entities = FieldOf(source, "entities")
    BY <1>1 DEF Selects
  <1>5. FieldOf(source, "periods") = was.periods /\ FieldOf(source, "entities") = was.entities
    BY DEF FieldOf
  <1>6. s.metric = None => raw.metric = was.metric
    BY <1>1, <1>4 DEF MetricOf
  <1>7. s.metric = None /\ s.agg = None => raw.agg = was.agg
    BY <1>1, <1>4 DEF MetricOf, AggregateOf
  <1>8. s.periodMode = "inherit" /\ NamesNoPeriods(s) => raw.periods = was.periods
    BY <1>1, <1>4, <1>5, ModesOfSpec DEF NamesNoPeriods
  <1>9. NamesNothing(s) /\ mentions = <<>> => raw.entities = was.entities
    BY <1>1, <1>4, <1>5, NothingNamed
  <1>10. QED
    <2>1. KeepsRest(is, s, was, mentions)
      BY <1>1, <1>3, <1>6, <1>7, <1>8, <1>9 DEF KeepsRest
    <2>2. Turns(s, mentions) => TurnedInto(is, raw, t, was)
      BY <1>1, <1>2, <1>9 DEF Turns, TurnedInto
    <2>3. QED
      BY <2>1, <2>2

\* The spec of an operand that is meant continues it.
LEMMA MeantFollowed ==
  ASSUME Inv, NEW i \in 1..Len(Specs), MeantBy(Specs[i]) # <<>>
  PROVE  \E t, source, raw :
           /\ source # <<>> /\ source[1] = MeantBy(Specs[i])[1]
           /\ Reads(bound[1].operands[i], Specs[i], t, source, raw, Tags(message[1]))
  <1> DEFINE mode == decision[1].mode
  <1>1. PICK source : source = Source(Specs[i], mode, FieldOf(ActiveIntent, "operands"),
                                      bound[1].periods, Frames)
    OBVIOUS
  <1>2. PICK t, raw : Reads(bound[1].operands[i], Specs[i], t, source, raw, Tags(message[1]))
    BY <1>1, SpecFollowed
  <1>3. Specs[i].source # <<>> => source # <<>>
    BY <1>2 DEF Reads
  <1>4. source # <<>> /\ source[1] = MeantBy(Specs[i])[1]
    BY <1>1, <1>3, MeantIsContinued
  <1>5. QED
    BY <1>2, <1>4

\* A graph that names no periods shares those of the active intent.
LEMMA SharedPeriodsStay ==
  ASSUME Inv, Specs # <<>>, NamesNoPeriods(GraphUsed), Active # 0
  PROVE  bound[1].periods = journal[Active].intent.periods
  <1> DEFINE g == GraphUsed
             none == <<>>
  <1>1. 1 \in 1..Len(Specs)
    <2>1. /\ stage = "execute" /\ decision # <<>> /\ decision[1].kind = "graph"
          /\ Specs = GraphUsed.operands
      BY DEF Specs
    <2>2. PICK d : decision = <<d>> /\ Follows(bound[1], d, message[1])
      BY <2>1 DEF Inv, Grounds
    <2>3. IsGraph(decision[1].graph)
      BY <2>1, <2>2 DEF Follows, IsDecision
    <2>4. message[1] \in Messages
      BY <2>1 DEF Inv
    <2>5. AreMentions(Tags(message[1]))
      BY <2>4, TagsAreMentions
    <2>6. IsGraph(GraphUsed)
      BY <2>3, <2>5, ShapeOfGraph DEF GraphUsed
    <2>7. Specs \in Seq(Range(Specs))
      BY <2>1, <2>6 DEF IsGraph, IsList
    <2>8. QED
      BY <2>7
  <1>2. PICK source : source = Source(Specs[1], decision[1].mode,
                                      FieldOf(ActiveIntent, "operands"), bound[1].periods, Frames)
    OBVIOUS
  <1>3. bound[1].periods = GlobalPeriods(g, ActiveIntent, Frames)
    BY <1>1, <1>2, SpecFollowed
  <1>4. g.periodHandles = none /\ g.periods = none
    BY DEF NamesNoPeriods
  <1> HIDE DEF g
  <1>5. Referenced(g.periodHandles, g.periods, Frames) = <<>>
    <2>1. IsList(none)
      BY DEF IsList
    <2> HIDE DEF none
    <2>2. /\ IsList(Referenced(none, none, Frames))
          /\ Range(Referenced(none, none, Frames))
               = {PeriodOf(x, Frames) : x \in Range(none)} \cup Range(none)
      BY <2>1, ReferencedPeriods
    <2>3. Range(none) = {}
      BY DEF none, Range
    <2>4. QED
      BY <1>4, <2>2, <2>3, ElementsOfList DEF IsList
  <1>6. ActiveIntent = <<journal[Active].intent>>
    BY StoredTurns DEF Inv
  <1>7. QED
    BY <1>3, <1>5, <1>6 DEF GlobalPeriods, FieldOf

LEMMA InvKeepsTheRest ==
  ASSUME Inv
  PROVE  FollowUpKeepsTheRest
  <1>1. DraftKeepsTheRest
    BY InvKeepsDrafts
  <1>2. ASSUME NEW i \in 1..Len(Specs), MeantBy(Specs[i]) # <<>>,
               NEW spec, spec = Specs[i], NEW was, was = MeantBy(Specs[i])[1],
               NEW is, is = bound[1].operands[i]
        PROVE  /\ spec.metric = None => is.metric = was.metric
               /\ spec.metric = None /\ spec.agg = None => is.agg = was.agg
               /\ spec.periodMode = "inherit" /\ NamesNoPeriods(spec) => is.periods = was.periods
               /\ NamesNothing(spec) /\ Tags(message[1]) = <<>> /\ ~spec.reverse =>
                    /\ Range(was.entities) \subseteq Range(is.entities)
                    /\ \A e \in Range(is.entities) \ Range(was.entities) : e.role = "article"
    <2>1. PICK t, source, raw : /\ source # <<>> /\ source[1] = was
                                /\ Reads(is, spec, t, source, raw, Tags(message[1]))
      BY <1>2, MeantFollowed
    <2>2. PICK mentions : mentions = Tags(message[1])
      OBVIOUS
    <2>3. Reads(is, spec, t, source, raw, mentions)
      BY <2>1, <2>2
    <2>4. KeepsRest(is, spec, was, mentions)
      BY <2>1, <2>3, FollowedKeeps
    <2>5. QED
      BY <2>2, <2>4 DEF KeepsRest
  <1>3. Specs # <<>> /\ NamesNoPeriods(GraphUsed) /\ Active # 0 =>
          bound[1].periods = journal[Active].intent.periods
    BY SharedPeriodsStay
  <1>4. QED
    BY <1>1, <1>2, <1>3 DEF FollowUpKeepsTheRest

LEMMA InvSwapsTheEnds ==
  ASSUME Inv
  PROVE  ReversalSwapsTheEnds
  <1>1. ASSUME NEW i \in 1..Len(Specs), OnlyReverses(Specs[i]),
               NEW was, was = MeantBy(Specs[i])[1], NEW is, is = bound[1].operands[i]
        PROVE  EndsSwap(is, was)
    <2>1. PICK spec : spec = Specs[i]
      OBVIOUS
    <2>2. PICK t, source, raw : /\ source # <<>> /\ source[1] = was
                                /\ Reads(is, spec, t, source, raw, <<>>)
      BY <1>1, <2>1, MeantFollowed DEF OnlyReverses
    <2>3. Turns(spec, <<>>)
      BY <1>1, <2>1 DEF OnlyReverses, Turns
    <2>4. PICK o : TurnedInto(is, o, t, was)
      BY <2>2, <2>3, FollowedKeeps
    <2>5. QED
      BY <2>4, EndsTurned DEF TurnedInto
  <1>2. QED
    BY <1>1 DEF ReversalSwapsTheEnds, EndsSwap

\* What a follow-up does not change stays as it was: for a graph the metric, the
\* aggregate, the own periods and the entities in the operand its handle names or the
\* only active one, and the periods the operands share in the active intent, whichever
\* turn the handle is of (_compile_graph); for a draft the active intent.
THEOREM RestIsKept == Spec => []FollowUpKeepsTheRest
  BY InvHolds, InvKeepsTheRest, PTL

\* A flow that leaves the balance it is read on, turned round, is the opposite flow
\* read on the other balance; a source and a destination change places and no article
\* is left; what is read on a balance is read on the other one afterwards, as what
\* leaves that (_resolve_reverse_operand, _reverse_operand).
THEOREM EndsAreSwapped == Spec => []ReversalSwapsTheEnds
  BY InvHolds, InvSwapsTheEnds, PTL

-----------------------------------------------------------------------------
(* Several active operands *)

\* The operands of `active` over just the days a spec asks for.
OverDays(s, active, globals) ==
  LET days == IF NamesNoPeriods(s) THEN Range(DaysOf(globals))
              ELSE Range(s.periodHandles) \cup Range(DaysOf(s.periods))
  IN {o \in Range(active) : Range(DaysOf(o.periods)) = days}

LEMMA NoneIsPicked ==
  ASSUME NEW s, IsSpec(s), s.source = <<>>, NEW active, AreBoundOperands(active), Len(active) # 1,
         NEW frames, IsList(PeriodLists(frames)), PeriodsKnown(s.periodHandles, frames),
         NEW globals, NEW mode,
         mode # "mutation" \/ Cardinality(OverDays(s, active, globals)) # 1,
         NEW source, source = Source(s, mode, active, globals, frames)
  PROVE  source = <<>>
  <1> DEFINE h == s.periodHandles
             v == s.periods
             r == Referenced(h, v, frames)
             requested == IF h # <<>> \/ v # <<>> THEN r ELSE globals
             S == Over(active, requested)
  <1>1. CASE mode # "mutation"
    BY <1>1 DEF Source
  <1>2. CASE mode = "mutation"
    <2>1. source = IF requested = <<>> THEN <<>> ELSE Only(S)
      BY <1>2 DEF Source, OperandOfPeriods
    <2>2. Range(DaysOf(r)) = Range(h) \cup Range(DaysOf(v))
      BY DaysReferenced DEF IsSpec
    <2>3. NamesNoPeriods(s) <=> ~(h # <<>> \/ v # <<>>)
      BY DEF NamesNoPeriods
    <2> HIDE DEF r
    <2>4. Range(DaysOf(requested)) =
            IF NamesNoPeriods(s) THEN Range(DaysOf(globals))
            ELSE Range(s.periodHandles) \cup Range(DaysOf(s.periods))
      BY <2>2, <2>3
    <2> HIDE DEF requested
    <2>5. S = OverDays(s, active, globals)
      BY <2>4, Zenon DEF Over, OverDays
    <2>6. S \subseteq Range(active)
      BY DEF Over
    <2>7. Cardinality(S) # 1
      BY <1>2, <2>5
    <2> HIDE DEF S
    <2>8. Only(S) = <<>>
      BY <2>6, <2>7, OneOfOperands
    <2>9. QED
      BY <2>1, <2>8
  <1>3. QED
    BY <1>1, <1>2

SaidItself(is, s, mode, mentions) ==
  /\ is.metric = s.metric
  /\ mode = "mutation" /\ s.entityMode = "inherit" => is.entities # <<>>
  /\ mentions = <<>> /\ ~s.reverse =>
       \A e \in Range(is.entities) :
         \/ e.role = "article"
         \/ Handle(e) \in Range(s.handles)
         \/ \E m \in Range(s.mentions) : m.text = e.name

LEMMA UnpickedSays ==
  ASSUME NEW is, NEW s, NEW t, NEW source, source = <<>>, NEW raw, NEW mentions,
         Reads(is, s, t, source, raw, mentions),
         NEW active, active # <<>>, NEW mode, ~Ambiguous(t, mode, active, source)
  PROVE  SaidItself(is, s, mode, mentions)
  <1>1. /\ IsSpec(s) /\ AsksMore(t, s) /\ IsSpec(t) /\ t.metric = s.metric /\ t.reverse = s.reverse
        /\ mentions = <<>> => t = s
        /\ Selects(raw, t, source) /\ Directs(is, raw, t)
    BY DEF Reads, AsksMore, AsksOtherEntities
  <1>2. IsBoundOperand(raw) /\ raw.metric = MetricOf(t, source)
    BY <1>1 DEF Selects
  <1>3. /\ is.metric = raw.metric
        /\ raw.entities # <<>> => is.entities # <<>>
        /\ ~t.reverse => \A e \in Range(is.entities) \ Range(raw.entities) : e.role = "article"
    BY <1>1, <1>2, DirectedOperand
  <1>4. is.metric = s.metric
    BY <1>1, <1>2, <1>3 DEF MetricOf
  <1>5. ASSUME mode = "mutation", s.entityMode = "inherit"
        PROVE  is.entities # <<>>
    <2>1. \/ t.entityMode = "inherit"
          \/ t.entityMode \in {"replace", "add"} /\ t.mentions # <<>>
      BY <1>1, <1>5 DEF AsksMore
    <2>2. ~(t.entityMode = "inherit" /\ t.handles = <<>> /\ t.mentions = <<>>)
      BY <1>5 DEF Ambiguous
    <2>3. t.entityMode # "clear" /\ (t.handles # <<>> \/ t.mentions # <<>>)
      BY <2>1, <2>2
    <2>4. raw.entities # <<>>
      BY <1>1, <2>3 DEF Selects
    <2>5. QED
      BY <1>3, <2>4
  <1>6. ASSUME mentions = <<>>, ~s.reverse, NEW e \in Range(is.entities)
        PROVE  \/ e.role = "article"
               \/ Handle(e) \in Range(s.handles)
               \/ \E m \in Range(s.mentions) : m.text = e.name
    <2>1. CASE e \notin Range(raw.entities)
      BY <1>1, <1>3, <1>6, <2>1
    <2>2. CASE e \in Range(raw.entities)
      <3>1. FieldOf(source, "entities") = <<>> /\ Range(<<>>) = {}
        BY DEF FieldOf, Range
      <3>2. t = s
        BY <1>1, <1>6
      <3>3. QED
        BY <1>1, <2>2, <3>1, <3>2 DEF Selects
    <2>3. QED
      BY <2>1, <2>2
  <1>7. QED
    BY <1>4, <1>5, <1>6 DEF SaidItself

LEMMA InvNeverPicks ==
  ASSUME Inv
  PROVE  AmbiguousNeverPicked
  <1> DEFINE active == journal[Active].intent.operands
             globals == bound[1].periods
             mode == decision[1].mode
  <1>1. ASSUME Active # 0, Len(active) > 1, NEW i \in 1..Len(Specs), Specs[i].source = <<>>,
               mode # "mutation" \/ Cardinality(OverDays(Specs[i], active, globals)) # 1
        PROVE  SaidItself(bound[1].operands[i], Specs[i], mode, Tags(message[1]))
    <2>1. ActiveIntent = <<journal[Active].intent>> /\ IsBound(journal[Active].intent)
      BY <1>1, StoredTurns DEF Inv
    <2>2. FieldOf(ActiveIntent, "operands") = active
      BY <2>1 DEF FieldOf
    <2>3. AreBoundOperands(FieldOf(ActiveIntent, "operands"))
      BY StoredTurns, ActiveOperands DEF Inv
    <2>4. active # <<>> /\ Len(active) # 1
      <3>1. active # <<>> /\ Len(active) \in Nat
        BY <2>1, PlainBound
      <3>2. \A n \in Nat : n > 1 => n # 1
        OBVIOUS
      <3>3. Len(active) > 1
        BY <1>1
      <3> HIDE DEF active
      <3>4. QED
        BY <3>1, <3>2, <3>3
    <2>5. PICK source : source = Source(Specs[i], mode, FieldOf(ActiveIntent, "operands"),
                                        bound[1].periods, Frames)
      OBVIOUS
    <2>a. PeriodsKnown(Specs[i].periodHandles, Frames)
      BY <1>1, <2>5, SpecFollowed
    <2>b. IsList(PeriodLists(Frames))
      <3>1. BoundFrames(Frames)
        BY StoredFrames DEF Inv
      <3>2. \A f \in Range(Frames) : Len(f.intent.operands) \in Nat
        BY <3>1 DEF BoundFrames, IsBound, IsIntent
      <3>3. QED
        BY <3>1, <3>2, ListsOfPeriods DEF BoundFrames
    <2>6. PICK t : /\ ~Ambiguous(t, mode, FieldOf(ActiveIntent, "operands"), source)
                   /\ \E raw : Reads(bound[1].operands[i], Specs[i], t, source, raw, Tags(message[1]))
      BY <1>1, <2>5, SpecFollowed
    <2>7. PICK raw : Reads(bound[1].operands[i], Specs[i], t, source, raw, Tags(message[1]))
      BY <2>6
    <2>8. IsSpec(Specs[i])
      BY <2>7 DEF Reads
    <2>9. source = <<>>
      <3> HIDE DEF active, globals, mode
      <3>1. QED
        BY <1>1, <2>2, <2>3, <2>4, <2>5, <2>8, <2>a, <2>b, NoneIsPicked DEF globals
    <2>10. QED
      BY <2>2, <2>4, <2>6, <2>7, <2>9, UnpickedSays
  <1>2. QED
    BY <1>1 DEF AmbiguousNeverPicked, OverDays, SaidItself, DaysAskedFor, Continues

\* Of several active operands none is picked at will: a spec without a handle
\* continues the only one over just the days it asks for, or says itself what it
\* measures and, in a continuation, where (_unique_active_operand_for_period).
THEOREM NoneIsPickedAtWill == Spec => []AmbiguousNeverPicked
  BY InvHolds, InvNeverPicks, PTL

\* What a message asked to compare is answered by.
Compares(i) ==
  /\ i.operation \in {"compare", "compare_periods", "multi_step"}
  /\ Len(i.operands) >= 2 \/ Len(i.periods) >= 2

\* PipelineEnvelopeTranslator.intent reads no smaller result for a comparison.
LEMMA ComparisonTranslated ==
  ASSUME NEW plan, IsPlan(plan), plan.requested = "compare", NEW geo \in Seq(Entities),
         NEW answered, NEW r, r = Translated(plan, geo, answered), r.intent # <<>>
  PROVE  Compares(r.intent[1])
  <1> DEFINE operands == PlanOperands(plan, geo)
             operation == SettledOperation(plan, operands)
             i == PlanIntent(plan, operands, operation)
             n == Len(operands)
             k == Len(plan.periods)
  <1>1. PlainOperands(operands)
    BY PlannedOperands
  <1>2. n \in Nat /\ k \in Nat
    BY <1>1 DEF PlainOperands, IsList, IsPlan
  <1>3. r = OfOperands(plan, operands, operation) /\ plan.operation \in {"compare", "compare_periods"}
    BY DEF Translated, Unreadable, Degraded
  <1>4. operation = IF \/ plan.operation = "compare" /\ n > 2
                       \/ plan.operation = "compare_periods" /\ (n > 1 \/ k > 2)
                    THEN "multi_step" ELSE plan.operation
    BY <1>3 DEF SettledOperation
  <1> HIDE DEF operands, operation, i, n, k
  <1>5. operation \in {"compare", "compare_periods", "multi_step"}
    BY <1>3, <1>4
  <1>6. /\ ~(plan.operation = "compare" /\ n < 2)
        /\ ~(operation = "compare_periods" /\ k # 2)
        /\ plan.groupBy = <<>>
        /\ r = Readable(i)
    <2>1. n = Len(operands) /\ k = Len(plan.periods) /\ i = PlanIntent(plan, operands, operation)
      BY DEF n, k, i
    <2>2. QED
      BY <1>3, <1>5, <2>1 DEF OfOperands, Unreadable
  <1>7. r.intent[1] = i
    BY <1>6 DEF Readable, Unreadable
  <1>8. i.operation = operation /\ i.operands = operands /\ i.periods = plan.periods
    BY <1>5, <1>6 DEF i, PlanIntent
  <1>9. n >= 2 \/ k >= 2
    BY <1>2, <1>3, <1>4, <1>6
  <1>10. QED
    BY <1>5, <1>7, <1>8, <1>9 DEF Compares, n, k

LEMMA LastRow ==
  ASSUME NEW s, s \in Seq(Range(s)), NEW row
  PROVE  Last(Append(s, row)) = row
  <1> DEFINE S == Range(s) \cup {row}
  <1>1. s \in Seq(S) /\ row \in S
    <2>1. Range(s) \subseteq S
      OBVIOUS
    <2>2. QED
      BY <2>1
  <1> HIDE DEF S
  <1>2. QED
    BY <1>1 DEF Last

LEMMA StepNeverDegrades ==
  ASSUME Inv, NEW m \in Messages, m.plan.requested = "compare",
         Len(journal') > Revision, Standalone(m)
  PROVE  Compares(Last(journal').intent)
  <1>1. journal \in Seq(Range(journal)) /\ Len(journal) \in Nat
    BY DEF Inv, JournalBound, IsList
  <1>2. PICK outcome \in {"success", "no_data", "error"} :
          \E read \in {Translated(m.plan, m.geo, outcome = "success")} :
            IF read.intent = <<>> THEN Refuse(read.reason) ELSE Commit(read.intent[1], outcome)
    BY DEF Standalone
  <1>3. PICK read : /\ read = Translated(m.plan, m.geo, outcome = "success")
                    /\ IF read.intent = <<>> THEN Refuse(read.reason)
                       ELSE Commit(read.intent[1], outcome)
    BY <1>2
  <1> DEFINE answered == outcome = "success"
             row == [intent |-> read.intent[1], outcome |-> outcome]
  <1>4. read.intent # <<>>
    <2>1. read.intent = <<>> => journal' = journal
      BY <1>3 DEF Refuse
    <2>2. QED
      BY <1>1, <2>1 DEF Revision
  <1>5. Compares(read.intent[1])
    <2>1. IsPlan(m.plan) /\ m.geo \in Seq(Entities)
      BY PlansOfMessages
    <2>2. read = Translated(m.plan, m.geo, answered)
      BY <1>3
    <2> HIDE DEF answered
    <2>3. QED
      BY <1>4, <2>1, <2>2, ComparisonTranslated
  <1>6. journal' = Append(journal, row) /\ row.intent = read.intent[1]
    BY <1>3, <1>4 DEF Commit
  <1> HIDE DEF row
  <1>7. Last(journal') = row
    BY <1>1, <1>6, LastRow
  <1>8. QED
    BY <1>5, <1>6, <1>7

\* The pipeline may resolve a comparison the message asks for as anything: what the
\* turn commits still compares two operands or two periods, or the turn is refused.
THEOREM ComparisonsAreKept == Spec => ComparisonNeverDegrades
  <1>1. ASSUME Inv, [Next]_vars
        PROVE  [\A m \in Messages :
                  m.plan.requested = "compare" /\ Len(journal') > Revision /\ Standalone(m) =>
                    LET intent == Last(journal').intent
                    IN /\ intent.operation \in {"compare", "compare_periods", "multi_step"}
                       /\ Len(intent.operands) >= 2 \/ Len(intent.periods) >= 2]_vars
    BY <1>1, StepNeverDegrades DEF Compares
  <1>2. QED
    BY <1>1, InvHolds, PTL DEF Spec, ComparisonNeverDegrades

-----------------------------------------------------------------------------
(* Names and ends *)

\* What covers a name that stands apart is that name.
LEMMA ApartIsNamed ==
  ASSUME NEW name, StandsApart(name), NEW S, S \subseteq Entities,
         Covered(name, {e.name : e \in S})
  PROVE  \E e \in S : e.name = name
  <1>1. PICK e \in S : \E v \in Variants(name) : Overlaps(v, SemanticName(e.name))
    BY DEF Covered
  <1>2. PICK r \in Registry : r.name = e.name
    BY EntityHasRecord
  <1>3. r.name = name
    BY <1>1, <1>2 DEF StandsApart
  <1>4. QED
    BY <1>2, <1>3

LEMMA InvBindsNames ==
  ASSUME Inv
  PROVE  EveryNameIsBound
  <1> DEFINE operands == bound[1].operands
             entities == UNION {Range(o.entities) : o \in Range(operands)}
             labels == UNION {{e.name : e \in Range(o.entities)} : o \in Range(operands)}
  <1> SUFFICES ASSUME stage = "execute", NEW name \in Evidence(message[1]), StandsApart(name)
               PROVE  \E e \in entities : e.name = name
    BY DEF EveryNameIsBound
  <1>1. EvidenceComplete(bound[1], Evidence(message[1]))
    BY DEF Inv, Grounds
  <1>2. Covered(name, labels)
    BY <1>1 DEF EvidenceComplete
  <1>3. labels = {e.name : e \in entities}
    OBVIOUS
  <1>4. IsBound(bound[1])
    BY DEF Inv, IsAdmitted
  <1>5. entities \subseteq Entities
    <2>1. \A o \in Range(operands) : o.entities \in Seq(Entities)
      BY <1>4 DEF IsBound
    <2>2. QED
      BY <2>1, ElementsOfList
  <1> HIDE DEF labels, entities
  <1>6. Covered(name, {e.name : e \in entities})
    BY <1>2, <1>3
  <1>7. QED
    BY <1>5, <1>6, ApartIsNamed

\* The intent that runs holds every name its route looks for, itself or as an article
\* of that name, unless the registry has a name that, letter by letter, contains it or
\* an alias of it, or is part of one (validate_bound_intent, and once more after the
\* normalisations).
THEOREM NamesAreBound == Spec => []EveryNameIsBound
  BY InvHolds, InvBindsNames, PTL

\* An entity put in its role is there, and those of other roles stay.
LEMMA PutRoleKeeps ==
  ASSUME NEW S, NEW s \in Seq(S), NEW e \in S
  PROVE  /\ e \in Range(PutRole(s, e))
         /\ \A y \in Range(s) : y.role # e.role => y \in Range(PutRole(s, e))
  <1> DEFINE i == SelectInSeq(s, LAMBDA x : x.role = e.role)
             I == {k \in 1..Len(s) : s[k].role = e.role}
             t == PutRole(s, e)
  <1>1. i # 0 => i \in 1..Len(s) /\ s[i].role = e.role
    <2>1. i = IF I # {} THEN Min(I) ELSE 0
      BY Zenon DEF SelectInSeq
    <2>2. /\ \A k \in I : k \in 1..Len(s) /\ s[k].role = e.role
          /\ I \in SUBSET (1..Len(s)) /\ Len(s) \in Nat
      OBVIOUS
    <2> HIDE DEF i, I
    <2>3. i # 0 => i \in I
      BY <2>1, <2>2, FirstPlace
    <2>4. QED
      BY <2>2, <2>3
  <1>2. t = IF i = 0 THEN Append(s, e) ELSE [s EXCEPT ![i] = e]
    BY DEF PutRole
  <1>3. t \in Seq(S)
    BY PutRoleType
  <1> SUFFICES e \in Range(t) /\ \A y \in Range(s) : y.role # e.role => y \in Range(t)
    OBVIOUS
  <1> HIDE DEF i, t
  <1>4. \E j \in 1..Len(t) : t[j] = e
    <2>1. CASE i = 0
      <3>1. Len(t) = Len(s) + 1 /\ t[Len(s) + 1] = e /\ Len(s) \in Nat
        BY <1>2, <2>1, AppendProperties
      <3>2. QED
        BY <3>1
    <2>2. CASE i # 0
      <3>1. i \in 1..Len(t) /\ t[i] = e
        BY <1>1, <1>2, <2>2
      <3>2. QED
        BY <3>1
    <2>3. QED
      BY <2>1, <2>2
  <1>5. ASSUME NEW k \in 1..Len(s), s[k].role # e.role
        PROVE  \E j \in 1..Len(t) : t[j] = s[k]
    <2>1. CASE i = 0
      <3>1. Len(t) = Len(s) + 1 /\ Len(s) \in Nat /\ t[k] = s[k]
        BY <1>2, <2>1, AppendProperties
      <3>2. QED
        BY <3>1
    <2>2. CASE i # 0
      <3>1. k \in 1..Len(t) /\ t[k] = s[k]
        BY <1>1, <1>2, <1>5, <2>2
      <3>2. QED
        BY <3>1
    <2>3. QED
      BY <2>1, <2>2
  <1>6. e \in Range(t)
    BY <1>3, <1>4, ElementsOfList
  <1>7. ASSUME NEW y \in Range(s), y.role # e.role
        PROVE  y \in Range(t)
    <2>1. PICK k \in 1..Len(s) : s[k] = y
      BY ElementsOfList
    <2>2. \E j \in 1..Len(t) : t[j] = y
      BY <1>5, <1>7, <2>1
    <2>3. QED
      BY <1>3, <2>2, ElementsOfList
  <1>8. QED
    BY <1>6, <1>7

\* An entity in the role has the name.
RoleNamed(entities, role, name) ==
  \E e \in Range(entities) : e.role = role /\ e.name = name

\* Entities of a role that all have one name leave that name in the role.
LEMMA RolePutIsNamed ==
  ASSUME NEW S, NEW s \in Seq(S), NEW base \in Seq(S), NEW role, NEW name,
         \E e \in Range(s) : e.role = role,
         \A e \in Range(s) : e.role = role => e.name = name
  PROVE  RoleNamed(PutRoles(base, s), role, name)
  <1>1. PICK p : /\ p[0] = base
                 /\ \A k \in 1..Len(s) : p[k] \in Seq(S) /\ p[k] = PutRole(p[k-1], s[k])
                 /\ PutRoles(base, s) = p[Len(s)]
    BY RoleSteps
  <1>2. Len(s) \in Nat /\ \A k \in 1..Len(s) : s[k] \in S /\ s[k] \in Range(s)
    BY ElementsOfList
  <1> DEFINE Came(k) == \E j \in 1..k : s[j].role = role
             I == {k \in Nat : k <= Len(s) => p[k] \in Seq(S)
                                              /\ (Came(k) => RoleNamed(p[k], role, name))}
  <1>3. 0 \in I
    BY <1>1
  <1>4. ASSUME NEW k \in Nat, k \in I
        PROVE  k + 1 \in I
    <2> SUFFICES ASSUME k + 1 <= Len(s)
                 PROVE  p[k + 1] \in Seq(S) /\ (Came(k + 1) => RoleNamed(p[k + 1], role, name))
      OBVIOUS
    <2>1. k + 1 \in 1..Len(s) /\ (k + 1) - 1 = k /\ k <= Len(s)
      BY <1>2
    <2> DEFINE a == p[k]
               e == s[k + 1]
               b == p[k + 1]
    <2>2. a \in Seq(S) /\ (Came(k) => RoleNamed(a, role, name))
      BY <1>4, <2>1
    <2>3. e \in S /\ e \in Range(s) /\ b = PutRole(a, e) /\ b \in Seq(S)
      BY <1>1, <1>2, <2>1
    <2>4. Came(k + 1) => Came(k) \/ e.role = role
      <3> SUFFICES ASSUME NEW j \in 1..(k + 1), s[j].role = role
                   PROVE  Came(k) \/ e.role = role
        OBVIOUS
      <3>1. j \in 1..k \/ j = k + 1
        OBVIOUS
      <3>2. QED
        BY <3>1
    <2> HIDE DEF a, b, e, Came
    <2>5. /\ e \in Range(b)
          /\ \A y \in Range(a) : y.role # e.role => y \in Range(b)
      BY <2>2, <2>3, PutRoleKeeps
    <2>6. CASE e.role = role
      BY <2>3, <2>5, <2>6 DEF RoleNamed, b
    <2>7. CASE e.role # role
      <3>1. RoleNamed(a, role, name) => RoleNamed(b, role, name)
        BY <2>5, <2>7 DEF RoleNamed
      <3>2. QED
        BY <2>2, <2>3, <2>4, <2>7, <3>1 DEF b
    <2>8. QED
      BY <2>6, <2>7
  <1>5. Len(s) \in I
    <2> HIDE DEF I
    <2>1. Nat \subseteq I
      BY <1>3, <1>4, Induction
    <2>2. QED
      BY <1>2, <2>1
  <1>6. Came(Len(s))
    BY ElementsOfList
  <1> HIDE DEF Came
  <1>7. QED
    BY <1>1, <1>2, <1>5, <1>6

LEMMA TopologyIsSaid ==
  ASSUME NEW mentions, AreMentions(mentions), NEW metric
  PROVE  Range(Topology(metric, mentions)) \subseteq Range(mentions)
  <1> DEFINE Of(role) == OfRoles(mentions, {role})
             route == IF Len(Of("source")) = 1 /\ Len(Of("destination")) = 1
                      THEN Of("source") \o Of("destination") ELSE <<>>
             balance == IF Len(Of("balance")) = 1 THEN Of("balance") ELSE <<>>
             S == Range(mentions)
  <1>1. mentions \in Seq(S)
    BY DEF AreMentions, IsList
  <1>2. \A role : Of(role) \in Seq(S)
    <2> HIDE DEF S
    <2>1. QED
      BY <1>1, ElementsOfRoles
  <1>3. <<>> \in Seq(S)
    OBVIOUS
  <1>4. Topology(metric, mentions) = CASE metric = "incoming" -> route
                                       [] metric = "distribution" -> IF balance # <<>> THEN balance ELSE route
                                       [] OTHER -> balance
    BY Zenon DEF Topology
  <1> HIDE DEF Of
  <1>5. route \in Seq(S) /\ balance \in Seq(S)
    BY <1>2, <1>3
  <1> HIDE DEF route, balance, S
  <1>6. Topology(metric, mentions) \in Seq(S)
    BY <1>4, <1>5
  <1>7. QED
    BY <1>6, ElementsOfList DEF S

\* A spec is given mentions of the message only where it has none.
LEMMA CompleteKeepsNames ==
  ASSUME NEW s, IsSpec(s), NEW mentions, AreMentions(mentions), NEW t, t = Complete(s, mentions)
  PROVE  /\ IsSpec(t) /\ t.handles = s.handles
         /\ Range(s.mentions) \subseteq Range(t.mentions)
         /\ Range(t.mentions) \subseteq Range(s.mentions) \cup Range(mentions)
         /\ s.mentions # <<>> => t = s
  <1>1. IsSpec(t)
    BY CompleteSpec DEF AsksMore, AsksOtherEntities
  <1> DEFINE selected == Topology(s.metric, mentions)
  <1>2. \/ t = s
        \/ s.mentions = <<>> /\ t = [s EXCEPT !.entityMode = "replace", !.mentions = selected]
    BY Zenon DEF Complete
  <1>3. Range(selected) \subseteq Range(mentions)
    BY TopologyIsSaid
  <1> HIDE DEF selected
  <1>4. CASE t = s
    BY <1>1, <1>4
  <1>5. CASE s.mentions = <<>> /\ t = [s EXCEPT !.entityMode = "replace", !.mentions = selected]
    <2>1. t.handles = s.handles /\ t.mentions = selected
      BY <1>5 DEF IsSpec
    <2>2. Range(s.mentions) = {}
      BY <1>5 DEF Range
    <2>3. QED
      BY <1>1, <1>3, <1>5, <2>1, <2>2
  <1>6. QED
    BY <1>2, <1>4, <1>5

LEMMA MissingNames ==
  ASSUME NEW specs, AreSpecs(specs), NEW mentions, AreMentions(mentions), NEW frames,
         NEW t, t = Missing(specs, mentions, frames)
  PROVE  /\ AreMentions(t)
         /\ Range(t) \subseteq Range(mentions) \ SaidBy(specs)
         /\ (\A s \in Range(specs) : s.handles = <<>>) => Range(t) = Range(mentions) \ SaidBy(specs)
  <1> DEFINE used == UNION {Range(s.handles) : s \in Range(specs)}
             held == {[text |-> EntityOf(h, frames).name, role |-> h.role] :
                        h \in {x \in used : EntitiesKnown(<<x>>, frames)}}
  <1>1. t = Without(mentions, SaidBy(specs) \cup held)
    BY Zenon DEF Missing, SaidBy
  <1>2. (\A s \in Range(specs) : s.handles = <<>>) => used = {}
    BY DEF Range
  <1>3. used = {} => held = {}
    OBVIOUS
  <1> HIDE DEF used, held
  <1>4. IsList(t) /\ Range(t) = Range(mentions) \ (SaidBy(specs) \cup held)
    BY <1>1, ListWithout DEF AreMentions
  <1>5. QED
    BY <1>2, <1>3, <1>4 DEF AreMentions

LEMMA OnlySpecNames ==
  ASSUME NEW specs, AreSpecs(specs), NEW mentions, AreMentions(mentions), NEW frames,
         Len(specs) = 1, specs[1].handles = <<>>,
         NEW t, t = Reconciled(specs, mentions, frames)[1]
  PROVE  t.handles = <<>> /\ Range(t.mentions) = Range(specs[1].mentions) \cup Range(mentions)
  <1> DEFINE s == specs[1]
             c == Complete(s, mentions)
             complete == [i \in 1..1 |-> Complete(specs[i], mentions)]
             missing == Missing(complete, mentions, frames)
             u == [Asked(c, c.mentions \o missing) EXCEPT
                     !.entityMode = IF c.entityMode = "inherit" THEN "add" ELSE c.entityMode]
  <1>1. IsSpec(s) /\ s.handles = <<>>
    BY SpecOfList
  <1>2. /\ IsSpec(c) /\ c.handles = <<>>
        /\ Range(s.mentions) \subseteq Range(c.mentions)
        /\ Range(c.mentions) \subseteq Range(s.mentions) \cup Range(mentions)
    BY <1>1, CompleteKeepsNames
  <1>3. complete = <<c>> /\ complete[1] = c
    OBVIOUS
  <1>4. \/ mentions = <<>> /\ t = s
        \/ missing = <<>> /\ t = c
        \/ t = u
    <2> DEFINE n == Len(specs)
               all == [i \in 1..n |-> Complete(specs[i], mentions)]
               rest == Missing(all, mentions, frames)
               r == Reconciled(specs, mentions, frames)
    <2>1. IF mentions = <<>> THEN r = specs
          ELSE IF Len(mentions) = n /\ n > 1
          THEN r = [i \in 1..n |-> [Asked(all[i], <<mentions[i]>>) EXCEPT !.handles = <<>>]]
          ELSE IF rest = <<>> THEN r = all
          ELSE IF n = 1
          THEN r = <<[Asked(all[1], all[1].mentions \o rest) EXCEPT
                        !.entityMode = IF all[1].entityMode = "inherit" THEN "add"
                                       ELSE all[1].entityMode]>>
          ELSE TRUE
      BY Zenon DEF Reconciled, Asked
    <2>2. n = 1 /\ ~(n > 1)
      OBVIOUS
    <2>3. all = complete
      BY <2>2
    <2>4. rest = missing
      BY <2>3
    <2>5. r[1] = t /\ s = specs[1]
      OBVIOUS
    <2> HIDE DEF n, all, rest, r, complete, missing, c, s
    <2>6. all[1] = c
      BY <1>3, <2>3
    <2>7. u = [Asked(c, c.mentions \o rest) EXCEPT
                 !.entityMode = IF c.entityMode = "inherit" THEN "add" ELSE c.entityMode]
      BY <2>4
    <2> HIDE DEF u
    <2>8. QED
      BY <2>1, <2>2, <2>4, <2>5, <2>6, <2>7
  <1>5. AreSpecs(complete) /\ SaidBy(complete) = Range(c.mentions)
        /\ \A x \in Range(complete) : x.handles = <<>>
    <2>1. Range(complete) = {c}
      BY <1>3 DEF Range
    <2>2. IsList(complete)
      BY <1>3, <2>1 DEF IsList
    <2> HIDE DEF complete, c
    <2>3. QED
      BY <1>2, <2>1, <2>2 DEF AreSpecs, SaidBy
  <1> HIDE DEF complete
  <1>6. AreMentions(missing) /\ Range(missing) = Range(mentions) \ Range(c.mentions)
    BY <1>5, MissingNames
  <1>7. u.handles = c.handles /\ u.mentions = c.mentions \o missing
    BY <1>2 DEF Asked, IsSpec
  <1>8. s = specs[1]
    OBVIOUS
  <1> HIDE DEF missing, c, u, s
  <1>9. CASE mentions = <<>> /\ t = s
    <2>1. Range(mentions) = {}
      BY <1>9 DEF Range
    <2>2. QED
      BY <1>1, <1>8, <1>9, <2>1
  <1>10. CASE missing = <<>> /\ t = c
    <2>1. Range(missing) = {}
      BY <1>10 DEF Range
    <2>2. QED
      BY <1>2, <1>6, <1>8, <1>10, <2>1
  <1>11. CASE t = u
    <2>1. Range(c.mentions \o missing) = Range(c.mentions) \cup Range(missing)
      BY <1>2, <1>6, BothLists DEF IsSpec, AreMentions
    <2>2. QED
      BY <1>2, <1>6, <1>7, <1>8, <1>11, <2>1
  <1>12. QED
    BY <1>4, <1>9, <1>10, <1>11

\* Where the specs say all the names of the message and not one each, they stay as
\* they are but for those that say none.
LEMMA SpecsSayAll ==
  ASSUME NEW specs, AreSpecs(specs), NEW mentions, AreMentions(mentions), NEW frames,
         Len(mentions) # Len(specs), Range(mentions) \subseteq SaidBy(specs),
         NEW k \in 1..Len(specs), specs[k].mentions # <<>>,
         NEW t, t = Reconciled(specs, mentions, frames)[k]
  PROVE  t = specs[k]
  <1> DEFINE n == Len(specs)
             complete == [i \in 1..n |-> Complete(specs[i], mentions)]
             missing == Missing(complete, mentions, frames)
  <1>1. n \in Nat /\ \A i \in 1..n : IsSpec(specs[i]) /\ specs[i] \in Range(specs)
    BY SpecOfList
  <1>2. ASSUME NEW i \in 1..n
        PROVE  /\ IsSpec(complete[i])
               /\ Range(specs[i].mentions) \subseteq Range(complete[i].mentions)
               /\ specs[i].mentions # <<>> => complete[i] = specs[i]
    <2> DEFINE s == specs[i]
               c == complete[i]
    <2>1. c = Complete(s, mentions) /\ IsSpec(s)
      BY <1>1
    <2>2. s = specs[i] /\ c = complete[i]
      OBVIOUS
    <2> HIDE DEF s, c
    <2>3. /\ IsSpec(c)
          /\ Range(s.mentions) \subseteq Range(c.mentions)
          /\ s.mentions # <<>> => c = s
      BY <2>1, CompleteKeepsNames
    <2>4. QED
      BY <2>2, <2>3
  <1>3. AreSpecs(complete) /\ Len(complete) = n
    <2>1. complete = [i \in 1..n |-> complete[i]]
      OBVIOUS
    <2> HIDE DEF complete, n
    <2>2. QED
      BY <1>1, <1>2, <2>1, ListOfSpecs
  <1>4. \/ t = specs[k]
        \/ missing # <<>>
        \/ t = complete[k]
    BY Zenon DEF Reconciled
  <1> HIDE DEF complete
  <1>5. Range(mentions) \subseteq SaidBy(complete)
    <2> SUFFICES ASSUME NEW m \in Range(mentions)
                 PROVE  m \in SaidBy(complete)
      OBVIOUS
    <2>1. PICK s \in Range(specs) : m \in Range(s.mentions)
      BY DEF SaidBy
    <2>2. PICK i \in 1..n : specs[i] = s
      BY SpecOfList, ElementsOfList
    <2>3. m \in Range(complete[i].mentions) /\ complete[i] \in Range(complete)
      BY <1>2, <1>3, <2>1, <2>2, SpecOfList
    <2>4. QED
      BY <2>3 DEF SaidBy
  <1>6. missing = <<>>
    <2>1. AreMentions(missing) /\ Range(missing) = {}
      BY <1>3, <1>5, MissingNames
    <2> HIDE DEF missing
    <2>2. QED
      BY <2>1, ElementsOfList DEF AreMentions, IsList
  <1>7. QED
    BY <1>2, <1>4, <1>6

LEMMA ReconciledNames ==
  ASSUME NEW specs, AreSpecs(specs), NEW mentions, AreMentions(mentions), NEW frames,
         NEW k \in 1..Len(specs), NamedOnly(specs, mentions, k), AskedOf(specs, mentions, k) # {},
         NEW t, t = Reconciled(specs, mentions, frames)[k]
  PROVE  t.handles = <<>> /\ Range(t.mentions) = AskedOf(specs, mentions, k)
  <1>1. CASE Len(specs) = 1
    <2>1. k = 1
      BY <1>1
    <2>2. QED
      BY <1>1, <2>1, OnlySpecNames DEF NamedOnly, AskedOf
  <1>2. CASE Len(specs) # 1
    <2>1. specs[k].mentions # <<>>
      BY <1>2 DEF AskedOf, Range
    <2>2. t = specs[k]
      BY <1>2, <2>1, SpecsSayAll DEF NamedOnly
    <2>3. QED
      BY <1>2, <2>2 DEF NamedOnly, AskedOf
  <1>3. QED
    BY <1>1, <1>2

PlacesOf(mentions, role, I) ==
  /\ I \in SUBSET (1..Len(mentions))
  /\ \A k \in 1..Len(mentions) : k \in I <=> mentions[k].role = role

LastIs(mentions, I, text) ==
  I # {} /\ Max(I) \in 1..Len(mentions) /\ mentions[Max(I)].text = text

\* The last mention in a role, where all of that role have one text.
LEMMA LastOfName ==
  ASSUME NEW mentions, AreMentions(mentions), NEW role, NEW text,
         NamesIn(Range(mentions), role) = {text},
         NEW I, PlacesOf(mentions, role, I)
  PROVE  LastIs(mentions, I, text)
  <1> USE DEF PlacesOf, LastIs
  <1> DEFINE i == Max(I)
  <1>2. mentions \in Seq(Range(mentions)) /\ Len(mentions) \in Nat
    BY DEF AreMentions, IsList
  <1>3. I \in SUBSET (1..Len(mentions)) /\ \A k \in I : mentions[k].role = role
    OBVIOUS
  <1>4. I # {}
    <2>1. PICK m \in Range(mentions) : m.role = role
      BY DEF NamesIn
    <2>2. PICK k \in 1..Len(mentions) : mentions[k] = m
      BY <1>2, ElementsOfList
    <2>3. k \in I
      BY <2>1, <2>2
    <2>4. QED
      BY <2>3
  <1>5. Max(I) \in I
    BY <1>2, <1>3, <1>4, MaxIsGreatest
  <1>6. i \in 1..Len(mentions) /\ mentions[i].role = role
    BY <1>3, <1>5
  <1> HIDE DEF i
  <1>7. mentions[i] \in Range(mentions)
    BY <1>2, <1>6, ElementsOfList
  <1>8. mentions[i].text \in NamesIn(Range(mentions), role)
    BY <1>6, <1>7 DEF NamesIn
  <1>9. QED
    BY <1>4, <1>6, <1>8 DEF i

\* There are entities of the role, and each has the name.
AllNamed(entities, role, name) ==
  /\ \E e \in Range(entities) : e.role = role
  /\ \A e \in Range(entities) : e.role = role => e.name = name

\* The balance and the article of a flow from a to b.
BalanceOf(metric, a, b) == IF metric = "incoming" THEN b ELSE a

ArticleOf(metric, a, b) == IF metric = "incoming" THEN a ELSE b

\* A balance and an article of it, the only ones of those names.
LEMMA OnlyFlow ==
  ASSUME NEW metric, NEW text, NEW place,
         NEW balances, balances = Named("balance", text),
         NEW articles, \A x \in articles : \E b \in balances : x \in FlowArticles(b.id, place, metric),
         Cardinality(articles) = 1,
         NEW v, v = <<Ref("balance", Only(balances)[1]), Ref("article", Only(articles)[1])>>
  PROVE  v # <<>> /\ AllNamed(v, "balance", text) /\ AllNamed(v, "article", place)
  <1>1. \A b \in balances : b \in Registry /\ b.type = "balance" /\ b.name = text
    BY DEF Named
  <1>2. \A a \in articles : a \in Registry /\ a.type = "article" /\ a.name = place
                            /\ \E b \in balances : TRUE
    BY DEF FlowArticles, ArticlesOf
  <1>3. IsFiniteSet(articles) /\ IsFiniteSet(balances)
    <2>1. articles \subseteq Registry /\ balances \subseteq Registry
      BY <1>1, <1>2
    <2>2. QED
      BY <2>1, RegistryIsFinite, FS_Subset
  <1>4. PICK a \in articles : articles = {a} /\ Only(articles) = <<a>>
    BY <1>3, OnlyElement
  <1>5. PICK b \in balances : balances = {b}
    <2>1. PICK b \in balances : TRUE
      BY <1>2, <1>4
    <2>2. \A c \in balances : c = b
      BY <1>1, <2>1, RegistryNames
    <2>3. QED
      BY <2>1, <2>2
  <1>6. Only(balances) = <<b>>
    BY <1>3, <1>5, OnlyElement
  <1> DEFINE x == Ref("balance", b)
             y == Ref("article", a)
  <1>7. v = <<x, y>>
    BY <1>4, <1>6
  <1>8. x.role = "balance" /\ x.name = text /\ y.role = "article" /\ y.name = place
    <2>1. x.role = "balance" /\ x.name = b.name /\ y.role = "article" /\ y.name = a.name
      BY DEF Ref
    <2>2. QED
      BY <1>1, <1>2, <2>1
  <1> HIDE DEF x, y
  <1>9. Range(v) = {x, y} /\ v # <<>>
    <2>1. x \in {x, y} /\ y \in {x, y}
      OBVIOUS
    <2>2. QED
      BY <1>7, <2>1, ListOfTwo
  <1>10. QED
    BY <1>8, <1>9 DEF AllNamed

\* "From a to b" is read on a balance exactly if the registry knows that flow once.
LEMMA ViewpointRead ==
  ASSUME NEW mentions, AreMentions(mentions), NEW metric, NEW a, NEW b,
         AsksFromTo(Range(mentions), a, b), NEW v, v = Viewpoint(mentions, metric)
  PROVE  /\ v # <<>> <=> FlowIsKnown(metric, a, b)
         /\ v # <<>> => /\ AllNamed(v, "balance", BalanceOf(metric, a, b))
                        /\ AllNamed(v, "article", ArticleOf(metric, a, b))
  <1> DEFINE At(roles) == SelectLastInSeq(mentions, LAMBDA m : m.role \in roles)
             held == At({HeldEnd(metric)})
             named == At({"source", "destination"} \ {HeldEnd(metric)})
             balances == Named("balance", mentions[held].text)
             articles == UNION {FlowArticles(x.id, mentions[named].text, metric) : x \in balances}
             text == BalanceOf(metric, a, b)
             place == ArticleOf(metric, a, b)
  <1>1. v = IF /\ metric \in {"incoming", "distribution"}
               /\ held # 0 /\ named # 0
               /\ Cardinality(articles) = 1
            THEN <<Ref("balance", Only(balances)[1]), Ref("article", Only(articles)[1])>>
            ELSE <<>>
    BY Zenon DEF Viewpoint
  <1>a. ASSUME NEW role, NEW x, NamesIn(Range(mentions), role) = {x}
        PROVE  At({role}) # 0 /\ mentions[At({role})].text = x
    <2> DEFINE I == {k \in 1..Len(mentions) : mentions[k].role \in {role}}
               i == At({role})
    <2>1. i = IF I # {} THEN Max(I) ELSE 0
      BY Zenon DEF SelectLastInSeq
    <2>2. /\ I \in SUBSET (1..Len(mentions))
          /\ \A k \in 1..Len(mentions) : k \in I <=> mentions[k].role = role
      OBVIOUS
    <2> HIDE DEF I, i
    <2>a. I # {} /\ Max(I) \in 1..Len(mentions) /\ mentions[Max(I)].text = x
      <3>1. PlacesOf(mentions, role, I)
        BY <2>2 DEF PlacesOf
      <3>2. LastIs(mentions, I, x)
        BY <1>a, <3>1, LastOfName
      <3>3. QED
        BY <3>2 DEF LastIs
    <2>3. i # 0 /\ mentions[i].text = x
      BY <2>1, <2>a
    <2>4. QED
      BY <2>3 DEF i
  <1>2. At({"source"}) # 0 /\ mentions[At({"source"})].text = a
    <2> HIDE DEF At
    <2>1. QED
      BY <1>a DEF AsksFromTo
  <1>3. At({"destination"}) # 0 /\ mentions[At({"destination"})].text = b
    <2> HIDE DEF At
    <2>1. QED
      BY <1>a DEF AsksFromTo
  <1>4. held = At(IF metric = "incoming" THEN {"destination"} ELSE {"source"})
    <2>1. {HeldEnd(metric)} = IF metric = "incoming" THEN {"destination"} ELSE {"source"}
      BY DEF HeldEnd
    <2> HIDE DEF At
    <2>2. QED
      BY <2>1
  <1>5. named = At(IF metric = "incoming" THEN {"source"} ELSE {"destination"})
    <2>1. {"source", "destination"} \ {HeldEnd(metric)}
            = IF metric = "incoming" THEN {"source"} ELSE {"destination"}
      BY DEF HeldEnd
    <2> HIDE DEF At
    <2>2. QED
      BY <2>1
  <1> HIDE DEF At, held, named
  <1>6. held # 0 /\ named # 0 /\ mentions[held].text = text /\ mentions[named].text = place
    BY <1>2, <1>3, <1>4, <1>5 DEF BalanceOf, ArticleOf
  <1>7. balances = Named("balance", text)
        /\ articles = UNION {FlowArticles(x.id, place, metric) : x \in balances}
    BY <1>6
  <1>8. articles = FlowsKnown(a, b, metric)
    BY <1>7 DEF FlowsKnown, BalanceOf, ArticleOf, BalanceNamed
  <1> HIDE DEF balances, articles
  <1>9. CASE metric \in {"incoming", "distribution"} /\ Cardinality(articles) = 1
    <2>1. v = <<Ref("balance", Only(balances)[1]), Ref("article", Only(articles)[1])>>
      BY <1>1, <1>6, <1>9
    <2>a. \A x \in articles : \E y \in balances : x \in FlowArticles(y.id, place, metric)
      BY <1>7
    <2>b. balances = Named("balance", text)
      BY <1>7
    <2> HIDE DEF text, place
    <2>2. v # <<>> /\ AllNamed(v, "balance", text) /\ AllNamed(v, "article", place)
      BY <1>9, <2>1, <2>a, <2>b, OnlyFlow
    <2>3. QED
      BY <1>8, <1>9, <2>2 DEF FlowIsKnown, text, place
  <1>10. CASE ~(metric \in {"incoming", "distribution"} /\ Cardinality(articles) = 1)
    BY <1>1, <1>8, <1>10 DEF FlowIsKnown
  <1>11. QED
    BY <1>9, <1>10

\* Otherwise each mention is bound to an entity of its name in its role.
LEMMA MentionsAreNamed ==
  ASSUME NEW mentions, AreMentions(mentions), NEW inherited, NEW metric,
         Bindable(mentions, inherited, metric), Viewpoint(mentions, metric) = <<>>,
         NEW t, t = BindOperand(mentions, inherited, metric),
         NEW role, NEW text, NamesIn(Range(mentions), role) = {text}
  PROVE  AllNamed(t, role, text)
  <1> DEFINE balance == Namespace(mentions, inherited)
             o == BalancesFirst(mentions)
             r(i) == CHOOSE x \in Candidates(o[i], balance) : TRUE
  <1>1. mentions \in Seq(Range(mentions)) /\ \A m \in Range(mentions) : IsMention(m)
    BY DEF AreMentions, IsList
  <1>2. \A m \in Range(mentions) : m.role \in EntityRoles
    BY <1>1 DEF IsMention
  <1>3. t = [i \in 1..Len(o) |-> Ref(o[i].role, r(i))]
    BY Zenon DEF BindOperand
  <1>4. \A m \in Range(mentions) : Cardinality(Candidates(m, balance)) = 1
    BY Zenon DEF Bindable
  <1>5. o \in Seq(Range(mentions)) /\ Range(o) = Range(mentions)
    BY <1>1, <1>2, BalancesFirstElements
  <1> HIDE DEF o, balance
  <1>6. ASSUME NEW i \in 1..Len(o)
        PROVE  Ref(o[i].role, r(i)).role = o[i].role /\ Ref(o[i].role, r(i)).name = o[i].text
    <2> DEFINE m == o[i]
               x == r(i)
    <2>1. m \in Range(mentions) /\ IsMention(m) /\ Cardinality(Candidates(m, balance)) = 1
      BY <1>1, <1>4, <1>5, ElementsOfList
    <2>2. x = CHOOSE y \in Candidates(m, balance) : TRUE
      OBVIOUS
    <2> HIDE DEF m, x
    <2>3. \E y : y \in Candidates(m, balance)
      BY <2>1, CandidatesAreFinite, OnlyElement
    <2>4. x \in Candidates(m, balance)
      BY <2>2, <2>3, Zenon
    <2>5. x.name = m.text
      BY <2>1, <2>4, CandidateRecords
    <2>6. Ref(m.role, x).role = m.role /\ Ref(m.role, x).name = m.text
      BY <2>5 DEF Ref
    <2>7. QED
      BY <2>6 DEF m, x
  <1>7. Len(o) \in Nat
    BY <1>5
  <1>8. /\ t \in Seq(Range(t)) /\ Len(t) = Len(o)
        /\ \A i \in 1..Len(o) : t[i].role = o[i].role /\ t[i].name = o[i].text
    <2> HIDE DEF r
    <2>1. t = [i \in 1..Len(o) |-> t[i]]
      BY <1>3
    <2>2. t \in Seq(Range(t)) /\ Len(t) = Len(o)
      BY <1>7, <2>1, ListOfItsElements
    <2>3. QED
      BY <1>3, <1>6, <2>2
  <1> HIDE DEF r
  <1>9. ASSUME NEW e \in Range(t), e.role = role
        PROVE  e.name = text
    <2>1. PICK i \in 1..Len(o) : t[i] = e
      BY <1>8, ElementsOfList
    <2>2. o[i] \in Range(mentions) /\ o[i].role = role
      BY <1>5, <1>8, <1>9, <2>1, ElementsOfList
    <2>3. o[i].text \in NamesIn(Range(mentions), role)
      BY <2>2 DEF NamesIn
    <2>4. QED
      BY <1>8, <2>1, <2>3
  <1>10. \E e \in Range(t) : e.role = role
    <2>1. PICK m \in Range(mentions) : m.role = role
      BY DEF NamesIn
    <2>2. PICK i \in 1..Len(o) : o[i] = m
      BY <1>5, <2>1, ElementsOfList
    <2>3. t[i] \in Range(t) /\ t[i].role = role
      BY <1>8, <2>1, <2>2, ElementsOfList
    <2>4. QED
      BY <2>3
  <1>11. QED
    BY <1>9, <1>10 DEF AllNamed

\* What the entities of an operand hold that is asked from a to b.
FlowHeld(entities, metric, a, b) ==
  IF FlowIsKnown(metric, a, b)
  THEN /\ RoleNamed(entities, "balance", BalanceOf(metric, a, b))
       /\ RoleNamed(entities, "article", ArticleOf(metric, a, b))
  ELSE RoleNamed(entities, "source", a) /\ RoleNamed(entities, "destination", b)

LEMMA FlowSelected ==
  ASSUME NEW spec, IsSpec(spec), spec.handles = <<>>, NEW a, NEW b,
         AsksFromTo(Range(spec.mentions), a, b),
         NEW source, IsSource(source), NEW metric, NEW frames, NEW held,
         held = FieldOf(source, "entities"), LegalSpec(spec, source, metric, held, frames)
  PROVE  FlowHeld(SpecEntities(spec, metric, held, frames), metric, a, b)
  <1> DEFINE mentions == spec.mentions
             known == KnownEntities(spec, frames)
             named == BindOperand(mentions, held \o known, metric)
             mode == EntityModeOf(spec)
             base == IF mode = "add" THEN held ELSE <<>>
             entities == SpecEntities(spec, metric, held, frames)
  <1>1. AreMentions(mentions) /\ AsksFromTo(Range(mentions), a, b)
    BY DEF IsSpec
  <1>2. mentions # <<>>
    <2>1. \E m \in Range(mentions) : TRUE
      BY <1>1 DEF AsksFromTo, NamesIn
    <2>2. QED
      BY <2>1 DEF Range
  <1>3. known = <<>>
    BY DEF KnownEntities
  <1>4. held \in Seq(Entities)
    BY SourceFields
  <1>5. Bindable(mentions, held \o known, metric)
    BY DEF LegalSpec
  <1>6. mode \in {"replace", "add"}
    <2>1. mode = "clear" => mentions = <<>>
      BY DEF LegalSpec
    <2>2. QED
      BY <1>2, <2>1, ModesOfSpec
  <1>7. entities = PutRoles(base, known \o named)
    <2>1. entities = GraphEntities(mode, held, known \o named)
      BY Zenon DEF SpecEntities
    <2> HIDE DEF entities, known, named, mode
    <2>2. QED
      BY <1>6, <2>1 DEF GraphEntities
  <1>8. base \in Seq(Entities)
    BY <1>4
  <1>9. PICK inherited : inherited = held \o known
    OBVIOUS
  <1>10. named = BindOperand(mentions, inherited, metric) /\ Bindable(mentions, inherited, metric)
    BY <1>5, <1>9
  <1> HIDE DEF mentions, known, named, mode, base, entities
  <1>11. named \in Seq(Entities)
    BY <1>1, <1>10, BindOperandEntities
  <1>12. known \o named = named
    BY <1>3, <1>11
  <1>13. ASSUME NEW role, NEW name, AllNamed(named, role, name)
         PROVE  RoleNamed(entities, role, name)
    <2>1. entities = PutRoles(base, named)
      BY <1>7, <1>12
    <2>2. /\ \E e \in Range(named) : e.role = role
          /\ \A e \in Range(named) : e.role = role => e.name = name
      BY <1>13 DEF AllNamed
    <2>3. RoleNamed(PutRoles(base, named), role, name)
      BY <1>8, <1>11, <2>2, RolePutIsNamed
    <2>4. QED
      BY <2>1, <2>3
  <1>14. CASE FlowIsKnown(metric, a, b)
    <2> DEFINE v == Viewpoint(mentions, metric)
    <2>1. named = v /\ AllNamed(v, "balance", BalanceOf(metric, a, b))
          /\ AllNamed(v, "article", ArticleOf(metric, a, b))
      <3>1. /\ v # <<>>
            /\ AllNamed(v, "balance", BalanceOf(metric, a, b))
            /\ AllNamed(v, "article", ArticleOf(metric, a, b))
        BY <1>1, <1>14, ViewpointRead
      <3>2. named = v
        BY <1>10, <3>1, Zenon DEF BindOperand
      <3>3. QED
        BY <3>1, <3>2
    <2>2. QED
      BY <1>13, <1>14, <2>1 DEF FlowHeld, entities
  <1>15. CASE ~FlowIsKnown(metric, a, b)
    <2>1. Viewpoint(mentions, metric) = <<>>
      BY <1>1, <1>15, ViewpointRead
    <2>2. AllNamed(named, "source", a) /\ AllNamed(named, "destination", b)
      BY <1>1, <1>10, <2>1, MentionsAreNamed DEF AsksFromTo
    <2>3. QED
      BY <1>13, <1>15, <2>2 DEF FlowHeld, entities
  <1>16. QED
    BY <1>14, <1>15

LEMMA NamedRef ==
  ASSUME NEW o, IsBoundOperand(o), NEW role, NEW name, RoleNamed(o.entities, role, name)
  PROVE  role \in Roles(o) /\ RefOf(o, role) # <<>> /\ RefOf(o, role)[1].name = name
  <1>1. PICK e \in Range(o.entities) : e.role = role /\ e.name = name
    BY DEF RoleNamed
  <1>2. RefOf(o, role) # <<>> /\ RefOf(o, role)[1] = e
    BY <1>1, RefsOfRole DEF IsBoundOperand
  <1>3. QED
    BY <1>1, <1>2 DEF Roles

LEMMA HeldIsRead ==
  ASSUME NEW o, IsBoundOperand(o), NEW a, NEW b, FlowHeld(o.entities, o.metric, a, b),
         NEW t, t = WithMetricArticle(o)
  PROVE  FlowRead(t, a, b)
  <1>1. IsBoundOperand(t) /\ t.metric = o.metric /\ Range(o.entities) \subseteq Range(t.entities)
    BY MetricArticleAdded DEF IsBoundOperand
  <1>2. \A role, name : RoleNamed(o.entities, role, name) => RoleNamed(t.entities, role, name)
    BY <1>1 DEF RoleNamed
  <1>3. CASE FlowIsKnown(o.metric, a, b)
    <2>1. /\ RoleNamed(t.entities, "balance", BalanceOf(t.metric, a, b))
          /\ RoleNamed(t.entities, "article", ArticleOf(t.metric, a, b))
      BY <1>1, <1>2, <1>3 DEF FlowHeld
    <2>2. /\ RefOf(t, "balance") # <<>> /\ RefOf(t, "balance")[1].name = BalanceOf(t.metric, a, b)
          /\ RefOf(t, "article") # <<>> /\ RefOf(t, "article")[1].name = ArticleOf(t.metric, a, b)
      BY <1>1, <2>1, NamedRef
    <2>3. QED
      BY <1>1, <1>3, <2>2 DEF FlowRead, OnItsEnd, IsReadOnBalance, BalanceOf, ArticleOf
  <1>4. CASE ~FlowIsKnown(o.metric, a, b)
    <2>1. RoleNamed(t.entities, "source", a) /\ RoleNamed(t.entities, "destination", b)
      BY <1>2, <1>4 DEF FlowHeld
    <2>2. /\ "source" \in Roles(t) /\ RefOf(t, "source")[1].name = a
          /\ "destination" \in Roles(t) /\ RefOf(t, "destination")[1].name = b
      BY <1>1, <2>1, NamedRef
    <2>3. QED
      BY <1>1, <1>4, <2>2 DEF FlowRead, HoldsBothEnds
  <1>5. QED
    BY <1>3, <1>4

\* An operand that is asked by name alone, from a to b.
LEMMA SpecFlow ==
  ASSUME NEW t, IsSpec(t), ~t.reverse, t.handles = <<>>, NEW a, NEW b,
         AsksFromTo(Range(t.mentions), a, b),
         NEW mode, NEW active, AreBoundOperands(active), NEW globals,
         NEW frames, BoundFrames(frames),
         NEW q, q = GraphOperand(t, mode, active, globals, frames), q.kind = "bound"
  PROVE  FlowRead(q.operand[1], a, b)
  <1> DEFINE source == Source(t, mode, active, globals, frames)
             metric == MetricOf(t, source)
             held == FieldOf(source, "entities")
             o == SpecOperand(t, source, metric, held, frames)
             raw == RawOperand(t, source, metric, held, frames)
  <1>1. /\ source = Source(t, mode, active, globals, frames)
        /\ metric = MetricOf(t, source) /\ held = FieldOf(source, "entities")
    OBVIOUS
  <1>2. o = SpecOperand(t, source, metric, held, frames)
    OBVIOUS
  <1>3. o = WithMetricArticle(raw)
    BY Zenon DEF SpecOperand, RawOperand
  <1>4. raw = RawOperand(t, source, metric, held, frames)
    OBVIOUS
  <1> HIDE DEF source, metric, held, o, raw
  <1>5. IsSource(source) /\ LegalSpec(t, source, metric, held, frames)
    BY <1>1, <1>2, GraphOperandResult
  <1>6. q.operand = <<o>>
    <2>1. q.operand = <<IF t.reverse THEN Reversed(o) ELSE o>>
      BY <1>1, <1>2, GraphOperandResult
    <2>2. QED
      BY <2>1
  <1>7. IsBoundOperand(raw) /\ raw.metric = metric
    BY <1>1, <1>4, <1>5, RawOperandBound
  <1>8. raw.entities = SpecEntities(t, metric, held, frames)
    BY <1>4 DEF RawOperand
  <1>9. FlowHeld(raw.entities, raw.metric, a, b)
    BY <1>1, <1>5, <1>7, <1>8, FlowSelected
  <1>10. FlowRead(o, a, b)
    BY <1>3, <1>7, <1>9, HeldIsRead
  <1>11. QED
    BY <1>6, <1>10

\* A spec that asks for the same names, and for no handle where the other has none.
AsksAlike(t, s) ==
  /\ t.mentions = s.mentions /\ t.reverse = s.reverse
  /\ s.handles = <<>> => t.handles = <<>>

SpecsAskAlike(t, s) ==
  Len(t) = Len(s) /\ \A k \in 1..Len(s) : AsksAlike(t[k], s[k])

LEMMA DroppedAskAlike ==
  ASSUME NEW g, IsGraph(g), NEW mentions, NEW frames,
         NEW t, t = WithoutHandles(g, mentions, frames)
  PROVE  SpecsAskAlike(t.operands, g.operands)
  <1> DEFINE Drop(handles) == IF PeriodsKnown(handles, frames) THEN handles ELSE <<>>
             old == g.operands
             s == [i \in 1..Len(old) |->
                    [old[i] EXCEPT
                      !.periodHandles = Drop(old[i].periodHandles),
                      !.handles = IF mentions # <<>> THEN <<>> ELSE old[i].handles]]
             h == Drop(g.periodHandles)
  <1>1. t = [g EXCEPT !.periodHandles = h, !.operands = s]
    BY Zenon DEF WithoutHandles
  <1>2. "operands" \in DOMAIN g /\ AreSpecs(old)
    BY DEF IsGraph, AreSpecs
  <1> HIDE DEF h
  <1>3. t.operands = s
    BY <1>1, <1>2
  <1>4. Len(old) \in Nat /\ \A i \in 1..Len(old) : IsSpec(old[i])
    BY <1>2, SpecOfList
  <1>5. Len(s) = Len(old)
    BY <1>4
  <1>6. ASSUME NEW i \in 1..Len(old)
        PROVE  AsksAlike(s[i], old[i])
    <2> DEFINE x == old[i]
               a == Drop(x.periodHandles)
               b == IF mentions # <<>> THEN <<>> ELSE x.handles
    <2>1. IsSpec(x)
      BY <1>4
    <2>2. s[i] = [x EXCEPT !.periodHandles = a, !.handles = b]
      BY <2>1 DEF IsSpec
    <2>3. x.handles = <<>> => b = <<>>
      OBVIOUS
    <2> HIDE DEF s, x, a, b
    <2>4. AsksAlike(s[i], x)
      BY <2>1, <2>2, <2>3 DEF IsSpec, AsksAlike
    <2>5. QED
      BY <2>4 DEF x
  <1> HIDE DEF s
  <1>7. QED
    BY <1>3, <1>5, <1>6 DEF SpecsAskAlike

\* The graph whose specs are bound: the one that was given, or that without the
\* handles a first turn cannot know.
LEMMA CompiledShape ==
  ASSUME NEW g, IsGraph(g), NEW mode, NEW active, NEW frames, NEW mentions, AreMentions(mentions),
         NEW r, r = CompileGraph(g, mode, active, frames, mentions), r.kind = "bound",
         NEW shaped, shaped = NormalShape(g, mentions)
  PROVE  \E h : /\ IsGraph(h) /\ SpecsAskAlike(h.operands, shaped.operands)
                /\ r = CompileShaped(h, mode, active, frames, mentions)
  <1>1. IsGraph(shaped)
    BY ShapeOfGraph
  <1>2. CASE mode = "mutation" \/ frames # <<>> \/ active # <<>>
    <2>1. r = CompileShaped(shaped, mode, active, frames, mentions)
      BY <1>2 DEF CompileGraph
    <2>2. SpecsAskAlike(shaped.operands, shaped.operands)
      BY DEF SpecsAskAlike, AsksAlike
    <2>3. QED
      BY <1>1, <2>1, <2>2
  <1>3. CASE ~(mode = "mutation" \/ frames # <<>> \/ active # <<>>)
    <2> DEFINE freed == WithoutHandles(shaped, mentions, frames)
    <2>1. r = IF InventsPeriods(shaped, frames) THEN BindingError
              ELSE CompileShaped(freed, mode, active, frames, mentions)
      BY <1>3, Zenon DEF CompileGraph
    <2>2. BindingError.kind # "bound"
      BY DEF BindingError
    <2>3. r = CompileShaped(freed, mode, active, frames, mentions)
      BY <2>1, <2>2
    <2>4. IsGraph(freed) /\ SpecsAskAlike(freed.operands, shaped.operands)
      BY <1>1, HandlesDropped, DroppedAskAlike
    <2>5. QED
      BY <2>3, <2>4
  <1>4. QED
    BY <1>2, <1>3

LEMMA AskedAlike ==
  ASSUME NEW s, AreSpecs(s), NEW t, AreSpecs(t), SpecsAskAlike(t, s), NEW mentions,
         NEW k \in 1..Len(s), NamedOnly(s, mentions, k)
  PROVE  NamedOnly(t, mentions, k) /\ AskedOf(t, mentions, k) = AskedOf(s, mentions, k)
  <1>1. /\ Len(t) = Len(s) /\ t[k].mentions = s[k].mentions
        /\ s[k].handles = <<>> => t[k].handles = <<>>
    BY DEF SpecsAskAlike, AsksAlike
  <1>2. SaidBy(s) \subseteq SaidBy(t)
    <2> SUFFICES ASSUME NEW m \in SaidBy(s)
                 PROVE  m \in SaidBy(t)
      OBVIOUS
    <2>1. PICK x \in Range(s) : m \in Range(x.mentions)
      BY DEF SaidBy
    <2>2. PICK i \in 1..Len(s) : s[i] = x
      BY SpecOfList, ElementsOfList
    <2>3. t[i] \in Range(t) /\ t[i].mentions = s[i].mentions
      BY SpecOfList DEF SpecsAskAlike, AsksAlike
    <2>4. QED
      BY <2>1, <2>2, <2>3 DEF SaidBy
  <1>3. NamedOnly(t, mentions, k)
    BY <1>1, <1>2 DEF NamedOnly
  <1>4. QED
    BY <1>1, <1>3 DEF AskedOf

AsksFlow(specs, mentions, k, a, b) ==
  /\ k \in 1..Len(specs) /\ NamedOnly(specs, mentions, k) /\ ~specs[k].reverse
  /\ AsksFromTo(AskedOf(specs, mentions, k), a, b)

\* The operand that runs for a spec of a graph that compiled.
LEMMA SpecCompiled ==
  ASSUME NEW g, IsGraph(g), NEW mode, NEW active, IsActive(active),
         NEW frames, BoundFrames(frames), NEW mentions, AreMentions(mentions),
         NEW r, r = CompileShaped(g, mode, active, frames, mentions), r.kind = "bound",
         NEW i, NormalForm(i, r.intent), Len(i.operands) = Len(g.operands),
         NEW k \in 1..Len(g.operands), NEW specs, specs = g.operands
  PROVE  RunsAs(i.operands[k],
                GraphOperand(Reconciled(specs, mentions, frames)[k], mode,
                             FieldOf(active, "operands"), GlobalPeriods(g, active, frames), frames))
  <1>1. Len(r.intent.operands) = Len(g.operands)
    BY ShapedGraphResult
  <1>2. RunsAs(r.intent.operands[k], Compiled(g, mode, active, frames, mentions)[k])
    <2>1. AllRun(r.intent.operands, Compiled(g, mode, active, frames, mentions),
                 Len(g.operands))
      BY ShapedGraphResult
    <2>2. QED
      BY <2>1 DEF AllRun
  <1>3. i.operands = r.intent.operands
    <2> DEFINE n == Len(i.operands)
               p == Len(r.intent.operands)
    <2>1. n = p
      BY <1>1
    <2>2. i.operands = r.intent.operands \/ (p = 2 /\ n = 1)
      BY Zenon DEF NormalForm
    <2> HIDE DEF n, p
    <2>3. QED
      BY <2>1, <2>2
  <1>4. Compiled(g, mode, active, frames, mentions)[k] =
          GraphOperand(Reconciled(g.operands, mentions, frames)[k], mode,
                       FieldOf(active, "operands"), GlobalPeriods(g, active, frames), frames)
    BY Zenon DEF Compiled
  <1>5. QED
    BY <1>2, <1>3, <1>4

\* A spec of a graph that is asked by name alone, from a to b.
LEMMA GraphFlow ==
  ASSUME NEW g, IsGraph(g), NEW mode, NEW active, IsActive(active),
         NEW frames, BoundFrames(frames), NEW mentions, AreMentions(mentions),
         NEW r, r = CompileGraph(g, mode, active, frames, mentions), r.kind = "bound",
         NEW specs, specs = NormalShape(g, mentions).operands,
         NEW i, NormalForm(i, r.intent), Len(i.operands) = Len(specs),
         NEW k, NEW a, NEW b, AsksFlow(specs, mentions, k, a, b)
  PROVE  FlowRead(i.operands[k], a, b)
  <1> USE DEF AsksFlow
  <1>1. PICK h : /\ IsGraph(h) /\ SpecsAskAlike(h.operands, specs)
                 /\ r = CompileShaped(h, mode, active, frames, mentions)
    BY CompiledShape
  <1>2. AreSpecs(specs) /\ AreSpecs(h.operands)
    <2>1. IsGraph(NormalShape(g, mentions))
      BY ShapeOfGraph
    <2>2. QED
      BY <1>1, <2>1 DEF IsGraph, AreSpecs
  <1>3. /\ Len(h.operands) = Len(specs) /\ h.operands[k].reverse = specs[k].reverse
    BY <1>1 DEF SpecsAskAlike, AsksAlike
  <1>4. PICK own : own = h.operands
    OBVIOUS
  <1>5. /\ AreSpecs(own) /\ SpecsAskAlike(own, specs) /\ k \in 1..Len(own)
    BY <1>1, <1>2, <1>3, <1>4
  <1>6. NamedOnly(own, mentions, k)
        /\ AskedOf(own, mentions, k) = AskedOf(specs, mentions, k)
    BY <1>2, <1>5, AskedAlike
  <1> DEFINE t == Reconciled(own, mentions, frames)[k]
             q == GraphOperand(t, mode, FieldOf(active, "operands"),
                               GlobalPeriods(h, active, frames), frames)
  <1>7. IsSpec(t) /\ t.reverse = own[k].reverse
    <2> DEFINE all == Reconciled(own, mentions, frames)
    <2>1. \A j \in 1..Len(own) : AsksMore(all[j], own[j])
      BY <1>5, ReconciledSpecs
    <2>2. AsksMore(t, own[k])
      BY <1>5, <2>1
    <2> HIDE DEF all, t
    <2>3. QED
      BY <2>2 DEF AsksMore, AsksOtherEntities
  <1>8. AskedOf(own, mentions, k) # {}
    BY <1>6 DEF AsksFromTo, NamesIn
  <1>9. t.handles = <<>> /\ Range(t.mentions) = AskedOf(own, mentions, k)
    BY <1>5, <1>6, <1>8, ReconciledNames
  <1>10. q.kind = "bound" /\ i.operands[k] = q.operand[1]
    <2>1. k \in 1..Len(h.operands) /\ Len(i.operands) = Len(h.operands)
      BY <1>1, <1>3, <1>4, <1>5
    <2> HIDE DEF AsksFlow
    <2>2. RunsAs(i.operands[k],
                 GraphOperand(Reconciled(own, mentions, frames)[k], mode,
                              FieldOf(active, "operands"),
                              GlobalPeriods(h, active, frames), frames))
      BY <1>1, <1>4, <2>1, SpecCompiled
    <2>3. QED
      BY <2>2 DEF RunsAs
  <1>11. AreBoundOperands(FieldOf(active, "operands"))
    BY ActiveOperands
  <1>12. AsksFromTo(Range(t.mentions), a, b) /\ ~t.reverse
    BY <1>3, <1>4, <1>6, <1>7, <1>9
  <1>13. q = GraphOperand(t, mode, FieldOf(active, "operands"),
                          GlobalPeriods(h, active, frames), frames)
    OBVIOUS
  <1> HIDE DEF t, q
  <1>14. FlowRead(q.operand[1], a, b)
    BY <1>7, <1>9, <1>10, <1>11, <1>12, <1>13, SpecFlow
  <1>15. QED
    BY <1>10, <1>14

LEMMA InvReadsGraphFlows ==
  ASSUME Inv, NEW specs, specs = Specs, NEW mentions, mentions = Tags(message[1]),
         NEW k, NEW a, NEW b, AsksFlow(specs, mentions, k, a, b)
  PROVE  FlowRead(bound[1].operands[k], a, b)
  <1> DEFINE mode == decision[1].mode
  <1>1. Len(<<>>) = 0
    OBVIOUS
  <1>2. /\ stage = "execute" /\ decision # <<>> /\ decision[1].kind = "graph"
        /\ Specs = NormalShape(decision[1].graph, Tags(message[1])).operands
        /\ Len(bound[1].operands) = Len(Specs)
    BY <1>1 DEF Specs, GraphUsed, AsksFlow
  <1>3. PICK d : decision = <<d>> /\ Follows(bound[1], d, message[1])
    BY <1>2 DEF Inv, Grounds
  <1>4. d.kind = "graph" /\ IsDecision(d) /\ IsGraph(d.graph) /\ decision[1] = d
    BY <1>2, <1>3 DEF Follows, IsDecision
  <1>5. message[1] \in Messages
    BY <1>2 DEF Inv
  <1>6. /\ IsActive(ActiveIntent) /\ BoundFrames(Frames) /\ AreMentions(mentions)
    BY <1>5, StoredTurns, StoredFrames, TagsAreMentions DEF Inv
  <1> DEFINE r == Compile(message[1], d)
  <1>7. r = CompileGraph(d.graph, mode, ActiveIntent, Frames, mentions)
    BY <1>4, ReadingOf DEF Inv
  <1>8. r.kind = "bound" /\ NormalForm(bound[1], r.intent)
    BY <1>3 DEF Follows
  <1>9. specs = NormalShape(d.graph, mentions).operands /\ Len(bound[1].operands) = Len(specs)
    BY <1>2, <1>4
  <1>10. PICK i, g, active, frames : /\ i = bound[1] /\ g = d.graph
                                     /\ active = ActiveIntent /\ frames = Frames
    OBVIOUS
  <1>11. NormalForm(i, r.intent) /\ Len(i.operands) = Len(specs)
    BY <1>8, <1>9, <1>10
  <1> HIDE DEF mode, r
  <1>12. r = CompileGraph(g, mode, active, frames, mentions) /\ specs = NormalShape(g, mentions).operands
    BY <1>7, <1>9, <1>10
  <1>13. IsGraph(g) /\ IsActive(active) /\ BoundFrames(frames) /\ AreMentions(mentions)
    BY <1>4, <1>6, <1>10
  <1>14. FlowRead(i.operands[k], a, b)
    BY <1>8, <1>11, <1>12, <1>13, GraphFlow
  <1>15. QED
    BY <1>10, <1>14

LEMMA InvReadsFlows ==
  ASSUME Inv
  PROVE  FlowIsReadOnItsEnd
  <1>1. SpecsReadFlows(Specs, Tags(message[1]))
    <2>1. PICK specs, mentions : specs = Specs /\ mentions = Tags(message[1])
      OBVIOUS
    <2>2. ASSUME NEW k, NEW a, NEW b, AsksFlow(specs, mentions, k, a, b)
          PROVE  FlowRead(bound[1].operands[k], a, b)
      BY <2>1, <2>2, InvReadsGraphFlows
    <2>3. SpecsReadFlows(specs, mentions)
      BY <2>2 DEF SpecsReadFlows, AsksFlow
    <2>4. QED
      BY <2>1, <2>3
  <1>2. ASSUME stage = "execute", decision = <<>>, NEW m, m = message[1]
        PROVE  RouteReadsFlow(Route(m), m)
    <2>1. m \in Messages
      BY <1>2 DEF Inv
    <2>2. CASE Route(m) = "analyzed_flow"
      <3>1. AnalyzedFlow(m) # <<>>
        BY <2>1, <2>2, RouteApplies
      <3>2. NormalForm(bound[1], AnalyzedFlow(m)[1])
        BY <1>2, <2>2 DEF Inv, Grounds
      <3>3. bound[1].operands = AnalyzedFlow(m)[1].operands
        BY <3>1, <3>2, AnalyzedFlowBound DEF NormalForm
      <3>4. QED
        BY <2>2, <3>1, <3>3, AnalyzedFlowBound DEF RouteReadsFlow
    <2>3. CASE Route(m) = "directed_flow"
      <3>1. DirectedFlow(m) # <<>>
        BY <2>1, <2>3, RouteApplies
      <3>2. NormalForm(bound[1], DirectedFlow(m)[1])
        BY <1>2, <2>3 DEF Inv, Grounds
      <3>3. bound[1].operands = DirectedFlow(m)[1].operands
        BY <2>1, <3>1, <3>2, DirectedFlowBound DEF NormalForm
      <3>4. QED
        BY <2>1, <2>3, <3>1, <3>3, DirectedFlowBound DEF RouteReadsFlow
    <2>4. QED
      BY <2>2, <2>3 DEF RouteReadsFlow
  <1>3. QED
    BY <1>1, <1>2 DEF FlowIsReadOnItsEnd

\* A flow that an operand or a route is asked about by name is read on the end its
\* metric asks for, at the article of the other, or holds both ends, and never the
\* other way round, for any registry, any session and any answer of the interpreter
\* (_bind_directed_viewpoint, _reconcile_current_mentions, _graph_entities and the
\* deterministic routes).
THEOREM FlowsAreReadOnTheirEnd == Spec => []FlowIsReadOnItsEnd
  BY InvHolds, InvReadsFlows, PTL

=============================================================================
