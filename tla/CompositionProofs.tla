--------------------------- MODULE CompositionProofs ---------------------------
(***************************************************************************)
(* Theorems about what TurnExecution computes from the answers: rankings,  *)
(* reductions, comparisons, formulas and groups, for any number of rows.   *)
(***************************************************************************)
EXTENDS TurnExecutionProofs

-----------------------------------------------------------------------------
(* The plan is that of the intent, and what is kept is what was composed     *)

\* Where a grouping may take its rows from.
GroupSources(t) ==
  IF t.reuse # <<>> THEN {t.reuse}
  ELSE {a.rows : a \in {b \in GroupAnswers : Usable(b.status)}}

\* After normalisation nothing changes the intent.  What runs, and what was
\* composed, is its plan, and it is composed when every task has its result.
PlannedInv ==
  /\ intent = IF stage = "bound" THEN turn.intent ELSE Normalised(turn)
  /\ stage = "grouping" => Groups(intent)
  /\ stage = "level" => ~Groups(intent)
  /\ stage \in {"running", "composing"} \/ outcome.native # <<>> =>
       /\ ~Groups(intent)
       /\ Plannable(intent) /\ plan = PlanOf(intent) /\ PlanComplete(plan)
  /\ stage = "composing" \/ outcome.native # <<>> => Len(results) = Len(plan.tasks)

\* A turn that has not ended has no outcome.  A success refers to what was
\* composed, to rows of a balance, or to the groups of the rows it took; what is
\* remembered are the facts of the turn.
KeptInv ==
  /\ stage # "done" => outcome = NotYet
  /\ outcome.kind = "success" =>
       IF outcome.native # <<>> THEN outcome.facts = NativeFacts(outcome.native[1])
       ELSE /\ results = <<>>
            /\ Groups(intent) =>
                 \E rows \in GroupSources(turn) :
                   /\ Groupable(rows, Dimension)
                   /\ outcome.facts = GroupsOf(rows, Dimension)
  /\ outcome.memory # <<>> =>
       /\ turn.live /\ outcome.memory[1] = outcome.facts
       /\ outcome.native # <<>> \/ outcome.facts # <<>>

\* Every result was read from an answer that could be read.
ReadInv ==
  \A i \in 1..Len(results) : Readable(plan.tasks[i], cache[plan.tasks[i].scalar])

LEMMA WhatIsKept ==
  ASSUME NEW status, NEW facts, NEW native, NEW remembers
  PROVE  LET o == Returned(status, facts, native, remembers)
         IN /\ o.native = native
            /\ o.kind = "success" => o.facts = facts
            /\ o.memory # <<>> => /\ o.kind = "success" /\ remembers
                                  /\ o.memory[1] = o.facts
  BY DEF Returned

LEMMA NothingIsRaised ==
  ASSUME NEW code
  PROVE  /\ Raised(code).native = <<>> /\ Raised(code).memory = <<>>
         /\ Raised(code).kind = "raised"
  BY DEF Raised, NotYet

LEMMA PlannedAtFirst ==
  ASSUME Init
  PROVE  PlannedInv /\ KeptInv
  <1>1. NotYet.native = <<>> /\ NotYet.memory = <<>> /\ NotYet.kind = "none"
    BY DEF NotYet
  <1>2. QED
    BY <1>1 DEF Init, PlannedInv, KeptInv

\* A turn that ends with nothing composed and nothing kept.
LEMMA FailureKeepsPlanned ==
  ASSUME PlannedInv, KeptInv, NEW code, End(Raised(code)),
         UNCHANGED <<turn, plan, results>>, intent' = Normalised(turn)
  PROVE  PlannedInv' /\ KeptInv'
  <1>1. stage' = "done" /\ outcome' = Raised(code)
    BY DEF End
  <1>2. QED
    BY <1>1, NothingIsRaised DEF PlannedInv, KeptInv

LEMMA AdmitKeepsPlanned ==
  ASSUME PlannedInv, KeptInv, Admit
  PROVE  PlannedInv' /\ KeptInv'
  <1>1. /\ stage = "bound" /\ intent' = Normalised(turn)
        /\ UNCHANGED <<turn, results, outcome>>
        /\ IF Groups(intent') THEN stage' = "grouping"
           ELSE /\ Plannable(intent') /\ plan' = PlanOf(intent') /\ PlanComplete(plan')
                /\ stage' = IF IsBalanceLevel(intent') THEN "level" ELSE "running"
    BY DEF Admit
  <1>2. outcome' = NotYet /\ NotYet.native = <<>> /\ NotYet.memory = <<>>
        /\ NotYet.kind = "none"
    BY <1>1 DEF KeptInv, NotYet
  <1>3. PlannedInv'
    BY <1>1, <1>2 DEF PlannedInv
  <1>4. QED
    BY <1>2, <1>3 DEF KeptInv

LEMMA TakeKeepsPlanned ==
  ASSUME ExecutionInv, PlannedInv, KeptInv, stage = "running", NEW answer, Take(answer),
         UNCHANGED <<turn, intent, plan>>
  PROVE  PlannedInv' /\ KeptInv'
  <1>1. CASE ~Readable(NextTask, answer)
    BY <1>1, FailureKeepsPlanned DEF Take, PlannedInv
  <1>2. CASE Readable(NextTask, answer)
    <2>1. /\ results' = Append(results, TaskResult(NextTask, answer))
          /\ stage' = IF Len(results) + 1 = Len(plan.tasks) THEN "composing" ELSE "running"
          /\ UNCHANGED outcome
      BY <1>2 DEF Take
    <2>2. outcome' = NotYet /\ NotYet.native = <<>> /\ NotYet.memory = <<>>
          /\ NotYet.kind = "none"
      BY <2>1 DEF KeptInv, NotYet
    <2>3. results \in Seq(Range(results))
      BY DEF ExecutionInv, ResultsInv
    <2>4. Len(results') = Len(results) + 1
      BY <2>1, <2>3, OneMore, Zenon
    <2>5. stage' = "composing" => Len(results') = Len(plan'.tasks)
      BY <2>1, <2>4
    <2>6. PlannedInv'
      BY <2>1, <2>2, <2>5 DEF PlannedInv
    <2>7. QED
      BY <2>1, <2>2, <2>6 DEF KeptInv
  <1>3. QED
    BY <1>1, <1>2

LEMMA ComposeKeepsPlanned ==
  ASSUME PlannedInv, KeptInv, Compose
  PROVE  PlannedInv' /\ KeptInv'
  <1>1. stage = "composing" /\ UNCHANGED <<turn, intent, plan, results, cache, calls>>
    BY DEF Compose
  <1>2. CASE ~(Failed(results) \/ Composable(plan, results))
    BY <1>1, <1>2, FailureKeepsPlanned DEF Compose, PlannedInv
  <1>3. CASE Failed(results) \/ Composable(plan, results)
    <2> DEFINE native == Composed(plan, results)
               o == Returned(native.status, NativeFacts(native), <<native>>,
                             turn.live /\ turn.memory)
    <2>1. stage' = "done" /\ outcome' = o
      BY <1>3 DEF Compose, End
    <2>2. /\ o.native = <<native>>
          /\ o.kind = "success" => o.facts = NativeFacts(native)
          /\ o.memory # <<>> => turn.live /\ o.memory[1] = o.facts
      BY DEF Returned
    <2> HIDE DEF native, o
    <2>3. PlannedInv'
      BY <1>1, <2>1 DEF PlannedInv
    <2>4. <<native>>[1] = native /\ <<native>> # <<>>
      OBVIOUS
    <2>5. QED
      BY <1>1, <2>1, <2>2, <2>3, <2>4 DEF KeptInv
  <1>4. QED
    BY <1>2, <1>3

LEMMA ShowKeepsPlanned ==
  ASSUME ExecutionInv, PlannedInv, KeptInv, ShowLevel
  PROVE  PlannedInv' /\ KeptInv'
  <1>1. PICK answer \in LevelAnswer(intent) :
          LET envelope == LevelEnvelope(intent, answer)
              facts == IF envelope.rows # <<>> THEN envelope.rows ELSE <<StatusFact>>
          IN End(Returned(envelope.status, facts, <<>>, turn.live /\ turn.memory))
    BY DEF ShowLevel
  <1> DEFINE envelope == LevelEnvelope(intent, answer)
             facts == IF envelope.rows # <<>> THEN envelope.rows ELSE <<StatusFact>>
             o == Returned(envelope.status, facts, <<>>, turn.live /\ turn.memory)
  <1>2. stage = "level" /\ UNCHANGED <<turn, intent, plan, results>>
        /\ stage' = "done" /\ outcome' = o
    BY <1>1 DEF ShowLevel, End
  <1>3. facts # <<>>
    OBVIOUS
  <1>4. /\ o.native = <<>>
        /\ o.kind = "success" => o.facts = facts
        /\ o.memory # <<>> => o.kind = "success" /\ turn.live /\ o.memory[1] = o.facts
    BY DEF Returned
  <1> HIDE DEF o, facts, envelope
  <1>5. results = <<>>
    BY <1>2 DEF ExecutionInv, NothingYet
  <1>6. QED
    BY <1>2, <1>3, <1>4, <1>5 DEF PlannedInv, KeptInv

LEMMA GroupedIsKept ==
  ASSUME ExecutionInv, PlannedInv, KeptInv, stage = "grouping",
         NEW answer, Usable(answer.status) => answer.rows \in GroupSources(turn),
         End(Grouped(answer, Dimension)), UNCHANGED <<turn, intent, plan, results>>
  PROVE  PlannedInv' /\ KeptInv'
  <1> DEFINE usable == Usable(answer.status)
             facts == IF usable THEN GroupsOf(answer.rows, Dimension) ELSE <<>>
             o == Returned(answer.status, facts, <<>>, turn.live)
  <1>1. CASE \E code : Grouped(answer, Dimension) = Raised(code)
    BY <1>1, FailureKeepsPlanned DEF PlannedInv
  <1>2. CASE ~(\E code : Grouped(answer, Dimension) = Raised(code))
    <2>1. /\ Grouped(answer, Dimension) = o
          /\ usable => Groupable(answer.rows, Dimension)
          /\ usable /\ turn.live => facts # <<>>
      BY <1>2 DEF Grouped
    <2>2. stage' = "done" /\ outcome' = o
      BY <2>1 DEF End
    <2>3. /\ o.native = <<>>
          /\ o.kind = "success" => o.facts = facts
          /\ o.memory # <<>> => o.kind = "success" /\ turn.live /\ o.memory[1] = o.facts
          /\ o.kind = OutcomeOf(answer.status)
      BY WhatIsKept, WhatIsReturned
    <2>4. o.kind = "success" => usable
      BY <2>3 DEF OutcomeOf
    <2>5. usable => facts = GroupsOf(answer.rows, Dimension)
      OBVIOUS
    <2> HIDE DEF o, facts, usable
    <2>6. results = <<>> /\ Groups(intent)
      BY DEF ExecutionInv, NothingYet, PlannedInv
    <2>7. PlannedInv'
      BY <2>2, <2>3 DEF PlannedInv
    <2>8. usable => answer.rows \in GroupSources(turn)
      BY DEF usable
    <2>9. KeptInv'
      BY <2>1, <2>2, <2>3, <2>4, <2>5, <2>6, <2>8 DEF KeptInv, Dimension
    <2>10. QED
      BY <2>7, <2>9
  <1>3. QED
    BY <1>1, <1>2

LEMMA StepKeepsPlanned ==
  ASSUME ExecutionInv, PlannedInv, KeptInv, [Next]_vars
  PROVE  PlannedInv' /\ KeptInv'
  <1>1. CASE RefuseEvidence \/ RefusePlan \/ RefuseGrouping
    <2>1. PICK code : Refuse(code)
      BY <1>1 DEF RefuseEvidence, RefusePlan, RefuseGrouping
    <2>2. QED
      BY <2>1, FailureKeepsPlanned DEF Refuse
  <1>2. CASE Admit
    BY <1>2, AdmitKeepsPlanned
  <1>3. CASE Query
    <2>1. stage = "running" /\ UNCHANGED <<turn, intent, plan>> /\ \E a : Take(a)
      BY <1>3 DEF Query
    <2>2. QED
      BY <2>1, TakeKeepsPlanned
  <1>4. CASE Reuse
    <2>1. stage = "running" /\ UNCHANGED <<turn, intent, plan>> /\ \E a : Take(a)
      BY <1>4 DEF Reuse
    <2>2. QED
      BY <2>1, TakeKeepsPlanned
  <1>5. CASE QueryFails \/ ShowLevelFails \/ QueryGroupsFails
    <2>1. stage # "bound" /\ UNCHANGED <<turn, intent, plan, results>>
          /\ \E code : End(Raised(code))
      BY <1>5 DEF QueryFails, ShowLevelFails, QueryGroupsFails
    <2>2. QED
      BY <2>1, FailureKeepsPlanned DEF PlannedInv
  <1>6. CASE Compose
    BY <1>6, ComposeKeepsPlanned
  <1>7. CASE ShowLevel
    BY <1>7, ShowKeepsPlanned
  <1>8. CASE Regroup
    <2> DEFINE a == [status |-> "ok", rows |-> turn.reuse]
    <2>1. stage = "grouping" /\ turn.reuse # <<>> /\ End(Grouped(a, Dimension))
          /\ UNCHANGED <<turn, intent, plan, results>>
      BY <1>8 DEF Regroup
    <2>2. a.rows \in GroupSources(turn)
      BY <2>1 DEF GroupSources
    <2> HIDE DEF a
    <2>3. QED
      BY <2>1, <2>2, GroupedIsKept
  <1>9. CASE QueryGroups
    <2>1. PICK a \in GroupAnswers : End(Grouped(a, Dimension))
      BY <1>9 DEF QueryGroups
    <2>2. stage = "grouping" /\ turn.reuse = <<>>
          /\ UNCHANGED <<turn, intent, plan, results>>
      BY <1>9 DEF QueryGroups
    <2>3. Usable(a.status) => a.rows \in GroupSources(turn)
      BY <2>2 DEF GroupSources
    <2>4. QED
      BY <2>1, <2>2, <2>3, GroupedIsKept
  <1>10. CASE UNCHANGED vars
    BY <1>10 DEF vars, PlannedInv, KeptInv, Dimension
  <1>11. QED
    BY <1>1, <1>2, <1>3, <1>4, <1>5, <1>6, <1>7, <1>8, <1>9, <1>10 DEF Next

LEMMA StepKeepsRead ==
  ASSUME ExecutionInv, ReadInv, [Next]_vars
  PROVE  ReadInv'
  <1>1. CASE UNCHANGED <<plan, results, cache>>
    BY <1>1 DEF ReadInv
  <1>2. CASE Admit
    <2>1. results' = <<>> /\ Len(<<>>) = 0
      BY <1>2 DEF Admit, ExecutionInv, NothingYet
    <2>2. QED
      BY <2>1 DEF ReadInv
  <1>3. ASSUME NEW answer, Take(answer), stage = "running", UNCHANGED plan,
               NextTask.scalar \in DOMAIN cache', cache'[NextTask.scalar] = answer,
               \A q \in DOMAIN cache : cache'[q] = cache[q]
        PROVE  ReadInv'
    <2>1. \A i \in 1..Len(results) : plan.tasks[i].scalar \in DOMAIN cache
      BY DEF ExecutionInv, ResultsInv
    <2>2. \A i \in 1..Len(results) : Readable(plan.tasks[i], cache'[plan.tasks[i].scalar])
      BY <1>3, <2>1 DEF ReadInv
    <2>3. CASE ~Readable(NextTask, answer)
      <3>1. results' = results
        BY <1>3, <2>3 DEF Take
      <3>2. QED
        BY <1>3, <2>2, <3>1 DEF ReadInv
    <2>4. CASE Readable(NextTask, answer)
      <3>1. results' = Append(results, TaskResult(NextTask, answer))
        BY <1>3, <2>4 DEF Take
      <3>2. results \in Seq(Range(results)) /\ Len(results) \in Nat
        BY DEF ExecutionInv, ResultsInv
      <3>3. Len(results') = Len(results) + 1
        BY <3>1, <3>2, OneMore, Zenon
      <3>4. \A i \in 1..Len(results') : i \in 1..Len(results) \/ i = Len(results) + 1
        BY <3>2, <3>3
      <3>5. Readable(plan.tasks[Len(results) + 1],
                     cache'[plan.tasks[Len(results) + 1].scalar])
        BY <1>3, <2>4 DEF NextTask
      <3>6. QED
        BY <1>3, <2>2, <3>4, <3>5 DEF ReadInv
    <2>5. QED
      BY <2>3, <2>4
  <1>4. CASE Query
    <2> DEFINE q == NextTask.scalar
    <2>1. PICK answer \in Answers :
            /\ cache' = [k \in DOMAIN cache \cup {q} |-> IF k = q THEN answer ELSE cache[k]]
            /\ Take(answer)
      BY <1>4 DEF Query, CacheKey
    <2>2. stage = "running" /\ UNCHANGED plan /\ q \notin DOMAIN cache
      BY <1>4 DEF Query, CacheKey
    <2> HIDE DEF q
    <2>3. /\ q \in DOMAIN cache' /\ cache'[q] = answer
          /\ \A k \in DOMAIN cache : cache'[k] = cache[k]
      BY <2>1, <2>2
    <2>4. QED
      BY <1>3, <2>1, <2>2, <2>3 DEF q
  <1>5. CASE Reuse
    <2>1. /\ stage = "running" /\ NextTask.scalar \in DOMAIN cache
          /\ Take(cache[NextTask.scalar]) /\ UNCHANGED <<plan, cache>>
      BY <1>5 DEF Reuse, CacheKey
    <2>2. QED
      BY <1>3, <2>1
  <1>6. CASE \/ RefuseEvidence \/ RefusePlan \/ RefuseGrouping \/ QueryFails \/ Compose
             \/ ShowLevel \/ ShowLevelFails \/ Regroup \/ QueryGroups \/ QueryGroupsFails
             \/ UNCHANGED vars
    <2>1. UNCHANGED <<plan, results, cache>>
      BY <1>6 DEF RefuseEvidence, RefusePlan, RefuseGrouping, Refuse, QueryFails, Compose,
                  ShowLevel, ShowLevelFails, Regroup, QueryGroups, QueryGroupsFails, vars
    <2>2. QED
      BY <1>1, <2>1
  <1>7. QED
    BY <1>2, <1>4, <1>5, <1>6 DEF Next

CompositionInv == ExecutionInv /\ PlannedInv /\ KeptInv /\ ReadInv

LEMMA CompositionHolds == Spec => []CompositionInv
  <1>1. Init => CompositionInv
    <2>1. Init => ReadInv
      <3>1. Len(<<>>) = 0
        OBVIOUS
      <3>2. QED
        BY <3>1 DEF Init, ReadInv
    <2>2. QED
      BY <2>1, InitEstablishes, PlannedAtFirst DEF CompositionInv
  <1>2. CompositionInv /\ [Next]_vars => CompositionInv'
    BY StepKeeps, StepKeepsPlanned, StepKeepsRead DEF CompositionInv
  <1>3. QED
    BY <1>1, <1>2, PTL DEF Spec

-----------------------------------------------------------------------------
(* Rows and results *)

Row == [key : Int, day : Seq(Nat), to : Seq(Nat), value : Int]

LEMMA RowsHaveValues ==
  ASSUME NEW rows \in Seq(Row)
  PROVE  /\ DOMAIN Values(rows) = 1..Len(rows) /\ Len(Values(rows)) = Len(rows)
         /\ Len(rows) \in Nat
         /\ \A k \in 1..Len(rows) :
              /\ rows[k] \in Row /\ rows[k].key \in Int /\ rows[k].value \in Int
              /\ rows[k].day \in Seq(Nat) /\ rows[k].to \in Seq(Nat)
              /\ Values(rows)[k] = rows[k].value
         /\ Range(Values(rows)) = {rows[k].value : k \in 1..Len(rows)}
  <1>1. Len(rows) \in Nat /\ \A k \in 1..Len(rows) : rows[k] \in Row
    OBVIOUS
  <1>2. \A r \in Row : /\ r.key \in Int /\ r.value \in Int
                      /\ r.day \in Seq(Nat) /\ r.to \in Seq(Nat)
    BY DEF Row
  <1>3. DOMAIN Values(rows) = 1..Len(rows) /\ \A k \in 1..Len(rows) : Values(rows)[k] = rows[k].value
    BY DEF Values
  <1>4. Len(Values(rows)) = Len(rows)
    BY <1>1 DEF Values
  <1>5. Range(Values(rows)) = {rows[k].value : k \in 1..Len(rows)}
    BY <1>3 DEF Range
  <1>6. QED
    BY <1>1, <1>2, <1>3, <1>4, <1>5

LEMMA SumOfRows ==
  ASSUME NEW rows \in Seq(Row)
  PROVE  SumOf(rows) = SumTo(Values(rows), Len(rows)) /\ SumOf(rows) \in Int
  <1> DEFINE v == Values(rows)
  <1>1. DOMAIN v = 1..Len(v) /\ Len(v) \in Nat /\ Len(v) = Len(rows)
        /\ \A k \in 1..Len(v) : v[k] \in Int
    BY RowsHaveValues
  <1>2. SumOf(rows) = FoldSeq(LAMBDA x, acc : x + acc, 0, v)
    BY Zenon DEF SumOf
  <1> HIDE DEF v
  <1>3. FoldSeq(LAMBDA x, acc : x + acc, 0, v) = SumTo(v, Len(v))
    BY <1>1, FoldOfNumbers
  <1>4. SumTo(v, Len(v)) \in Int
    BY <1>1, SumType
  <1>5. QED
    BY <1>1, <1>2, <1>3, <1>4 DEF v

LEMMA ExtremesOfRows ==
  ASSUME NEW rows \in Seq(Row), Len(rows) # 0
  PROVE  /\ \E k \in 1..Len(rows) : Smallest(rows) = rows[k].value
         /\ \A k \in 1..Len(rows) : Smallest(rows) <= rows[k].value
         /\ \E k \in 1..Len(rows) : Largest(rows) = rows[k].value
         /\ \A k \in 1..Len(rows) : Largest(rows) >= rows[k].value
         /\ Smallest(rows) \in Int /\ Largest(rows) \in Int
  <1> DEFINE n == Len(rows)
             v == Values(rows)
             S == Range(Values(rows))
  <1>1. /\ n \in Nat /\ n > 0
        /\ \A k \in 1..n : v[k] \in Int /\ v[k] = rows[k].value
        /\ S = {rows[k].value : k \in 1..n}
    BY RowsHaveValues
  <1> HIDE DEF n, v, S
  <1>2. \A k \in 1..n : v[k] \in S
    BY <1>1
  <1>3. \A x \in S : \E k \in 1..n : x = v[k]
    BY <1>1
  <1>4. \E x \in S : \A y \in S : x <= y
    <2>1. PICK i \in 1..n : \A j \in 1..n : v[i] <= v[j]
      BY <1>1, LeastValue
    <2>2. QED
      BY <1>2, <1>3, <2>1
  <1>5. \E x \in S : \A y \in S : x >= y
    <2>1. PICK i \in 1..n : \A j \in 1..n : v[i] >= v[j]
      BY <1>1, GreatestValue
    <2>2. QED
      BY <1>2, <1>3, <2>1
  <1>6. Smallest(rows) \in S /\ \A y \in S : Smallest(rows) <= y
    BY <1>4 DEF Smallest, S
  <1>7. Largest(rows) \in S /\ \A y \in S : Largest(rows) >= y
    BY <1>5 DEF Largest, S
  <1>8. QED
    BY <1>1, <1>2, <1>3, <1>6, <1>7 DEF n

LEMMA ListOfOne ==
  ASSUME NEW e
  PROVE  <<e>> \in Seq(Range(<<e>>)) /\ Len(<<e>>) = 1 /\ <<e>>[1] = e
  <1>1. <<e>> = [k \in 1..1 |-> <<e>>[k]]
    OBVIOUS
  <1>2. <<e>> \in Seq(Range(<<e>>))
    BY <1>1, ListOfItsElements
  <1>3. QED
    BY <1>2

\* What a task's result is made of.
LEMMA SeriesShape ==
  ASSUME NEW t, NEW rows \in Seq(Row)
  PROVE  LET s == SeriesOf(t, rows)
         IN /\ s \in Seq(Range(s)) /\ Len(s) = Len(rows)
            /\ \A k \in 1..Len(rows) :
                 /\ s[k].task = t.id /\ s[k].value = rows[k].value /\ s[k].value \in Int
                 /\ s[k].periods = BucketDays(rows[k]) /\ s[k].at = rows[k].day
                 /\ s[k].rows = <<rows[k]>> /\ s[k].rows[1] = rows[k]
  <1> DEFINE s == SeriesOf(t, rows)
  <1>1. Len(rows) \in Nat
    OBVIOUS
  <1>2. \A k \in 1..Len(rows) :
          s[k] = ScalarFact(t.id, rows[k].value, BucketDays(rows[k]), rows[k].day, <<rows[k]>>)
    BY DEF SeriesOf
  <1>3. s = [k \in 1..Len(rows) |-> s[k]]
    BY DEF SeriesOf
  <1> HIDE DEF s
  <1>4. s \in Seq(Range(s)) /\ Len(s) = Len(rows)
    BY <1>1, <1>3, ListOfItsElements
  <1>5. \A k \in 1..Len(rows) : rows[k].value \in Int
    BY RowsHaveValues
  <1>6. ASSUME NEW k \in 1..Len(rows)
        PROVE  /\ s[k].task = t.id /\ s[k].value = rows[k].value
               /\ s[k].periods = BucketDays(rows[k]) /\ s[k].at = rows[k].day
               /\ s[k].rows = <<rows[k]>> /\ s[k].rows[1] = rows[k]
    <2>1. s[k] = ScalarFact(t.id, rows[k].value, BucketDays(rows[k]), rows[k].day, <<rows[k]>>)
      BY <1>2
    <2>2. /\ s[k].task = t.id /\ s[k].value = rows[k].value
          /\ s[k].periods = BucketDays(rows[k])
          /\ s[k].at = rows[k].day /\ s[k].rows = <<rows[k]>>
      BY <2>1 DEF ScalarFact
    <2>3. <<rows[k]>>[1] = rows[k]
      BY ListOfOne
    <2>4. QED
      BY <2>2, <2>3
  <1>7. QED
    BY <1>4, <1>5, <1>6 DEF s

LEMMA FactShape ==
  ASSUME NEW t, NEW rows \in Seq(Row), HasFact(t, rows)
  PROVE  /\ FactOf(t, rows).task = t.id
         /\ FactOf(t, rows).value \in Int
         /\ FactOf(t, rows).periods = DaysOf(t.scalar.periods)
  <1>1. /\ FactOf(t, rows).task = t.id
        /\ FactOf(t, rows).periods = DaysOf(t.scalar.periods)
    BY DEF FactOf, ScalarFact
  <1>2. rows # <<>> /\ Len(rows) # 0
    BY DEF HasFact
  <1>3. rows[1].value \in Int
    BY <1>2, RowsHaveValues
  <1>4. SumOf(rows) \in Int /\ Smallest(rows) \in Int /\ Largest(rows) \in Int
    BY <1>2, SumOfRows, ExtremesOfRows
  <1>5. FactOf(t, rows).value \in {SumOf(rows), Smallest(rows), Largest(rows), rows[1].value}
    BY DEF FactOf, ScalarFact
  <1>6. QED
    BY <1>1, <1>3, <1>4, <1>5

LEMMA ResultShape ==
  ASSUME NEW t, NEW a, a.rows \in Seq(Row), Readable(t, a)
  PROVE  LET r == TaskResult(t, a)
         IN /\ r.id = t.id /\ r.status = a.status
            /\ r.fact \in Seq(Range(r.fact)) /\ r.series \in Seq(Range(r.series))
            /\ r.fact # <<>> => /\ Len(r.fact) = 1
                                /\ r.fact[1].task = t.id /\ r.fact[1].value \in Int
                                /\ ~IsSeries(t) =>
                                     r.fact[1].periods = DaysOf(t.scalar.periods)
            /\ r.series # <<>> => IsSeries(t) /\ r.series = SeriesOf(t, a.rows)
            /\ r.fact # <<>> /\ IsSeries(t) => r.fact = r.series
  <1> DEFINE r == TaskResult(t, a)
             s == SeriesOf(t, a.rows)
  <1>1. r.id = t.id /\ r.status = a.status
    BY DEF TaskResult
  <1>2. s \in Seq(Range(s)) /\ Len(s) = Len(a.rows) /\ Len(a.rows) \in Nat
        /\ \A k \in 1..Len(a.rows) :
             s[k].task = t.id /\ s[k].value \in Int
    BY SeriesShape
  <1>3. <<>> \in Seq(Range(<<>>))
    OBVIOUS
  <1>4. CASE ~Usable(a.status)
    <2>1. r.fact = <<>> /\ r.series = <<>>
      BY <1>4 DEF TaskResult
    <2>2. QED
      BY <1>1, <1>3, <2>1
  <1>5. CASE Usable(a.status) /\ IsSeries(t)
    <2>1. r.series = s /\ r.fact = IF Len(s) = 1 THEN s ELSE <<>>
      BY <1>5 DEF TaskResult
    <2> HIDE DEF r, s
    <2>2. r.fact # <<>> => Len(s) = 1 /\ r.fact = s
      BY <2>1
    <2>3. 1 \in 1..1
      OBVIOUS
    <2>4. QED
      BY <1>1, <1>2, <1>3, <1>5, <2>1, <2>2, <2>3 DEF r, s
  <1>6. CASE Usable(a.status) /\ ~IsSeries(t)
    <2> DEFINE f == FactOf(t, a.rows)
    <2>1. r.series = <<>> /\ r.fact = <<f>>
      BY <1>6 DEF TaskResult
    <2>2. f.task = t.id /\ f.value \in Int /\ f.periods = DaysOf(t.scalar.periods)
      BY <1>6, FactShape DEF Readable
    <2> HIDE DEF f, r, s
    <2>3. r.fact \in Seq(Range(r.fact)) /\ Len(r.fact) = 1 /\ r.fact[1] = f
      <3>1. <<f>> \in Seq(Range(<<f>>)) /\ Len(<<f>>) = 1 /\ <<f>>[1] = f
        BY ListOfOne
      <3>2. QED
        BY <2>1, <3>1
    <2>4. QED
      BY <1>1, <1>3, <1>6, <2>1, <2>2, <2>3 DEF r
  <1>7. QED
    BY <1>4, <1>5, <1>6

LEMMA ResultsAreRead ==
  ASSUME CompositionInv, NEW i \in 1..Len(results)
  PROVE  \E a \in Answers : /\ a.rows \in Seq(Row)
                            /\ Readable(plan.tasks[i], a)
                            /\ results[i] = TaskResult(plan.tasks[i], a)
  <1> DEFINE a == cache[plan.tasks[i].scalar]
  <1>1. /\ plan.tasks[i].scalar \in DOMAIN cache
        /\ results[i] = TaskResult(plan.tasks[i], a)
    BY DEF CompositionInv, ExecutionInv, ResultsInv
  <1>2. a \in Answers
    BY <1>1 DEF CompositionInv, ExecutionInv, CallsInv
  <1>3. Readable(plan.tasks[i], a)
    BY DEF CompositionInv, ReadInv
  <1>4. a.rows \in Seq(Row)
    BY <1>2, RowsAreLists DEF Row
  <1>5. QED
    BY <1>1, <1>2, <1>3, <1>4

-----------------------------------------------------------------------------
(* What is composed *)

\* Every result as it was read, with the fact that ranking or reduction gives it.
LEMMA CompletedShape ==
  ASSUME CompositionInv, NEW i \in 1..Len(results)
  PROVE  LET c == Completed(plan, results)[i]
         IN /\ c.id = results[i].id /\ c.status = results[i].status
            /\ c.series = results[i].series
            /\ plan.operation = "rank" => c.fact = <<Ranked(plan, results)[1]>>
            /\ plan.operation # "rank" /\ plan.tasks[i].reduce # "none" =>
                 c.fact = <<Reduce(plan.tasks[i], results[i].series)>>
            /\ plan.operation # "rank" /\ plan.tasks[i].reduce = "none" =>
                 c.fact = results[i].fact
            /\ c.fact \in Seq(Range(c.fact)) /\ c.series \in Seq(Range(c.series))
  <1> DEFINE r == results[i]
             c == Completed(plan, results)[i]
             x == Ranked(plan, results)[1]
             y == Reduce(plan.tasks[i], r.series)
  <1>1. PICK a \in Answers : /\ a.rows \in Seq(Row) /\ Readable(plan.tasks[i], a)
                             /\ r = TaskResult(plan.tasks[i], a)
    BY ResultsAreRead
  <1>2. r.fact \in Seq(Range(r.fact)) /\ r.series \in Seq(Range(r.series))
    BY <1>1, ResultShape
  <1>3. DOMAIN r = {"id", "status", "fact", "series"}
    BY <1>1 DEF TaskResult
  <1>4. c = IF plan.operation = "rank" THEN [r EXCEPT !.fact = <<x>>]
            ELSE IF plan.tasks[i].reduce # "none" THEN [r EXCEPT !.fact = <<y>>]
            ELSE r
    BY DEF Completed
  <1>5. /\ <<x>> \in Seq(Range(<<x>>)) /\ <<y>> \in Seq(Range(<<y>>))
    BY ListOfOne
  <1> HIDE DEF r, c, x, y
  <1>6. /\ c.id = r.id /\ c.status = r.status /\ c.series = r.series
        /\ c.fact = IF plan.operation = "rank" THEN <<x>>
                    ELSE IF plan.tasks[i].reduce # "none" THEN <<y>> ELSE r.fact
    BY <1>3, <1>4
  <1>7. QED
    BY <1>2, <1>5, <1>6 DEF r, c, x, y

LEMMA CompletedLength ==
  ASSUME CompositionInv
  PROVE  /\ Len(results) \in Nat
         /\ DOMAIN Completed(plan, results) = 1..Len(results)
         /\ Len(Completed(plan, results)) = Len(results)
  <1>1. Len(results) \in Nat
    BY DEF CompositionInv, ExecutionInv, ResultsInv
  <1>2. QED
    BY <1>1 DEF Completed

LEMMA ComposedShape ==
  ASSUME NEW p, NEW rs
  PROVE  LET n == Composed(p, rs)
             done == Completed(p, rs)
         IN /\ n.results = IF Failed(rs) THEN rs ELSE done
            /\ n.comparison = IF Failed(rs) \/ p.operation \notin {"compare", "compare_periods"}
                              THEN <<>> ELSE <<Compare(p, done)>>
            /\ n.members = IF Failed(rs) \/ p.operation # "compare"
                           THEN <<>> ELSE CompareSet(p, done)
            /\ n.derived = IF Failed(rs) \/ p.operation # "calculate"
                           THEN <<>> ELSE Calculate(p, done)
            /\ n.ranking = IF Failed(rs) \/ p.operation # "rank"
                           THEN <<>> ELSE Ranked(p, rs)
            /\ n.status = IF Failed(rs) THEN FailureStatus(rs)
                          ELSE IF p.operation = "group" /\ rs[1].series = <<>> THEN "no_data"
                          ELSE IF p.operation = "calculate" /\ Calculate(p, done) = <<>>
                          THEN "no_data" ELSE "ok"
  <1>1. CASE Failed(rs)
    BY <1>1 DEF Composed, Native
  <1>2. CASE ~Failed(rs) /\ p.operation \in {"group", "rank", "compare"}
    BY <1>2 DEF Composed, Native
  <1>3. CASE ~Failed(rs) /\ p.operation \in {"compare_periods", "calculate"}
    BY <1>3 DEF Composed, Native
  <1>4. CASE ~Failed(rs) /\ p.operation \notin {"group", "rank", "compare",
                                               "compare_periods", "calculate"}
    BY <1>4 DEF Composed, Native
  <1>5. QED
    BY <1>1, <1>2, <1>3, <1>4

LEMMA CalculateIsList ==
  ASSUME NEW p, NEW rs
  PROVE  Len(Calculate(p, rs)) \in Nat
  <1>1. Calculate(p, rs) = <<>> \/ \E x : Calculate(p, rs) = <<x>>
    BY Zenon DEF Calculate
  <1>2. QED
    BY <1>1, ListOfOne

\* What a composed outcome is.
LEMMA ComposedOutcome ==
  ASSUME CompositionInv, outcome.native # <<>>
  PROVE  /\ outcome.native[1] = Composed(plan, results)
         /\ outcome.kind = OutcomeOf(Composed(plan, results).status)
         /\ Failed(results) \/ Composable(plan, results)
         /\ plan = PlanOf(intent) /\ Plannable(intent) /\ PlanComplete(plan)
         /\ ~Groups(intent)
         /\ intent = Normalised(turn) /\ IsIntent(intent) /\ ValidShape(intent)
         /\ turn \in Turns
         /\ Len(results) = Len(plan.tasks) /\ Len(plan.tasks) > 0
         /\ stage = "done"
  <1>1. /\ outcome.native[1] = Composed(plan, results)
        /\ outcome.kind = OutcomeOf(Composed(plan, results).status)
        /\ Failed(results) \/ Composable(plan, results)
        /\ turn \in Turns /\ ValidShape(intent)
    <2>1. outcome.native = <<Composed(plan, results)>>
      BY DEF CompositionInv, ExecutionInv, OutcomeInv
    <2>2. outcome.native[1] = Composed(plan, results)
      BY <2>1, ListOfOne
    <2>3. QED
      BY <2>2 DEF CompositionInv, ExecutionInv, OutcomeInv
  <1>2. stage = "done"
    <2>1. NotYet.native = <<>>
      BY DEF NotYet
    <2>2. QED
      BY <2>1 DEF CompositionInv, KeptInv
  <1>3. /\ intent = Normalised(turn) /\ ~Groups(intent)
        /\ plan = PlanOf(intent) /\ Plannable(intent) /\ PlanComplete(plan)
        /\ Len(results) = Len(plan.tasks)
    BY <1>2 DEF CompositionInv, PlannedInv
  <1>4. IsIntent(intent)
    BY <1>1, <1>3, NormalisedIsValid
  <1>5. Len(plan.tasks) > 0
    BY <1>3, <1>4, PlanHasTasks
  <1>6. QED
    BY <1>1, <1>2, <1>3, <1>4, <1>5

\* A success has a list of facts and a list of buckets for every task, one of
\* them not empty, so that it refers to a fact at least.
LEMMA SuccessHasFacts ==
  ASSUME CompositionInv, outcome.native # <<>>, outcome.kind = "success"
  PROVE  NativeFacts(outcome.native[1]) # <<>>
  <1> DEFINE n == outcome.native[1]
             len == Len(n.results)
             facts == [i \in 1..len |-> n.results[i].fact]
             series == [i \in 1..len |-> n.results[i].series]
             derived == [i \in 1..Len(n.derived) |-> DerivedFact(n.derived[i])]
             F == UNION {Range(facts[i]) \cup Range(series[i]) : i \in 1..len}
             S == F \cup Range(derived)
  <1>1. ~Failed(results)
    <2>1. ASSUME Failed(results)
          PROVE  FALSE
      <3>1. outcome.kind = OutcomeOf(FailureStatus(results))
        BY <2>1, ComposedOutcome, ComposedShape
      <3>2. QED
        BY <3>1 DEF OutcomeOf, Usable, FailureStatus
    <2>2. QED
      BY <2>1
  <1>2. n.results = Completed(plan, results)
    BY <1>1, ComposedOutcome, ComposedShape
  <1>3. len = Len(results) /\ len \in Nat /\ len > 0
    BY <1>2, ComposedOutcome, CompletedLength
  <1>4. \A i \in 1..len : /\ facts[i] \in Seq(Range(facts[i]))
                          /\ series[i] \in Seq(Range(series[i]))
    BY <1>2, <1>3, CompletedShape
  <1>5. \A i \in 1..len : n.results[i].fact = <<>> => n.results[i].series # <<>>
    BY <1>3, AllOrNothing DEF CompositionInv, AllTasksOrNothing
  <1>6. 1 \in 1..len /\ (facts[1] # <<>> \/ series[1] # <<>>)
    BY <1>3, <1>5
  <1>7. Len(facts) = len /\ Len(series) = len
    BY <1>3
  <1>8. NativeFacts(n) = FlattenSeq(facts) \o FlattenSeq(series) \o derived
    BY DEF NativeFacts
  <1>9. \A i \in 1..len : Range(facts[i]) \subseteq S /\ Range(series[i]) \subseteq S
    <2>1. \A i \in 1..len : Range(facts[i]) \subseteq F /\ Range(series[i]) \subseteq F
      OBVIOUS
    <2> HIDE DEF F
    <2>2. QED
      BY <2>1
  <1>14. derived \in Seq(S)
    <2>1. n.derived = <<>> \/ n.derived = Calculate(plan, Completed(plan, results))
      BY ComposedOutcome, ComposedShape
    <2>2. Len(n.derived) \in Nat
      BY <2>1, CalculateIsList
    <2>3. derived = [i \in 1..Len(n.derived) |-> derived[i]]
      OBVIOUS
    <2> HIDE DEF F, n, derived
    <2>6. Range(derived) \subseteq S
      OBVIOUS
    <2> HIDE DEF S
    <2>4. derived \in Seq(Range(derived))
      BY <2>2, <2>3, ListOfItsElements
    <2>5. QED
      BY <2>4, <2>6
  <1> HIDE DEF n, len, facts, series, derived, S
  <1>10. \A i \in 1..len : facts[i] \in Seq(S) /\ series[i] \in Seq(S)
    <2>1. \A s, R : s \in Seq(R) /\ R \subseteq S => s \in Seq(S)
      OBVIOUS
    <2>2. QED
      BY <1>4, <1>9, <2>1
  <1>11. /\ FlattenSeq(facts) \in Seq(S) /\ FlattenSeq(series) \in Seq(S)
         /\ FlattenSeq(facts) # <<>> \/ FlattenSeq(series) # <<>>
    BY <1>3, <1>6, <1>7, <1>10, FlattenedLists
  <1>12. FlattenSeq(facts) \o FlattenSeq(series) \o derived # <<>>
    <2> DEFINE a == FlattenSeq(facts)
               b == FlattenSeq(series)
    <2>1. a \in Seq(S) /\ b \in Seq(S) /\ (a # <<>> \/ b # <<>>)
      BY <1>11
    <2> HIDE DEF a, b
    <2>2. a \o b \in Seq(S) /\ Len(a \o b) > 0
      BY <1>11, <2>1 DEF a, b
    <2>3. QED
      BY <1>14, <2>2 DEF a, b
  <1>13. QED
    BY <1>8, <1>12 DEF n

-----------------------------------------------------------------------------
\* For any plan and any answers, what is remembered are the facts of a success
\* that queried the database, at least one of them, whichever way the turn was
\* executed (_memory_write; ResultMemoryWrite refuses an empty list).
THEOREM MemoryHolds == Spec => []MemoryIsOfTheResult
  <1>1. ASSUME CompositionInv
        PROVE  MemoryIsOfTheResult
    <2> SUFFICES ASSUME outcome.memory # <<>>
                 PROVE  /\ outcome.kind = "success" /\ turn.live
                        /\ outcome.memory[1] = outcome.facts /\ outcome.facts # <<>>
      BY DEF MemoryIsOfTheResult
    <2>1. outcome.kind = "success"
      BY <1>1 DEF CompositionInv, ExecutionInv, OutcomeInv
    <2>2. /\ turn.live /\ outcome.memory[1] = outcome.facts
          /\ outcome.native # <<>> \/ outcome.facts # <<>>
          /\ outcome.native # <<>> => outcome.facts = NativeFacts(outcome.native[1])
      BY <1>1, <2>1 DEF CompositionInv, KeptInv
    <2>3. outcome.native # <<>> => outcome.facts # <<>>
      BY <1>1, <2>1, <2>2, SuccessHasFacts
    <2>4. QED
      BY <2>1, <2>2, <2>3
  <1>2. QED
    BY <1>1, CompositionHolds, PTL

-----------------------------------------------------------------------------
(* Reductions *)

\* Only a series that is aggregated is reduced, and it is the one task.
LEMMA ReducedPlan ==
  ASSUME NEW i, IsIntent(i), Plannable(i), NEW k \in 1..Len(PlanOf(i).tasks),
         PlanOf(i).tasks[k].reduce # "none"
  PROVE  /\ k = 1 /\ PlanOf(i).operation = "aggregate"
         /\ IsSeries(PlanOf(i).tasks[k])
  <1>0. ASSUME NEW tasks, NEW c
        PROVE  Composition(i, tasks, c).tasks = tasks
               /\ Composition(i, tasks, c).operation = i.operation
    BY DEF Composition
  <1>1. CASE i.operation = "group"
    <2>1. PlanOf(i).operation = "group"
      BY <1>0, <1>1 DEF PlanOf
    <2>2. k = 1 /\ PlanOf(i).tasks[1].reduce = "none"
      BY <2>1, PlanHasTasks
    <2>3. QED
      BY <2>2
  <1>2. CASE i.operation = "compare"
    <2>1. PlanOf(i).tasks = OperandTasks(i, i.operands)
      BY <1>0, <1>2 DEF PlanOf, IsSeriesAggregation
    <2>2. QED
      BY <2>1 DEF OperandTasks, Task
  <1>3. CASE i.operation = "compare_periods"
    <2>1. PlanOf(i).tasks = PeriodTasks(i)
      BY <1>0, <1>3 DEF PlanOf, IsSeriesAggregation
    <2>2. QED
      BY <2>1 DEF PeriodTasks, Task
  <1>4. CASE i.operation = "calculate"
    <2>1. PlanOf(i).tasks = OperandTasks(i, FormulaOperands(i))
      BY <1>0, <1>4 DEF PlanOf, IsSeriesAggregation
    <2>2. QED
      BY <2>1 DEF OperandTasks, Task
  <1>5. CASE i.operation = "rank"
    <2>1. PlanOf(i).tasks = SeriesTask(i, TaskId("rank_source", 1), i.ranking[1].grain,
                                       i.ranking[1].bucket, "none")
      BY <1>0, <1>5 DEF PlanOf, IsSeriesAggregation
    <2>2. QED
      BY <2>1 DEF SeriesTask, Task
  <1>6. CASE i.operation \notin {"group", "compare", "compare_periods", "calculate", "rank"}
    <2>1. CASE IsSeriesAggregation(i)
      <3> DEFINE operand == [i.operands[1] EXCEPT
                              !.agg = MetricDefinition(i.operands[1].metric).default]
                 task == Task(TaskId("aggregate_source", 1), operand,
                              EffectivePeriods(i, operand), "show", i.grain, i.operands[1].agg)
      <3>1. PlanOf(i).tasks = <<task>> /\ PlanOf(i).operation = i.operation
        BY <1>0, <1>6, <2>1 DEF PlanOf, SeriesTask
      <3>2. task.scalar.grain = i.grain
        BY DEF Task, Scalar
      <3> HIDE DEF task
      <3>3. k = 1 /\ PlanOf(i).tasks[k] = task
        BY <3>1, ListOfOne
      <3>4. i.operation = "aggregate" /\ i.grain # "none"
        BY <2>1 DEF IsSeriesAggregation, Grains
      <3>5. QED
        BY <3>1, <3>2, <3>3, <3>4 DEF IsSeries
    <2>2. CASE ~IsSeriesAggregation(i)
      <3> DEFINE task == Task(TaskId("task", 1), i.operands[1],
                              EffectivePeriods(i, i.operands[1]), i.operation, "none", "none")
      <3>1. PlanOf(i).tasks = <<task>>
        BY <1>0, <1>6, <2>2 DEF PlanOf
      <3>2. task.reduce = "none"
        BY DEF Task
      <3> HIDE DEF task
      <3>3. k = 1 /\ PlanOf(i).tasks[k] = task
        BY <3>1, ListOfOne
      <3>4. QED
        BY <3>2, <3>3
    <2>3. QED
      BY <2>1, <2>2
  <1>7. QED
    BY <1>1, <1>2, <1>3, <1>4, <1>5, <1>6

\* The days of a bucket: none, or one period.
Dated(periods) ==
  periods = <<>> \/ \E from, to \in Nat : periods = <<[from |-> from, to |-> to]>>

LEMMA BucketIsDated ==
  ASSUME NEW r \in Row
  PROVE  Dated(BucketDays(r))
  <1>1. r.day \in Seq(Nat) /\ r.to \in Seq(Nat)
    BY DEF Row
  <1>2. \A s \in Seq(Nat) : s # <<>> => s[1] \in Nat
    OBVIOUS
  <1>3. CASE r.day = <<>> \/ r.to = <<>>
    BY <1>3 DEF BucketDays, Dated
  <1>4. CASE ~(r.day = <<>> \/ r.to = <<>>)
    <2>1. r.day[1] \in Nat /\ r.to[1] \in Nat
      BY <1>1, <1>2, <1>4
    <2>2. BucketDays(r) = <<[from |-> r.day[1], to |-> r.to[1]]>>
      BY <1>4 DEF BucketDays
    <2>3. QED
      BY <2>1, <2>2, Zenon DEF Dated
  <1>5. QED
    BY <1>3, <1>4

LEMMA DatedPeriod ==
  ASSUME NEW periods, Dated(periods), periods # <<>>
  PROVE  /\ periods[1].from \in Nat /\ periods[1].to \in Nat
         /\ Range(periods) = {periods[1]}
  <1>1. PICK from, to \in Nat : periods = <<[from |-> from, to |-> to]>>
    BY DEF Dated
  <1> DEFINE p == [from |-> from, to |-> to]
  <1>2. p.from \in Nat /\ p.to \in Nat
    OBVIOUS
  <1> HIDE DEF p
  <1>3. periods = <<p>>
    BY <1>1 DEF p
  <1>4. DOMAIN <<p>> = {1} /\ <<p>>[1] = p
    OBVIOUS
  <1>5. QED
    BY <1>2, <1>3, <1>4 DEF Range

\* The days of a reduction take in those of every bucket that says its own.
LEMMA OverallSpans ==
  ASSUME NEW series, NEW n \in Nat, DOMAIN series = 1..n,
         \A k \in 1..n : Dated(series[k].periods),
         NEW j \in 1..n, series[j].periods # <<>>
  PROVE  /\ Overall(series)[1].from <= series[j].periods[1].from
         /\ series[j].periods[1].to <= Overall(series)[1].to
  <1> DEFINE days == UNION {Range(f.periods) : f \in Range(series)}
             first == CHOOSE p \in days : \A q \in days : p.from <= q.from
             last == CHOOSE p \in days : \A q \in days : p.to >= q.to
             own(k) == series[k].periods[1]
  <1>1. \A k \in 1..n : series[k].periods # <<>> =>
          own(k).from \in Nat /\ own(k).to \in Nat /\ Range(series[k].periods) = {own(k)}
    BY DatedPeriod
  <1>2. Range(series) = {series[k] : k \in 1..n}
    BY DEF Range
  <1>3. Range(<<>>) = {}
    BY DEF Range
  <1>4. ASSUME NEW d \in days
        PROVE  \E k \in 1..n : series[k].periods # <<>> /\ d = own(k)
    <2>1. PICK k \in 1..n : d \in Range(series[k].periods)
      BY <1>2
    <2>2. series[k].periods # <<>>
      BY <1>3, <2>1
    <2>3. QED
      BY <1>1, <2>1, <2>2
  <1>5. ASSUME NEW k \in 1..n, series[k].periods # <<>>
        PROVE  own(k) \in days
    <2>1. own(k) \in Range(series[k].periods)
      BY <1>1, <1>5
    <2>2. series[k] \in Range(series)
      BY <1>2
    <2>3. QED
      BY <2>1, <2>2
  <1>6. Overall(series) = IF days = {} THEN <<>> ELSE <<[from |-> first.from, to |-> last.to]>>
    BY Zenon DEF Overall
  <1> HIDE DEF days, own
  <1>7. \E p \in days : \A q \in days : p.from <= q.from
    <2> DEFINE S == {p.from : p \in days}
    <2>1. S \in SUBSET Nat /\ S # {}
      <3>1. \A p \in days : p.from \in Nat
        BY <1>1, <1>4
      <3>2. own(j) \in days
        BY <1>5
      <3>3. QED
        BY <3>1, <3>2
    <2>2. Min(S) \in S /\ \A y \in S : Min(S) <= y
      BY <2>1, MinIsLeast
    <2>3. PICK p \in days : p.from = Min(S)
      BY <2>2
    <2>4. \A q \in days : q.from \in S
      OBVIOUS
    <2>5. QED
      BY <2>2, <2>3, <2>4
  <1>8. \E p \in days : \A q \in days : p.to >= q.to
    <2> DEFINE v == [k \in 1..n |-> IF series[k].periods = <<>> THEN -1 ELSE own(k).to]
    <2>1. \A k \in 1..n : v[k] = IF series[k].periods = <<>> THEN -1 ELSE own(k).to
      OBVIOUS
    <2> HIDE DEF v
    <2>2. \A k \in 1..n : v[k] \in Int
      BY <1>1, <2>1
    <2>7. n > 0
      OBVIOUS
    <2>3. PICK i \in 1..n : \A k \in 1..n : v[i] >= v[k]
      BY <2>2, <2>7, GreatestValue, Zenon
    <2>4. series[i].periods # <<>>
      <3>1. v[j] \in Nat /\ v[i] >= v[j]
        BY <1>1, <2>1, <2>3
      <3>2. QED
        BY <2>1, <3>1
    <2>5. \A q \in days : own(i).to >= q.to
      BY <1>4, <2>1, <2>3, <2>4
    <2>6. QED
      BY <1>5, <2>4, <2>5
  <1>9. (\A q \in days : first.from <= q.from) /\ (\A q \in days : last.to >= q.to)
    BY <1>7, <1>8
  <1> HIDE DEF first, last
  <1>10. own(j) \in days
    BY <1>5
  <1>11. /\ days # {}
         /\ first.from <= own(j).from /\ last.to >= own(j).to
    BY <1>9, <1>10
  <1>12. Overall(series) = <<[from |-> first.from, to |-> last.to]>>
    BY <1>6, <1>11
  <1>13. Overall(series)[1].from = first.from /\ Overall(series)[1].to = last.to
    BY <1>12
  <1>14. /\ \A d \in days : d.from \in Nat /\ d.to \in Nat
         /\ first \in days /\ last \in days
    <2>1. first \in days
      BY <1>7 DEF first
    <2>2. last \in days
      BY <1>8 DEF last
    <2>3. QED
      BY <1>1, <1>4, <2>1, <2>2
  <1>15. own(j).to <= last.to
    BY <1>10, <1>11, <1>14
  <1>16. QED
    BY <1>11, <1>13, <1>15 DEF own

\* list.index: the first row with the number.
LEMMA FirstOfRows ==
  ASSUME NEW rows \in Seq(Row), NEW v, \E k \in 1..Len(rows) : rows[k].value = v
  PROVE  \E j \in 1..Len(rows) :
           /\ FirstWith(rows, v) = rows[j] /\ rows[j].value = v
           /\ \A k \in 1..j-1 : rows[k].value # v
  <1> DEFINE I == {k \in 1..Len(rows) : rows[k].value = v}
  <1>1. I # {} /\ I \in SUBSET Nat
    OBVIOUS
  <1>2. FirstWith(rows, v) = rows[Min(I)]
    BY <1>1, Zenon DEF FirstWith, SelectInSeq
  <1>3. Min(I) \in I /\ \A k \in I : Min(I) <= k
    BY <1>1, MinIsLeast
  <1> DEFINE j == Min(I)
  <1>4. j \in 1..Len(rows) /\ rows[j].value = v /\ FirstWith(rows, v) = rows[j]
    BY <1>2, <1>3
  <1>5. \A k \in I : j <= k
    BY <1>3
  <1> HIDE DEF j
  <1>6. ASSUME NEW k \in 1..j-1
        PROVE  rows[k].value # v
    <2>1. k \in 1..Len(rows) /\ ~(j <= k)
      BY <1>4
    <2>2. k \notin I
      BY <1>5, <2>1
    <2>3. QED
      BY <2>1, <2>2
  <1>7. QED
    BY <1>4, <1>6

\* The rows a series was made of, and the sum of its numbers.
LEMMA SeriesOfRows ==
  ASSUME NEW t, NEW rows \in Seq(Row)
  PROVE  LET s == SeriesOf(t, rows)
         IN /\ RowsOf(s) = rows
            /\ FoldSeq(LAMBDA f, acc : f.value + acc, 0, s) = SumOf(rows)
  <1> DEFINE s == SeriesOf(t, rows)
             v == Values(rows)
  <1>1. Len(s) = Len(rows) /\ Len(rows) \in Nat /\ DOMAIN s = 1..Len(s)
        /\ \A k \in 1..Len(rows) : /\ s[k].value = rows[k].value /\ s[k].value \in Int
                                   /\ s[k].rows = <<rows[k]>>
    <2>1. /\ Len(s) = Len(rows)
          /\ \A k \in 1..Len(rows) : /\ s[k].value = rows[k].value /\ s[k].value \in Int
                                     /\ s[k].rows = <<rows[k]>>
      BY SeriesShape
    <2>2. Len(rows) \in Nat
      OBVIOUS
    <2>3. DOMAIN s = 1..Len(rows)
      BY DEF SeriesOf
    <2>4. QED
      BY <2>1, <2>2, <2>3
  <1>2. \A k \in 1..Len(rows) : v[k] \in Int /\ v[k] = rows[k].value
    BY RowsHaveValues
  <1>3. SumOf(rows) = SumTo(v, Len(rows))
    BY SumOfRows
  <1> HIDE DEF s, v
  <1>4. FoldSeq(LAMBDA f, acc : f.value + acc, 0, s) = SumTo(v, Len(s))
    BY <1>1, <1>2, FoldOfValues
  <1>5. \A k \in 1..Len(rows) : s[k].rows[1] = rows[k]
    BY <1>1
  <1>6. RowsOf(s) = [k \in 1..Len(rows) |-> rows[k]]
    BY <1>1, <1>5 DEF RowsOf
  <1>7. rows = [k \in 1..Len(rows) |-> rows[k]]
    OBVIOUS
  <1>8. QED
    BY <1>1, <1>3, <1>4, <1>6, <1>7 DEF s

\* The extremum of a list of rows, as _reduce_series finds it.
LEMMA ReducedToOne ==
  ASSUME NEW t, NEW rows \in Seq(Row), Len(rows) # 0, NEW series, RowsOf(series) = rows,
         t.reduce \in {"min", "max"}
  PROVE  LET f == Reduce(t, series)
         IN \E j \in 1..Len(rows) :
              /\ f.value = rows[j].value /\ f.at = rows[j].day
              /\ \A k \in 1..j-1 : rows[k].value # rows[j].value
              /\ \A k \in 1..Len(rows) :
                   IF t.reduce = "min" THEN rows[k].value >= f.value ELSE rows[k].value <= f.value
  <1> DEFINE v == IF t.reduce = "min" THEN Smallest(rows) ELSE Largest(rows)
             f == Reduce(t, series)
             one == FirstWith(rows, v)
  <1>1. /\ \E k \in 1..Len(rows) : rows[k].value = v
        /\ \A k \in 1..Len(rows) :
             IF t.reduce = "min" THEN rows[k].value >= v ELSE rows[k].value <= v
    <2>1. \A k \in 1..Len(rows) : rows[k].value \in Int
      BY RowsHaveValues
    <2>2. QED
      BY <2>1, ExtremesOfRows
  <1>2. /\ f.value = <<one>>[1].value
        /\ f.at = IF <<one>> = <<>> THEN <<>> ELSE <<one>>[1].day
    BY DEF Reduce, ScalarFact
  <1> HIDE DEF v, f, one
  <1>3. f.value = one.value /\ f.at = one.day
    BY <1>2, ListOfOne
  <1>4. PICK j \in 1..Len(rows) : /\ one = rows[j] /\ rows[j].value = v
                                  /\ \A k \in 1..j-1 : rows[k].value # v
    BY <1>1, FirstOfRows DEF one
  <1>5. QED
    BY <1>1, <1>3, <1>4 DEF f

\* For any series, a reduction is made of every bucket and says days that take in
\* those of every bucket that says its own; an extremum is the best of them, dated by
\* the first that reaches it, and a mean gives the sum of them all back
\* (_reduce_series).
THEOREM ReductionHolds == Spec => []ReductionIsOfTheSeries
  <1>1. ASSUME CompositionInv, NEW i \in 1..Len(results),
               plan.tasks[i].reduce # "none", outcome.kind = "success"
        PROVE  LET fact == outcome.native[1].results[i].fact[1]
                   series == results[i].series
                   Reaches(j) == series[j].value = fact.value
               IN /\ fact.rows = RowsOf(series)
                  /\ \A j \in 1..Len(series) : series[j].periods # <<>> =>
                       /\ fact.periods[1].from <= series[j].periods[1].from
                       /\ series[j].periods[1].to <= fact.periods[1].to
                  /\ plan.tasks[i].reduce \in {"min", "max"} =>
                       \E j \in 1..Len(series) :
                         /\ Reaches(j) /\ fact.at = series[j].at
                         /\ \A k \in 1..j-1 : ~Reaches(k)
                         /\ \A k \in 1..Len(series) :
                              IF plan.tasks[i].reduce = "min"
                              THEN series[k].value >= fact.value
                              ELSE series[k].value <= fact.value
                  /\ plan.tasks[i].reduce = "avg" =>
                       FoldSeq(LAMBDA f, acc : f.value + acc, 0, series)
                           - fact.value * Len(series) \in 0..Len(series)-1
    <2> DEFINE t == plan.tasks[i]
               fact == outcome.native[1].results[i].fact[1]
               series == results[i].series
    <2>1. outcome.native # <<>>
      <3>1. outcome.native = <<>> => results = <<>>
        BY <1>1 DEF CompositionInv, KeptInv
      <3>2. results # <<>>
        BY <1>1, <3>1
      <3>3. QED
        BY <3>1, <3>2
    <2>2. ~Failed(results)
      <3>1. Failed(results) => outcome.kind = OutcomeOf(FailureStatus(results))
        BY <1>1, <2>1, ComposedOutcome, ComposedShape
      <3>2. OutcomeOf(FailureStatus(results)) # "success"
        BY DEF OutcomeOf, Usable, FailureStatus
      <3>3. QED
        BY <1>1, <3>1, <3>2
    <2>3. i = 1 /\ plan.operation = "aggregate" /\ IsSeries(t)
      BY <1>1, <2>1, ComposedOutcome, ReducedPlan
    <2>4. fact = Reduce(t, series)
      <3>1. outcome.native[1].results = Completed(plan, results)
        BY <1>1, <2>1, <2>2, ComposedOutcome, ComposedShape
      <3>2. Completed(plan, results)[i].fact = <<Reduce(t, series)>>
        BY <1>1, <2>3, CompletedShape
      <3>3. QED
        BY <3>1, <3>2, ListOfOne
    <2>5. series # <<>>
      BY <1>1, <2>1, <2>2, <2>3, ComposedOutcome DEF Composable
    <2>6. PICK a \in Answers : /\ a.rows \in Seq(Row) /\ Readable(t, a)
                               /\ results[i] = TaskResult(t, a)
      BY <1>1, ResultsAreRead
    <2> DEFINE rows == a.rows
    <2>7. series = SeriesOf(t, rows)
      BY <2>5, <2>6, ResultShape
    <2>8. /\ RowsOf(series) = rows
          /\ FoldSeq(LAMBDA f, acc : f.value + acc, 0, series) = SumOf(rows)
      BY <2>6, <2>7, SeriesOfRows
    <2>9. /\ Len(series) = Len(rows) /\ Len(rows) \in Nat /\ Len(rows) # 0
          /\ \A k \in 1..Len(rows) : /\ series[k].value = rows[k].value
                                     /\ series[k].at = rows[k].day
                                     /\ series[k].periods = BucketDays(rows[k])
      <3>1. /\ Len(series) = Len(rows) /\ series \in Seq(Range(series))
            /\ \A k \in 1..Len(rows) : /\ series[k].value = rows[k].value
                                       /\ series[k].at = rows[k].day
                                       /\ series[k].periods = BucketDays(rows[k])
        BY <2>6, <2>7, SeriesShape
      <3>2. QED
        BY <2>5, <2>6, <3>1
    <2>10. fact.rows = RowsOf(series) /\ fact.periods = Overall(series)
      BY <2>4 DEF Reduce, ScalarFact
    <2>17. ASSUME NEW j \in 1..Len(series), series[j].periods # <<>>
           PROVE  /\ Overall(series)[1].from <= series[j].periods[1].from
                  /\ series[j].periods[1].to <= Overall(series)[1].to
      <3>1. \A k \in 1..Len(rows) : Dated(series[k].periods)
        BY <2>6, <2>9, BucketIsDated
      <3>2. DOMAIN series = 1..Len(rows)
        BY <2>7 DEF SeriesOf
      <3> HIDE DEF t, fact, series, rows
      <3>3. QED
        BY <2>9, <2>17, <3>1, <3>2, OverallSpans
    <2>11. t.reduce = "avg" => fact.value = SumOf(rows) \div Len(rows)
      <3>1. t.reduce = "avg" => Reduce(t, series).value
                                  = SumOf(RowsOf(series)) \div Len(RowsOf(series))
        BY DEF Reduce, ScalarFact
      <3>2. QED
        BY <2>4, <2>8, <3>1, Zenon
    <2>12. SumOf(rows) \in Int
      BY <2>6, SumOfRows
    <2> HIDE DEF t, fact, series, rows
    <2>13. \A s \in Int, n \in Nat : n # 0 => s - (s \div n) * n \in 0..n-1
      OBVIOUS
    <2>14. t.reduce = "avg" => FoldSeq(LAMBDA f, acc : f.value + acc, 0, series)
                                 - fact.value * Len(series) \in 0..Len(series)-1
      <3>1. SumOf(rows) - (SumOf(rows) \div Len(rows)) * Len(rows) \in 0..Len(rows)-1
        BY <2>9, <2>12, <2>13
      <3>2. QED
        BY <2>8, <2>9, <2>11, <3>1
    <2>15. ASSUME t.reduce \in {"min", "max"}
           PROVE  \E j \in 1..Len(series) :
                    /\ series[j].value = fact.value /\ fact.at = series[j].at
                    /\ \A k \in 1..j-1 : series[k].value # fact.value
                    /\ \A k \in 1..Len(series) :
                         IF t.reduce = "min" THEN series[k].value >= fact.value
                         ELSE series[k].value <= fact.value
      <3>1. rows \in Seq(Row) /\ Len(rows) # 0 /\ RowsOf(series) = rows
        BY <2>6, <2>8, <2>9, Zenon DEF rows
      <3> DEFINE f == Reduce(t, series)
      <3>2. \E j \in 1..Len(rows) :
              /\ f.value = rows[j].value /\ f.at = rows[j].day
              /\ \A k \in 1..j-1 : rows[k].value # rows[j].value
              /\ \A k \in 1..Len(rows) :
                   IF t.reduce = "min" THEN rows[k].value >= f.value
                   ELSE rows[k].value <= f.value
        BY <2>15, <3>1, ReducedToOne
      <3> HIDE DEF f
      <3>3. PICK j \in 1..Len(rows) :
              /\ fact.value = rows[j].value /\ fact.at = rows[j].day
              /\ \A k \in 1..j-1 : rows[k].value # rows[j].value
              /\ \A k \in 1..Len(rows) :
                   IF t.reduce = "min" THEN rows[k].value >= fact.value
                   ELSE rows[k].value <= fact.value
        BY <2>4, <3>2, Zenon DEF f
      <3>4. \A k \in 1..j-1 : k \in 1..Len(rows)
        BY <2>9
      <3>5. QED
        BY <2>9, <3>3, <3>4
    <2>16. QED
      BY <2>10, <2>14, <2>15, <2>17 DEF t, fact, series
  <1>2. CompositionInv => ReductionIsOfTheSeries
    BY <1>1 DEF ReductionIsOfTheSeries
  <1>3. QED
    BY <1>2, CompositionHolds, PTL

-----------------------------------------------------------------------------
(* Rankings *)

Better(a, b, direction) ==
  \/ IF direction = "max" THEN a.value > b.value ELSE a.value < b.value
  \/ /\ a.value = b.value
     /\ \/ a.periods = <<>>
        \/ b.periods # <<>> /\ a.periods[1].from <= b.periods[1].from

\* A list of n buckets, each with its number, its days and what it is called.
Buckets(s, n) ==
  /\ n \in Nat /\ Len(s) = n /\ DOMAIN s = 1..n
  /\ \A k \in 1..n : /\ s[k].value \in Int /\ Dated(s[k].periods)
                     /\ s[k].rows[1].key \in Int

\* Where buckets begin is how they are dated.
LEMMA StartsInOrder ==
  ASSUME NEW a, Dated(a.periods), NEW b, Dated(b.periods)
  PROVE  /\ Start(a) \in Int
         /\ Start(a) <= Start(b) =>
              \/ a.periods = <<>>
              \/ b.periods # <<>> /\ a.periods[1].from <= b.periods[1].from
  <1>1. ASSUME NEW f, Dated(f.periods)
        PROVE  /\ Start(f) \in Int
               /\ f.periods = <<>> => Start(f) = -1
               /\ f.periods # <<>> => Start(f) = f.periods[1].from /\ Start(f) >= 0
    BY <1>1, DatedPeriod DEF Start
  <1>2. QED
    BY <1>1

\* The same buckets, each at least as good as those after it.
BestFirst(o, s, n, direction) ==
  /\ o = [m \in 1..n |-> o[m]]
  /\ \A i, j \in 1..n : i < j => Better(o[i], o[j], direction)
  /\ \A k \in 1..n : \E m \in 1..n : o[m] = s[k]
  /\ \A m \in 1..n : \E k \in 1..n : o[m] = s[k]

\* The best of s.
IsTop(chosen, s, direction, limit) ==
  /\ Len(chosen) = IF Len(s) < limit THEN Len(s) ELSE limit
  /\ \A i, j \in 1..Len(chosen) : i < j => Better(chosen[i], chosen[j], direction)
  /\ \A f \in Range(s) : \/ \A c \in Range(chosen) : Better(c, f, direction)
                          \/ f \in Range(chosen)

\* NativeExecutor._rank puts every bucket in its place, each at least as good
\* as those after it.
LEMMA RankOrderShape ==
  ASSUME NEW s, NEW n, Buckets(s, n), NEW direction
  PROVE  BestFirst(RankOrder(s, direction), s, n, direction)
  <1> DEFINE Precedes(i, j) ==
               IF s[i].value # s[j].value
               THEN IF direction = "max" THEN s[i].value > s[j].value
                                         ELSE s[i].value < s[j].value
               ELSE \/ Sooner(s[i], s[j])
                    \/ ~Sooner(s[j], s[i]) /\ i < j
             D == 1..n
             R == {x \in D \X D : Precedes(x[1], x[2])}
             p == InOrder(D, Precedes)
             o == RankOrder(s, direction)
  <1>1. o = [m \in D |-> s[p[m]]]
    BY Zenon DEF RankOrder, Buckets
  <1>2. n \in Nat /\ IsFiniteSet(D) /\ Cardinality(D) = n
    BY FS_Interval DEF Buckets
  <1>3. \A i, j \in D : <<i, j>> \in R <=> Precedes(i, j)
    OBVIOUS
  <1> DEFINE v == [k \in D |-> s[k].value]
             t == [k \in D |-> Start(s[k])]
             u == [k \in D |-> s[k].rows[1].key]
  <1>4. \A i \in D : /\ v[i] = s[i].value /\ t[i] = Start(s[i]) /\ u[i] = s[i].rows[1].key
                      /\ v[i] \in Int /\ t[i] \in Int /\ u[i] \in Int /\ i \in Int
    BY StartsInOrder DEF Buckets
  <1>5. ASSUME NEW i \in D, NEW j \in D
        PROVE  Precedes(i, j) <=>
                 IF v[i] # v[j] THEN IF direction = "max" THEN v[i] > v[j] ELSE v[i] < v[j]
                 ELSE \/ t[i] < t[j] \/ (t[i] = t[j] /\ u[i] < u[j])
                      \/ t[i] = t[j] /\ u[i] = u[j] /\ i < j
    <2> HIDE DEF v, t, u
    <2>1. ASSUME NEW x \in D, NEW y \in D
          PROVE  Sooner(s[x], s[y]) <=> t[x] < t[y] \/ (t[x] = t[y] /\ u[x] < u[y])
      BY <1>4, <2>1 DEF Sooner
    <2>2. QED
      BY <1>4, <2>1
  <1> HIDE DEF v, t, u
  <1>6. IsOrder(R, D)
    <2> HIDE DEF R, D, Precedes
    <2>1. \A i \in D : ~Precedes(i, i)
      BY <1>4, <1>5
    <2>2. \A i, j \in D : i # j => Precedes(i, j) \/ Precedes(j, i)
      BY <1>4, <1>5
    <2>3. \A i, j, k \in D : Precedes(i, j) /\ Precedes(j, k) => Precedes(i, k)
      BY <1>4, <1>5
    <2>4. QED
      BY <1>3, <2>1, <2>2, <2>3 DEF IsOrder
  <1> HIDE DEF D, Precedes
  <1>7. \E q \in SetToSeqs(D) : \A i, j \in 1..Cardinality(D) : i < j => Precedes(q[i], q[j])
    <2> HIDE DEF R
    <2>1. PICK q \in SetToSeqs(D) : \A i, j \in 1..Cardinality(D) : i < j => <<q[i], q[j]>> \in R
      BY <1>2, <1>6, OrderExists
    <2>2. \A i \in 1..Cardinality(D) : q[i] \in D
      BY <1>2, Permutation
    <2>3. QED
      BY <1>3, <2>1, <2>2
  <1>8. p \in SetToSeqs(D) /\ \A i, j \in 1..Cardinality(D) : i < j => Precedes(p[i], p[j])
    BY <1>7, Zenon DEF p, InOrder
  <1> HIDE DEF p, o
  <1>9. /\ \A i \in D : p[i] \in D
        /\ \A k \in D : \E i \in D : p[i] = k
    <2>1. /\ p \in [1..Cardinality(D) -> D]
          /\ \A k \in D : \E i \in 1..Cardinality(D) : p[i] = k
      BY <1>2, <1>8, Permutation
    <2>2. 1..Cardinality(D) = D
      BY <1>2 DEF D
    <2>3. QED
      BY <2>1, <2>2
  <1>10. \A m \in D : o[m] = s[p[m]]
    BY <1>1
  <1>11. ASSUME NEW i \in D, NEW j \in D, i < j
         PROVE  Better(o[i], o[j], direction)
    <2>1. Precedes(p[i], p[j])
      BY <1>2, <1>8, <1>11 DEF D
    <2>2. p[i] \in D /\ p[j] \in D
      BY <1>9
    <2>3. QED
      <3>1. /\ o[i] = s[p[i]] /\ o[j] = s[p[j]]
            /\ v[p[i]] = s[p[i]].value /\ t[p[i]] = Start(s[p[i]])
            /\ v[p[j]] = s[p[j]].value /\ t[p[j]] = Start(s[p[j]])
            /\ Dated(s[p[i]].periods) /\ Dated(s[p[j]].periods)
        BY <1>4, <1>10, <2>2 DEF Buckets, D
      <3>2. \/ IF direction = "max" THEN v[p[i]] > v[p[j]] ELSE v[p[i]] < v[p[j]]
            \/ v[p[i]] = v[p[j]] /\ t[p[i]] <= t[p[j]]
        BY <1>4, <1>5, <2>1, <2>2
      <3>3. QED
        BY <3>1, <3>2, StartsInOrder DEF Better
  <1>12. QED
    BY <1>1, <1>9, <1>10, <1>11 DEF D, o, BestFirst

\* The head of a list in that order is the best of it.
LEMMA HeadIsTheTop ==
  ASSUME NEW s, NEW n, Buckets(s, n), NEW direction, NEW limit \in Nat,
         NEW o, BestFirst(o, s, n, direction)
  PROVE  IsTop(SubSeq(o, 1, IF Len(o) < limit THEN Len(o) ELSE limit), s, direction, limit)
  <1>0. /\ n \in Nat /\ Len(s) = n /\ DOMAIN s = 1..n
        /\ o = [m \in 1..n |-> o[m]]
        /\ \A i, j \in 1..n : i < j => Better(o[i], o[j], direction)
        /\ \A k \in 1..n : \E m \in 1..n : o[m] = s[k]
    BY DEF Buckets, BestFirst
  <1> DEFINE len == IF n < limit THEN n ELSE limit
             chosen == SubSeq(o, 1, len)
  <1>1. o \in Seq(Range(o)) /\ Len(o) = n
    BY <1>0, ListOfItsElements
  <1>2. len \in 0..n
    BY <1>0
  <1> HIDE DEF len
  <1>3. /\ Len(chosen) = len /\ DOMAIN chosen = 1..len
        /\ \A i \in 1..len : chosen[i] = o[i]
    BY <1>0, <1>1, <1>2
  <1> HIDE DEF chosen
  <1>4. \A i \in 1..len : i \in 1..n
    BY <1>0, <1>2
  <1>5. \A i, j \in 1..len : i < j => Better(chosen[i], chosen[j], direction)
    BY <1>0, <1>3, <1>4
  <1>6. ASSUME NEW f \in Range(s), f \notin Range(chosen), NEW c \in Range(chosen)
        PROVE  Better(c, f, direction)
    <2>1. PICK k \in 1..n : f = s[k]
      BY <1>0 DEF Range
    <2>2. PICK m \in 1..n : f = o[m]
      BY <1>0, <2>1
    <2>3. m \notin 1..len
      BY <1>3, <1>6, <2>2 DEF Range
    <2>4. PICK i \in 1..len : c = o[i]
      <3>1. PICK i \in DOMAIN chosen : c = chosen[i]
        BY <1>6, Zenon DEF Range
      <3>2. QED
        BY <1>3, <3>1, Zenon
    <2>5. i \in 1..n /\ i < m
      BY <1>0, <1>2, <2>3
    <2>6. QED
      BY <1>0, <2>2, <2>4, <2>5
  <1>7. \A i, j \in 1..Len(chosen) : i < j => Better(chosen[i], chosen[j], direction)
    BY <1>3, <1>5
  <1>8. QED
    BY <1>0, <1>1, <1>3, <1>6, <1>7 DEF chosen, len, IsTop

\* For any rows, in whatever order they came, a ranking is the best buckets there
\* are, as many as asked for or all, best first and of equal ones first those that
\* do not say their days, then the earliest (NativeExecutor._rank).
THEOREM RankingHolds == Spec => []RankingIsTheTop
  <1>1. ASSUME CompositionInv, outcome.native # <<>>, outcome.native[1].ranking # <<>>
        PROVE  IsTop(outcome.native[1].ranking, results[1].series,
                     intent.ranking[1].direction, intent.ranking[1].limit)
    <2> DEFINE chosen == outcome.native[1].ranking
               series == results[1].series
               spec == intent.ranking[1]
               o == RankOrder(series, spec.direction)
               n == Len(series)
    <2>1. ~Failed(results) /\ plan.operation = "rank" /\ chosen = Ranked(plan, results)
      BY <1>1, ComposedOutcome, ComposedShape
    <2>2. plan.operation = intent.operation /\ plan.ranking = intent.ranking
      BY <1>1, ComposedOutcome DEF PlanOf, Composition
    <2>3. spec.limit \in 1..100
      BY <1>1, <2>1, <2>2, ComposedOutcome DEF ValidShape
    <2>4. series # <<>> /\ Len(results) = Len(plan.tasks) /\ Len(results) \in Nat
          /\ Len(results) > 0
      BY <1>1, <2>1, ComposedOutcome, CompletedLength DEF Composable
    <2>5. PICK a \in Answers : /\ a.rows \in Seq(Row) /\ Readable(plan.tasks[1], a)
                               /\ results[1] = TaskResult(plan.tasks[1], a)
      BY <1>1, <2>4, ResultsAreRead
    <2>6. series = SeriesOf(plan.tasks[1], a.rows)
      BY <2>4, <2>5, ResultShape
    <2>7. /\ n \in Nat /\ DOMAIN series = 1..n
          /\ \A k \in 1..n : /\ series[k].value \in Int /\ Dated(series[k].periods)
                             /\ series[k].rows[1].key \in Int
      <3>1. /\ series \in Seq(Range(series)) /\ Len(series) = Len(a.rows)
            /\ \A k \in 1..Len(a.rows) :
                 /\ series[k].value \in Int /\ series[k].periods = BucketDays(a.rows[k])
                 /\ series[k].rows[1] = a.rows[k]
        BY <2>5, <2>6, SeriesShape
      <3>2. \A k \in 1..Len(a.rows) : a.rows[k].key \in Int /\ Dated(BucketDays(a.rows[k]))
        BY <2>5, RowsHaveValues, BucketIsDated
      <3> HIDE DEF series
      <3>3. QED
        BY <3>1, <3>2
    <2>8. chosen = SubSeq(o, 1, IF Len(o) < spec.limit THEN Len(o) ELSE spec.limit)
      BY <2>1, <2>2, Zenon DEF Ranked
    <2>9. Buckets(series, n) /\ spec.limit \in Nat
      <3>1. spec.limit \in Nat
        BY <2>3
      <3> HIDE DEF series, n
      <3>2. Len(series) = n
        BY DEF n
      <3>3. QED
        BY <2>7, <3>1, <3>2 DEF Buckets
    <2> HIDE DEF series, spec, n
    <2>10. BestFirst(o, series, n, spec.direction)
      BY <2>9, RankOrderShape
    <2> HIDE DEF o, chosen
    <2>11. QED
      BY <2>8, <2>9, <2>10, HeadIsTheTop DEF chosen, series, spec
  <1>2. CompositionInv => RankingIsTheTop
    BY <1>1 DEF RankingIsTheTop, IsTop, Better
  <1>3. QED
    BY <1>2, CompositionHolds, PTL

-----------------------------------------------------------------------------
(* The tasks of a plan, by name *)

\* The first element with this name, or of this operand.
ById(s, id) == SelectInSeq(s, LAMBDA t : t.id = id)
ByOperand(s, id) == SelectInSeq(s, LAMBDA t : t.operand = id)

LEMMA FirstById ==
  ASSUME NEW s, Len(s) \in Nat, NEW id, \E k \in 1..Len(s) : s[k].id = id
  PROVE  ById(s, id) \in 1..Len(s) /\ s[ById(s, id)].id = id
  <1> DEFINE I == {k \in 1..Len(s) : s[k].id = id}
  <1>1. I # {} /\ I \in SUBSET Nat
    OBVIOUS
  <1>2. ById(s, id) = Min(I)
    BY <1>1, Zenon DEF ById, SelectInSeq
  <1>3. Min(I) \in I
    BY <1>1, MinIsLeast
  <1>4. QED
    BY <1>2, <1>3

LEMMA NoneById ==
  ASSUME NEW s, NEW id, \A k \in 1..Len(s) : s[k].id # id
  PROVE  ById(s, id) = 0
  <1> DEFINE I == {k \in 1..Len(s) : s[k].id = id}
  <1>1. I = {}
    OBVIOUS
  <1>2. QED
    BY <1>1, Zenon DEF ById, SelectInSeq

LEMMA FirstByOperand ==
  ASSUME NEW s, Len(s) \in Nat, NEW id, \E k \in 1..Len(s) : s[k].operand = id
  PROVE  ByOperand(s, id) \in 1..Len(s) /\ s[ByOperand(s, id)].operand = id
  <1> DEFINE I == {k \in 1..Len(s) : s[k].operand = id}
  <1>1. I # {} /\ I \in SUBSET Nat
    OBVIOUS
  <1>2. ByOperand(s, id) = Min(I)
    BY <1>1, Zenon DEF ByOperand, SelectInSeq
  <1>3. Min(I) \in I
    BY <1>1, MinIsLeast
  <1>4. QED
    BY <1>2, <1>3

LEMMA OperandTasksShape ==
  ASSUME NEW i, NEW os, Len(os) \in Nat
  PROVE  LET ts == OperandTasks(i, os)
         IN /\ Len(ts) = Len(os)
            /\ \A k \in 1..Len(os) :
                 /\ ts[k].id = <<"task", k>> /\ ts[k].operand = os[k].id
                 /\ ts[k].reduce = "none"
                 /\ ts[k].scalar.periods = EffectivePeriods(i, os[k])
  BY DEF OperandTasks, Task, Scalar, TaskId

LEMMA SeriesTaskShape ==
  ASSUME NEW i, IsIntent(i), Len(i.operands) = 1, NEW id, NEW grain, NEW bucket, NEW reduce
  PROVE  LET ts == SeriesTask(i, id, grain, bucket, reduce)
         IN /\ Len(ts) = 1 /\ ts[1].operand = i.operands[1].id
            /\ ts[1].scalar.periods = EffectivePeriods(i, i.operands[1])
  <1> DEFINE o == [i.operands[1] EXCEPT !.agg = bucket]
             t == Task(id, o, EffectivePeriods(i, o), "show", grain, reduce)
  <1>1. IsOperand(i.operands[1])
    BY DEF IsIntent
  <1>2. o.id = i.operands[1].id /\ o.periods = i.operands[1].periods
    BY <1>1 DEF IsOperand
  <1>3. t.operand = o.id /\ t.scalar.periods = EffectivePeriods(i, o)
    BY DEF Task, Scalar
  <1>4. EffectivePeriods(i, o) = EffectivePeriods(i, i.operands[1])
    BY <1>2 DEF EffectivePeriods
  <1>5. SeriesTask(i, id, grain, bucket, reduce) = <<t>>
    BY DEF SeriesTask
  <1> HIDE DEF t, o
  <1>6. QED
    BY <1>2, <1>3, <1>4, <1>5, ListOfOne

\* No two tasks of a plan have one name; a task is of an operand of the intent
\* and, unless periods are compared, of its periods.
LEMMA PlanTasks ==
  ASSUME NEW i, IsIntent(i), ValidShape(i), Plannable(i)
  PROVE  LET ts == PlanOf(i).tasks
         IN /\ \A j, k \in 1..Len(ts) : ts[j].id = ts[k].id => j = k
            /\ i.operation # "compare_periods" =>
                 \A k \in 1..Len(ts) : \E o \in Range(i.operands) :
                   /\ o.id = ts[k].operand
                   /\ ts[k].scalar.periods = EffectivePeriods(i, o)
            /\ i.operation \in {"compare", "compare_periods", "calculate"} =>
                 \A k \in 1..Len(ts) : ts[k].reduce = "none"
  <1>0. /\ Len(i.operands) \in Nat /\ \A k \in 1..Len(i.operands) : i.operands[k] \in Range(i.operands)
        /\ \A tasks, c : Composition(i, tasks, c).tasks = tasks
    BY DEF IsIntent, Composition
  <1>1. CASE i.operation = "compare"
    <2> DEFINE ts == OperandTasks(i, i.operands)
    <2>1. PlanOf(i).tasks = ts
      BY <1>0, <1>1 DEF PlanOf, IsSeriesAggregation
    <2>2. /\ Len(ts) = Len(i.operands)
          /\ \A k \in 1..Len(i.operands) :
               /\ ts[k].id = <<"task", k>> /\ ts[k].operand = i.operands[k].id
               /\ ts[k].reduce = "none"
               /\ ts[k].scalar.periods = EffectivePeriods(i, i.operands[k])
      BY <1>0, OperandTasksShape
    <2> HIDE DEF ts
    <2>3. \A j, k \in 1..Len(ts) : ts[j].id = ts[k].id => j = k
      BY <2>2
    <2>4. \A k \in 1..Len(ts) : \E o \in Range(i.operands) :
            o.id = ts[k].operand /\ ts[k].scalar.periods = EffectivePeriods(i, o)
      BY <1>0, <2>2
    <2>5. QED
      BY <2>1, <2>2, <2>3, <2>4
  <1>2. CASE i.operation = "calculate"
    <2> DEFINE os == FormulaOperands(i)
               ts == OperandTasks(i, os)
               places == {k \in 1..Len(i.operands) :
                            i.operands[k].id \in {i.formula[1].numerator,
                                                  i.formula[1].denominator}}
    <2>1. PlanOf(i).tasks = ts
      BY <1>0, <1>2 DEF PlanOf, IsSeriesAggregation
    <2>2. Len(os) \in Nat /\ \A k \in 1..Len(os) : os[k] \in Range(i.operands)
      <3>1. os = Picked(i.operands, places)
        BY Zenon DEF FormulaOperands
      <3>2. places \in SUBSET (1..Len(i.operands))
        OBVIOUS
      <3> HIDE DEF os, places
      <3>3. /\ Cardinality(places) \in Nat /\ Len(os) = Cardinality(places)
            /\ \A k \in 1..Cardinality(places) : \E j \in places : os[k] = i.operands[j]
        BY <1>0, <3>1, <3>2, PickedShape
      <3>4. QED
        BY <1>0, <3>2, <3>3
    <2> HIDE DEF os
    <2>3. /\ Len(ts) = Len(os)
          /\ \A k \in 1..Len(os) :
               /\ ts[k].id = <<"task", k>> /\ ts[k].operand = os[k].id
               /\ ts[k].reduce = "none"
               /\ ts[k].scalar.periods = EffectivePeriods(i, os[k])
      BY <2>2, OperandTasksShape
    <2> HIDE DEF ts
    <2>4. \A j, k \in 1..Len(ts) : ts[j].id = ts[k].id => j = k
      BY <2>3
    <2>5. \A k \in 1..Len(ts) : \E o \in Range(i.operands) :
            o.id = ts[k].operand /\ ts[k].scalar.periods = EffectivePeriods(i, o)
      BY <2>2, <2>3
    <2>6. QED
      BY <2>1, <2>3, <2>4, <2>5
  <1>3. CASE i.operation = "compare_periods"
    <2>1. PlanOf(i).tasks = PeriodTasks(i)
      BY <1>0, <1>3 DEF PlanOf, IsSeriesAggregation
    <2>2. Len(i.periods) = 2
      BY <1>3 DEF ValidShape
    <2> DEFINE ts == PeriodTasks(i)
    <2>3. /\ Len(ts) = 2
          /\ \A k \in 1..2 : ts[k].id = <<"period", k>> /\ ts[k].reduce = "none"
      BY <2>2 DEF PeriodTasks, Task, TaskId
    <2> HIDE DEF ts
    <2>4. \A j, k \in 1..Len(ts) : ts[j].id = ts[k].id => j = k
      BY <2>3
    <2>5. \A k \in 1..Len(ts) : ts[k].reduce = "none"
      BY <2>3
    <2>6. QED
      BY <1>3, <2>1, <2>4, <2>5 DEF ts
  <1>4. CASE i.operation \notin {"compare", "calculate", "compare_periods"}
    <2>1. Len(i.operands) = 1
      <3>1. CASE i.operation = "group"
        BY <3>1 DEF Plannable, IsSeriesAggregation
      <3>2. CASE i.operation = "rank"
        BY <3>2 DEF Plannable, IsSeriesAggregation
      <3>3. CASE i.operation \notin {"group", "rank"}
        BY <1>4, <3>3 DEF Plannable
      <3>4. QED
        BY <3>1, <3>2, <3>3
    <2>2. \E t : /\ PlanOf(i).tasks = <<t>> /\ t.operand = i.operands[1].id
                 /\ t.scalar.periods = EffectivePeriods(i, i.operands[1])
      <3>1. ASSUME NEW id, NEW grain, NEW bucket, NEW reduce,
                   PlanOf(i).tasks = SeriesTask(i, id, grain, bucket, reduce)
            PROVE  \E t : /\ PlanOf(i).tasks = <<t>> /\ t.operand = i.operands[1].id
                          /\ t.scalar.periods = EffectivePeriods(i, i.operands[1])
        <4> DEFINE ts == SeriesTask(i, id, grain, bucket, reduce)
        <4>1. \E t : ts = <<t>>
          BY Zenon DEF SeriesTask
        <4>2. ts[1].operand = i.operands[1].id
              /\ ts[1].scalar.periods = EffectivePeriods(i, i.operands[1])
          BY <2>1, SeriesTaskShape
        <4> HIDE DEF ts
        <4>3. PICK t : ts = <<t>>
          BY <4>1
        <4>4. ts[1] = t
          BY <4>3, ListOfOne
        <4>5. QED
          BY <3>1, <4>2, <4>3, <4>4 DEF ts
      <3>2. CASE i.operation = "group"
        BY <1>0, <3>1, <3>2 DEF PlanOf, IsSeriesAggregation
      <3>3. CASE i.operation = "rank"
        BY <1>0, <3>1, <3>3 DEF PlanOf, IsSeriesAggregation
      <3>4. CASE i.operation \notin {"group", "rank"} /\ IsSeriesAggregation(i)
        BY <1>0, <1>4, <3>1, <3>4 DEF PlanOf
      <3>5. CASE i.operation \notin {"group", "rank"} /\ ~IsSeriesAggregation(i)
        <4> DEFINE t == Task(TaskId("task", 1), i.operands[1],
                             EffectivePeriods(i, i.operands[1]), i.operation, "none", "none")
        <4>1. PlanOf(i).tasks = <<t>>
          BY <1>0, <1>4, <3>5 DEF PlanOf
        <4>2. t.operand = i.operands[1].id
              /\ t.scalar.periods = EffectivePeriods(i, i.operands[1])
          BY DEF Task, Scalar
        <4> HIDE DEF t
        <4>3. QED
          BY <4>1, <4>2
      <3>6. QED
        BY <3>2, <3>3, <3>4, <3>5
    <2>3. PICK t : /\ PlanOf(i).tasks = <<t>> /\ t.operand = i.operands[1].id
                   /\ t.scalar.periods = EffectivePeriods(i, i.operands[1])
      BY <2>2
    <2>4. Len(PlanOf(i).tasks) = 1 /\ PlanOf(i).tasks[1] = t
      BY <2>3, ListOfOne
    <2>5. i.operands[1] \in Range(i.operands)
      BY <1>0, <2>1
    <2>6. QED
      BY <1>4, <2>3, <2>4, <2>5
  <1>5. QED
    BY <1>1, <1>2, <1>3, <1>4

\* What NativeExecutor._rank returns of a series.
TopOf(s, direction, limit) ==
  LET o == RankOrder(s, direction)
  IN SubSeq(o, 1, IF Len(o) < limit THEN Len(o) ELSE limit)

\* The first of a ranking is one of the buckets.
LEMMA FirstIsRanked ==
  ASSUME NEW s, NEW n, Buckets(s, n), n > 0, NEW direction, NEW limit \in Nat, limit > 0
  PROVE  \E k \in 1..n : TopOf(s, direction, limit)[1] = s[k]
  <1> DEFINE o == RankOrder(s, direction)
  <1>1. BestFirst(o, s, n, direction)
    BY RankOrderShape
  <1> HIDE DEF o
  <1>2. n \in Nat /\ o = [m \in 1..n |-> o[m]] /\ \A m \in 1..n : \E k \in 1..n : o[m] = s[k]
    BY <1>1 DEF BestFirst, Buckets
  <1>3. o \in Seq(Range(o)) /\ Len(o) = n
    BY <1>2, ListOfItsElements
  <1>4. SubSeq(o, 1, IF Len(o) < limit THEN Len(o) ELSE limit)[1] = o[1]
    BY <1>2, <1>3
  <1>5. 1 \in 1..n
    BY <1>2
  <1>6. QED
    BY <1>2, <1>4, <1>5 DEF o, TopOf

\* Whatever the composition, a fact is of its task, and of the days asked for unless
\* it was read from buckets.
LEMMA FactsOfTasks ==
  ASSUME CompositionInv, outcome.native # <<>>, NEW i \in 1..Len(results)
  PROVE  LET n == outcome.native[1]
         IN /\ Len(n.results) = Len(results) /\ n.results[i].id = plan.tasks[i].id
            /\ n.results[i].fact # <<>> =>
                 /\ n.results[i].fact[1].task = plan.tasks[i].id
                 /\ ~IsSeries(plan.tasks[i]) =>
                      n.results[i].fact[1].periods = DaysOf(plan.tasks[i].scalar.periods)
                 /\ plan.operation # "rank" /\ plan.tasks[i].reduce = "none" =>
                      n.results[i].fact[1].value \in Int
  <1> DEFINE n == outcome.native[1]
             r == results[i]
             t == plan.tasks[i]
             c == Completed(plan, results)[i]
  <1>1. n.results = IF Failed(results) THEN results ELSE Completed(plan, results)
    BY ComposedOutcome, ComposedShape
  <1>2. PICK a \in Answers : a.rows \in Seq(Row) /\ Readable(t, a) /\ r = TaskResult(t, a)
    BY ResultsAreRead
  <1>3. /\ r.id = t.id
        /\ r.fact # <<>> => /\ r.fact[1].task = t.id /\ r.fact[1].value \in Int
                            /\ ~IsSeries(t) =>
                                 r.fact[1].periods = DaysOf(t.scalar.periods)
        /\ r.series # <<>> => IsSeries(t) /\ r.series = SeriesOf(t, a.rows)
    BY <1>2, ResultShape
  <1>4. Len(n.results) = Len(results)
    BY <1>1, CompletedLength
  <1>5. CASE Failed(results)
    BY <1>1, <1>3, <1>4, <1>5
  <1>6. CASE ~Failed(results) /\ plan.operation # "rank" /\ t.reduce = "none"
    <2>1. c.id = r.id /\ c.fact = r.fact
      BY <1>6, CompletedShape
    <2>2. n.results[i] = c
      BY <1>1, <1>6
    <2>3. QED
      BY <1>3, <1>4, <2>1, <2>2
  <1>7. CASE ~Failed(results) /\ plan.operation # "rank" /\ t.reduce # "none"
    <2> DEFINE f == Reduce(t, r.series)
    <2>1. c.id = r.id /\ c.fact = <<f>>
      BY <1>7, CompletedShape
    <2>2. n.results[i] = c
      BY <1>1, <1>7
    <2>3. f.task = t.id
      BY DEF Reduce, ScalarFact
    <2>6. IsSeries(t)
      BY <1>7, ComposedOutcome, ReducedPlan
    <2>4. <<f>>[1] = f
      BY ListOfOne
    <2> HIDE DEF f
    <2>5. QED
      BY <1>3, <1>4, <1>7, <2>1, <2>2, <2>3, <2>4, <2>6
  <1>8. CASE ~Failed(results) /\ plan.operation = "rank"
    <2> DEFINE f == Ranked(plan, results)[1]
               s == results[1].series
               d == plan.ranking[1].direction
               limit == plan.ranking[1].limit
    <2>1. c.id = r.id /\ c.fact = <<f>>
      BY <1>8, CompletedShape
    <2>2. n.results[i] = c
      BY <1>1, <1>8
    <2>3. plan.operation = intent.operation /\ plan.ranking = intent.ranking
      BY ComposedOutcome DEF PlanOf, Composition
    <2>4. limit \in Nat /\ limit > 0
      <3>1. limit \in 1..100
        BY <1>8, <2>3, ComposedOutcome DEF ValidShape
      <3> HIDE DEF limit
      <3>2. QED
        BY <3>1
    <2>5. i = 1 /\ s # <<>>
      <3>1. plan.ranking # <<>>
        BY <1>8, <2>3, ComposedOutcome DEF ValidShape
      <3>2. Len(results) = 1
        BY <3>1, ComposedOutcome DEF PlanComplete
      <3>3. QED
        BY <1>8, <3>2, ComposedOutcome DEF Composable
    <2>6. s = SeriesOf(t, a.rows) /\ IsSeries(t)
      BY <1>3, <2>5
    <2>7. /\ Buckets(s, Len(s)) /\ Len(s) > 0
          /\ \A k \in 1..Len(s) : s[k].task = t.id
      <3>1. /\ s \in Seq(Range(s)) /\ Len(s) = Len(a.rows)
            /\ \A k \in 1..Len(a.rows) :
                 /\ s[k].task = t.id
                 /\ s[k].value \in Int /\ s[k].periods = BucketDays(a.rows[k])
                 /\ s[k].rows[1] = a.rows[k]
        BY <1>2, <2>6, SeriesShape
      <3>2. \A k \in 1..Len(a.rows) : a.rows[k].key \in Int /\ Dated(BucketDays(a.rows[k]))
        BY <1>2, RowsHaveValues, BucketIsDated
      <3> HIDE DEF s, t
      <3>3. Len(s) \in Nat /\ DOMAIN s = 1..Len(s) /\ Len(s) # 0
        BY <2>5, <3>1
      <3>4. QED
        BY <3>1, <3>2, <3>3 DEF Buckets
    <2>8. f = TopOf(s, d, limit)[1]
      BY Zenon DEF Ranked, TopOf
    <2> HIDE DEF f, s, d, limit
    <2>9. \E k \in 1..Len(s) : f = s[k]
      <3> DEFINE m == Len(s)
      <3>1. Buckets(s, m) /\ m > 0
        BY <2>7
      <3> HIDE DEF m
      <3>2. \E k \in 1..m : f = s[k]
        BY <2>4, <2>8, <3>1, FirstIsRanked
      <3>3. QED
        BY <3>2 DEF m
    <2>10. f.task = t.id /\ <<f>>[1] = f
      BY <2>7, <2>9, ListOfOne
    <2>11. QED
      BY <1>3, <1>4, <1>8, <2>1, <2>2, <2>6, <2>10
  <1>9. QED
    BY <1>5, <1>6, <1>7, <1>8

-----------------------------------------------------------------------------
(* Sides *)

\* A task is found by its name, in the plan and among the results.
LEMMA TaskIsFound ==
  ASSUME CompositionInv, outcome.native # <<>>, NEW j \in 1..Len(results)
  PROVE  /\ TaskOf(plan.tasks[j].id) = plan.tasks[j]
         /\ FactOfTask(outcome.native[1], plan.tasks[j].id)
              = outcome.native[1].results[j].fact[1]
  <1> DEFINE ts == plan.tasks
             rs == outcome.native[1].results
             id == plan.tasks[j].id
             f == ById(ts, id)
             g == ById(rs, id)
  <1>1. Len(ts) = Len(results) /\ Len(results) \in Nat
        /\ \A k, m \in 1..Len(ts) : ts[k].id = ts[m].id => k = m
    BY ComposedOutcome, CompletedLength, PlanTasks
  <1>2. Len(rs) = Len(results) /\ \A k \in 1..Len(results) : rs[k].id = ts[k].id
    BY FactsOfTasks
  <1> HIDE DEF ts, rs, f, g, id
  <1>3. ts[j].id = id
    BY DEF ts, id
  <1>4. f \in 1..Len(ts) /\ ts[f].id = id
    BY <1>1, <1>3, FirstById DEF f
  <1>5. g \in 1..Len(rs) /\ rs[g].id = id
    <2>1. rs[j].id = id /\ j \in 1..Len(rs) /\ Len(rs) \in Nat
      BY <1>1, <1>2, <1>3
    <2>2. QED
      BY <2>1, FirstById DEF g
  <1>6. f = j /\ g = j
    BY <1>1, <1>2, <1>3, <1>4, <1>5
  <1>7. TaskOf(id) = ts[f] /\ FactOfTask(outcome.native[1], id) = rs[g].fact[1]
    BY Zenon DEF TaskOf, FactOfTask, ById, f, g, ts, rs
  <1>8. QED
    BY <1>6, <1>7 DEF ts, rs, id

\* What is known of a side of a comparison or a formula: it is the fact of a task
\* of this name.
IsSideOf(fact, j) ==
  /\ j \in 1..Len(results)
  /\ fact = outcome.native[1].results[j].fact[1]
  /\ fact.task = plan.tasks[j].id /\ fact.value \in Int
  /\ TaskOf(fact.task) = plan.tasks[j]
  /\ FactOfTask(outcome.native[1], fact.task) = fact

LEMMA SideOfTask ==
  ASSUME CompositionInv, outcome.native # <<>>, ~Failed(results),
         plan.operation \in {"compare", "compare_periods", "calculate"},
         NEW j \in 1..Len(results)
  PROVE  IsSideOf(Completed(plan, results)[j].fact[1], j)
  <1> DEFINE n == outcome.native[1]
             done == Completed(plan, results)
             f == done[j].fact[1]
  <1>1. n.results = done
    BY ComposedOutcome, ComposedShape
  <1>2. done[j].fact # <<>>
    <2>1. done[j] \in Range(done)
      BY DEF Completed, Range
    <2>2. QED
      BY <2>1, ComposedOutcome DEF Composable
  <1>3. plan.operation # "rank" /\ plan.tasks[j].reduce = "none"
    <2>1. plan.operation = intent.operation
      BY ComposedOutcome DEF PlanOf, Composition
    <2>2. j \in 1..Len(plan.tasks)
      BY ComposedOutcome
    <2>3. QED
      BY <2>1, <2>2, ComposedOutcome, PlanTasks
  <1>4. f.task = plan.tasks[j].id /\ f.value \in Int
    BY <1>1, <1>2, <1>3, FactsOfTasks
  <1>5. QED
    BY <1>1, <1>4, TaskIsFound DEF IsSideOf

\* _calculate and _compare_set take the fact of the first task of the operand.
LEMMA SideOfOperand ==
  ASSUME CompositionInv, outcome.native # <<>>, ~Failed(results),
         plan.operation \in {"compare", "calculate"},
         NEW b, \E k \in 1..Len(plan.tasks) : plan.tasks[k].operand = b
  PROVE  \E j \in 1..Len(results) :
           /\ IsSideOf(OfOperand(plan, Completed(plan, results), b), j)
           /\ plan.tasks[j].operand = b
  <1> DEFINE ts == plan.tasks
             j == ByOperand(ts, b)
  <1>1. Len(ts) = Len(results) /\ Len(ts) \in Nat
    BY ComposedOutcome, CompletedLength
  <1>2. j \in 1..Len(ts) /\ ts[j].operand = b
    BY <1>1, FirstByOperand
  <1>3. OfOperand(plan, Completed(plan, results), b) = Completed(plan, results)[j].fact[1]
    BY Zenon DEF OfOperand, ByOperand
  <1> HIDE DEF j
  <1>4. IsSideOf(Completed(plan, results)[j].fact[1], j)
    BY <1>1, <1>2, SideOfTask
  <1>5. QED
    BY <1>1, <1>2, <1>3, <1>4

LEMMA OperandsAreKept ==
  ASSUME NEW t \in Turns, Normalised(t).operation = "compare"
  PROVE  Normalised(t).operands = t.intent.operands
  <1> DEFINE a == TemporalGrouping(t.intent, t.words)
             b == PeriodComparison(a)
             c == SeriesReduction(b, t.words, t.active)
  <1>1. IsIntent(t.intent) /\ ValidShape(t.intent)
    BY IntentsAreValid
  <1>2. IsIntent(a) /\ ValidShape(a)
    BY <1>1, GroupingKeepsShape
  <1>3. a.operands = t.intent.operands
    BY <1>1 DEF TemporalGrouping, IsIntent
  <1>4. IsIntent(b)
    BY <1>2, ComparisonKeepsShape
  <1>5. c.operation = b.operation /\ c.operands = b.operands
    BY <1>4 DEF SeriesReduction, IsIntent
  <1>6. c = Normalised(t)
    BY DEF Normalised
  <1> HIDE DEF a, c
  <1>7. b.operation = "compare" => b = a
    BY <1>2 DEF PeriodComparison, IsIntent
  <1>8. QED
    BY <1>3, <1>5, <1>6, <1>7

\* _compare finds the task of an operand, no task being called like one.
LEMMA NamedIsOperand ==
  ASSUME CompositionInv, outcome.native # <<>>, plan.operation = "compare",
         NEW b \in OperandIds(intent)
  PROVE  /\ Named(plan, Completed(plan, results), b) = OfOperand(plan, Completed(plan, results), b)
         /\ \E k \in 1..Len(plan.tasks) : plan.tasks[k].operand = b
  <1> DEFINE done == Completed(plan, results)
             ts == OperandTasks(intent, intent.operands)
             byTask == ById(done, b)
  <1>1. intent.operation = "compare" /\ plan.tasks = ts
    BY ComposedOutcome DEF PlanOf, Composition, IsSeriesAggregation
  <1>2. intent.operands = turn.intent.operands
    BY <1>1, ComposedOutcome, OperandsAreKept
  <1>3. Len(intent.operands) \in Nat /\ DOMAIN intent.operands = 1..Len(intent.operands)
    BY ComposedOutcome DEF IsIntent
  <1>4. /\ Len(ts) = Len(intent.operands)
        /\ \A k \in 1..Len(intent.operands) :
             ts[k].id = <<"task", k>> /\ ts[k].operand = intent.operands[k].id
    BY <1>3, OperandTasksShape
  <1>5. Len(done) = Len(ts) /\ Len(results) = Len(ts)
    BY <1>1, ComposedOutcome, CompletedLength
  <1> HIDE DEF ts
  <1>6. \A k \in 1..Len(results) : done[k].id = results[k].id /\ results[k].id = ts[k].id
    <2>1. ASSUME NEW k \in 1..Len(results)
          PROVE  results[k].id = plan.tasks[k].id
      BY ResultsAreRead, ResultShape
    <2>2. QED
      BY <1>1, <2>1, CompletedShape
  <1>7. \A k \in 1..Len(intent.operands) : b # <<"task", k>>
    BY <1>2, ComposedOutcome, OperandNames DEF OperandIds, TaskId
  <1> HIDE DEF done
  <1>8. \A k \in 1..Len(done) : done[k].id # b
    BY <1>4, <1>5, <1>6, <1>7
  <1>9. byTask = 0
    BY <1>8, NoneById
  <1>10. Named(plan, done, b) = OfOperand(plan, done, b)
    BY <1>9, Zenon DEF Named, OfOperand, ById
  <1>11. PICK k \in 1..Len(intent.operands) : intent.operands[k].id = b
    BY <1>3 DEF OperandIds, Range
  <1>12. QED
    BY <1>1, <1>4, <1>10, <1>11 DEF done

\* The names of a comparison of operands are names of operands.
LEMMA ComparandsAreOperands ==
  ASSUME NEW i, IsIntent(i), ValidShape(i), i.operation = "compare"
  PROVE  /\ Comparands(i)[1].baseline \in OperandIds(i)
         /\ Comparands(i)[1].target \in OperandIds(i)
  <1>1. CASE i.comparison # <<>>
    BY <1>1 DEF Comparands, ValidShape
  <1>2. CASE i.comparison = <<>>
    <2> DEFINE c == [baseline |-> i.operands[1].id, target |-> i.operands[2].id]
    <2>1. Comparands(i) = <<c>>
      BY <1>2 DEF Comparands
    <2>2. c.baseline = i.operands[1].id /\ c.target = i.operands[2].id
      OBVIOUS
    <2>3. Len(i.operands) \in Nat /\ Len(i.operands) >= 2
          /\ DOMAIN i.operands = 1..Len(i.operands)
      BY DEF IsIntent, ValidShape
    <2>4. i.operands[1].id \in OperandIds(i) /\ i.operands[2].id \in OperandIds(i)
      BY <2>3 DEF OperandIds, Range
    <2> HIDE DEF c
    <2>5. QED
      BY <2>1, <2>2, <2>4, ListOfOne
  <1>3. QED
    BY <1>1, <1>2

\* _compare on operands.
LEMMA ComparedOperands ==
  ASSUME CompositionInv, outcome.native # <<>>, ~Failed(results), plan.operation = "compare",
         NEW b, b \in {Comparands(intent)[1].baseline, Comparands(intent)[1].target}
  PROVE  LET done == Completed(plan, results)
         IN /\ Named(plan, done, b) = OfOperand(plan, done, b)
            /\ \E j \in 1..Len(results) :
                 IsSideOf(Named(plan, done, b), j) /\ plan.tasks[j].operand = b
            /\ \A j, k \in 1..Len(results) :
                 plan.tasks[j].operand = plan.tasks[k].operand => j = k
  <1>1. intent.operation = "compare" /\ plan.tasks = OperandTasks(intent, intent.operands)
    BY ComposedOutcome DEF PlanOf, Composition, IsSeriesAggregation
  <1>2. b \in OperandIds(intent)
    BY <1>1, ComposedOutcome, ComparandsAreOperands
  <1>3. /\ Named(plan, Completed(plan, results), b) = OfOperand(plan, Completed(plan, results), b)
        /\ \E k \in 1..Len(plan.tasks) : plan.tasks[k].operand = b
    BY <1>2, NamedIsOperand
  <1>4. \E j \in 1..Len(results) :
          /\ IsSideOf(OfOperand(plan, Completed(plan, results), b), j)
          /\ plan.tasks[j].operand = b
    BY <1>3, SideOfOperand
  <1>5. Len(intent.operands) \in Nat
        /\ \A j, k \in 1..Len(intent.operands) :
             intent.operands[j].id = intent.operands[k].id => j = k
    BY ComposedOutcome DEF IsIntent, ValidShape
  <1>6. /\ Len(plan.tasks) = Len(intent.operands)
        /\ \A k \in 1..Len(intent.operands) : plan.tasks[k].operand = intent.operands[k].id
    BY <1>1, <1>5, OperandTasksShape
  <1>7. \A j, k \in 1..Len(results) : plan.tasks[j].operand = plan.tasks[k].operand => j = k
    BY <1>5, <1>6, ComposedOutcome
  <1>8. QED
    BY <1>3, <1>4, <1>7

\* _compare on periods.
LEMMA ComparedPeriods ==
  ASSUME CompositionInv, outcome.native # <<>>, ~Failed(results),
         plan.operation = "compare_periods", NEW k \in 1..2
  PROVE  /\ k \in 1..Len(results)
         /\ IsSideOf(Named(plan, Completed(plan, results), TaskId("period", k)), k)
         /\ plan.tasks[k].scalar.periods = <<intent.periods[k]>>
  <1> DEFINE done == Completed(plan, results)
             ts == PeriodTasks(intent)
             byTask == ById(done, <<"period", k>>)
  <1>1. intent.operation = "compare_periods" /\ plan.tasks = ts
    BY ComposedOutcome DEF PlanOf, Composition, IsSeriesAggregation
  <1>2. Len(intent.periods) = 2
    BY <1>1, ComposedOutcome DEF ValidShape
  <1>3. /\ Len(ts) = 2
        /\ \A j \in 1..2 : ts[j].id = <<"period", j>>
                           /\ ts[j].scalar.periods = <<intent.periods[j]>>
    BY <1>2 DEF PeriodTasks, Task, Scalar, TaskId
  <1>4. Len(done) = 2 /\ Len(results) = 2
    BY <1>1, <1>3, ComposedOutcome, CompletedLength
  <1> HIDE DEF ts
  <1>5. \A j \in 1..2 : done[j].id = results[j].id /\ results[j].id = ts[j].id
    <2>1. ASSUME NEW j \in 1..Len(results)
          PROVE  results[j].id = plan.tasks[j].id
      BY ResultsAreRead, ResultShape
    <2>2. \A j \in 1..2 : done[j].id = results[j].id
      BY <1>4, CompletedShape
    <2>3. QED
      BY <1>1, <1>4, <2>1, <2>2
  <1> HIDE DEF done
  <1>6. byTask \in 1..2 /\ done[byTask].id = <<"period", k>>
    <2> DEFINE id == <<"period", k>>
    <2>1. Len(done) \in Nat /\ \E j \in 1..Len(done) : done[j].id = id
      BY <1>3, <1>4, <1>5
    <2> HIDE DEF id
    <2>2. ById(done, id) \in 1..Len(done) /\ done[ById(done, id)].id = id
      BY <2>1, FirstById
    <2>3. QED
      BY <1>4, <2>2 DEF id
  <1> HIDE DEF byTask
  <1>7. byTask = k
    <2>1. <<"period", byTask>> = <<"period", k>>
      BY <1>3, <1>5, <1>6
    <2>2. QED
      BY <2>1
  <1>8. k # 0
    OBVIOUS
  <1>9. Named(plan, done, TaskId("period", k)) = done[k].fact[1]
    BY <1>7, <1>8, Zenon DEF Named, TaskId, ById, byTask
  <1>10. k \in 1..Len(results)
    BY <1>4
  <1>11. QED
    BY <1>1, <1>3, <1>9, <1>10, SideOfTask DEF done

\* _compare_set: the target's difference is that of the comparison, and the
\* baseline's is zero.
LEMMA MembersOfComparison ==
  ASSUME NEW p, NEW done, Len(done) \in Nat,
         \A j, k \in 1..Len(done) : p.tasks[j].operand = p.tasks[k].operand => j = k,
         NEW target, NEW j \in 1..Len(done), p.tasks[j].operand = target
  PROVE  LET members == CompareSet(p, done)
             m == ByOperand(members, target)
             delta == done[j].fact[1].value - OfOperand(p, done, p.comparison[1].baseline).value
         IN /\ members[m].delta = delta
            /\ members[m].percent
                 = Percent(delta, OfOperand(p, done, p.comparison[1].baseline).value)
  <1> DEFINE baseline == OfOperand(p, done, p.comparison[1].baseline)
             members == CompareSet(p, done)
             m == ByOperand(members, target)
  <1>1. /\ DOMAIN members = 1..Len(done) /\ Len(members) = Len(done)
        /\ \A i \in 1..Len(done) :
             LET delta == done[i].fact[1].value - baseline.value
             IN members[i] = [task |-> done[i].id, operand |-> p.tasks[i].operand,
                              delta |-> delta, percent |-> Percent(delta, baseline.value)]
    BY DEF CompareSet
  <1>2. \A i \in 1..Len(done) :
          LET delta == done[i].fact[1].value - baseline.value
          IN /\ members[i].operand = p.tasks[i].operand /\ members[i].delta = delta
             /\ members[i].percent = Percent(delta, baseline.value)
    BY <1>1
  <1> HIDE DEF baseline, members
  <1>3. m \in 1..Len(done) /\ members[m].operand = target
    BY <1>1, <1>2, FirstByOperand
  <1>4. m = j
    BY <1>2, <1>3
  <1>5. QED
    BY <1>2, <1>4, Zenon DEF baseline, members, m

LEMMA SidesOfComparison ==
  ASSUME CompositionInv, outcome.native # <<>>, outcome.native[1].comparison # <<>>
  PROVE  LET n == outcome.native[1]
             c == n.comparison[1]
             names == Comparands(intent)[1]
             m == SelectInSeq(n.members, LAMBDA e : e.operand = names.target)
             b == SelectInSeq(n.members, LAMBDA e : e.operand = names.baseline)
         IN /\ c.delta = FactOfTask(n, c.target).value - FactOfTask(n, c.baseline).value
            /\ intent.operation = "compare" =>
                 /\ TaskOf(c.baseline).operand = names.baseline
                 /\ TaskOf(c.target).operand = names.target
                 /\ n.members[m].delta = c.delta /\ n.members[m].percent = c.percent
                 /\ n.members[b].delta = 0
            /\ intent.operation = "compare_periods" =>
                 /\ TaskOf(c.baseline).scalar.periods = <<intent.periods[1]>>
                 /\ TaskOf(c.target).scalar.periods = <<intent.periods[2]>>
  <1> DEFINE n == outcome.native[1]
             c == n.comparison[1]
             done == Completed(plan, results)
             names == Comparands(intent)[1]
             base == Named(plan, done, plan.comparison[1].baseline)
             goal == Named(plan, done, plan.comparison[1].target)
             m == SelectInSeq(n.members, LAMBDA e : e.operand = names.target)
             b == SelectInSeq(n.members, LAMBDA e : e.operand = names.baseline)
  <1>1. /\ ~Failed(results) /\ plan.operation \in {"compare", "compare_periods"}
        /\ plan.operation = intent.operation
        /\ n.comparison = <<Compare(plan, done)>>
        /\ plan.operation = "compare" => n.members = CompareSet(plan, done)
    <2>1. plan.operation = intent.operation
      BY ComposedOutcome DEF PlanOf, Composition
    <2>2. QED
      BY <2>1, ComposedOutcome, ComposedShape
  <1>2. c = Compare(plan, done)
    BY <1>1, ListOfOne
  <1>3. /\ c.baseline = base.task /\ c.target = goal.task
        /\ c.delta = goal.value - base.value /\ c.percent = Percent(c.delta, base.value)
    BY <1>2 DEF Compare
  <1> HIDE DEF c, base, goal, m, b, done
  <1>4. ASSUME NEW j, NEW k, IsSideOf(base, j), IsSideOf(goal, k)
        PROVE  /\ c.delta = FactOfTask(n, c.target).value - FactOfTask(n, c.baseline).value
               /\ TaskOf(c.baseline) = plan.tasks[j] /\ TaskOf(c.target) = plan.tasks[k]
    BY <1>3, <1>4 DEF IsSideOf
  <1>5. CASE plan.operation = "compare"
    <2>1. plan.comparison[1] = names
      <3>1. plan.comparison = Comparands(intent)
        BY <1>1, <1>5, ComposedOutcome DEF PlanOf, Composition, IsSeriesAggregation
      <3>2. QED
        BY <3>1
    <2>2. base = Named(plan, done, names.baseline) /\ goal = Named(plan, done, names.target)
      BY <2>1 DEF base, goal
    <2>3. /\ base = OfOperand(plan, done, names.baseline)
          /\ \A i, l \in 1..Len(results) :
               plan.tasks[i].operand = plan.tasks[l].operand => i = l
          /\ \E j \in 1..Len(results) :
               IsSideOf(base, j) /\ plan.tasks[j].operand = names.baseline
      BY <1>1, <1>5, <2>2, ComparedOperands DEF done
    <2>4. \E k \in 1..Len(results) :
            IsSideOf(goal, k) /\ plan.tasks[k].operand = names.target
      BY <1>1, <1>5, <2>2, ComparedOperands DEF done
    <2>5. PICK j \in 1..Len(results) :
            IsSideOf(base, j) /\ plan.tasks[j].operand = names.baseline
      BY <2>3
    <2>6. PICK k \in 1..Len(results) :
            IsSideOf(goal, k) /\ plan.tasks[k].operand = names.target
      BY <2>4
    <2>7. base = done[j].fact[1] /\ goal = done[k].fact[1]
          /\ base.value \in Int /\ goal.value \in Int
      <3>1. n.results = done
        BY <1>1, ComposedOutcome, ComposedShape DEF done
      <3>2. QED
        BY <2>5, <2>6, <3>1 DEF IsSideOf
    <2>8. Len(done) = Len(results) /\ Len(results) \in Nat
      BY CompletedLength DEF done
    <2>9. OfOperand(plan, done, plan.comparison[1].baseline) = base
      BY <2>1, <2>3
    <2>10. /\ n.members[m].delta = goal.value - base.value
           /\ n.members[m].percent = Percent(goal.value - base.value, base.value)
      <3>1. LET s == CompareSet(plan, done)
                x == ByOperand(s, names.target)
                delta == done[k].fact[1].value
                           - OfOperand(plan, done, plan.comparison[1].baseline).value
            IN /\ s[x].delta = delta
               /\ s[x].percent
                    = Percent(delta, OfOperand(plan, done, plan.comparison[1].baseline).value)
        BY <2>3, <2>6, <2>8, MembersOfComparison
      <3>2. QED
        BY <1>1, <1>5, <2>7, <2>9, <3>1, Zenon DEF m, ByOperand
    <2>11. n.members[b].delta = base.value - base.value
      <3>1. LET s == CompareSet(plan, done)
                x == ByOperand(s, names.baseline)
            IN s[x].delta = done[j].fact[1].value
                              - OfOperand(plan, done, plan.comparison[1].baseline).value
        BY <2>3, <2>5, <2>8, MembersOfComparison
      <3>2. QED
        BY <1>1, <1>5, <2>7, <2>9, <3>1, Zenon DEF b, ByOperand
    <2>12. n.members[b].delta = 0
      BY <2>7, <2>11
    <2>13. /\ TaskOf(c.baseline).operand = names.baseline
           /\ TaskOf(c.target).operand = names.target
           /\ c.delta = FactOfTask(n, c.target).value - FactOfTask(n, c.baseline).value
      BY <1>4, <2>5, <2>6
    <2>14. QED
      BY <1>1, <1>3, <1>5, <2>10, <2>12, <2>13 DEF c, m, b
  <1>6. CASE plan.operation = "compare_periods"
    <2> DEFINE x == [baseline |-> TaskId("period", 1), target |-> TaskId("period", 2)]
    <2>1. plan.comparison = <<x>>
      BY <1>1, <1>6, ComposedOutcome DEF PlanOf, Composition, IsSeriesAggregation
    <2>2. x.baseline = TaskId("period", 1) /\ x.target = TaskId("period", 2)
      OBVIOUS
    <2> HIDE DEF x
    <2>3. plan.comparison[1] = x
      BY <2>1, ListOfOne
    <2>4. base = Named(plan, done, TaskId("period", 1))
          /\ goal = Named(plan, done, TaskId("period", 2))
      BY <2>2, <2>3 DEF base, goal
    <2>5. 1 \in 1..2 /\ 2 \in 1..2
      OBVIOUS
    <2>6. /\ IsSideOf(base, 1) /\ plan.tasks[1].scalar.periods = <<intent.periods[1]>>
          /\ IsSideOf(goal, 2) /\ plan.tasks[2].scalar.periods = <<intent.periods[2]>>
      BY <1>1, <1>6, <2>4, <2>5, ComparedPeriods DEF done
    <2>7. QED
      BY <1>1, <1>4, <1>6, <2>6 DEF c
  <1>7. QED
    BY <1>1, <1>5, <1>6

LEMMA TasksAreListed ==
  ASSUME CompositionInv, outcome.native # <<>>, plan.operation = "calculate"
  PROVE  DOMAIN plan.tasks = 1..Len(plan.tasks)
  <1>1. plan.tasks = OperandTasks(intent, FormulaOperands(intent))
        /\ Plannable(intent) /\ intent.operation = "calculate"
    BY ComposedOutcome DEF PlanOf, Composition, IsSeriesAggregation
  <1>2. Len(FormulaOperands(intent)) = 2
    BY <1>1 DEF Plannable, IsSeriesAggregation
  <1>3. QED
    BY <1>1, <1>2 DEF OperandTasks

LEMMA SidesOfFormula ==
  ASSUME CompositionInv, outcome.native # <<>>, outcome.native[1].derived # <<>>
  PROVE  LET d == outcome.native[1].derived[1]
         IN /\ TaskOf(d.numerator).operand = intent.formula[1].numerator
            /\ TaskOf(d.denominator).operand = intent.formula[1].denominator
  <1> DEFINE n == outcome.native[1]
             d == n.derived[1]
             done == Completed(plan, results)
             f == plan.formula[1]
             over == OfOperand(plan, done, f.numerator)
             under == OfOperand(plan, done, f.denominator)
  <1>1. /\ ~Failed(results) /\ plan.operation = "calculate"
        /\ n.derived = Calculate(plan, done) /\ Calculate(plan, done) # <<>>
    BY ComposedOutcome, ComposedShape
  <1>2. plan.operation = intent.operation /\ plan.formula = intent.formula
    BY ComposedOutcome DEF PlanOf, Composition
  <1>3. d.numerator = over.task /\ d.denominator = under.task
    BY <1>1 DEF Calculate
  <1>4. \E k \in 1..Len(plan.tasks) : plan.tasks[k].operand = f.numerator
    <2>1. plan.formula # <<>>
      BY <1>1, <1>2, ComposedOutcome DEF ValidShape
    <2>2. f.numerator \in {t.operand : t \in Range(plan.tasks)}
      BY <2>1, ComposedOutcome DEF PlanComplete
    <2>3. QED
      BY <2>2, TasksAreListed DEF Range
  <1>5. \E k \in 1..Len(plan.tasks) : plan.tasks[k].operand = f.denominator
    <2>1. plan.formula # <<>>
      BY <1>1, <1>2, ComposedOutcome DEF ValidShape
    <2>2. f.denominator \in {t.operand : t \in Range(plan.tasks)}
      BY <2>1, ComposedOutcome DEF PlanComplete
    <2>3. QED
      BY <2>2, TasksAreListed DEF Range
  <1>6. PICK j \in 1..Len(results) : IsSideOf(over, j) /\ plan.tasks[j].operand = f.numerator
    BY <1>1, <1>4, SideOfOperand
  <1>7. PICK k \in 1..Len(results) : IsSideOf(under, k) /\ plan.tasks[k].operand = f.denominator
    BY <1>1, <1>5, SideOfOperand
  <1>8. TaskOf(over.task) = plan.tasks[j] /\ TaskOf(under.task) = plan.tasks[k]
    BY <1>6, <1>7 DEF IsSideOf
  <1> HIDE DEF d, over, under
  <1>9. QED
    BY <1>2, <1>3, <1>6, <1>7, <1>8 DEF d

LEMMA PeriodsOfFacts ==
  ASSUME CompositionInv, outcome.native # <<>>,
         NEW i \in 1..Len(outcome.native[1].results), intent.operation # "compare_periods"
  PROVE  \E o \in Range(intent.operands) :
           /\ o.id = plan.tasks[i].operand
           /\ plan.tasks[i].scalar.periods = EffectivePeriods(intent, o)
           /\ outcome.native[1].results[i].fact # <<>> /\ ~IsSeries(plan.tasks[i]) =>
                outcome.native[1].results[i].fact[1].periods = DaysOf(EffectivePeriods(intent, o))
  <1>1. /\ plan = PlanOf(intent) /\ Plannable(intent) /\ IsIntent(intent) /\ ValidShape(intent)
        /\ Len(results) = Len(plan.tasks) /\ Len(plan.tasks) > 0
    BY ComposedOutcome
  <1>2. Len(results) \in Nat
    BY CompletedLength
  <1>3. Len(outcome.native[1].results) = Len(results)
    <2>1. 1 \in 1..Len(results)
      BY <1>1, <1>2
    <2>2. QED
      BY <2>1, FactsOfTasks
  <1>4. i \in 1..Len(results)
    BY <1>3
  <1>5. outcome.native[1].results[i].fact # <<>> /\ ~IsSeries(plan.tasks[i]) =>
          outcome.native[1].results[i].fact[1].periods = DaysOf(plan.tasks[i].scalar.periods)
    BY <1>4, FactsOfTasks
  <1>6. i \in 1..Len(PlanOf(intent).tasks)
    BY <1>1, <1>4
  <1>7. PICK o \in Range(intent.operands) :
          /\ o.id = PlanOf(intent).tasks[i].operand
          /\ PlanOf(intent).tasks[i].scalar.periods = EffectivePeriods(intent, o)
    BY <1>1, <1>6, PlanTasks
  <1>8. QED
    BY <1>1, <1>4, <1>5, <1>7

\* The two sides of a comparison and of a formula are the operands the intent
\* names for them, the members of a comparison are measured from its baseline,
\* every question is about the periods of its operand, and a number that was one
\* question's says the days of those, whatever the answers (_compare, _compare_set,
\* _calculate): the plan names each task by its place, a result carries the name of
\* its task, and the first task of a name or of an operand is then the only one.
THEOREM SidesHold == Spec => []SidesAreAsNamed
  <1>1. CompositionInv => SidesAreAsNamed
    <2>1. SUFFICES ASSUME CompositionInv, outcome.native # <<>>
                   PROVE  SidesAreAsNamed
      BY DEF SidesAreAsNamed
    <2> DEFINE n == outcome.native[1]
               c == n.comparison[1]
               names == Comparands(intent)[1]
               m == SelectInSeq(n.members, LAMBDA e : e.operand = names.target)
               b == SelectInSeq(n.members, LAMBDA e : e.operand = names.baseline)
    <2>2. n.comparison # <<>> =>
            /\ c.delta = FactOfTask(n, c.target).value - FactOfTask(n, c.baseline).value
            /\ intent.operation = "compare" =>
                 /\ TaskOf(c.baseline).operand = names.baseline
                 /\ TaskOf(c.target).operand = names.target
                 /\ n.members[m].delta = c.delta /\ n.members[m].percent = c.percent
                 /\ n.members[b].delta = 0
            /\ intent.operation = "compare_periods" =>
                 /\ TaskOf(c.baseline).scalar.periods = <<intent.periods[1]>>
                 /\ TaskOf(c.target).scalar.periods = <<intent.periods[2]>>
      BY <2>1, SidesOfComparison, Zenon
    <2>3. n.derived # <<>> =>
            /\ TaskOf(n.derived[1].numerator).operand = intent.formula[1].numerator
            /\ TaskOf(n.derived[1].denominator).operand = intent.formula[1].denominator
      BY <2>1, SidesOfFormula, Zenon
    <2>4. \A i \in 1..Len(n.results) : intent.operation # "compare_periods" =>
            \E o \in Range(intent.operands) :
              /\ o.id = plan.tasks[i].operand
              /\ plan.tasks[i].scalar.periods = EffectivePeriods(intent, o)
              /\ n.results[i].fact # <<>> /\ ~IsSeries(plan.tasks[i]) =>
                   n.results[i].fact[1].periods = DaysOf(EffectivePeriods(intent, o))
      BY <2>1, PeriodsOfFacts, Zenon
    <2>5. QED
      BY <2>2, <2>3, <2>4, Zenon DEF SidesAreAsNamed
  <1>2. QED
    BY <1>1, CompositionHolds, PTL

-----------------------------------------------------------------------------
(* Groups *)

LEMMA SequenceOfSet ==
  ASSUME NEW S, IsFiniteSet(S)
  PROVE  SetToSeq(S) \in SetToSeqs(S)
  <1>1. PICK f \in [1..Cardinality(S) -> S] : IsInjective(f)
    BY FS_CardinalityType DEF ExistsBijection, Bijection, Injection
  <1>2. /\ SetToSeq(S) \in [1..Cardinality(S) -> S] /\ IsInjective(SetToSeq(S))
    BY <1>1, Zenon DEF SetToSeq
  <1>3. \A i, j \in 1..Cardinality(S) : i # j => SetToSeq(S)[i] # SetToSeq(S)[j]
    BY <1>2 DEF IsInjective
  <1>4. QED
    BY <1>2, <1>3, Zenon DEF SetToSeqs

\* The rows of one entity.
Part(rows, d, e) == {i \in 1..Len(rows) : Identity(rows[i], d) = e}

\* The groups are of the entities of the rows, each once, with their members.
AreGroups(groups, rows, d, m, order) ==
  /\ m \in Nat
  /\ \A k, l \in 1..m : order[k] = order[l] => k = l
  /\ \A i \in 1..Len(rows) : \E k \in 1..m : order[k] = Identity(rows[i], d)
  /\ groups = [k \in 1..m |-> [entity |-> order[k], value |-> SumOf(Members(rows, d, order[k])),
                               count |-> Len(Members(rows, d, order[k])),
                               rows |-> Members(rows, d, order[k])]]

LEMMA GroupsShape ==
  ASSUME NEW d, NEW rows, rows \in Seq(Range(rows))
  PROVE  \E m, order : AreGroups(GroupsOf(rows, d), rows, d, m, order)
  <1> DEFINE entities == {Identity(r, d) : r \in Range(rows)}
             m == Cardinality(entities)
             order == SetToSeq(entities)
  <1>1. Len(rows) \in Nat /\ DOMAIN rows = 1..Len(rows)
        /\ \A i \in 1..Len(rows) : rows[i] \in Range(rows)
    BY DEF Range
  <1>2. IsFiniteSet(entities)
    <2> DEFINE f == [i \in 1..Len(rows) |-> Identity(rows[i], d)]
    <2>1. f \in Surjection(1..Len(rows), entities)
      BY <1>1 DEF Surjection, Range
    <2>2. IsFiniteSet(1..Len(rows))
      BY <1>1, FS_Interval
    <2> HIDE DEF f, entities
    <2>3. QED
      BY <2>1, <2>2, FS_Surjection
  <1>3. \A i \in 1..Len(rows) : Identity(rows[i], d) \in entities
    BY <1>1
  <1>4. GroupsOf(rows, d) =
          [k \in 1..Len(order) |->
             [entity |-> order[k], value |-> SumOf(Members(rows, d, order[k])),
              count |-> Len(Members(rows, d, order[k])), rows |-> Members(rows, d, order[k])]]
    BY Zenon DEF GroupsOf
  <1> HIDE DEF entities
  <1>5. order \in SetToSeqs(entities)
    BY <1>2, SequenceOfSet
  <1> HIDE DEF order
  <1>6. /\ m \in Nat /\ order \in [1..m -> entities]
        /\ \A i, j \in 1..m : order[i] = order[j] => i = j
        /\ \A x \in entities : \E i \in 1..m : order[i] = x
    BY <1>2, <1>5, Permutation
  <1> HIDE DEF m
  <1>7. Len(order) = m
    BY <1>6
  <1>8. GroupsOf(rows, d) =
          [k \in 1..m |->
             [entity |-> order[k], value |-> SumOf(Members(rows, d, order[k])),
              count |-> Len(Members(rows, d, order[k])), rows |-> Members(rows, d, order[k])]]
    BY <1>4, <1>7, Zenon
  <1>9. \A i \in 1..Len(rows) : \E k \in 1..m : order[k] = Identity(rows[i], d)
    BY <1>3, <1>6
  <1>10. AreGroups(GroupsOf(rows, d), rows, d, m, order)
    BY <1>6, <1>8, <1>9, Zenon DEF AreGroups
  <1>11. QED
    BY <1>10

\* One group: its value and its count are those of its rows.
LEMMA GroupOfPart ==
  ASSUME NEW d, NEW rows, rows \in Seq(Range(rows)),
         NEW v, \A i \in 1..Len(rows) : v[i] \in Int /\ v[i] = rows[i].value,
         NEW ones, \A i \in 1..Len(rows) : ones[i] = 1,
         NEW e
  PROVE  LET n == Len(rows)
             own == Members(rows, d, e)
         IN /\ SumOf(own) = SumTo(Masked(v, Part(rows, d, e), n), n)
            /\ Len(own) = SumTo(Masked(ones, Part(rows, d, e), n), n)
            /\ \A i \in Part(rows, d, e) : rows[i] \in Range(own)
  <1> DEFINE n == Len(rows)
             own == Members(rows, d, e)
             places == Part(rows, d, e)
             c == Cardinality(places)
  <1>1. n \in Nat /\ places \in SUBSET (1..n)
    BY DEF Part
  <1>2. own = Picked(rows, places)
    BY Zenon DEF Members, Part
  <1> HIDE DEF places, own, n
  <1>3. c \in Nat /\ Len(own) = c
    BY <1>1, <1>2, PickedShape
  <1>4. PICK p \in SetToSeqs(places) : own = [k \in 1..c |-> rows[p[k]]]
    BY <1>1, <1>2, PickedShape
  <1>5. /\ \A k \in 1..c : p[k] \in places
        /\ \A x \in places : \E k \in 1..c : p[k] = x
    <2>1. IsFiniteSet(1..n)
      BY <1>1, FS_Interval
    <2>2. IsFiniteSet(places)
      BY <1>1, <2>1, FS_Subset
    <2>3. QED
      BY <2>2, Permutation
  <1>6. \A i \in 1..n : v[i] \in Int /\ v[i] = rows[i].value /\ ones[i] = 1
    BY DEF n
  <1> HIDE DEF c
  <1>7. SumOf(own) = SumTo(Masked(v, places, n), n)
    <2> DEFINE q == Values(own)
    <2>1. /\ Len(q) = c /\ DOMAIN q = 1..c
          /\ \A k \in 1..c : q[k] = rows[p[k]].value
      BY <1>3, <1>4 DEF Values
    <2>2. SumOf(own) = FoldSeq(LAMBDA x, acc : x + acc, 0, q)
      BY Zenon DEF SumOf
    <2> HIDE DEF q
    <2>3. \A k \in 1..c : p[k] \in 1..n /\ q[k] = v[p[k]] /\ q[k] \in Int
      <3> SUFFICES ASSUME NEW k \in 1..c
                   PROVE  p[k] \in 1..n /\ q[k] = v[p[k]] /\ q[k] \in Int
        OBVIOUS
      <3>1. p[k] \in 1..n
        BY <1>1, <1>5
      <3>2. q[k] = rows[p[k]].value
        BY <2>1
      <3>3. v[p[k]] \in Int /\ v[p[k]] = rows[p[k]].value
        BY <1>6, <3>1
      <3>4. QED
        BY <3>1, <3>2, <3>3
    <2>4. FoldSeq(LAMBDA x, acc : x + acc, 0, q) = SumTo(q, Len(q))
      BY <1>3, <2>1, <2>3, FoldOfNumbers
    <2>5. SumTo(q, c) = SumTo(Masked(v, places, n), n)
      BY <1>1, <1>6, <2>3, SumOfSome DEF c
    <2>6. QED
      BY <2>1, <2>2, <2>4, <2>5, Zenon
  <1>8. c = SumTo(Masked(ones, places, n), n)
    <2> DEFINE q == [k \in 1..c |-> 1]
    <2>1. \A k \in 1..c : q[k] = 1 /\ q[k] = ones[p[k]]
      BY <1>1, <1>5, <1>6
    <2>2. \A i \in 1..n : ones[i] \in Int
      BY <1>6
    <2> HIDE DEF q
    <2>3. SumTo(q, c) = c
      BY <1>3, <2>1, SumOfOnes
    <2>4. SumTo(q, c) = SumTo(Masked(ones, places, n), n)
      BY <1>1, <2>1, <2>2, SumOfSome DEF c
    <2>5. QED
      BY <2>3, <2>4
  <1>9. \A i \in places : rows[i] \in Range(own)
    <2> SUFFICES ASSUME NEW i \in places
                 PROVE  rows[i] \in Range(own)
      OBVIOUS
    <2>1. PICK k \in 1..c : p[k] = i
      BY <1>5
    <2>2. k \in DOMAIN own /\ own[k] = rows[i]
      BY <1>4, <2>1
    <2>3. QED
      BY <2>2, Zenon DEF Range
  <1>10. QED
    BY <1>3, <1>7, <1>8, <1>9 DEF places, own, n

\* Every entity has one group, the groups have the sum and the number of the
\* rows, and every row is in the group of its entity.
Conserved(groups, rows, d) ==
  /\ \A i, j \in 1..Len(groups) : groups[i].entity = groups[j].entity => i = j
  /\ FoldSeq(LAMBDA r, acc : r.value + acc, 0, groups)
       = FoldSeq(LAMBDA r, acc : r.value + acc, 0, rows)
  /\ FoldSeq(LAMBDA g, acc : g.count + acc, 0, groups) = Len(rows)
  /\ \A r \in Range(rows) : \E g \in Range(groups) :
       r \in Range(g.rows) /\ g.entity = Identity(r, d)

LEMMA GroupsAreConserved ==
  ASSUME NEW d, NEW rows, rows \in Seq(Range(rows)), \A r \in Range(rows) : r.value \in Int
  PROVE  Conserved(GroupsOf(rows, d), rows, d)
  <1> DEFINE groups == GroupsOf(rows, d)
             n == Len(rows)
             v == [i \in 1..n |-> rows[i].value]
             ones == [i \in 1..n |-> 1]
  <1>1. PICK m, order : AreGroups(groups, rows, d, m, order)
    BY GroupsShape
  <1>2. /\ m \in Nat
        /\ \A k, l \in 1..m : order[k] = order[l] => k = l
        /\ \A i \in 1..n : \E k \in 1..m : order[k] = Identity(rows[i], d)
    BY <1>1 DEF AreGroups
  <1>3. /\ Len(groups) = m /\ DOMAIN groups = 1..m
        /\ \A k \in 1..m : /\ groups[k].entity = order[k]
                            /\ groups[k].value = SumOf(Members(rows, d, order[k]))
                            /\ groups[k].count = Len(Members(rows, d, order[k]))
                            /\ groups[k].rows = Members(rows, d, order[k])
    BY <1>1 DEF AreGroups
  <1>4. n \in Nat /\ DOMAIN rows = 1..n /\ \A i \in 1..n : rows[i] \in Range(rows)
    BY DEF Range
  <1>5. \A i \in 1..n : v[i] \in Int /\ v[i] = rows[i].value /\ ones[i] = 1 /\ ones[i] \in Int
    BY <1>4
  <1> DEFINE part == [k \in 1..m |-> Part(rows, d, order[k])]
  <1>6. ArePartsOf(part, m, n)
    BY <1>2 DEF Part, ArePartsOf
  <1> HIDE DEF v, ones
  <1>7. \A k \in 1..m :
          /\ groups[k].value = SumTo(Masked(v, part[k], n), n)
          /\ groups[k].count = SumTo(Masked(ones, part[k], n), n)
          /\ \A i \in part[k] : rows[i] \in Range(groups[k].rows)
    <2> SUFFICES ASSUME NEW k \in 1..m
                 PROVE  /\ groups[k].value = SumTo(Masked(v, part[k], n), n)
                        /\ groups[k].count = SumTo(Masked(ones, part[k], n), n)
                        /\ \A i \in part[k] : rows[i] \in Range(groups[k].rows)
      BY Zenon
    <2> DEFINE e == order[k]
    <2>1. part[k] = Part(rows, d, e)
      OBVIOUS
    <2>2. /\ groups[k].value = SumOf(Members(rows, d, e))
          /\ groups[k].count = Len(Members(rows, d, e)) /\ groups[k].rows = Members(rows, d, e)
      BY <1>3
    <2>3. /\ \A i \in 1..Len(rows) : v[i] \in Int /\ v[i] = rows[i].value
          /\ \A i \in 1..Len(rows) : ones[i] = 1
      BY <1>5
    <2> HIDE DEF e, part, groups, n
    <2>4. /\ SumOf(Members(rows, d, e)) = SumTo(Masked(v, Part(rows, d, e), n), n)
          /\ Len(Members(rows, d, e)) = SumTo(Masked(ones, Part(rows, d, e), n), n)
          /\ \A i \in Part(rows, d, e) : rows[i] \in Range(Members(rows, d, e))
      BY <2>3, GroupOfPart DEF n
    <2>5. QED
      BY <2>1, <2>2, <2>4, Zenon
  <1> HIDE DEF part, groups, n
  <1> DEFINE values == [k \in 1..m |-> groups[k].value]
             counts == [k \in 1..m |-> groups[k].count]
  <1>8. \A k \in 1..m :
          /\ values[k] \in Int /\ values[k] = groups[k].value
          /\ values[k] = SumTo(Masked(v, part[k], n), n)
          /\ counts[k] \in Int /\ counts[k] = groups[k].count
          /\ counts[k] = SumTo(Masked(ones, part[k], n), n)
    <2>1. \A t : SumTo(Masked(v, t, n), n) \in Int /\ SumTo(Masked(ones, t, n), n) \in Int
      <3> SUFFICES ASSUME NEW t
                   PROVE  SumTo(Masked(v, t, n), n) \in Int /\ SumTo(Masked(ones, t, n), n) \in Int
        OBVIOUS
      <3>1. \A i \in 1..n : Masked(v, t, n)[i] \in Int /\ Masked(ones, t, n)[i] \in Int
        BY <1>5 DEF Masked, n
      <3>2. QED
        BY <1>4, <3>1, SumType DEF n
    <2>2. QED
      BY <1>7, <2>1
  <1> HIDE DEF values, counts
  <1>9. /\ FoldSeq(LAMBDA r, acc : r.value + acc, 0, groups) = SumTo(values, m)
        /\ FoldSeq(LAMBDA g, acc : g.count + acc, 0, groups) = SumTo(counts, m)
    <2>1. FoldSeq(LAMBDA r, acc : r.value + acc, 0, groups) = SumTo(values, Len(groups))
      BY <1>2, <1>3, <1>8, FoldOfValues
    <2>2. FoldSeq(LAMBDA g, acc : g.count + acc, 0, groups) = SumTo(counts, Len(groups))
      BY <1>2, <1>3, <1>8, FoldOfCounts
    <2>3. QED
      BY <1>3, <2>1, <2>2, Zenon
  <1>10. FoldSeq(LAMBDA r, acc : r.value + acc, 0, rows) = SumTo(v, n)
    BY <1>4, <1>5, FoldOfValues DEF n
  <1>11. SumTo(values, m) = SumTo(v, n)
    <2>1. n \in Nat /\ \A i \in 1..n : v[i] \in Int
      BY <1>4, <1>5
    <2>2. \A k \in 1..m : values[k] = SumTo(Masked(v, part[k], n), n)
      BY <1>8
    <2>3. QED
      BY <1>2, <1>6, <2>1, <2>2, SumOfParts
  <1>12. SumTo(counts, m) = n
    <2>1. n \in Nat /\ \A i \in 1..n : ones[i] \in Int
      BY <1>4, <1>5
    <2>2. \A k \in 1..m : counts[k] = SumTo(Masked(ones, part[k], n), n)
      BY <1>8
    <2>3. SumTo(counts, m) = SumTo(ones, n)
      BY <1>2, <1>6, <2>1, <2>2, SumOfParts
    <2>4. SumTo(ones, n) = n
      BY <1>4, <1>5, SumOfOnes
    <2>5. QED
      BY <2>3, <2>4
  <1>13. \A i, j \in 1..Len(groups) : groups[i].entity = groups[j].entity => i = j
    BY <1>2, <1>3
  <1>14. ASSUME NEW r \in Range(rows)
         PROVE  \E g \in Range(groups) : r \in Range(g.rows) /\ g.entity = Identity(r, d)
    <2>1. PICK i \in 1..n : rows[i] = r
      BY <1>4 DEF Range, n
    <2>2. PICK k \in 1..m : order[k] = Identity(r, d)
      BY <1>2, <2>1 DEF n
    <2>3. i \in part[k]
      BY <2>1, <2>2 DEF part, Part, n
    <2>4. groups[k] \in Range(groups)
      BY <1>3 DEF Range
    <2>5. QED
      BY <1>3, <1>7, <2>1, <2>2, <2>3, <2>4
  <1>15. QED
    BY <1>9, <1>10, <1>11, <1>12, <1>13, <1>14, Zenon DEF Conserved, groups, n

\* What a row says its entity is: its key, if it has a key and a label, and
\* otherwise its key or the only geo object that one of its hints names.
Identifies(r, e) ==
  IF r.key # NoEntity /\ r.label # NoLabel THEN e = r.key
  ELSE e = r.key \/ \E hint \in Range(r.hints) : GeosNamed[hint] = {e}

LEMMA IdentityShape ==
  ASSUME NEW r, r.hints \in Seq(DOMAIN GeosNamed), NEW d
  PROVE  Identifies(r, Identity(r, d))
  <1>1. CASE ~IsResolved(r, d)
    BY <1>1 DEF Identity, Identifies
  <1>2. CASE IsResolved(r, d)
    <2> DEFINE n == SelectInSeq(r.hints, LAMBDA hint : GeosNamed[hint] # {})
               I == {i \in 1..Len(r.hints) : GeosNamed[r.hints[i]] # {}}
               e == Resolved(r, d)
    <2>1. Identity(r, d) = e /\ e # NoEntity /\ ~(r.key # NoEntity /\ r.label # NoLabel)
      BY <1>2 DEF Identity, IsResolved
    <2>2. n # 0 /\ GeosNamed[r.hints[n]] = {e}
      <3>1. n # 0 /\ \E g \in GeosNamed[r.hints[n]] : GeosNamed[r.hints[n]] = {g}
        BY <2>1, Zenon DEF Resolved
      <3>2. e = CHOOSE g \in GeosNamed[r.hints[n]] : TRUE
        BY <2>1, Zenon DEF Resolved
      <3> HIDE DEF n, e
      <3>3. QED
        BY <3>1, <3>2
    <2>3. n = IF I = {} THEN 0 ELSE Min(I)
      BY Zenon DEF SelectInSeq
    <2>4. I \in SUBSET Nat
      OBVIOUS
    <2> HIDE DEF e
    <2>5. n \in I
      BY <2>2, <2>3, <2>4, MinIsLeast
    <2>6. n \in 1..Len(r.hints) /\ DOMAIN r.hints = 1..Len(r.hints)
      BY <2>5
    <2> HIDE DEF n
    <2>7. r.hints[n] \in Range(r.hints)
      BY <2>6 DEF Range
    <2>8. QED
      BY <2>1, <2>2, <2>7 DEF Identifies
  <1>3. QED
    BY <1>1, <1>2

\* Grouping loses no row and counts none twice, for any rows of numbers, in any
\* order and under any labels (CanonicalGroupAggregator.aggregate): every row is a
\* member of the group of its entity and of no other, so that sums and counts over
\* the groups are those over the rows; and the entity is what the row says it is,
\* which of a row that lacks its key or its label may be in one of its hints only
\* (member_facts_from_rows, _resolve_group_row_entity).
THEOREM GroupsHold == Spec => []GroupsConserveRows
  <1>1. ASSUME CompositionInv, Groups(intent), outcome.kind = "success"
        PROVE  \E rows \in GroupSources(turn) :
                 /\ Conserved(outcome.facts, rows, Dimension)
                 /\ \A r \in Range(rows) : Identifies(r, Identity(r, Dimension))
    <2>1. outcome.native = <<>>
      BY <1>1 DEF CompositionInv, PlannedInv
    <2>2. PICK rows \in GroupSources(turn) : outcome.facts = GroupsOf(rows, Dimension)
      BY <1>1, <2>1 DEF CompositionInv, KeptInv
    <2>3. turn \in Turns
      BY <1>1 DEF CompositionInv, ExecutionInv
    <2>4. rows \in {a.rows : a \in GroupAnswers} \cup {t.reuse : t \in Turns}
      BY <2>2, <2>3 DEF GroupSources
    <2>5. /\ rows \in Seq(Range(rows))
          /\ \A r \in Range(rows) : r.value \in Int /\ r.hints \in Seq(DOMAIN GeosNamed)
      BY <2>4, GroupRowsAreLists
    <2>6. \A r \in Range(rows) : Identifies(r, Identity(r, Dimension))
      BY <2>5, IdentityShape
    <2>7. Conserved(GroupsOf(rows, Dimension), rows, Dimension)
      BY <2>5, GroupsAreConserved
    <2>8. QED
      BY <2>2, <2>6, <2>7
  <1>2. CompositionInv => GroupsConserveRows
    <2>1. SUFFICES ASSUME CompositionInv, Groups(intent), outcome.kind = "success"
                   PROVE  GroupsConserveRows
      BY DEF GroupsConserveRows
    <2>2. PICK rows \in GroupSources(turn) :
            /\ Conserved(outcome.facts, rows, Dimension)
            /\ \A r \in Range(rows) : Identifies(r, Identity(r, Dimension))
      BY <1>1, <2>1
    <2>3. \A r \in Range(rows) : \E g \in Range(outcome.facts) :
            r \in Range(g.rows) /\ Identifies(r, g.entity)
      BY <2>2 DEF Conserved
    <2>4. QED
      BY <2>2, <2>3, Zenon DEF GroupsConserveRows, Conserved, GroupSources, Identifies
  <1>3. QED
    BY <1>2, CompositionHolds, PTL
=============================================================================
