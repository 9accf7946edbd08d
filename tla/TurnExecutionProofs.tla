-------------------------- MODULE TurnExecutionProofs --------------------------
(***************************************************************************)
(* Theorems about TurnExecution, for any turns, any answers and any        *)
(* balance, whatever the number of tasks of a plan.                        *)
(***************************************************************************)
EXTENDS TurnExecution, IntentLemmas

-----------------------------------------------------------------------------
(* The turn *)

LEMMA NormalisedIsValid ==
  ASSUME NEW t \in Turns
  PROVE  IsIntent(Normalised(t)) /\ ValidShape(Normalised(t))
  BY IntentsAreValid, GroupingKeepsShape, ComparisonKeepsShape, ReductionKeepsShape
     DEF Normalised

-----------------------------------------------------------------------------
(* Tasks and their results *)

\* Tasks that ask the same get the same out of an answer, up to their names.
AnsweredAlike(r, s) ==
  /\ r.status = s.status
  /\ \A k \in 1..Len(r.fact) : r.fact[k].rows = s.fact[k].rows

LEMMA SameQuestionSameFact ==
  ASSUME NEW t, NEW u, t.scalar = u.scalar,
         NEW S, NEW a, a.rows \in Seq(S)
  PROVE  AnsweredAlike(TaskResult(t, a), TaskResult(u, a))
  <1> DEFINE r == TaskResult(t, a)
             s == TaskResult(u, a)
  <1>1. r.status = a.status /\ s.status = a.status
    BY DEF TaskResult
  <1>2. IsSeries(t) = IsSeries(u)
    BY DEF IsSeries
  <1>3. CASE ~Usable(a.status)
    BY <1>1, <1>3 DEF TaskResult, AnsweredAlike
  <1>4. CASE Usable(a.status) /\ IsSeries(t)
    <2>1. r.series = SeriesOf(t, a.rows) /\ s.series = SeriesOf(u, a.rows)
      BY <1>2, <1>4 DEF TaskResult
    <2>2. /\ Len(SeriesOf(t, a.rows)) = Len(a.rows) /\ Len(SeriesOf(u, a.rows)) = Len(a.rows)
          /\ \A k \in 1..Len(a.rows) : /\ SeriesOf(t, a.rows)[k].rows = <<a.rows[k]>>
                                       /\ SeriesOf(u, a.rows)[k].rows = <<a.rows[k]>>
      BY DEF SeriesOf, ScalarFact
    <2>3. CASE Len(a.rows) = 1
      <3>1. r.fact = SeriesOf(t, a.rows) /\ s.fact = SeriesOf(u, a.rows)
        BY <1>2, <1>4, <2>2, <2>3 DEF TaskResult
      <3>2. QED
        BY <1>1, <2>2, <3>1 DEF AnsweredAlike
    <2>4. CASE Len(a.rows) # 1
      <3>1. r.fact = <<>> /\ s.fact = <<>>
        BY <1>2, <1>4, <2>2, <2>4 DEF TaskResult
      <3>2. QED
        BY <1>1, <3>1 DEF AnsweredAlike
    <2>5. QED
      BY <2>3, <2>4
  <1>5. CASE Usable(a.status) /\ ~IsSeries(t)
    <2>1. r.fact = <<FactOf(t, a.rows)>> /\ s.fact = <<FactOf(u, a.rows)>>
      BY <1>2, <1>5 DEF TaskResult
    <2>2. FactOf(t, a.rows).rows = a.rows /\ FactOf(u, a.rows).rows = a.rows
      BY DEF FactOf, ScalarFact
    <2>3. QED
      BY <1>1, <2>1, <2>2 DEF AnsweredAlike
  <1>6. QED
    BY <1>3, <1>4, <1>5

\* A plan is never empty, and that of a grouping has one task, whose series is
\* not reduced.
LEMMA PlanHasTasks ==
  ASSUME NEW i, IsIntent(i), Plannable(i)
  PROVE  /\ Len(PlanOf(i).tasks) \in Nat /\ Len(PlanOf(i).tasks) > 0
         /\ PlanOf(i).operation = "group" =>
              Len(PlanOf(i).tasks) = 1 /\ PlanOf(i).tasks[1].reduce = "none"
  <1>0. ASSUME NEW tasks, NEW c
        PROVE  Composition(i, tasks, c).tasks = tasks
               /\ Composition(i, tasks, c).operation = i.operation
    BY DEF Composition
  <1>1. CASE i.operation = "group"
    <2> DEFINE tasks == SeriesTask(i, TaskId("group_source", 1), i.grain,
                                   i.grouping[1].agg, "none")
    <2>1. PlanOf(i) = Composition(i, tasks, <<>>)
      BY <1>1 DEF PlanOf, IsSeriesAggregation
    <2>2. Len(tasks) = 1 /\ tasks[1].reduce = "none"
      BY DEF SeriesTask, Task
    <2> HIDE DEF tasks
    <2>3. QED
      BY <1>0, <2>1, <2>2
  <1>2. CASE i.operation = "compare"
    <2>1. PlanOf(i) = Composition(i, OperandTasks(i, i.operands), Comparands(i))
      BY <1>2 DEF PlanOf, IsSeriesAggregation
    <2>2. Len(i.operands) \in Nat /\ Len(i.operands) >= 2
      BY <1>2 DEF Plannable, IsIntent, IsSeriesAggregation
    <2>3. Len(OperandTasks(i, i.operands)) = Len(i.operands)
      BY <2>2 DEF OperandTasks
    <2>4. QED
      BY <1>0, <1>2, <2>1, <2>2, <2>3
  <1>3. CASE i.operation = "compare_periods"
    <2>1. \E c : PlanOf(i) = Composition(i, PeriodTasks(i), c)
      BY <1>3 DEF PlanOf, IsSeriesAggregation
    <2>2. Len(i.periods) = 2
      BY <1>3 DEF Plannable, IsSeriesAggregation
    <2>3. Len(PeriodTasks(i)) = 2
      BY <2>2 DEF PeriodTasks
    <2>4. QED
      BY <1>0, <1>3, <2>1, <2>3
  <1>4. CASE i.operation = "calculate"
    <2>1. PlanOf(i) = Composition(i, OperandTasks(i, FormulaOperands(i)), <<>>)
      BY <1>4 DEF PlanOf, IsSeriesAggregation
    <2>2. Len(FormulaOperands(i)) = 2
      BY <1>4 DEF Plannable, IsSeriesAggregation
    <2>3. Len(OperandTasks(i, FormulaOperands(i))) = 2
      BY <2>2 DEF OperandTasks
    <2>4. QED
      BY <1>0, <1>4, <2>1, <2>3
  <1>5. CASE i.operation \notin {"group", "compare", "compare_periods", "calculate"}
    <2>1. ASSUME NEW id, NEW grain, NEW bucket, NEW reduce
          PROVE  Len(SeriesTask(i, id, grain, bucket, reduce)) = 1
      BY DEF SeriesTask
    <2>2. \E tasks : Len(tasks) = 1 /\ PlanOf(i) = Composition(i, tasks, <<>>)
      <3>1. CASE i.operation = "rank"
        BY <2>1, <3>1 DEF PlanOf, IsSeriesAggregation
      <3>2. CASE i.operation # "rank" /\ IsSeriesAggregation(i)
        BY <1>5, <2>1, <3>2 DEF PlanOf
      <3>3. CASE i.operation # "rank" /\ ~IsSeriesAggregation(i)
        <4> DEFINE task == Task(TaskId("task", 1), i.operands[1],
                                EffectivePeriods(i, i.operands[1]), i.operation, "none", "none")
        <4>1. PlanOf(i) = Composition(i, <<task>>, <<>>)
          BY <1>5, <3>3 DEF PlanOf
        <4> HIDE DEF task
        <4>2. QED
          BY <4>1
      <3>4. QED
        BY <3>1, <3>2, <3>3
    <2>3. QED
      BY <1>0, <1>5, <2>2
  <1>6. QED
    BY <1>1, <1>2, <1>3, <1>4, <1>5

-----------------------------------------------------------------------------
(* The inductive invariant *)

Stages == {"bound", "running", "composing", "level", "grouping", "done"}

\* Before a task is executed there is no result, no answer and no query.
NothingYet ==
  stage \in {"bound", "level", "grouping"} =>
    /\ results = <<>> /\ cache = <<>> /\ calls = <<>>

\* No query is sent twice; the cache holds answers to queries that were sent, and
\* while tasks run every query was sent for the cache.
CallsInv ==
  /\ calls \in Seq(Range(calls))
  /\ \A i, j \in 1..Len(calls) : calls[i] = calls[j] => i = j
  /\ \A q \in DOMAIN cache : cache[q] \in Answers /\ ScalarCall(q) \in Range(calls)
  /\ stage \in {"running", "composing"} =>
       \A i \in 1..Len(calls) : \E q \in DOMAIN cache : calls[i] = ScalarCall(q)

\* A result is its task's reading of the answer cached for its question.
ResultsInv ==
  /\ results \in Seq(Range(results))
  /\ \A i \in 1..Len(results) :
       /\ plan.tasks[i].scalar \in DOMAIN cache
       /\ results[i] = TaskResult(plan.tasks[i], cache[plan.tasks[i].scalar])

\* A running plan has a task left; a grouping in time has one task at all.
PlanInv ==
  /\ Len(plan.tasks) \in Nat
  /\ Len(results) <= Len(plan.tasks)
  /\ stage = "running" => Len(results) < Len(plan.tasks)
  /\ plan.operation = "group" =>
       /\ Len(plan.tasks) <= 1
       /\ \A i \in 1..Len(plan.tasks) : plan.tasks[i].reduce = "none"

\* A composed outcome is that of the plan and its results.
OutcomeInv ==
  /\ outcome.kind \in Kinds
  /\ (outcome.kind = "none") = (stage # "done")
  /\ outcome.kind # "success" => outcome.facts = <<>> /\ outcome.memory = <<>>
  /\ outcome.native # <<>> =>
       /\ Failed(results) \/ Composable(plan, results)
       /\ outcome.native = <<Composed(plan, results)>>
       /\ outcome.kind = OutcomeOf(Composed(plan, results).status)

ExecutionInv ==
  /\ turn \in Turns
  /\ stage \in Stages
  /\ ValidShape(intent)
  /\ NothingYet
  /\ CallsInv
  /\ ResultsInv
  /\ PlanInv
  /\ OutcomeInv

-----------------------------------------------------------------------------
(* Outcomes *)

LEMMA WhatIsReturned ==
  ASSUME NEW status, NEW facts, NEW native, NEW remembers
  PROVE  LET o == Returned(status, facts, native, remembers)
         IN /\ o.kind = OutcomeOf(status)
            /\ o.kind \in Kinds \ {"none"}
            /\ o.kind # "success" => o.facts = <<>> /\ o.memory = <<>>
            /\ o.native = native
  BY DEF Returned, OutcomeOf, Kinds

LEMMA WhatIsRaised ==
  ASSUME NEW code
  PROVE  LET o == Raised(code)
         IN /\ o.kind \in Kinds \ {"none"}
            /\ o.facts = <<>> /\ o.memory = <<>> /\ o.native = <<>>
  BY DEF Raised, NotYet, Kinds

-----------------------------------------------------------------------------
(* The invariant is inductive *)

LEMMA InitEstablishes ==
  ASSUME Init
  PROVE  ExecutionInv
  <1>1. turn \in Turns /\ stage = "bound" /\ intent = turn.intent /\ plan = NoPlan
        /\ results = <<>> /\ cache = <<>> /\ calls = <<>> /\ outcome = NotYet
    BY DEF Init
  <1>2. ValidShape(intent)
    BY <1>1, IntentsAreValid
  <1>3. CallsInv
    <2>1. <<>> \in Seq(Range(<<>>)) /\ Len(<<>>) = 0 /\ DOMAIN <<>> = {}
      OBVIOUS
    <2>2. QED
      BY <1>1, <2>1 DEF CallsInv
  <1>4. ResultsInv
    <2>1. <<>> \in Seq(Range(<<>>)) /\ Len(<<>>) = 0
      OBVIOUS
    <2>2. QED
      BY <1>1, <2>1 DEF ResultsInv
  <1>5. PlanInv
    <2>1. Len(plan.tasks) = 0 /\ Len(results) = 0
      BY <1>1 DEF NoPlan
    <2>2. QED
      BY <1>1, <2>1 DEF PlanInv
  <1>6. OutcomeInv
    BY <1>1 DEF OutcomeInv, NotYet, Kinds
  <1>7. QED
    BY <1>1, <1>2, <1>3, <1>4, <1>5, <1>6 DEF ExecutionInv, Stages, NothingYet

LEMMA StutterKeeps ==
  ASSUME ExecutionInv, UNCHANGED vars
  PROVE  ExecutionInv'
  BY DEF ExecutionInv, vars, NothingYet, CallsInv, ResultsInv, PlanInv, OutcomeInv

\* A turn that ends with nothing composed, having sent one query more at most.
LEMMA EndKeeps ==
  ASSUME ExecutionInv, NEW o, End(o),
         o.kind \in Kinds \ {"none"},
         o.kind # "success" => o.facts = <<>> /\ o.memory = <<>>,
         o.native = <<>>,
         UNCHANGED <<turn, plan, results, cache>>, ValidShape(intent'),
         \/ UNCHANGED calls
         \/ stage \in {"level", "grouping"} /\ \E c : calls' = Append(calls, c)
  PROVE  ExecutionInv'
  <1>1. stage' = "done" /\ outcome' = o
    BY DEF End
  <1>2. CallsInv'
    <2>1. CASE UNCHANGED calls
      BY <1>1, <2>1 DEF ExecutionInv, CallsInv
    <2>2. CASE stage \in {"level", "grouping"} /\ \E c : calls' = Append(calls, c)
      <3>1. PICK c : calls' = Append(calls, c)
        BY <2>2
      <3>2. calls = <<>> /\ DOMAIN cache = {}
        BY <2>2 DEF ExecutionInv, NothingYet
      <3>3. calls' \in Seq(Range(calls')) /\ Len(calls') = 1
        <4>1. calls \in Seq(Range(calls)) /\ Len(calls) = 0
          BY <3>2 DEF ExecutionInv, CallsInv
        <4>2. calls' \in Seq(Range(calls')) /\ Len(calls') = Len(calls) + 1
          BY <3>1, <4>1, OneMore, Zenon
        <4>3. QED
          BY <4>1, <4>2
      <3>4. QED
        BY <1>1, <3>2, <3>3 DEF CallsInv
    <2>3. QED
      BY <2>1, <2>2
  <1>3. ResultsInv'
    BY DEF ExecutionInv, ResultsInv
  <1>4. PlanInv'
    BY <1>1 DEF ExecutionInv, PlanInv
  <1>5. OutcomeInv'
    BY <1>1 DEF OutcomeInv, Kinds
  <1>6. QED
    BY <1>1, <1>2, <1>3, <1>4, <1>5 DEF ExecutionInv, Stages, NothingYet

LEMMA RefusalsKeep ==
  ASSUME ExecutionInv, NEW code, Refuse(code)
  PROVE  ExecutionInv'
  <1>1. ValidShape(intent')
    BY NormalisedIsValid DEF ExecutionInv, Refuse
  <1>2. QED
    BY <1>1, EndKeeps, WhatIsRaised DEF Refuse

LEMMA AdmitKeeps ==
  ASSUME ExecutionInv, Admit
  PROVE  ExecutionInv'
  <1>1. /\ stage = "bound" /\ stage' \in {"grouping", "level", "running"}
        /\ intent' = Normalised(turn)
        /\ UNCHANGED <<turn, results, cache, calls, outcome>>
    BY DEF Admit
  <1>2. IsIntent(intent') /\ ValidShape(intent')
    BY <1>1, NormalisedIsValid DEF ExecutionInv
  <1>3. results = <<>> /\ cache = <<>> /\ calls = <<>>
    BY <1>1 DEF ExecutionInv, NothingYet
  <1>4. CallsInv'
    <2>1. calls \in Seq(Range(calls)) /\ Len(calls) = 0 /\ DOMAIN cache = {}
      BY <1>3 DEF ExecutionInv, CallsInv
    <2>2. QED
      BY <1>1, <2>1 DEF CallsInv
  <1>5. ResultsInv'
    <2>1. results \in Seq(Range(results)) /\ Len(results) = 0
      BY <1>3 DEF ExecutionInv, ResultsInv
    <2>2. QED
      BY <1>1, <2>1 DEF ResultsInv
  <1>6. PlanInv'
    <2>1. CASE Groups(intent')
      <3>1. UNCHANGED plan /\ stage' = "grouping"
        BY <2>1 DEF Admit
      <3>2. QED
        BY <1>1, <3>1 DEF ExecutionInv, PlanInv
    <2>2. CASE ~Groups(intent')
      <3>1. Plannable(intent') /\ plan' = PlanOf(intent')
        BY <2>2 DEF Admit
      <3>2. /\ Len(plan'.tasks) \in Nat /\ Len(plan'.tasks) > 0
            /\ plan'.operation = "group" =>
                 Len(plan'.tasks) = 1 /\ plan'.tasks[1].reduce = "none"
        BY <1>2, <3>1, PlanHasTasks
      <3>3. Len(results') = 0
        BY <1>1, <1>3
      <3>4. QED
        <4> DEFINE n == Len(plan'.tasks)
                   r == Len(results')
        <4>1. /\ n \in Nat /\ n > 0 /\ r = 0
              /\ plan'.operation = "group" => n = 1 /\ plan'.tasks[1].reduce = "none"
          BY <3>2, <3>3, Zenon
        <4> HIDE DEF n, r
        <4>2. r <= n /\ r < n /\ (plan'.operation = "group" => n <= 1)
          BY <4>1
        <4>3. ASSUME plan'.operation = "group", NEW k \in 1..n
              PROVE  plan'.tasks[k].reduce = "none"
          <5>1. k = 1
            BY <4>1, <4>3
          <5>2. QED
            BY <4>1, <4>3, <5>1
        <4>4. QED
          BY <4>1, <4>2, <4>3, Zenon DEF PlanInv, n, r
    <2>3. QED
      BY <2>1, <2>2
  <1>7. OutcomeInv'
    <2>1. outcome.kind = "none"
      BY <1>1 DEF ExecutionInv, OutcomeInv
    <2>2. outcome.native = <<>>
      BY <2>1 DEF ExecutionInv, OutcomeInv, OutcomeOf
    <2>3. QED
      BY <1>1, <2>1, <2>2 DEF ExecutionInv, OutcomeInv
  <1>8. QED
    BY <1>1, <1>2, <1>3, <1>4, <1>5, <1>6, <1>7 DEF ExecutionInv, Stages, NothingYet

\* A task that takes its answer from the cache, once the answer is in it.
LEMMA TakeKeeps ==
  ASSUME ExecutionInv, stage = "running", NEW answer, Take(answer),
         UNCHANGED <<turn, intent, plan>>,
         \A q \in DOMAIN cache : q \in DOMAIN cache' /\ cache'[q] = cache[q],
         NextTask.scalar \in DOMAIN cache', cache'[NextTask.scalar] = answer,
         CallsInv'
  PROVE  ExecutionInv'
  <1>1. Len(results) \in Nat /\ results \in Seq(Range(results))
    BY DEF ExecutionInv, ResultsInv
  <1>2. Len(plan.tasks) \in Nat /\ Len(results) < Len(plan.tasks)
    BY DEF ExecutionInv, PlanInv
  <1>3. outcome.kind = "none" /\ outcome.native = <<>>
    BY DEF ExecutionInv, OutcomeInv, OutcomeOf
  <1>4. CASE ~Readable(NextTask, answer)
    <2>1. End(Raised("turn_processing_failed")) /\ UNCHANGED results
      BY <1>4 DEF Take
    <2>2. stage' = "done" /\ outcome' = Raised("turn_processing_failed")
      BY <2>1 DEF End
    <2>3. ResultsInv'
      BY <2>1 DEF ExecutionInv, ResultsInv
    <2>4. PlanInv'
      BY <2>1, <2>2 DEF ExecutionInv, PlanInv
    <2>5. OutcomeInv'
      BY <2>2, WhatIsRaised DEF OutcomeInv, Kinds
    <2>6. QED
      BY <2>2, <2>3, <2>4, <2>5 DEF ExecutionInv, Stages, NothingYet
  <1>5. CASE Readable(NextTask, answer)
    <2>1. /\ results' = Append(results, TaskResult(NextTask, answer))
          /\ stage' = IF Len(results) + 1 = Len(plan.tasks) THEN "composing" ELSE "running"
          /\ UNCHANGED outcome
      BY <1>5 DEF Take
    <2>2. /\ results' \in Seq(Range(results')) /\ Len(results') = Len(results) + 1
          /\ results'[Len(results) + 1] = TaskResult(NextTask, answer)
          /\ \A k \in 1..Len(results) : results'[k] = results[k]
      <3> DEFINE r == TaskResult(NextTask, answer)
      <3>1. results' = Append(results, r)
        BY <2>1
      <3> HIDE DEF r
      <3>2. results' \in Seq(Range(results')) /\ Len(results') = Len(results) + 1
        BY <1>1, <3>1, OneMore
      <3>3. results'[Len(results) + 1] = r
        BY <1>1, <3>1, OneMore
      <3>4. \A k \in 1..Len(results) : results'[k] = results[k]
        BY <1>1, <3>1, OneMore
      <3>5. QED
        BY <3>2, <3>3, <3>4 DEF r
    <2>3. ResultsInv'
      <3>1. ASSUME NEW k \in 1..Len(results')
            PROVE  /\ plan.tasks[k].scalar \in DOMAIN cache'
                   /\ results'[k] = TaskResult(plan.tasks[k], cache'[plan.tasks[k].scalar])
        <4>1. CASE k \in 1..Len(results)
          BY <2>2, <4>1 DEF ExecutionInv, ResultsInv
        <4>2. CASE k = Len(results) + 1
          BY <2>2, <4>2 DEF NextTask
        <4>3. QED
          BY <1>1, <2>2, <4>1, <4>2
      <3>2. QED
        BY <2>2, <3>1 DEF ResultsInv
    <2>4. PlanInv'
      <3>1. Len(results') <= Len(plan.tasks)
        BY <1>1, <1>2, <2>2
      <3>2. stage' = "running" => Len(results') < Len(plan.tasks)
        BY <1>1, <1>2, <2>1, <2>2
      <3>3. QED
        BY <3>1, <3>2 DEF ExecutionInv, PlanInv
    <2>5. OutcomeInv'
      <3>1. stage' # "done"
        BY <2>1
      <3>2. QED
        BY <1>3, <2>1, <3>1 DEF ExecutionInv, OutcomeInv
    <2>6. QED
      BY <2>1, <2>3, <2>4, <2>5 DEF ExecutionInv, Stages, NothingYet
  <1>6. QED
    BY <1>4, <1>5

LEMMA QueryKeeps ==
  ASSUME ExecutionInv, Query
  PROVE  ExecutionInv'
  <1> DEFINE q == NextTask.scalar
  <1>1. PICK answer \in Answers :
          /\ cache' = [k \in DOMAIN cache \cup {q} |-> IF k = q THEN answer ELSE cache[k]]
          /\ calls' = Append(calls, ScalarCall(q))
          /\ Take(answer)
    BY DEF Query, CacheKey
  <1>2. stage = "running" /\ q \notin DOMAIN cache /\ UNCHANGED <<turn, intent, plan>>
    BY DEF Query, CacheKey
  <1> HIDE DEF q
  <1>3. /\ DOMAIN cache' = DOMAIN cache \cup {q} /\ cache'[q] = answer
        /\ \A k \in DOMAIN cache : cache'[k] = cache[k]
    BY <1>1, <1>2
  <1>4. CallsInv'
    <2>1. calls \in Seq(Range(calls)) /\ Len(calls) \in Nat
      BY DEF ExecutionInv, CallsInv
    <2>2. /\ calls' \in Seq(Range(calls')) /\ Len(calls') = Len(calls) + 1
          /\ calls'[Len(calls) + 1] = ScalarCall(q)
          /\ \A k \in 1..Len(calls) : calls'[k] = calls[k]
          /\ ScalarCall(q) \in Range(calls') /\ Range(calls) \subseteq Range(calls')
      <3> DEFINE c == ScalarCall(q)
      <3>1. calls' = Append(calls, c)
        BY <1>1
      <3> HIDE DEF c
      <3>2. calls' \in Seq(Range(calls')) /\ Len(calls') = Len(calls) + 1
        BY <2>1, <3>1, OneMore
      <3>3. calls'[Len(calls) + 1] = c
        BY <2>1, <3>1, OneMore
      <3>4. \A k \in 1..Len(calls) : calls'[k] = calls[k]
        BY <2>1, <3>1, OneMore
      <3>5. c \in Range(calls') /\ Range(calls) \subseteq Range(calls')
        BY <2>1, <3>1, OneMore
      <3>6. QED
        BY <3>2, <3>3, <3>4, <3>5 DEF c
    <2>3. ASSUME NEW k \in 1..Len(calls)
          PROVE  calls[k] # ScalarCall(q) /\ \E p \in DOMAIN cache : calls[k] = ScalarCall(p)
      <3>1. PICK p \in DOMAIN cache : calls[k] = ScalarCall(p)
        BY <1>2 DEF ExecutionInv, CallsInv
      <3>2. p # q
        BY <1>2
      <3>3. ScalarCall(p) # ScalarCall(q)
        BY <3>2 DEF ScalarCall
      <3>4. QED
        BY <3>1, <3>3
    <2>4. ASSUME NEW i \in 1..Len(calls'), NEW j \in 1..Len(calls'), calls'[i] = calls'[j]
          PROVE  i = j
      <3>1. CASE i \in 1..Len(calls) /\ j \in 1..Len(calls)
        BY <2>2, <2>4, <3>1 DEF ExecutionInv, CallsInv
      <3>2. CASE i = Len(calls) + 1 /\ j \in 1..Len(calls)
        BY <2>2, <2>3, <2>4, <3>2
      <3>3. CASE i \in 1..Len(calls) /\ j = Len(calls) + 1
        BY <2>2, <2>3, <2>4, <3>3
      <3>4. QED
        BY <2>1, <2>2, <3>1, <3>2, <3>3
    <2>5. \A k \in DOMAIN cache' : cache'[k] \in Answers /\ ScalarCall(k) \in Range(calls')
      BY <1>3, <2>2 DEF ExecutionInv, CallsInv
    <2>6. \A k \in 1..Len(calls') : \E p \in DOMAIN cache' : calls'[k] = ScalarCall(p)
      <3>1. ASSUME NEW k \in 1..Len(calls')
            PROVE  \E p \in DOMAIN cache' : calls'[k] = ScalarCall(p)
        <4>1. CASE k \in 1..Len(calls)
          BY <1>3, <2>2, <2>3, <4>1
        <4>2. CASE k = Len(calls) + 1
          BY <1>3, <2>2, <4>2
        <4>3. QED
          BY <2>1, <2>2, <4>1, <4>2
      <3>2. QED
        BY <3>1
    <2>7. QED
      BY <2>2, <2>4, <2>5, <2>6 DEF CallsInv
  <1>5. QED
    BY <1>1, <1>2, <1>3, <1>4, TakeKeeps DEF q

LEMMA ReuseKeeps ==
  ASSUME ExecutionInv, Reuse
  PROVE  ExecutionInv'
  <1>1. /\ stage = "running" /\ NextTask.scalar \in DOMAIN cache
        /\ Take(cache[NextTask.scalar])
        /\ UNCHANGED <<turn, intent, plan, cache, calls>>
    BY DEF Reuse, CacheKey
  <1>2. CallsInv'
    BY <1>1 DEF ExecutionInv, CallsInv
  <1>3. QED
    BY <1>1, <1>2, TakeKeeps

LEMMA ComposeKeeps ==
  ASSUME ExecutionInv, Compose
  PROVE  ExecutionInv'
  <1>1. UNCHANGED <<turn, intent, plan, results, cache, calls>> /\ ValidShape(intent')
    BY DEF ExecutionInv, Compose
  <1>2. CASE ~(Failed(results) \/ Composable(plan, results))
    <2>1. End(Raised("turn_processing_failed"))
      BY <1>2 DEF Compose
    <2>2. QED
      BY <1>1, <2>1, EndKeeps, WhatIsRaised
  <1>3. CASE Failed(results) \/ Composable(plan, results)
    <2> DEFINE native == Composed(plan, results)
    <2>1. PICK facts, remembers :
            End(Returned(native.status, facts, <<native>>, remembers))
      BY <1>3 DEF Compose
    <2> DEFINE o == Returned(native.status, facts, <<native>>, remembers)
    <2>2. stage' = "done" /\ outcome' = o
      BY <2>1 DEF End
    <2>3. /\ o.kind = OutcomeOf(native.status) /\ o.kind \in Kinds \ {"none"}
          /\ o.kind # "success" => o.facts = <<>> /\ o.memory = <<>>
          /\ o.native = <<native>>
      BY WhatIsReturned
    <2> HIDE DEF o
    <2>4. OutcomeInv'
      BY <1>1, <1>3, <2>2, <2>3 DEF OutcomeInv
    <2>5. CallsInv'
      BY <1>1, <2>2 DEF ExecutionInv, CallsInv
    <2>6. ResultsInv'
      BY <1>1 DEF ExecutionInv, ResultsInv
    <2>7. PlanInv'
      BY <1>1, <2>2 DEF ExecutionInv, PlanInv
    <2>8. QED
      BY <1>1, <2>2, <2>4, <2>5, <2>6, <2>7 DEF ExecutionInv, Stages, NothingYet
  <1>4. QED
    BY <1>2, <1>3

\* Turns about a whole daily balance, and grouping turns.
LEMMA WholeAnswersKeep ==
  ASSUME ExecutionInv,
         ShowLevel \/ ShowLevelFails \/ Regroup \/ QueryGroups \/ QueryGroupsFails
  PROVE  ExecutionInv'
  <1>1. ASSUME NEW answer, NEW d
        PROVE  /\ Grouped(answer, d).kind \in Kinds \ {"none"}
               /\ Grouped(answer, d).kind # "success" =>
                    Grouped(answer, d).facts = <<>> /\ Grouped(answer, d).memory = <<>>
               /\ Grouped(answer, d).native = <<>>
    BY WhatIsReturned, WhatIsRaised DEF Grouped
  <1>2. ValidShape(intent)
    BY DEF ExecutionInv
  <1>3. CASE ShowLevel
    <2>1. PICK status, facts, remembers : End(Returned(status, facts, <<>>, remembers))
      BY <1>3 DEF ShowLevel
    <2>2. stage = "level" /\ UNCHANGED <<turn, intent, plan, results, cache>>
      BY <1>3 DEF ShowLevel
    <2>3. UNCHANGED calls \/ \E c : calls' = Append(calls, c)
      BY <1>3 DEF ShowLevel
    <2>4. QED
      BY <1>2, <2>1, <2>2, <2>3, EndKeeps, WhatIsReturned
  <1>4. CASE ShowLevelFails
    <2>1. End(Raised("balance_level_execution_failed"))
          /\ UNCHANGED <<turn, intent, plan, results, cache, calls>>
      BY <1>4 DEF ShowLevelFails
    <2>2. QED
      BY <1>2, <2>1, EndKeeps, WhatIsRaised
  <1>5. CASE Regroup
    <2>1. PICK answer : End(Grouped(answer, Dimension))
      BY <1>5 DEF Regroup
    <2>2. UNCHANGED <<turn, intent, plan, results, cache, calls>>
      BY <1>5 DEF Regroup
    <2>3. QED
      BY <1>1, <1>2, <2>1, <2>2, EndKeeps
  <1>6. CASE QueryGroups
    <2>1. PICK answer : End(Grouped(answer, Dimension))
      BY <1>6 DEF QueryGroups
    <2>2. /\ stage = "grouping" /\ UNCHANGED <<turn, intent, plan, results, cache>>
          /\ calls' = Append(calls, WholeCall)
      BY <1>6 DEF QueryGroups
    <2>3. QED
      BY <1>1, <1>2, <2>1, <2>2, EndKeeps
  <1>7. CASE QueryGroupsFails
    <2>1. End(Raised("turn_failed")) /\ UNCHANGED <<turn, intent, plan, results, cache, calls>>
      BY <1>7 DEF QueryGroupsFails
    <2>2. QED
      BY <1>2, <2>1, EndKeeps, WhatIsRaised
  <1>8. QED
    BY <1>3, <1>4, <1>5, <1>6, <1>7

LEMMA StepKeeps ==
  ASSUME ExecutionInv, [Next]_vars
  PROVE  ExecutionInv'
  <1>1. CASE RefuseEvidence \/ RefusePlan \/ RefuseGrouping
    <2>1. \E code : Refuse(code)
      BY <1>1 DEF RefuseEvidence, RefusePlan, RefuseGrouping
    <2>2. QED
      BY <2>1, RefusalsKeep
  <1>2. CASE Admit
    BY <1>2, AdmitKeeps
  <1>3. CASE Query
    BY <1>3, QueryKeeps
  <1>4. CASE Reuse
    BY <1>4, ReuseKeeps
  <1>5. CASE QueryFails
    <2>1. End(Raised("turn_processing_failed"))
          /\ UNCHANGED <<turn, intent, plan, results, cache, calls>>
      BY <1>5 DEF QueryFails
    <2>2. ValidShape(intent')
      BY <2>1 DEF ExecutionInv
    <2>3. QED
      BY <2>1, <2>2, EndKeeps, WhatIsRaised
  <1>6. CASE Compose
    BY <1>6, ComposeKeeps
  <1>7. CASE ShowLevel \/ ShowLevelFails \/ Regroup \/ QueryGroups \/ QueryGroupsFails
    BY <1>7, WholeAnswersKeep
  <1>8. CASE UNCHANGED vars
    BY <1>8, StutterKeeps
  <1>9. QED
    BY <1>1, <1>2, <1>3, <1>4, <1>5, <1>6, <1>7, <1>8 DEF Next

LEMMA InvariantHolds == Spec => []ExecutionInv
  BY InitEstablishes, StepKeeps, PTL DEF Spec

-----------------------------------------------------------------------------
(* Theorems *)

\* Every variable keeps its type, and the intent that is executed is as valid as
\* the one that was bound: the normalisations of _execute_mutation, which are
\* not validated, never make it illegal.
THEOREM TypeCorrect == Spec => []TypeOK
  <1>1. ASSUME ExecutionInv
        PROVE  TypeOK
    <2>1. turn \in Turns /\ ValidShape(intent) /\ stage \in Stages
      BY <1>1 DEF ExecutionInv
    <2>2. Len(results) <= Len(plan.tasks)
      BY <1>1 DEF ExecutionInv, PlanInv
    <2>3. \A i \in 1..Len(results) : results[i].id = plan.tasks[i].id
      <3>1. \A t, a : TaskResult(t, a).id = t.id
        BY Zenon DEF TaskResult
      <3>2. QED
        BY <1>1, <3>1, Zenon DEF ExecutionInv, ResultsInv
    <2>4. Range(cache) \subseteq Answers
      BY <1>1 DEF ExecutionInv, CallsInv, Range
    <2>5. outcome.kind \in Kinds /\ (outcome.kind = "none") = (stage # "done")
      BY <1>1 DEF ExecutionInv, OutcomeInv
    <2>6. QED
      BY <2>1, <2>2, <2>3, <2>4, <2>5 DEF TypeOK, Stages
  <1>2. QED
    BY <1>1, InvariantHolds, PTL

\* For any plan, no query is repeated within a turn and tasks that ask the same
\* question are answered alike, although the key of the cache leaves out the
\* operand (NativeExecutor.execute).
THEOREM QuestionsHold == Spec => []EachQuestionOnce
  <1>1. ASSUME ExecutionInv
        PROVE  EachQuestionOnce
    <2>1. \A i, j \in 1..Len(calls) : calls[i] = calls[j] => i = j
      BY <1>1 DEF ExecutionInv, CallsInv
    <2>2. \A i \in 1..Len(results) :
            /\ plan.tasks[i].scalar \in DOMAIN cache
            /\ results[i] = TaskResult(plan.tasks[i], cache[plan.tasks[i].scalar])
      BY <1>1 DEF ExecutionInv, ResultsInv
    <2>3. \A q \in DOMAIN cache : cache[q] \in Answers /\ ScalarCall(q) \in Range(calls)
      BY <1>1 DEF ExecutionInv, CallsInv
    <2>4. ASSUME NEW i \in 1..Len(results), NEW j \in 1..Len(results),
                 plan.tasks[i].scalar = plan.tasks[j].scalar
          PROVE  /\ results[i].status = results[j].status
                 /\ \A k \in 1..Len(results[i].fact) :
                      results[i].fact[k].rows = results[j].fact[k].rows
      <3> DEFINE a == cache[plan.tasks[i].scalar]
                 R == [key : Int, day : Seq(Nat), to : Seq(Nat), value : Int]
      <3>1. a \in Answers
        BY <2>2, <2>3
      <3>2. a.rows \in Seq(R)
        BY <3>1, RowsAreLists
      <3>3. results[i] = TaskResult(plan.tasks[i], a) /\ results[j] = TaskResult(plan.tasks[j], a)
        BY <2>2, <2>4
      <3> HIDE DEF a, R
      <3>4. AnsweredAlike(TaskResult(plan.tasks[i], a), TaskResult(plan.tasks[j], a))
        BY <2>4, <3>2, SameQuestionSameFact, Zenon
      <3>5. AnsweredAlike(results[i], results[j])
        BY <3>3, <3>4, Zenon
      <3>6. QED
        BY <3>5, Zenon DEF AnsweredAlike
    <2>5. QED
      BY <2>1, <2>2, <2>3, <2>4 DEF EachQuestionOnce
  <1>2. QED
    BY <1>1, InvariantHolds, PTL

LEMMA AllOrNothing ==
  ASSUME ExecutionInv
  PROVE  AllTasksOrNothing
  <1>1. outcome.kind # "success" => outcome.facts = <<>> /\ outcome.memory = <<>>
    BY DEF ExecutionInv, OutcomeInv
  <1> DEFINE n == Composed(plan, results)
             done == Completed(plan, results)
  <1>2. ASSUME outcome.native # <<>>
        PROVE  /\ outcome.native[1] = n /\ outcome.kind = OutcomeOf(n.status)
               /\ Failed(results) \/ Composable(plan, results)
    BY <1>2 DEF ExecutionInv, OutcomeInv
  <1>3. ASSUME Failed(results)
        PROVE  /\ n.status \in {"no_data", "error"}
               /\ n.comparison = <<>> /\ n.members = <<>>
               /\ n.derived = <<>> /\ n.ranking = <<>>
               /\ OutcomeOf(n.status) # "success"
    <2>1. n = Native(FailureStatus(results), results, <<>>, <<>>, <<>>, <<>>)
      BY <1>3 DEF Composed
    <2>2. FailureStatus(results) \in {"no_data", "error"}
      BY DEF FailureStatus
    <2>3. n.status = FailureStatus(results)
      BY <2>1 DEF Native
    <2>4. /\ n.comparison = <<>> /\ n.members = <<>>
          /\ n.derived = <<>> /\ n.ranking = <<>>
      BY <2>1 DEF Native
    <2>5. \A s \in {"no_data", "error"} : OutcomeOf(s) # "success"
      BY DEF OutcomeOf, Usable
    <2> HIDE DEF n
    <2>6. QED
      BY <2>2, <2>3, <2>4, <2>5
  <1>4. ASSUME ~Failed(results), Composable(plan, results),
               OutcomeOf(n.status) = "success", NEW i \in 1..Len(results),
               n.results[i].fact = <<>>
        PROVE  n.results[i].series # <<>>
    <2>1. n.results = done
      BY <1>4 DEF Composed, Native
    <2>2. CASE plan.operation # "group"
      <3>1. done[i] \in Range(done)
        BY <1>4 DEF Completed, Range
      <3>2. done[i].fact # <<>>
        BY <1>4, <2>2, <3>1 DEF Composable
      <3>3. QED
        BY <1>4, <2>1, <3>2
    <2>3. CASE plan.operation = "group"
      <3>1. n.status = IF results[1].series # <<>> THEN "ok" ELSE "no_data"
        BY <1>4, <2>3 DEF Composed, Native
      <3>2. results[1].series # <<>>
        BY <1>4, <3>1 DEF OutcomeOf, Usable
      <3>3. i = 1 /\ plan.tasks[1].reduce = "none"
        <4>1. /\ Len(results) \in Nat /\ Len(plan.tasks) \in Nat
              /\ Len(results) <= Len(plan.tasks) /\ Len(plan.tasks) <= 1
              /\ \A k \in 1..Len(plan.tasks) : plan.tasks[k].reduce = "none"
          BY <2>3 DEF ExecutionInv, PlanInv, ResultsInv
        <4>2. QED
          BY <1>4, <4>1
      <3>4. done[1] = results[1]
        BY <1>4, <2>3, <3>3 DEF Completed
      <3>5. QED
        BY <2>1, <3>2, <3>3, <3>4
    <2>4. QED
      BY <2>2, <2>3
  <1>5. (\E r \in Range(results) : ~Usable(r.status)) => Failed(results)
    BY DEF Failed
  <1> HIDE DEF n, done
  <1>6. QED
    BY <1>1, <1>2, <1>3, <1>4, <1>5 DEF AllTasksOrNothing

\* For any plan, a task without data leaves the whole turn without facts, numbers
\* and memory, and a success has a number or a series for every task
\* (NativeExecutor.execute, _execute_mutation).
THEOREM AllOrNothingHolds == Spec => []AllTasksOrNothing
  BY AllOrNothing, InvariantHolds, PTL
=============================================================================
