----------------------------- MODULE ScalarPlan -----------------------------
(***************************************************************************)
(* planning.py: a bound intent is cut into scalar tasks, one question each *)
(* for the database, and the composition of their answers is recorded.     *)
(***************************************************************************)
EXTENDS AnalysisIntent

\* task_1, period_2, group_source: no operand is called so (see OperandNames).
TaskId(kind, i) == <<kind, i>>

\* The elements of S, each before those it precedes.
InOrder(S, Precedes(_, _)) ==
  CHOOSE order \in SetToSeqs(S) :
    \A i, j \in 1..Cardinality(S) : i < j => Precedes(order[i], order[j])

\* A scalar question, without the names of the intent and of the operand: two
\* tasks that agree in it ask the same thing.
Scalar(operand, periods, operation, grain) ==
  [operation |-> operation, metric |-> operand.metric, agg |-> operand.agg,
   entities |-> operand.entities, periods |-> periods, grain |-> grain]

Task(id, operand, periods, operation, grain, reduce) ==
  [id |-> id, operand |-> operand.id, reduce |-> reduce,
   scalar |-> Scalar(operand, periods, operation, grain)]

Composition(intent, tasks, comparison) ==
  [operation |-> intent.operation, tasks |-> tasks, comparison |-> comparison,
   formula |-> intent.formula, ranking |-> intent.ranking]

OperandTasks(intent, operands) ==
  [i \in 1..Len(operands) |->
     Task(TaskId("task", i), operands[i], EffectivePeriods(intent, operands[i]),
          "aggregate", "none", "none")]

\* One task whose answer is a series of buckets.
SeriesTask(intent, id, grain, bucket, reduce) ==
  LET operand == [intent.operands[1] EXCEPT !.agg = bucket]
  IN <<Task(id, operand, EffectivePeriods(intent, operand), "show", grain, reduce)>>

BucketAllowed(intent, aggregate) ==
  aggregate \in MetricDefinition(intent.operands[1].metric).allowed

IsSeriesAggregation(intent) ==
  intent.operation = "aggregate" /\ intent.grain \in Grains

Comparands(intent) ==
  IF intent.comparison # <<>> THEN intent.comparison
  ELSE <<[baseline |-> intent.operands[1].id, target |-> intent.operands[2].id]>>

FormulaOperands(intent) ==
  Picked(intent.operands,
         {i \in 1..Len(intent.operands) :
            intent.operands[i].id \in {intent.formula[1].numerator,
                                       intent.formula[1].denominator}})

\* The period of a comparison of periods names its task, not its operand.
PeriodTasks(intent) ==
  [i \in 1..Len(intent.periods) |->
     Task(TaskId("period", i), intent.operands[1], <<intent.periods[i]>>,
          "aggregate", "none", "none")]

PlanOf(intent) ==
  CASE intent.operation = "group" ->
         Composition(intent, SeriesTask(intent, TaskId("group_source", 1), intent.grain,
                                        intent.grouping[1].agg, "none"), <<>>)
    [] intent.operation = "compare" ->
         Composition(intent, OperandTasks(intent, intent.operands), Comparands(intent))
    [] intent.operation = "compare_periods" ->
         Composition(intent, PeriodTasks(intent),
                     <<[baseline |-> TaskId("period", 1), target |-> TaskId("period", 2)]>>)
    [] intent.operation = "calculate" ->
         Composition(intent, OperandTasks(intent, FormulaOperands(intent)), <<>>)
    [] intent.operation = "rank" ->
         Composition(intent, SeriesTask(intent, TaskId("rank_source", 1), intent.ranking[1].grain,
                                        intent.ranking[1].bucket, "none"), <<>>)
    [] IsSeriesAggregation(intent) ->
         Composition(intent,
           SeriesTask(intent, TaskId("aggregate_source", 1), intent.grain,
                      MetricDefinition(intent.operands[1].metric).default,
                      intent.operands[1].agg), <<>>)
    [] OTHER ->
         Composition(intent,
           <<Task(TaskId("task", 1), intent.operands[1],
                  EffectivePeriods(intent, intent.operands[1]), intent.operation,
                  "none", "none")>>, <<>>)

\* The planner raises no PlanningError.
Plannable(intent) ==
  LET one == Len(intent.operands) = 1
  IN /\ CASE intent.operation = "group" ->
               /\ one /\ IsTemporal(intent)
               /\ intent.grain \in Grains
               /\ BucketAllowed(intent, intent.grouping[1].agg)
          [] intent.operation = "compare" -> Len(intent.operands) >= 2
          [] intent.operation = "compare_periods" -> one /\ Len(intent.periods) = 2
          [] intent.operation = "calculate" -> Len(FormulaOperands(intent)) = 2
          [] intent.operation = "rank" ->
               one /\ BucketAllowed(intent, intent.ranking[1].bucket)
          [] IsSeriesAggregation(intent) -> one /\ intent.operands[1].agg \in Reductions
          [] OTHER -> one
     /\ \A t \in Range(PlanOf(intent).tasks) : t.scalar.periods # <<>>

\* validate_plan raises no issue.  A task has one operand by construction.
PlanComplete(plan) ==
  /\ \A t \in Range(plan.tasks) : t.scalar.periods # <<>>
  /\ plan.formula # <<>> =>
       {plan.formula[1].numerator, plan.formula[1].denominator}
         \subseteq {t.operand : t \in Range(plan.tasks)}
  /\ plan.ranking # <<>> => Len(plan.tasks) = 1
=============================================================================
