---------------------------- MODULE ResolvedPlan ----------------------------
(***************************************************************************)
(* compat/envelope_translation.py, intents: a turn the pipeline resolves   *)
(* itself leaves its plan in the envelope, and the intent of the turn is   *)
(* read off that plan.  The plan is external: it may fit the message badly *)
(* (resolve a comparison as a single number, say).                         *)
(*                                                                         *)
(* A plan is [requested, operation, metric, periods, expressions, groupBy, *)
(* grain, rank]: the operation the message asked for and the one resolved, *)
(* and one expression [metric, agg, entities, geos] per physical row.      *)
(***************************************************************************)
EXTENDS AnalysisIntent

\* What the translator raises, or the intent it reads.
Unreadable(reason) == [reason |-> reason, intent |-> <<>>]

\* An expression over several geo objects is one for each.
Expanded(plan) ==
  FlattenSeq([i \in 1..Len(plan.expressions) |->
    LET e == plan.expressions[i]
    IN IF Len(e.geos) <= 1 THEN <<e>>
       ELSE [j \in 1..Len(e.geos) |-> [e EXCEPT !.geos = <<e.geos[j]>>]]])

\* _operand
ExpressionOperand(e, i) ==
  [id |-> <<"operand", i>>, metric |-> e.metric, agg |-> e.agg,
   entities |-> e.entities \o e.geos, periods |-> <<>>]

\* What is asked of the expressions, before the operation is settled.
Logical(plan) ==
  IF plan.groupBy # <<>> THEN "group"
  ELSE IF plan.operation = "compare_periods"
          /\ \/ plan.metric = "flow_balance" /\ Len(Expanded(plan)) > 1
             \/ Len(plan.periods) > 2 THEN "multi_step"
  ELSE plan.operation

\* Rows of several balances are one operand if the registry knows one geo object
\* they are all about.
Collapses(plan) ==
  Len(Expanded(plan)) >= 2 /\ Logical(plan) \in {"show", "aggregate", "compare_periods"}

Uniform(expressions) ==
  \A a, b \in Range(expressions) : a.metric = b.metric /\ a.agg = b.agg

\* _logical_period_operand and the operands of the other plans.
PlanOperands(plan, geo) ==
  LET expressions == Expanded(plan)
  IN IF Collapses(plan) /\ geo # <<>>
     THEN <<[ExpressionOperand(expressions[1], 1) EXCEPT !.entities = geo]>>
     ELSE IF expressions = <<>>
     THEN <<[id |-> <<"operand", 1>>, metric |-> plan.metric, agg |-> "sum",
             entities |-> <<>>, periods |-> <<>>]>>
     ELSE [i \in 1..Len(expressions) |-> ExpressionOperand(expressions[i], i)]

\* A comparison of more than the contract can hold is a composite result; a
\* ranking of buckets is an aggregate.
SettledOperation(plan, operands) ==
  IF \/ plan.requested = "multi_step"
     \/ plan.operation = "compare" /\ Len(operands) > 2
     \/ plan.operation = "compare_periods"
          /\ (Len(operands) > 1 \/ Len(plan.periods) > 2)
  THEN "multi_step"
  ELSE IF plan.operation = "show" /\ plan.rank # "none" /\ Len(operands) = 1
  THEN "aggregate"
  ELSE plan.operation

\* _grouping; it cannot be combined with a comparison.
PlanGrouping(plan) ==
  [i \in 1..Len(plan.groupBy) |->
     [dimension |-> plan.groupBy[i],
      agg |-> IF plan.expressions = <<>> THEN "sum" ELSE plan.expressions[1].agg]]

\* Fault: only a comparison without operation counts as degraded.
FaultDegraded(plan) == plan.requested = "compare" /\ plan.operation = "multi_step"

\* The message asks for a comparison and the pipeline resolved something else.
Degraded(plan) ==
  plan.requested = "compare" /\ plan.operation \notin {"compare", "compare_periods"}

PlanIntent(plan, operands, operation) ==
  [operation |-> IF plan.groupBy # <<>> THEN "group" ELSE operation,
   operands |-> IF operation = "aggregate" /\ plan.operation = "show"
                THEN <<[operands[1] EXCEPT !.agg = plan.rank]>> ELSE operands,
   periods |-> plan.periods, grouping |-> PlanGrouping(plan), grain |-> plan.grain,
   comparison |-> <<>>, formula |-> <<>>, ranking |-> <<>>]

Readable(intent) ==
  IF ValidShape(intent) THEN [reason |-> "none", intent |-> <<intent>>]
  ELSE Unreadable("resolved_plan_translation_failed")

OfOperands(plan, operands, operation) ==
  IF \/ plan.operation = "compare" /\ Len(operands) < 2
     \/ operation = "compare_periods" /\ Len(plan.periods) # 2
  THEN Unreadable("resolved_comparison_degraded")
  ELSE IF plan.groupBy # <<>>
          /\ (operation \notin {"show", "aggregate"} \/ ~Uniform(Expanded(plan)))
  THEN Unreadable("resolved_grouping_unsupported")
  ELSE Readable(PlanIntent(plan, operands, operation))

\* Rows that collapse have to agree; those of a comparison of periods have to
\* be about one geo object.
Collapsible(plan, geo) ==
  Collapses(plan) =>
    IF geo = <<>> THEN Logical(plan) # "compare_periods" ELSE Uniform(Expanded(plan))

\* PipelineEnvelopeTranslator.intent; `geo` is the one geo object of the message
\* or of the plan, if there is one, and `answered` whether the envelope has rows
\* to say the period of.
Translated(plan, geo, answered) ==
  IF Degraded(plan) THEN Unreadable("resolved_comparison_degraded")
  ELSE IF answered /\ plan.periods = <<>> THEN Unreadable("period_required")
  ELSE IF ~Collapsible(plan, geo) THEN Unreadable("resolved_plan_translation_failed")
  ELSE LET operands == PlanOperands(plan, geo)
       IN OfOperands(plan, operands, SettledOperation(plan, operands))

\* peer_entity_intent: the two entities the message names, whatever expressions
\* the plan has.  Nothing if the plan is not that of a comparison.
PeerIntent(plan, peers, metrics) ==
  IF plan.requested # "compare" \/ plan.periods = <<>> THEN <<>>
  ELSE <<[operation |-> "compare",
          operands |-> [i \in 1..2 |->
            [id |-> <<"operand", i>>,
             metric |-> IF metrics = <<>> THEN plan.metric ELSE metrics[i],
             agg |-> plan.agg, entities |-> peers[i], periods |-> <<>>]],
          periods |-> plan.periods, grouping |-> <<>>, grain |-> plan.grain,
          comparison |-> <<[baseline |-> <<"operand", 1>>, target |-> <<"operand", 2>>]>>,
          formula |-> <<>>, ranking |-> <<>>]>>
=============================================================================
