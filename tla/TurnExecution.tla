--------------------------- MODULE TurnExecution ---------------------------
(***************************************************************************)
(* What the turn processor does with a bound intent (processor.py): gate,  *)
(* plan, one query per scalar task (execution.py), the translation of the  *)
(* answers into facts (compat/envelope_translation.py), and their          *)
(* composition into the outcome the turn commits.  Balance-level turns and *)
(* grouping turns (grouping.py) take branches of their own.                *)
(*                                                                         *)
(* The pipeline behind it is external: it may answer any query, the same   *)
(* query twice included, in any of the ways Answers lists, or raise.       *)
(***************************************************************************)
EXTENDS ScalarPlan

CONSTANTS
  Turns,         \* bound intents, with what else of the turn decides its execution
  Answers,       \* [status, rows] a query can get
  LevelAnswers,  \* the same for a query about a whole daily balance
  GroupAnswers,  \* the same for the query of a grouping turn
  Subtree,       \* the articles of a section, its root included
  GeosNamed      \* the geo objects of the registry a label names

\* A row without a number; the numbers of an instance are not negative.
NoValue == -1

NoEntity == "no entity"

NoLabel == "no label"

\* The interpreter calls operands operand_1, operand_2; none is called like a
\* task, where NativeExecutor._compare would find the task first.
ASSUME OperandNames ==
  \A t \in Turns : \A o \in OperandIds(t.intent), i \in 1..Len(t.intent.operands) :
    o \notin {TaskId("task", i), TaskId("period", i)}

\* Binding hands over what the contract has validated.
ASSUME IntentsAreValid == \A t \in Turns : IsIntent(t.intent) /\ ValidShape(t.intent)

\* An answer is a list of buckets: what the bucket is called, by which it is also
\* sorted, the day it begins and the day it ends, if the row says so, and its number.
ASSUME RowsAreLists ==
  \A a \in Answers : a.rows \in Seq([key : Int, day : Seq(Nat), to : Seq(Nat), value : Int])

\* The rows that are grouped, queried or reused, have a number each, and hints the
\* registry is asked about.
ASSUME GroupRowsAreLists ==
  \A rows \in {a.rows : a \in GroupAnswers} \cup {t.reuse : t \in Turns} :
    /\ rows \in Seq(Range(rows))
    /\ \A r \in Range(rows) : r.value \in Int /\ r.hints \in Seq(DOMAIN GeosNamed)

VARIABLES
  turn,     \* the turn being executed
  stage,    \* where in the processor it is
  intent,   \* its intent after normalisation
  plan,     \* what the planner made of it
  results,  \* one entry per executed task, in order
  cache,    \* envelope_cache: scalar question -> answer
  calls,    \* queries sent to the pipeline, in order
  outcome   \* what the turn returns or raises

vars == <<turn, stage, intent, plan, results, cache, calls, outcome>>

-----------------------------------------------------------------------------
(* Facts *)

Values(rows) == [i \in 1..Len(rows) |-> rows[i].value]
SumOf(rows) == FoldSeq(LAMBDA v, acc : v + acc, 0, Values(rows))
Smallest(rows) == CHOOSE v \in Range(Values(rows)) : \A w \in Range(Values(rows)) : v <= w
Largest(rows) == CHOOSE v \in Range(Values(rows)) : \A w \in Range(Values(rows)) : v >= w
Legible(rows) == \A i \in 1..Len(rows) : rows[i].value # NoValue

\* Fault: the last such row.
LastWith(rows, value) == rows[SelectLastInSeq(rows, LAMBDA r : r.value = value)]

\* The row that first has the value: list.index.
FirstWith(rows, value) == rows[SelectInSeq(rows, LAMBDA r : r.value = value)]

\* A fact: its task, its number, the days it is of, if that is known, the day an
\* extremum was reached, and the rows it was made from.
ScalarFact(task, value, periods, at, rows) ==
  [task |-> task, value |-> value, periods |-> periods, at |-> at, rows |-> rows]

\* PipelineEnvelopeTranslator.fact raises instead.
HasFact(task, rows) ==
  /\ rows # <<>> /\ Legible(rows)
  /\ task.scalar.agg \in {"sum", "min", "max"} \/ Len(rows) = 1

FactOf(task, rows) ==
  LET agg == task.scalar.agg
      value == CASE agg = "sum" -> SumOf(rows)
                 [] agg = "min" -> Smallest(rows)
                 [] agg = "max" -> Largest(rows)
                 [] OTHER -> rows[1].value
      at == IF agg \in {"min", "max"} THEN FirstWith(rows, value).day ELSE <<>>
  IN ScalarFact(task.id, value, DaysOf(task.scalar.periods), at, rows)

\* The days of a bucket, unless the row leaves out where it begins or ends.
BucketDays(row) ==
  IF row.day = <<>> \/ row.to = <<>> THEN <<>>
  ELSE <<[from |-> row.day[1], to |-> row.to[1]]>>

\* PipelineEnvelopeTranslator.series: one fact per bucket, in the order received.
SeriesOf(task, rows) ==
  [i \in 1..Len(rows) |->
     ScalarFact(task.id, rows[i].value, BucketDays(rows[i]), rows[i].day, <<rows[i]>>)]

IsSeries(task) == task.scalar.grain # "none"

Usable(status) == status \in {"ok", "partial"}

\* An entry of task_results.
TaskResult(task, answer) ==
  LET series == IF Usable(answer.status) /\ IsSeries(task)
                THEN SeriesOf(task, answer.rows) ELSE <<>>
      fact == IF ~Usable(answer.status) THEN <<>>
              ELSE IF Len(series) = 1 THEN series
              ELSE IF IsSeries(task) THEN <<>>
              ELSE <<FactOf(task, answer.rows)>>
  IN [id |-> task.id, status |-> answer.status, fact |-> fact, series |-> series]

\* The extractors raise on an answer they cannot read.
Readable(task, answer) ==
  Usable(answer.status) =>
    IF IsSeries(task) THEN Legible(answer.rows) ELSE HasFact(task, answer.rows)

\* project_legacy_context_override raises instead: the pipeline cannot be asked
\* every scalar question.
Representable(scalar) ==
  /\ scalar.operation \in {"show", "aggregate", "compare_periods"}
  /\ scalar.periods # <<>>
  /\ scalar.operation = "compare_periods" => Len(scalar.periods) = 2
  /\ \A e \in Range(scalar.entities) :
       e.role \in {"balance", "source", "destination", "route", "article"}

-----------------------------------------------------------------------------
(* Composition: NativeExecutor.execute once every task has its answer *)

Failed(rs) == \E r \in Range(rs) : ~Usable(r.status)

FailureStatus(rs) ==
  IF \E r \in Range(rs) : r.status = "no_data" THEN "no_data" ELSE "error"

\* Fault: the order of the rows decides between equal values.
FaultRankOrder(series, direction) ==
  LET Precedes(i, j) ==
        IF series[i].value # series[j].value
        THEN IF direction = "max" THEN series[i].value > series[j].value
                                  ELSE series[i].value < series[j].value
        ELSE i < j
      order == InOrder(1..Len(series), Precedes)
  IN [n \in 1..Len(series) |-> series[order[n]]]

\* Where a bucket begins; one that does not say so comes before all days.
Start(fact) == IF fact.periods = <<>> THEN -1 ELSE fact.periods[1].from

\* tie_key: by day, then by what the bucket is called.
Sooner(a, b) ==
  \/ Start(a) < Start(b)
  \/ Start(a) = Start(b) /\ a.rows[1].key < b.rows[1].key

\* Buckets from best to worst; equal values by date, then in the order received.
RankOrder(series, direction) ==
  LET Precedes(i, j) ==
        IF series[i].value # series[j].value
        THEN IF direction = "max" THEN series[i].value > series[j].value
                                  ELSE series[i].value < series[j].value
        ELSE \/ Sooner(series[i], series[j])
             \/ ~Sooner(series[j], series[i]) /\ i < j
      order == InOrder(1..Len(series), Precedes)
  IN [n \in 1..Len(series) |-> series[order[n]]]

Ranked(p, rs) ==
  LET ordered == RankOrder(rs[1].series, p.ranking[1].direction)
  IN SubSeq(ordered, 1, IF Len(ordered) < p.ranking[1].limit
                        THEN Len(ordered) ELSE p.ranking[1].limit)

RowsOf(series) == [i \in 1..Len(series) |-> series[i].rows[1]]

\* From the first day of the buckets to the last, of those that have both.
Overall(series) ==
  LET days == UNION {Range(f.periods) : f \in Range(series)}
      from == CHOOSE p \in days : \A q \in days : p.from <= q.from
      to == CHOOSE p \in days : \A q \in days : p.to >= q.to
  IN IF days = {} THEN <<>> ELSE <<[from |-> from.from, to |-> to.to]>>

\* _reduce_series: one number of all the buckets, with the day of the one it was
\* read from when it is that of one bucket.
Reduce(task, series) ==
  LET rows == RowsOf(series)
      chosen == CASE task.reduce = "min" -> <<FirstWith(rows, Smallest(rows))>>
                  [] task.reduce = "max" -> <<FirstWith(rows, Largest(rows))>>
                  [] task.reduce = "first" -> <<rows[1]>>
                  [] task.reduce = "last" -> <<rows[Len(rows)]>>
                  [] OTHER -> <<>>
      value == CASE task.reduce = "sum" -> SumOf(rows)
                 [] task.reduce = "avg" -> SumOf(rows) \div Len(rows)
                 [] OTHER -> chosen[1].value
  IN ScalarFact(task.id, value, Overall(series),
                IF chosen = <<>> THEN <<>> ELSE chosen[1].day, rows)

\* Ranking and reduction put a fact where the series task had none.
Completed(p, rs) ==
  [i \in 1..Len(rs) |->
     IF p.operation = "rank"
     THEN [rs[i] EXCEPT !.fact = <<Ranked(p, rs)[1]>>]
     ELSE IF p.tasks[i].reduce # "none"
     THEN [rs[i] EXCEPT !.fact = <<Reduce(p.tasks[i], rs[i].series)>>]
     ELSE rs[i]]

\* An empty series cannot be ranked or reduced, and a number needs a fact.
Composable(p, rs) ==
  /\ p.operation = "rank" \/ p.tasks[1].reduce # "none" => rs[1].series # <<>>
  /\ p.operation # "group" => \A r \in Range(Completed(p, rs)) : r.fact # <<>>

\* Fault: the first task is always the baseline.
FaultNamed(p, rs, id) ==
  IF id = p.comparison[1].baseline THEN rs[1].fact[1]
  ELSE rs[SelectInSeq(p.tasks, LAMBDA t : id \in {t.operand, t.id})].fact[1]

\* The entry a comparison names: by task, else by operand.
Named(p, rs, id) ==
  LET byTask == SelectInSeq(rs, LAMBDA r : r.id = id)
      byOperand == SelectInSeq(p.tasks, LAMBDA t : t.operand = id)
  IN rs[IF byTask # 0 THEN byTask ELSE byOperand].fact[1]

OfOperand(p, rs, id) == rs[SelectInSeq(p.tasks, LAMBDA t : t.operand = id)].fact[1]

Percent(part, whole) == IF whole = 0 THEN <<>> ELSE <<(part * 100) \div whole>>

Compare(p, rs) ==
  LET baseline == Named(p, rs, p.comparison[1].baseline)
      target == Named(p, rs, p.comparison[1].target)
      delta == target.value - baseline.value
  IN [baseline |-> baseline.task, target |-> target.task, delta |-> delta,
      percent |-> Percent(delta, baseline.value)]

\* _compare_set: every operand against the baseline.
CompareSet(p, rs) ==
  LET baseline == OfOperand(p, rs, p.comparison[1].baseline)
  IN [i \in 1..Len(rs) |->
        LET delta == rs[i].fact[1].value - baseline.value
        IN [task |-> rs[i].id, operand |-> p.tasks[i].operand, delta |-> delta,
            percent |-> Percent(delta, baseline.value)]]

\* _calculate; nothing if the denominator is zero.
Calculate(p, rs) ==
  LET f == p.formula[1]
      numerator == OfOperand(p, rs, f.numerator)
      denominator == OfOperand(p, rs, f.denominator)
  IN IF f.operator # "delta" /\ denominator.value = 0 THEN <<>>
     ELSE <<[operator |-> f.operator,
             numerator |-> numerator.task, denominator |-> denominator.task,
             sides |-> <<numerator.value, denominator.value>>,
             value |-> CASE f.operator = "delta" -> numerator.value - denominator.value
                         [] f.operator = "ratio" -> numerator.value \div denominator.value
                         [] f.operator = "percent_of" ->
                              Percent(numerator.value, denominator.value)[1]
                         [] f.operator = "percent_change" ->
                              Percent(numerator.value - denominator.value,
                                      denominator.value)[1]]>>

\* NativeExecutionResult.
Native(status, rs, comparison, members, derived, ranking) ==
  [status |-> status, results |-> rs, comparison |-> comparison, members |-> members,
   derived |-> derived, ranking |-> ranking]

Composed(p, rs) ==
  LET done == Completed(p, rs)
  IN IF Failed(rs) THEN Native(FailureStatus(rs), rs, <<>>, <<>>, <<>>, <<>>)
     ELSE CASE p.operation = "group" ->
                 Native(IF rs[1].series # <<>> THEN "ok" ELSE "no_data",
                        done, <<>>, <<>>, <<>>, <<>>)
            [] p.operation = "rank" ->
                 Native("ok", done, <<>>, <<>>, <<>>, Ranked(p, rs))
            [] p.operation = "compare" ->
                 Native("ok", done, <<Compare(p, done)>>, CompareSet(p, done), <<>>, <<>>)
            [] p.operation = "compare_periods" ->
                 Native("ok", done, <<Compare(p, done)>>, <<>>, <<>>, <<>>)
            [] p.operation = "calculate" ->
                 Native(IF Calculate(p, done) # <<>> THEN "ok" ELSE "no_data",
                        done, <<>>, <<>>, Calculate(p, done), <<>>)
            [] OTHER -> Native("ok", done, <<>>, <<>>, <<>>, <<>>)

\* What was calculated is a fact of no task.
DerivedFact(derived) ==
  [kind |-> "derived", operator |-> derived.operator, value |-> derived.value,
   sides |-> derived.sides]

\* _authoritative_native_facts: the facts of the tasks, all their series, and what
\* was calculated from them.
NativeFacts(native) ==
  FlattenSeq([i \in 1..Len(native.results) |-> native.results[i].fact])
    \o FlattenSeq([i \in 1..Len(native.results) |-> native.results[i].series])
    \o [i \in 1..Len(native.derived) |-> DerivedFact(native.derived[i])]

-----------------------------------------------------------------------------
(* Rows of a daily balance *)

Article(i) == i.operands[1].entities[Len(i.operands[1].entities)].id

OfArticles(rows, articles) == SelectSeq(rows, LAMBDA r : r.key \in articles)

\* A section keeps its subtree, if the root is among the rows; a directed flow
\* keeps its one article.  Both turn an answer without them into no_data.
LevelEnvelope(i, answer) ==
  IF IsBalanceSection(i)
  THEN LET rows == OfArticles(answer.rows, Subtree[Article(i)])
       IN IF \E r \in Range(rows) : r.key = Article(i)
          THEN [answer EXCEPT !.rows = rows]
          ELSE [status |-> "no_data", rows |-> <<>>]
  ELSE IF IsDirectedFlow(i)
  THEN LET rows == OfArticles(answer.rows, {Article(i)})
       IN [status |-> IF rows # <<>> THEN answer.status ELSE "no_data", rows |-> rows]
  ELSE answer

-----------------------------------------------------------------------------
(* Grouping by canonical entity *)

\* A row has the key and the type of its entity, if the database gave them, its
\* label, if any, and in `hints` what it says in geo, article_scope and article_name.

\* _resolve_group_row_entity: the first hint that names a geo object decides, if
\* it names only one.
Resolved(row, dimension) ==
  LET n == SelectInSeq(row.hints, LAMBDA hint : GeosNamed[hint] # {})
  IN IF dimension \notin {"geo", "geo_group"} \/ n = 0 THEN NoEntity
     ELSE IF \E g \in GeosNamed[row.hints[n]] : GeosNamed[row.hints[n]] = {g}
     THEN CHOOSE g \in GeosNamed[row.hints[n]] : TRUE
     ELSE NoEntity

\* Only a row without a key or without a label is resolved; what it resolves to
\* takes the place of both.
IsResolved(row, dimension) ==
  (row.key = NoEntity \/ row.label = NoLabel) /\ Resolved(row, dimension) # NoEntity

\* Fault: what a row resolves to wins over its own key.
FaultIdentity(row, dimension) ==
  IF Resolved(row, dimension) # NoEntity THEN Resolved(row, dimension) ELSE row.key

Identity(row, dimension) ==
  IF IsResolved(row, dimension) THEN Resolved(row, dimension) ELSE row.key

EntityTypes == {"balance", "article", "route", "geo_object", "geo_group", "organization"}

TypeOf(row, dimension) ==
  IF IsResolved(row, dimension) THEN "geo_object"
  ELSE IF row.type # "none" THEN row.type
  ELSE IF dimension \in {"geo", "geo_group"} THEN "geo_object" ELSE dimension

\* member_facts_from_rows and the aggregator raise unless the rows can be grouped
\* by the dimension, every row has an identity, a name and a value, and those of
\* one entity agree in its type.
Groupable(rows, dimension) ==
  /\ dimension \in {"geo", "geo_group", "balance", "article"}
  /\ \A r \in Range(rows) :
       /\ Identity(r, dimension) # NoEntity
       /\ r.label # NoLabel \/ IsResolved(r, dimension)
       /\ r.value # NoValue
       /\ TypeOf(r, dimension) \in EntityTypes
  /\ \A r, s \in Range(rows) : Identity(r, dimension) = Identity(s, dimension) =>
       TypeOf(r, dimension) = TypeOf(s, dimension)

Members(rows, dimension, entity) ==
  Picked(rows, {i \in 1..Len(rows) : Identity(rows[i], dimension) = entity})

\* CanonicalGroupAggregator.aggregate: one fact per canonical entity, labels
\* notwithstanding.
GroupsOf(rows, dimension) ==
  LET entities == {Identity(r, dimension) : r \in Range(rows)}
      Fact(e) == LET members == Members(rows, dimension, e)
                 IN [entity |-> e, value |-> SumOf(members), count |-> Len(members),
                     rows |-> members]
      order == SetToSeq(entities)
  IN [i \in 1..Len(order) |-> Fact(order[i])]

-----------------------------------------------------------------------------
(* Outcomes *)

\* A query: one scalar question, or the rows of a balance on one day, or of a
\* whole turn.
ScalarCall(scalar) == [question |-> <<scalar>>, day |-> <<>>]
DayCall(day) == [question |-> <<>>, day |-> <<day>>]
WholeCall == [question |-> <<>>, day |-> <<>>]

\* Fault: the status is the outcome.
FaultOutcomeOf(status) == IF status = "ok" THEN "success" ELSE status

\* _outcome: the outcome of a status.
OutcomeOf(status) ==
  CASE Usable(status) -> "success"
    [] status = "no_data" -> "no_data"
    [] OTHER -> "error"

NotYet == [kind |-> "none", code |-> "none", facts |-> <<>>, native |-> <<>>,
           memory |-> <<>>]

Raised(code) == [NotYet EXCEPT !.kind = "raised", !.code = code]

\* Fault: whatever the outcome, the facts are kept.
FaultReturned(status, facts, native, remembers) ==
  [kind |-> OutcomeOf(status), code |-> "none", native |-> native, facts |-> facts,
   memory |-> IF OutcomeOf(status) = "success" /\ remembers THEN <<facts>> ELSE <<>>]

\* Fault: a turn without data is remembered too.
FaultRemembered(status, facts, native, remembers) ==
  LET success == OutcomeOf(status) = "success"
  IN [kind |-> OutcomeOf(status), code |-> "none", native |-> native,
      facts |-> IF success THEN facts ELSE <<>>,
      memory |-> IF remembers THEN <<facts>> ELSE <<>>]

\* What a turn returns: only a success refers to facts, and only a success of a
\* turn that queried the database is remembered.
Returned(status, facts, native, remembers) ==
  LET success == OutcomeOf(status) = "success"
  IN [kind |-> OutcomeOf(status), code |-> "none", native |-> native,
      facts |-> IF success THEN facts ELSE <<>>,
      memory |-> IF success /\ remembers THEN <<facts>> ELSE <<>>]

End(o) == stage' = "done" /\ outcome' = o

Normalised(t) ==
  SeriesReduction(PeriodComparison(TemporalGrouping(t.intent, t.words)),
                  t.words, t.active)

Groups(i) == i.operation = "group" /\ ~IsTemporal(i)

\* The plan of a grouping turn: it has no scalar task.
NoPlan == [operation |-> "group", tasks |-> <<>>, comparison |-> <<>>,
           formula |-> <<>>, ranking |-> <<>>]

Init ==
  /\ turn \in Turns
  /\ stage = "bound"
  /\ intent = turn.intent
  /\ plan = NoPlan
  /\ results = <<>>
  /\ cache = <<>>
  /\ calls = <<>>
  /\ outcome = NotYet

-----------------------------------------------------------------------------
(* Before the database: normalise, gate, plan, gate *)

Refuse(code) ==
  /\ intent' = Normalised(turn)
  /\ End(Raised(code))
  /\ UNCHANGED <<turn, plan, results, cache, calls>>

RefuseEvidence ==
  /\ stage = "bound"
  /\ LET i == Normalised(turn)
     IN \/ ~EvidenceComplete(i, turn.explicit)
        \/ ~Groups(i) /\ Plannable(i) /\ ~PlanComplete(PlanOf(i))
  /\ Refuse("routing_evidence_incomplete")

RefusePlan ==
  /\ stage = "bound"
  /\ LET i == Normalised(turn)
     IN EvidenceComplete(i, turn.explicit) /\ ~Groups(i) /\ ~Plannable(i)
  /\ Refuse("native_planning_failed")

RefuseGrouping ==
  /\ stage = "bound"
  /\ LET i == Normalised(turn)
     IN /\ EvidenceComplete(i, turn.explicit)
        /\ Groups(i)
        /\ ~(Len(i.operands) = 1 /\ Len(i.grouping) = 1)
  /\ Refuse("native_grouping_failed")

Admit ==
  /\ stage = "bound"
  /\ intent' = Normalised(turn)
  /\ EvidenceComplete(intent', turn.explicit)
  /\ IF Groups(intent')
     THEN /\ Len(intent'.operands) = 1 /\ Len(intent'.grouping) = 1
          /\ stage' = "grouping"
          /\ UNCHANGED plan
     ELSE /\ Plannable(intent')
          /\ plan' = PlanOf(intent')
          /\ PlanComplete(plan')
          /\ stage' = IF IsBalanceLevel(intent') THEN "level" ELSE "running"
  /\ UNCHANGED <<turn, results, cache, calls, outcome>>

-----------------------------------------------------------------------------
(* Scalar tasks *)

NextTask == plan.tasks[Len(results) + 1]

\* Fault: the period is left out of the key.
FaultCacheKey(task) == [task.scalar EXCEPT !.periods = <<>>]

CacheKey(task) == task.scalar

\* The task gets its answer; an answer that cannot be read ends the turn.
Take(answer) ==
  IF Readable(NextTask, answer)
  THEN /\ results' = Append(results, TaskResult(NextTask, answer))
       /\ stage' = IF Len(results) + 1 = Len(plan.tasks) THEN "composing" ELSE "running"
       /\ UNCHANGED outcome
  ELSE /\ End(Raised("turn_processing_failed"))
       /\ UNCHANGED results

Query ==
  /\ stage = "running"
  /\ CacheKey(NextTask) \notin DOMAIN cache
  /\ Representable(NextTask.scalar)
  /\ \E answer \in Answers :
       /\ cache' = [k \in DOMAIN cache \cup {CacheKey(NextTask)} |->
                      IF k = CacheKey(NextTask) THEN answer ELSE cache[k]]
       /\ calls' = Append(calls, ScalarCall(NextTask.scalar))
       /\ Take(answer)
  /\ UNCHANGED <<turn, intent, plan>>

\* The same question was asked by an earlier task of this turn.
Reuse ==
  /\ stage = "running"
  /\ CacheKey(NextTask) \in DOMAIN cache
  /\ Take(cache[CacheKey(NextTask)])
  /\ UNCHANGED <<turn, intent, plan, cache, calls>>

\* The question cannot be put to the pipeline, or the pipeline raises.
QueryFails ==
  /\ stage = "running"
  /\ CacheKey(NextTask) \notin DOMAIN cache
  /\ End(Raised("turn_processing_failed"))
  /\ UNCHANGED <<turn, intent, plan, results, cache, calls>>

Compose ==
  /\ stage = "composing"
  /\ IF Failed(results) \/ Composable(plan, results)
     THEN LET native == Composed(plan, results)
          IN End(Returned(native.status, NativeFacts(native), <<native>>,
                          turn.live /\ turn.memory))
     ELSE End(Raised("turn_processing_failed"))
  /\ UNCHANGED <<turn, intent, plan, results, cache, calls>>

-----------------------------------------------------------------------------
(* A daily balance *)

\* _full_balance_source_intent: here the intent's own periods come first.
SourcePeriods(i) == IF i.periods # <<>> THEN i.periods ELSE i.operands[1].periods

\* A directed flow is read from its balance on the first day of its period.
LevelCall(i) == IF IsDirectedFlow(i) THEN DayCall(SourcePeriods(i)[1].from) ELSE WholeCall

LevelAnswer(i) ==
  IF IsDirectedFlow(i) /\ ~turn.live
  THEN {[status |-> "ok", rows |-> <<>>]} ELSE LevelAnswers

\* _standalone_facts: an answer without rows leaves one fact, its status.
StatusFact == [key |-> NoEntity, value |-> NoValue]

ShowLevel ==
  /\ stage = "level"
  /\ \E answer \in LevelAnswer(intent) :
       LET envelope == LevelEnvelope(intent, answer)
           facts == IF envelope.rows # <<>> THEN envelope.rows ELSE <<StatusFact>>
       IN End(Returned(envelope.status, facts, <<>>, turn.live /\ turn.memory))
  /\ calls' = IF IsDirectedFlow(intent) /\ ~turn.live THEN calls
              ELSE Append(calls, LevelCall(intent))
  /\ UNCHANGED <<turn, intent, plan, results, cache>>

ShowLevelFails ==
  /\ stage = "level"
  /\ End(Raised("balance_level_execution_failed"))
  /\ UNCHANGED <<turn, intent, plan, results, cache, calls>>

-----------------------------------------------------------------------------
(* Grouping *)

\* A grouping turn is remembered whether or not there is a result memory, and
\* a memory write without facts is refused by its contract.
Grouped(answer, dimension) ==
  IF Usable(answer.status) /\ ~Groupable(answer.rows, dimension)
  THEN Raised("native_grouping_failed")
  ELSE LET facts == IF Usable(answer.status) THEN GroupsOf(answer.rows, dimension) ELSE <<>>
       IN IF Usable(answer.status) /\ facts = <<>> /\ turn.live
          THEN Raised("turn_failed")
          ELSE Returned(answer.status, facts, <<>>, turn.live)

Dimension == intent.grouping[1].dimension

\* The facts of the last result of the active scope, if it has any.
Regroup ==
  /\ stage = "grouping"
  /\ turn.reuse # <<>>
  /\ End(Grouped([status |-> "ok", rows |-> turn.reuse], Dimension))
  /\ UNCHANGED <<turn, intent, plan, results, cache, calls>>

QueryGroups ==
  /\ stage = "grouping"
  /\ turn.reuse = <<>>
  /\ \E answer \in GroupAnswers : End(Grouped(answer, Dimension))
  /\ calls' = Append(calls, WholeCall)
  /\ UNCHANGED <<turn, intent, plan, results, cache>>

QueryGroupsFails ==
  /\ stage = "grouping"
  /\ turn.reuse = <<>>
  /\ End(Raised("turn_failed"))
  /\ UNCHANGED <<turn, intent, plan, results, cache, calls>>

Next ==
  \/ RefuseEvidence \/ RefusePlan \/ RefuseGrouping \/ Admit
  \/ Query \/ Reuse \/ QueryFails \/ Compose
  \/ ShowLevel \/ ShowLevelFails
  \/ Regroup \/ QueryGroups \/ QueryGroupsFails

Spec == Init /\ [][Next]_vars

-----------------------------------------------------------------------------
(* Properties *)

Kinds == {"none", "success", "no_data", "error", "raised"}

\* Every variable has its type; a plan is executed task by task, and the cache
\* holds what was asked.
TypeOK ==
  /\ turn \in Turns
  /\ stage \in {"bound", "running", "composing", "level", "grouping", "done"}
  /\ ValidShape(intent)
  /\ Len(results) <= Len(plan.tasks)
  /\ \A i \in 1..Len(results) : results[i].id = plan.tasks[i].id
  /\ Range(cache) \subseteq Answers
  /\ outcome.kind \in Kinds
  /\ (outcome.kind = "none") = (stage # "done")

\* No question is put to the database twice in a turn, no task is answered by
\* the answer to another question, and tasks that ask the same agree
\* (NativeExecutor.execute: the cache key leaves out the operand's name).  How a
\* period is worded is part of the question: the same days under two labels are
\* asked for twice.
EachQuestionOnce ==
  /\ \A i, j \in 1..Len(calls) : calls[i] = calls[j] => i = j
  /\ \A i \in 1..Len(results) :
       ScalarCall(plan.tasks[i].scalar) \in Range(calls)
  /\ \A i, j \in 1..Len(results) :
       plan.tasks[i].scalar = plan.tasks[j].scalar =>
         /\ results[i].status = results[j].status
         /\ \A k \in 1..Len(results[i].fact) :
              results[i].fact[k].rows = results[j].fact[k].rows

\* Unless every task has an answer with data the turn refers to no fact,
\* computes nothing and remembers nothing: a task that failed is never
\* replaced by the others (NativeExecutor.execute, _execute_mutation).
AllTasksOrNothing ==
  /\ outcome.kind # "success" => outcome.facts = <<>> /\ outcome.memory = <<>>
  /\ outcome.native # <<>> =>
       LET n == outcome.native[1]
       IN /\ (\E r \in Range(results) : ~Usable(r.status)) =>
               /\ n.status \in {"no_data", "error"}
               /\ <<n.comparison, n.members, n.derived, n.ranking>>
                    = <<<<>>, <<>>, <<>>, <<>>>>
          /\ outcome.kind = "success" =>
               \A i \in 1..Len(results) :
                 n.results[i].fact = <<>> => n.results[i].series # <<>>

TaskOf(id) == plan.tasks[SelectInSeq(plan.tasks, LAMBDA t : t.id = id)]

FactOfTask(native, id) ==
  native.results[SelectInSeq(native.results, LAMBDA r : r.id = id)].fact[1]

\* The two sides of a comparison and of a formula are the operands the intent
\* names for them, each asked about over its own period, and the difference of
\* every member of a comparison is from the same baseline (_compare, _compare_set,
\* _calculate).  A number that was one question's says the days it was asked of; of
\* a bucket only its row knows them.
SidesAreAsNamed ==
  outcome.native # <<>> =>
    LET n == outcome.native[1]
    IN /\ n.comparison # <<>> =>
            LET c == n.comparison[1]
                names == Comparands(intent)[1]
                m == SelectInSeq(n.members, LAMBDA e : e.operand = names.target)
                b == SelectInSeq(n.members, LAMBDA e : e.operand = names.baseline)
            IN /\ c.delta = FactOfTask(n, c.target).value - FactOfTask(n, c.baseline).value
               /\ intent.operation = "compare" =>
                    /\ TaskOf(c.baseline).operand = names.baseline
                    /\ TaskOf(c.target).operand = names.target
                    /\ n.members[m].delta = c.delta /\ n.members[m].percent = c.percent
                    /\ n.members[b].delta = 0
               /\ intent.operation = "compare_periods" =>
                    /\ TaskOf(c.baseline).scalar.periods = <<intent.periods[1]>>
                    /\ TaskOf(c.target).scalar.periods = <<intent.periods[2]>>
       /\ n.derived # <<>> =>
            /\ TaskOf(n.derived[1].numerator).operand = intent.formula[1].numerator
            /\ TaskOf(n.derived[1].denominator).operand = intent.formula[1].denominator
       /\ \A i \in 1..Len(n.results) : intent.operation # "compare_periods" =>
            \E o \in Range(intent.operands) :
              /\ o.id = plan.tasks[i].operand
              /\ plan.tasks[i].scalar.periods = EffectivePeriods(intent, o)
              /\ n.results[i].fact # <<>> /\ ~IsSeries(plan.tasks[i]) =>
                   n.results[i].fact[1].periods = DaysOf(EffectivePeriods(intent, o))

\* A ranking is the best buckets there are, as many as asked for or all, best
\* first and of equal ones first those that do not say their days, then the earliest,
\* whatever the order the rows came in (_rank).
RankingIsTheTop ==
  outcome.native # <<>> /\ outcome.native[1].ranking # <<>> =>
    LET chosen == outcome.native[1].ranking
        series == results[1].series
        spec == intent.ranking[1]
        Ahead(a, b) ==
          \/ IF spec.direction = "max" THEN a.value > b.value ELSE a.value < b.value
          \/ /\ a.value = b.value
             /\ \/ a.periods = <<>>
                \/ b.periods # <<>> /\ a.periods[1].from <= b.periods[1].from
    IN /\ Len(chosen) = IF Len(series) < spec.limit THEN Len(series) ELSE spec.limit
       /\ \A i, j \in 1..Len(chosen) : i < j => Ahead(chosen[i], chosen[j])
       /\ \A f \in Range(series) :
            \/ \A c \in Range(chosen) : Ahead(c, f)
            \/ f \in Range(chosen)

\* A reduction is made of every bucket of the series, and of no day outside the days
\* it says; an extremum lies in none of the others and is dated by the first bucket
\* received that reaches it, and a mean, rounded down here, gives the sum of all of
\* them back (_reduce_series).
ReductionIsOfTheSeries ==
  \A i \in 1..Len(results) :
    plan.tasks[i].reduce # "none" /\ outcome.kind = "success" =>
      LET fact == outcome.native[1].results[i].fact[1]
          series == results[i].series
          Reaches(j) == series[j].value = fact.value
      IN /\ fact.rows = RowsOf(series)
         /\ \A j \in 1..Len(series) : series[j].periods # <<>> =>
              /\ fact.periods[1].from <= series[j].periods[1].from
              /\ series[j].periods[1].to <= fact.periods[1].to
         /\ plan.tasks[i].reduce \in {"min", "max"} =>
              \E j \in 1..Len(series) :
                /\ Reaches(j) /\ fact.at = series[j].at
                /\ \A k \in 1..j-1 : ~Reaches(k)
                /\ \A k \in 1..Len(series) :
                     IF plan.tasks[i].reduce = "min"
                     THEN series[k].value >= fact.value ELSE series[k].value <= fact.value
         /\ plan.tasks[i].reduce = "avg" =>
              FoldSeq(LAMBDA f, acc : f.value + acc, 0, series) - fact.value * Len(series)
                \in 0..Len(series)-1

\* Grouping loses no value and counts none twice: every entity has one group,
\* and the groups hold the rows exactly once, a row with a key and a label in the
\* group of that key, whatever the label; a row that lacks one of them in that of its
\* key or of the one geo object a hint of its names
\* (CanonicalGroupAggregator.aggregate, member_facts_from_rows).
GroupsConserveRows ==
  Groups(intent) /\ outcome.kind = "success" =>
    LET groups == outcome.facts
        Total(seq) == FoldSeq(LAMBDA r, acc : r.value + acc, 0, seq)
        Count == FoldSeq(LAMBDA g, acc : g.count + acc, 0, groups)
        answers == IF turn.reuse # <<>> THEN {turn.reuse}
                   ELSE {a.rows : a \in {b \in GroupAnswers : Usable(b.status)}}
    IN /\ \A i, j \in 1..Len(groups) : groups[i].entity = groups[j].entity => i = j
       /\ \E rows \in answers :
            /\ Total(groups) = Total(rows)
            /\ Count = Len(rows)
            /\ \A r \in Range(rows) : \E g \in Range(groups) :
                 /\ r \in Range(g.rows)
                 /\ IF r.key # NoEntity /\ r.label # NoLabel THEN g.entity = r.key
                    ELSE \/ g.entity = r.key
                         \/ \E hint \in Range(r.hints) : GeosNamed[hint] = {g.entity}

\* What is remembered is a success of a turn that queried the database, with
\* the facts the turn refers to and at least one of them (_memory_write,
\* ResultMemoryWrite).
MemoryIsOfTheResult ==
  outcome.memory # <<>> =>
    /\ outcome.kind = "success"
    /\ turn.live
    /\ outcome.memory[1] = outcome.facts
    /\ outcome.facts # <<>>

\* The daily balance is queried by callers that hold an exact day
\* (execute_balance_day: "callers already hold a validated canonical balance ID
\* and exact day").
CallersHoldExactDay ==
  \A c \in Range(calls) :
    c.day # <<>> =>
      DaysOf(EffectivePeriods(intent, intent.operands[1]))
        = <<[from |-> c.day[1], to |-> c.day[1] + 1]>>
=============================================================================
