--------------------------- MODULE AnalysisIntent ---------------------------
(***************************************************************************)
(* The bound intent: the typed question a turn puts to the database        *)
(* (contracts.py, domain.py), what makes its shape valid, the evidence     *)
(* gate it passes before anything runs (gating.py) and the normalisations  *)
(* the turn processor applies first (processor.py).                        *)
(*                                                                         *)
(* An optional field is a sequence of at most one element.  Units are left *)
(* out: every operand and every fact carries the one volume unit.          *)
(***************************************************************************)
EXTENDS Integers, SequencesExt

CONSTANTS
  Aliases(_),   \* the other names of the record of this name
  Inside(_, _)  \* the one name, letter by letter, is part of the other; the empty
                \* one is part of any

\* The elements of a list at these places, in its order: the n-th of the places has
\* n - 1 of them before it.
Picked(s, places) ==
  [n \in 1..Cardinality(places) |->
     s[CHOOSE i \in places : Cardinality({j \in places : j < i}) = n - 1]]

\* Those that are not in T, and those in one of these roles.
Without(s, T) == Picked(s, {i \in 1..Len(s) : s[i] \notin T})
OfRoles(s, roles) == Picked(s, {i \in 1..Len(s) : s[i].role \in roles})

Operations == {"show", "aggregate", "compare", "compare_periods", "group",
               "rank", "calculate", "multi_step"}

Grains == {"day", "month", "quarter", "year"}

Reductions == {"sum", "avg", "min", "max", "first", "last"}

\* The parts an entity can play in an operand.
EntityRoles == {"balance", "source", "destination", "route", "article", "subject"}

\* How a metric is summed up inside a period: flows add, a state is read.
MetricDefinition(metric) ==
  IF metric = "stock"
  THEN [default |-> "last", allowed |-> {"first", "last", "min", "max", "avg"}]
  ELSE [default |-> "sum", allowed |-> {"sum", "avg", "min", "max"}]

\* A period [from, to, label] is of the days from `from` up to, not including, `to`;
\* periods of the same days that are worded differently are different.
Days(period) == [from |-> period.from, to |-> period.to]

DaysOf(periods) == [i \in 1..Len(periods) |-> Days(periods[i])]

Roles(operand) == {e.role : e \in Range(operand.entities)}

OperandIds(intent) == {o.id : o \in Range(intent.operands)}

EffectivePeriods(intent, operand) ==
  IF operand.periods # <<>> THEN operand.periods ELSE intent.periods

IsList(x) == x \in Seq(Range(x))

\* The fields of AnalysisOperand and AnalysisIntent, and which of them are lists.
IsOperand(o) ==
  /\ DOMAIN o = {"id", "metric", "agg", "entities", "periods"}
  /\ o.periods \in Seq(Range(o.periods))

IsIntent(intent) ==
  /\ DOMAIN intent = {"operation", "operands", "periods", "grouping", "grain",
                      "comparison", "formula", "ranking"}
  /\ intent.operands \in Seq(Range(intent.operands))
  /\ \A i \in 1..Len(intent.operands) : IsOperand(intent.operands[i])
  /\ intent.grouping \in Seq(Range(intent.grouping))

\* AnalysisOperand and AnalysisIntent accept these shapes only.
ValidShape(intent) ==
  LET n == Len(intent.operands)
      NamesTwo(a, b) == a # b /\ {a, b} \subseteq OperandIds(intent)
  IN /\ n >= 1
     /\ \A i, j \in 1..n : intent.operands[i].id = intent.operands[j].id => i = j
     /\ \A i \in 1..n : LET es == intent.operands[i].entities IN
          \A j, k \in 1..Len(es) : es[j].role = es[k].role => j = k
     /\ intent.comparison # <<>> =>
          /\ intent.operation = "compare"
          /\ NamesTwo(intent.comparison[1].baseline, intent.comparison[1].target)
     /\ intent.operation = "compare" => n >= 2
     /\ intent.operation = "compare_periods" => n = 1 /\ Len(intent.periods) = 2
     /\ (intent.operation = "group") = (intent.grouping # <<>>)
     /\ (intent.operation = "calculate") = (intent.formula # <<>>)
     /\ intent.formula # <<>> =>
          NamesTwo(intent.formula[1].numerator, intent.formula[1].denominator)
     /\ (intent.operation = "rank") = (intent.ranking # <<>>)
     /\ intent.operation = "rank" => n = 1 /\ intent.ranking[1].limit \in 1..100

-----------------------------------------------------------------------------
(* The evidence gate *)

\* A number may be computed only from operands that say where the gas flows.
RoutingEvidence(operand) ==
  \/ {"article", "route"} \cap Roles(operand) # {}
  \/ {"source", "destination"} \subseteq Roles(operand)
  \/ /\ "destination" \in Roles(operand)
     /\ \E e \in Range(operand.entities) : e.type = "geo_object"

\* A name is the set of its words; words every name has do not count.
SemanticName(name) == name \ {"gp", "tg", "ot", "daily", "balance", "gas"}

\* The names a record goes by, unless nothing is left of them.
Variants(record) == {SemanticName(n) : n \in {record} \cup Aliases(record)} \ {{}}

Overlaps(a, b) == a = b \/ Inside(a, b) \/ Inside(b, a)

\* Fault: a word in common is enough.
FaultCovered(record, labels) == \E label \in labels : record \cap label # {}

\* _record_is_covered: one of its names contains a bound one, or is part of it.
Covered(record, labels) ==
  \E label \in labels, v \in Variants(record) : Overlaps(v, SemanticName(label))

\* validate_bound_intent raises no issue; `explicit` are the names the message
\* itself spells out.
EvidenceComplete(intent, explicit) ==
  /\ \A o \in Range(intent.operands) :
       /\ EffectivePeriods(intent, o) # <<>>
       /\ o.entities = <<>> => explicit = {}
       /\ intent.operation \in {"calculate", "compare", "rank"} => RoutingEvidence(o)
  /\ intent.operation = "compare_periods" =>
       Len(intent.operands) = 1 /\ Len(intent.periods) = 2
  /\ intent.operation = "compare" => Len(intent.operands) >= 2
  /\ intent.operation = "calculate" =>
       /\ intent.formula # <<>>
       /\ intent.formula[1].numerator # intent.formula[1].denominator
       /\ {intent.formula[1].numerator, intent.formula[1].denominator}
            \subseteq OperandIds(intent)
  /\ intent.operation = "rank" => intent.ranking # <<>> /\ Len(intent.operands) = 1
  /\ LET labels == UNION {{e.name : e \in Range(o.entities)} :
                            o \in Range(intent.operands)}
     IN \A record \in explicit : Covered(record, labels)

-----------------------------------------------------------------------------
(* Normalisations *)

\* Metric and canonical entities agree; their order and wording do not matter.
SameScope(a, b) ==
  /\ a.metric = b.metric
  /\ {<<e.role, e.type, e.id>> : e \in Range(a.entities)}
       = {<<e.role, e.type, e.id>> : e \in Range(b.entities)}

\* One target compared over two periods is a comparison of periods.
IsPeriodComparison(intent) ==
  /\ intent.operation = "compare"
  /\ Len(intent.operands) = 2
  /\ LET a == intent.operands[1]
         b == intent.operands[2]
     IN /\ SameScope(a, b)
        /\ a.agg = b.agg
        /\ Len(a.periods) = 1 /\ Len(b.periods) = 1
        /\ a.periods # b.periods

PeriodComparison(intent) ==
  IF ~IsPeriodComparison(intent) THEN intent
  ELSE [intent EXCEPT
         !.operation = "compare_periods",
         !.operands = <<[intent.operands[1] EXCEPT !.periods = <<>>]>>,
         !.periods = intent.operands[1].periods \o intent.operands[2].periods,
         !.comparison = <<>>]

\* "Average per month" names the grain; a bare "average" takes the grain of the
\* series the active scope has just answered with, if it is of the same scope.
\* `active` is that scope's intent and the row count of its result, if any.
ReductionGrain(intent, words, active) ==
  IF words.mean # "bare" THEN words.mean
  ELSE IF /\ active # <<>>
          /\ active[1].rows > 1
          /\ active[1].intent.grain \in Grains
          /\ Len(active[1].intent.operands) = 1
          /\ SameScope(intent.operands[1], active[1].intent.operands[1])
       THEN active[1].intent.grain ELSE "none"

SeriesReduction(intent, words, active) ==
  IF /\ intent.operation = "aggregate" /\ Len(intent.operands) = 1
     /\ intent.operands[1].agg \in Reductions
     /\ ReductionGrain(intent, words, active) # "none"
  THEN [intent EXCEPT !.grain = ReductionGrain(intent, words, active)]
  ELSE intent

IsTemporal(intent) ==
  Len(intent.grouping) = 1 /\ intent.grouping[1].dimension = "period"

\* The grain and the aggregate a grouping by period spells out win over the
\* interpreter's; without a word for it the aggregate is the metric's own.
TemporalGrouping(intent, words) ==
  IF ~(intent.operation = "group" /\ IsTemporal(intent)) THEN intent
  ELSE [intent EXCEPT
         !.grain = IF words.grain # "none" THEN words.grain ELSE @,
         !.grouping[1].agg =
            IF words.agg # "none" THEN words.agg
            ELSE MetricDefinition(intent.operands[1].metric).default]

-----------------------------------------------------------------------------
(* Balance-level answers: rows of one daily balance instead of one number *)

PlainShow(intent, metrics) ==
  /\ intent.operation = "show"
  /\ Len(intent.operands) = 1
  /\ intent.operands[1].metric \in metrics

RoleList(intent) ==
  [i \in 1..Len(intent.operands[1].entities) |-> intent.operands[1].entities[i].role]

IsFullBalance(intent) ==
  /\ PlainShow(intent, {"balance"})
  /\ RoleList(intent) = <<"balance">>
  /\ intent.operands[1].entities[1].type = "balance"

IsBalanceSection(intent) ==
  PlainShow(intent, {"balance_section"}) /\ RoleList(intent) = <<"balance", "article">>

IsDirectedFlow(intent) ==
  /\ PlainShow(intent, {"incoming", "distribution"})
  /\ RoleList(intent) \in {<<"balance", "source", "article">>,
                           <<"balance", "destination", "article">>}
  /\ intent.operands[1].agg = "sum"

IsBalanceLevel(intent) ==
  IsFullBalance(intent) \/ IsBalanceSection(intent) \/ IsDirectedFlow(intent)
=============================================================================
