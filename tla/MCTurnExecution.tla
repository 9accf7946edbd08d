-------------------------- MODULE MCTurnExecution --------------------------
(* A small instance of TurnExecution for TLC. *)
EXTENDS TurnExecution

Op(i) == <<"operand", i>>
Day(d) == [from |-> d, to |-> d + 1, label |-> "date"]
Month == [from |-> 1, to |-> 4, label |-> "month"]

\* No record has another name; a name is part of another when its words are.
MCAliases(record) == {}
MCInside(a, b) == a \subseteq b

Entity(role, type, id) == [role |-> role, type |-> type, id |-> id, name |-> {id}]
Balance == Entity("balance", "balance", "b1")
Region(id) == Entity("destination", "geo_object", id)
Section == Entity("article", "article", "a1")
Target == Entity("destination", "balance", "b2")

Operand(i, metric, agg, entities, periods) ==
  [id |-> Op(i), metric |-> metric, agg |-> agg, entities |-> entities, periods |-> periods]

Blank == [operation |-> "show", operands |-> <<>>, periods |-> <<Month>>,
          grouping |-> <<>>, grain |-> "none", comparison |-> <<>>, formula |-> <<>>,
          ranking |-> <<>>]

Flow(i, region, periods) == Operand(i, "distribution", "sum", <<Region(region)>>, periods)

\* The second day, in another wording.
Yesterday == [Day(2) EXCEPT !.label = "yesterday"]

\* Two or three regions, two periods of one region, and one region twice, also over
\* one day in two wordings; with and without a named baseline.
Comparisons ==
  {[Blank EXCEPT !.operation = "compare", !.operands = os, !.comparison = c] :
     os \in {<<Flow(1, "g1", <<>>), Flow(2, "g2", <<>>)>>,
             <<Flow(1, "g1", <<Day(1)>>), Flow(2, "g1", <<Day(2)>>)>>,
             <<Flow(1, "g1", <<>>), Flow(2, "g1", <<>>)>>,
             <<Flow(1, "g1", <<Day(2)>>), Flow(2, "g1", <<Yesterday>>)>>,
             <<Flow(1, "g1", <<>>), Flow(2, "g2", <<Day(2)>>), Flow(3, "g1", <<>>)>>,
             <<Operand(1, "distribution", "sum", <<>>, <<>>), Flow(2, "g2", <<>>)>>},
     c \in {<<>>, <<[baseline |-> Op(2), target |-> Op(1)]>>}}

PeriodComparisons ==
  {[Blank EXCEPT !.operation = "compare_periods", !.operands = <<Flow(1, "g1", <<>>)>>,
                 !.periods = <<Day(2), Day(1)>>]}

Calculations ==
  {[Blank EXCEPT !.operation = "calculate",
      !.operands = <<Flow(1, "g1", <<>>), Flow(2, "g2", <<>>)>>,
      !.formula = <<[operator |-> op, numerator |-> Op(2), denominator |-> Op(1)]>>] :
     op \in {"delta", "ratio", "percent_of", "percent_change"}}

Rankings ==
  {[Blank EXCEPT !.operation = "rank", !.operands = <<Flow(1, "g1", <<>>)>>,
      !.ranking = <<[direction |-> d, grain |-> "day", bucket |-> b, limit |-> 2]>>] :
     d \in {"max", "min"}, b \in {"sum", "last"}}

\* An aggregate over the period or over its days; a stock is not summed up.
Aggregations ==
  {[Blank EXCEPT !.operation = "aggregate", !.grain = g,
      !.operands = <<Operand(1, m, a, <<Region("g1")>>, <<>>)>>] :
     g \in {"none", "day"}, m \in {"distribution", "stock"}, a \in {"avg", "max", "first"}}

TemporalGroupings ==
  {[Blank EXCEPT !.operation = "group", !.grain = g, !.operands = <<Flow(1, "g1", <<>>)>>,
      !.grouping = <<[dimension |-> "period", agg |-> "last"]>>] : g \in {"none", "day"}}

RegionGroupings ==
  {[Blank EXCEPT !.operation = "group", !.operands = os,
      !.grouping = <<[dimension |-> d, agg |-> "sum"]>>] :
     d \in {"geo", "article", "source"},
     os \in {<<Flow(1, "g1", <<>>)>>, <<Flow(1, "g1", <<>>), Flow(2, "g2", <<>>)>>}}

Shows ==
  {[Blank EXCEPT !.operands = <<o>>] :
     o \in {Flow(1, "g1", <<>>), Flow(1, "g1", <<Day(2)>>),
            Operand(1, "balance", "sum", <<Balance>>, <<Day(1)>>),
            Operand(1, "balance_section", "sum", <<Balance, Section>>, <<Day(1)>>),
            Operand(1, "distribution", "sum", <<Balance, Target, Section>>, <<Day(1)>>)}}
  \cup {[Blank EXCEPT !.operation = "multi_step", !.operands = <<Flow(1, "g1", <<>>)>>],
        [Blank EXCEPT !.operands = <<Flow(1, "g1", <<>>)>>, !.periods = <<>>]}

\* The analyser's period of a flow from one balance to another may be of any
\* length (_deterministic_analyzed_flow_mutation).
DirectedFlows ==
  {[Blank EXCEPT
      !.operands = <<Operand(1, "distribution", "sum", <<Balance, Target, Section>>, <<>>)>>]}

Silent == [mean |-> "none", grain |-> "none", agg |-> "none"]

TurnOf(i) ==
  [intent |-> i, explicit |-> {}, words |-> Silent, active |-> <<>>, reuse |-> <<>>,
   live |-> TRUE, memory |-> TRUE]

DaySeries ==
  <<[intent |-> [Blank EXCEPT !.operation = "group", !.grain = "day",
                   !.operands = <<Flow(1, "g1", <<>>)>>], rows |-> 3]>>

\* A row with a label says it in its geo as well.
GroupRow(key, type, label, hints, value) ==
  [key |-> key, type |-> type, label |-> label, value |-> value,
   hints |-> IF label = NoLabel THEN hints ELSE <<label>> \o hints]

Reused ==
  <<GroupRow("g1", "geo_object", "l1", <<>>, 6), GroupRow(NoEntity, "none", "l2", <<>>, 12),
    GroupRow("g1", "none", "l2", <<>>, 0)>>

MCTurns ==
  {TurnOf(i) : i \in Comparisons \cup PeriodComparisons \cup Calculations \cup Rankings
                   \cup Aggregations \cup TemporalGroupings \cup RegionGroupings \cup Shows}
  \cup {[TurnOf(i) EXCEPT !.explicit = {{e, "gp"}}] : i \in Comparisons, e \in {"g2", "g3"}}
  \cup {[TurnOf(i) EXCEPT !.words.mean = m, !.active = a] :
          i \in Aggregations, m \in {"bare", "month"}, a \in {<<>>, DaySeries}}
  \cup {[TurnOf(i) EXCEPT !.words.grain = "month", !.words.agg = "avg"] : i \in TemporalGroupings}
  \cup {[TurnOf(i) EXCEPT !.reuse = Reused] : i \in RegionGroupings}
  \cup {[TurnOf(i) EXCEPT !.live = FALSE] : i \in RegionGroupings \cup Shows}

\* A row called k, of the k-th day, of no known day, or of a day without an end.
Row(k, value) == [key |-> k, day |-> <<k>>, to |-> <<k + 1>>, value |-> value]
Undated(k, value) == [Row(k, value) EXCEPT !.day = <<>>, !.to = <<>>]
Endless(k, value) == [Row(k, value) EXCEPT !.to = <<>>]

\* Days of a series, in any order, with equal values; an unreadable row; no row.
Series == {<<1, 2, 3>>, <<3, 1, 2>>}
MCAnswers ==
  {[status |-> "ok", rows |-> <<>>], [status |-> "no_data", rows |-> <<>>],
   [status |-> "error", rows |-> <<>>], [status |-> "ok", rows |-> <<Undated(1, NoValue)>>]}
  \cup {[status |-> "ok", rows |-> <<Undated(1, v)>>] : v \in {0, 6, 12}}
  \cup {[status |-> "partial", rows |-> <<Row(1, 6)>>]}
  \cup {[status |-> "ok", rows |-> [i \in 1..3 |-> Row(k[i], v[i])]] :
          k \in Series, v \in {<<6, 12, 6>>, <<12, 0, 12>>, <<0, 0, 6>>}}
  \cup {[status |-> "ok", rows |-> <<Row(3, 6), r, Row(1, 6)>>] :
          r \in {Undated(2, 6), Endless(2, 12)}}

MCSubtree == [a \in {"a1"} |-> {"a1", "a2"}]
LevelRow(key, value) == [key |-> key, value |-> value]
MCLevelAnswers ==
  {[status |-> s, rows |-> r] : s \in {"ok", "no_data", "error"}, r \in {<<>>}}
  \cup {[status |-> "ok", rows |-> r] :
          r \in {<<LevelRow("a3", 6), LevelRow("a1", 6), LevelRow("a2", 12)>>,
                 <<LevelRow("a3", 6), LevelRow("a2", 12)>>}}
  \cup {[status |-> "partial", rows |-> <<LevelRow("a1", 6)>>]}

\* The third label names two regions, the fourth none.
MCGeosNamed == [l \in {"l1", "l2", "l3", "l4"} |->
                  CASE l = "l1" -> {"g1"} [] l = "l2" -> {"g2"}
                    [] l = "l3" -> {"g1", "g2"} [] OTHER -> {}]
MCGroupAnswers ==
  {[status |-> "no_data", rows |-> <<>>], [status |-> "error", rows |-> <<>>],
   [status |-> "ok", rows |-> <<>>]}
  \cup {[status |-> "ok", rows |-> <<GroupRow(k, t, l, h, v), GroupRow("g2", "none", "l1", <<>>, 12)>>] :
          k \in {"g1", "g2", NoEntity}, t \in {"none", "geo_object", "article"},
          l \in {"l1", "l3", "l4", NoLabel}, h \in {<<>>, <<"l2">>}, v \in {6, NoValue}}

MCLongFlows == {TurnOf(i) : i \in DirectedFlows}
=============================================================================
