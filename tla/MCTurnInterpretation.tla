------------------------ MODULE MCTurnInterpretation ------------------------
(* A small instance of TurnInterpretation for TLC. *)
EXTENDS TurnInterpretation

Moscow == {"tg", "moscow"}
Tomsk == {"tg", "tomsk"}
Kazan == {"gp", "kazan"}
Samara == {"gp", "samara"}
Perm == {"tg", "perm"}
Town == {"tomsk"}
Omsk == {"omsk"}

\* A geo object is called like a part of a balance; the name of another is part of
\* its, in letters though not in words.
MCAliases(record) == IF record = Town THEN {{"tomsk", "region"}} ELSE {}
MCInside(a, b) == a \subseteq b \/ (a = {"omsk"} /\ "tomsk" \in b)

\* Moscow distributes to Tomsk and to Kazan and takes in from Tomsk; Tomsk
\* distributes to Moscow; Perm takes in from both.
Rec(type, id, name) ==
  [type |-> type, id |-> id, name |-> name, balance |-> "none", section |-> "none", path |-> <<>>]
Art(id, name, balance, section, path) ==
  [type |-> "article", id |-> id, name |-> name, balance |-> balance, section |-> section,
   path |-> path]
Out(id, name, balance) ==
  Art(id, name, balance, "distribution", <<{"distribution"}, {"outside"}, name>>)
In(id, name, balance) ==
  Art(id, name, balance, "resources", <<{"resources"}, {"incoming"}, name>>)

MCRegistry ==
  {Rec("balance", b[1], b[2]) : b \in {<<"b1", Moscow>>, <<"b2", Tomsk>>, <<"b3", Perm>>}}
  \cup {Rec("geo_object", g[1], g[2]) :
          g \in {<<"g1", Kazan>>, <<"g2", Samara>>, <<"g3", Town>>, <<"g4", Omsk>>}}
  \cup {Out(a[1], a[2], a[3]) :
          a \in {<<"a2", Tomsk, "b1">>, <<"a3", Kazan, "b1">>, <<"a6", Moscow, "b2">>}}
  \cup {In(a[1], a[2], a[3]) :
          a \in {<<"a4", Tomsk, "b1">>, <<"a7", Moscow, "b3">>, <<"a8", Tomsk, "b3">>}}
  \cup {Art("a1", {"distribution"}, "b1", "distribution", <<{"distribution"}>>),
        Art("a5", {"own", "consumers"}, "b1", "distribution",
            <<{"distribution"}, {"own", "consumers"}>>)}

Day(d) == [from |-> d, to |-> d + 1, label |-> "date"]
Today == [Day(1) EXCEPT !.label = "today"]

Unanalyzed == [intent |-> "show", metric |-> "distribution", from |-> {}, to |-> {},
               periods |-> <<Day(1)>>, clarify |-> FALSE, agg |-> "sum", whole |-> FALSE]
Silent == [mean |-> "none", grain |-> "none", agg |-> "none"]

Expression(metric, geos) == [metric |-> metric, agg |-> "sum", entities |-> <<>>, geos |-> geos]
GeoRef(name) == Ref("destination", One(Named("geo_object", name)))

ShowPlan(geos) ==
  [requested |-> "show", operation |-> "show", metric |-> "distribution", agg |-> "sum",
   periods |-> <<Day(1)>>, expressions |-> <<Expression("distribution", geos)>>,
   groupBy |-> <<>>, grain |-> None, rank |-> "none"]

Words(says) ==
  [says |-> says, spans |-> <<>>, geos |-> <<>>, analyzed |-> Unanalyzed, arrow |-> FALSE,
   day |-> <<>>, section |-> {}, peers |-> <<>>, own |-> <<>>, derived |-> FALSE,
   compound |-> FALSE, words |-> Silent, plan |-> ShowPlan(<<>>), geo |-> <<>>]

Span(name, before) == [name |-> name, before |-> before]
FromTo == <<Span(Moscow, "source"), Span(Tomsk, "destination")>>
Between == [Unanalyzed EXCEPT !.metric = "flow_balance", !.from = Moscow, !.to = Tomsk]
ComparePlan(geos) == [ShowPlan(geos) EXCEPT !.requested = "compare", !.operation = "compare"]

ToKazan == [Words("geo") EXCEPT !.geos = <<Kazan>>, !.plan = ShowPlan(<<GeoRef(Kazan)>>)]
TwoGeos == [Words("two") EXCEPT !.geos = <<Kazan, Samara>>, !.derived = TRUE]
ThreeGeos == [TwoGeos EXCEPT !.geos = <<Kazan, Samara, Town>>]
TwoTowns == [Words("towns") EXCEPT !.geos = <<Town, Omsk>>, !.derived = TRUE]
TheOtherWay == [Words("reverse") EXCEPT !.derived = TRUE]
FollowUp == [Words("more") EXCEPT !.compound = TRUE]
NewBalance == [Words("balance") EXCEPT !.spans = <<Span(Tomsk, "source")>>]
BothEnds == [Words("ends") EXCEPT !.spans = FromTo]

\* What share of all that Moscow distributes comes in from Tomsk.
Share == [Words("share") EXCEPT !.derived = TRUE,
            !.spans = <<Span(Tomsk, "source"), Span(Moscow, "destination"), Span(Moscow, "balance")>>]

\* The routes that need no interpreter.
Direct ==
  {[BothEnds EXCEPT !.arrow = TRUE, !.analyzed = Between],
   [BothEnds EXCEPT !.analyzed = Between,
      !.plan.expressions = <<Expression("incoming", <<>>), Expression("distribution", <<>>)>>],
   [BothEnds EXCEPT !.day = <<Day(1)>>],
   [BothEnds EXCEPT !.day = <<Day(1)>>, !.analyzed.metric = "incoming",
      !.spans = <<Span(Tomsk, "source"), Span(Moscow, "destination")>>],
   [Words("none") EXCEPT !.day = <<Day(1)>>, !.spans = <<Span(Moscow, "source")>>,
      !.section = {"distribution"}],
   [Words("none") EXCEPT !.day = <<Day(1)>>, !.spans = <<Span(Moscow, "source")>>,
      !.analyzed.metric = "balance", !.analyzed.whole = TRUE],
   [Words("none") EXCEPT !.own = <<Kazan, Moscow>>, !.plan = ComparePlan(<<>>)],
   [Words("none") EXCEPT !.peers = <<Kazan, Samara>>, !.geos = <<Kazan, Samara>>,
      !.plan = ComparePlan(<<GeoRef(Kazan)>>)],
   [Words("none") EXCEPT !.peers = <<Kazan, Samara>>],
   [Words("none") EXCEPT !.spans = <<Span(Moscow, "source")>>, !.geos = <<Kazan>>],
   [Words("none") EXCEPT !.plan = ComparePlan(<<GeoRef(Kazan), GeoRef(Samara)>>)],
   [Words("none") EXCEPT !.plan = ComparePlan(<<>>), !.plan.operation = "show"]}

MCMessages == {ToKazan, TwoGeos, ThreeGeos, TheOtherWay, FollowUp, NewBalance, BothEnds, Share, TwoTowns}
                \cup Direct

-----------------------------------------------------------------------------
Spec0 == [id |-> <<"operand", 1>>, source |-> <<>>, metric |-> None, agg |-> None,
          entityMode |-> "inherit", handles |-> <<>>, mentions |-> <<>>,
          periodMode |-> "inherit", periodHandles |-> <<>>, periods |-> <<>>, reverse |-> FALSE]
Graph0 == [operation |-> "show", operands |-> <<Spec0>>, periodHandles |-> <<>>,
           periods |-> <<>>, grouping |-> <<>>, grain |-> None, comparison |-> <<>>,
           formula |-> <<>>, ranking |-> <<>>]
GraphOf(operation, specs, periods) ==
  [kind |-> "graph", mode |-> "mutation",
   graph |-> [Graph0 EXCEPT !.operation = operation, !.operands = specs, !.periods = periods]]
Is(kind) == [kind |-> kind, mode |-> kind]

To(name) == [text |-> name, role |-> "destination"]
From(name) == [text |-> name, role |-> "source"]
Flow(i, mentions, periods) ==
  [Spec0 EXCEPT !.id = <<"operand", i>>, !.metric = "distribution", !.mentions = mentions,
                !.periods = periods]

\* MCDrafts, of a session with an active scope: everything kept, but for one field.
Kept == [action |-> "keep", values |-> <<>>, scope |-> "none"]
SetTo(values) == [Kept EXCEPT !.action = "set", !.values = values]
Refer(scope) == [Kept EXCEPT !.action = "reference", !.scope = scope]
Draft0 == [operation |-> Kept, metrics |-> Kept, periods |-> Kept, grouping |-> Kept,
           grain |-> Kept, agg |-> Kept, reverse |-> FALSE,
           entities |-> [action |-> "keep", mentions |-> <<>>]]
DraftOf(draft) == [kind |-> "draft", mode |-> "mutation", draft |-> draft]
Edits ==
  {[Draft0 EXCEPT !.periods = SetTo(<<Day(2)>>)],
   [Draft0 EXCEPT !.periods = Refer("last_attempted_scope"), !.reverse = TRUE],
   [Draft0 EXCEPT !.operation = SetTo(<<"aggregate">>), !.agg = SetTo(<<"max">>)],
   [Draft0 EXCEPT !.agg = Refer("last_successful_scope")],
   [Draft0 EXCEPT !.metrics = SetTo(<<"distribution", "incoming">>)],
   [Draft0 EXCEPT !.operation.action = "clear"]}
Matrix ==
  [Draft0 EXCEPT !.operation = SetTo(<<"compare">>), !.metrics = SetTo(<<"distribution">>),
                 !.entities = [action |-> "set", mentions |-> <<To(Kazan), To(Samara)>>]]

Handles(frames) ==
  {[turn |-> x.turn, operand |-> x.operand.id] : x \in OperandIndex(frames)}
Sources(frames) == {<<>>} \cup {<<h>> : h \in Handles(frames)}
Stale == <<[turn |-> 1, operand |-> <<"operand", 1>>]>>

\* The graphs and drafts, as a continuation and as a message taken alone.
WithModes(decisions) ==
  decisions \cup {[d EXCEPT !.mode = "standalone"] :
                    d \in {x \in decisions : x.kind \in {"graph", "draft"}}}

\* What is understood of a message whatever came before it.
TakenAlone ==
  [geo |-> {GraphOf("show", <<Flow(1, <<To(Kazan)>>, <<Day(1)>>)>>, <<>>),
            GraphOf("show", <<Spec0>>, <<>>)},
   two |-> {GraphOf("compare", <<Flow(1, <<>>, <<>>)>>, <<Day(1)>>),
            GraphOf("compare", <<Flow(1, <<To(Kazan)>>, <<Day(1)>>),
                                 Flow(2, <<To(Samara)>>, <<Day(2)>>)>>, <<>>),
            GraphOf("show", <<Flow(1, <<To(Town)>>, <<Day(1)>>)>>, <<>>)},
   reverse |->
     {GraphOf("show", <<[Flow(1, <<From(Kazan), To(Samara)>>, <<Day(1)>>)
                           EXCEPT !.reverse = r]>>, <<>>) : r \in BOOLEAN},
   more |-> {Is("clarify"), Is("unsupported"), GraphOf("show", <<>>, <<>>)},
   balance |-> {},
   ends |->
     {GraphOf("show", <<[Flow(1, <<>>, <<Day(1)>>) EXCEPT !.metric = metric]>>, <<>>) :
        metric \in {"incoming", "distribution"}}
     \cup {GraphOf("show", <<Spec0>>, <<>>)},
   share |->
     {[GraphOf("calculate", <<[Flow(1, <<From(Tomsk), To(Moscow)>>, <<>>) EXCEPT !.metric = "incoming"],
                              Flow(2, <<[text |-> Moscow, role |-> "balance"]>>, <<>>)>>, <<Day(1)>>)
         EXCEPT !.graph.formula =
           <<[operator |-> "percent_of", numerator |-> <<"operand", 1>>,
              denominator |-> <<"operand", 2>>]>>]},
   towns |-> {GraphOf("show", <<Flow(1, <<>>, <<Day(1)>>)>>, <<>>)}]

MCDrafts == [two |-> WithModes({DraftOf(Matrix)}), more |-> {DraftOf(d) : d \in Edits}]

\* What is understood of it as the continuation of a frame.
Continuing(says, frames) ==
  CASE says = "reverse" ->
         WithModes({GraphOf("show", <<[Spec0 EXCEPT !.reverse = TRUE, !.source = s]>>, <<>>) :
                      s \in Sources(frames)})
    [] says = "more" ->
         {GraphOf("aggregate", <<[Spec0 EXCEPT !.source = s, !.agg = "max", !.periods = p]>>, <<>>) :
            s \in Sources(frames) \cup {Stale}, p \in {<<>>, <<Day(2)>>}}
         \cup {GraphOf("show", <<[Spec0 EXCEPT !.metric = "incoming",
                                   !.periodHandles = <<Days(Day(d))>>]>>, <<Today>>) : d \in 1..2}
    [] says = "balance" ->
         {GraphOf("show", <<[Spec0 EXCEPT !.source = s]>>, <<>>) : s \in Sources(frames)}
    [] OTHER -> {}

MCInterpretations(m, frames) ==
  IF m.says \notin DOMAIN TakenAlone THEN {Is("unsupported")}
  ELSE WithModes(TakenAlone[m.says]) \cup Continuing(m.says, frames)
         \cup (IF frames # <<>> /\ m.says \in DOMAIN MCDrafts THEN MCDrafts[m.says] ELSE {})

\* Stored sessions.  The first is of a flow.  Of the next two the turns are older than
\* the window; their last turn succeeded with two operands, or did not succeed.  The
\* window of the fourth has lost its active turn.
Old(operation, names, own) ==
  GraphIntent([Graph0 EXCEPT !.operation = operation],
    [i \in 1..Len(names) |->
      [id |-> <<"operand", i>>, metric |-> "distribution", agg |-> "sum",
       entities |-> <<GeoRef(names[i])>>, periods |-> own]], <<Day(1)>>)
Turn(intent, outcome) == [intent |-> intent, outcome |-> outcome]
FromMoscowToPerm ==
  GraphIntent(Graph0,
    <<[id |-> <<"operand", 1>>, metric |-> "incoming", agg |-> "sum", periods |-> <<>>,
       entities |-> <<Ref("balance", One(BalanceNamed(Perm))),
                      Ref("article", One(WithId("article", "a7")))>>]>>, <<Day(1)>>)
Missed == <<Turn(Old("show", <<Samara>>, <<>>), "success"),
            Turn(Old("show", <<Kazan>>, <<>>), "no_data")>>
MCSessions ==
  {[journal |-> <<Turn(FromMoscowToPerm, "success")>>, since |-> 0],
   [journal |-> Missed, since |-> 2],
   [journal |-> <<Turn(Old("compare", <<Samara, Kazan>>, <<Day(2)>>), "success")>>, since |-> 1],
   [journal |-> Missed, since |-> 0]}
=============================================================================
