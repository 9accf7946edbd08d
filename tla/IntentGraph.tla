---------------------------- MODULE IntentGraph ----------------------------
(***************************************************************************)
(* binding.py, InterpretationMutationCompiler: what the interpreter made   *)
(* of a message, a graph of operands that refers to earlier turns by       *)
(* handle and to new entities by mention, or a draft of directives, is     *)
(* compiled into the full bound intent of the turn.                        *)
(*                                                                         *)
(* A handle is what it stands for: an operand's is its turn and its id, an *)
(* entity's its role, type and id, a period's its days (conversation.py    *)
(* makes them of exactly that).  Units are left out.                       *)
(***************************************************************************)
EXTENDS EntityBinding

\* What a directive or a draft does not set.
None == "none"

\* What compile raises, or the bound intent.
Bound(intent) == [kind |-> "bound", intent |-> intent, operand |-> <<>>]
BindingError == [kind |-> "binding", intent |-> <<>>, operand |-> <<>>]
RelationMissing(operand) == [kind |-> "relation", intent |-> <<>>, operand |-> <<operand>>]

\* A contract violation the compiler does not catch.
Crash == [kind |-> "crash", intent |-> <<>>, operand |-> <<>>]

-----------------------------------------------------------------------------
(* What the interpreter may say: the contract its answer is validated against *)

IsMention(m) == DOMAIN m = {"text", "role"} /\ m.role \in EntityRoles

AreMentions(mentions) == IsList(mentions) /\ \A m \in Range(mentions) : IsMention(m)

IsSpec(s) ==
  /\ DOMAIN s = {"id", "source", "metric", "agg", "entityMode", "handles", "mentions",
                 "periodMode", "periodHandles", "periods", "reverse"}
  /\ \A l \in {s.source, s.handles, s.periodHandles, s.periods} : IsList(l)
  /\ AreMentions(s.mentions)
  /\ {s.entityMode, s.periodMode} \subseteq {"inherit", "replace", "add", "clear"}

IsGraph(g) ==
  /\ DOMAIN g = {"operation", "operands", "periodHandles", "periods", "grouping", "grain",
                 "comparison", "formula", "ranking"}
  /\ g.operation \in Operations
  /\ \A l \in {g.operands, g.periodHandles, g.periods, g.grouping} : IsList(l)
  /\ g.operands # <<>> /\ \A s \in Range(g.operands) : IsSpec(s)

\* A directive carries values exactly if it sets, adds or removes, and names a
\* scope exactly if it refers to one.
IsDirective(d, actions) ==
  /\ d.action \in actions
  /\ IsList(d.values)
  /\ (d.action \in {"set", "add", "remove"}) = (d.values # <<>>)
  /\ d.scope \in {"none", "active_dialog_scope", "last_attempted_scope", "last_successful_scope"}
  /\ (d.action = "reference") = (d.scope # "none")

IsDraft(d) ==
  /\ \A s \in {d.operation, d.agg, d.grain} :
       IsDirective(s, {"keep", "set", "clear", "reference"}) /\ Len(s.values) <= 1
  /\ \A l \in {d.metrics, d.periods, d.grouping} :
       IsDirective(l, {"keep", "set", "add", "remove", "clear", "reference"})
  /\ d.entities.action \in {"keep", "set", "add", "remove", "clear"}
  /\ AreMentions(d.entities.mentions)
  /\ (d.entities.action \in {"keep", "clear"}) = (d.entities.mentions = <<>>)

\* The mode is asked for by whether there is an active scope, but never checked
\* against it.
IsExecutable(d) == d.mode \in {"standalone", "mutation"}

IsDecision(d) ==
  CASE d.kind = "graph" -> IsExecutable(d) /\ IsGraph(d.graph)
    [] d.kind = "draft" -> IsExecutable(d) /\ IsDraft(d.draft)
    [] OTHER -> d.kind \in {"clarify", "unsupported"}

-----------------------------------------------------------------------------
(* Frames: the turns the interpreter is shown, with what they meant *)

\* handle_indexes
OperandIndex(frames) ==
  UNION {{[turn |-> f.turn, operand |-> o] : o \in Range(f.intent.operands)} :
           f \in Range(frames)}

EntityIndex(frames) ==
  UNION {UNION {Range(o.entities) : o \in Range(f.intent.operands)} : f \in Range(frames)}

\* The periods of a frame's operands, each a list, and then those they share.
FramePeriods(f) ==
  Append([i \in 1..Len(f.intent.operands) |-> f.intent.operands[i].periods], f.intent.periods)

PeriodLists(frames) == FlattenSeq([i \in 1..Len(frames) |-> FramePeriods(frames[i])])

\* A handle's period is the first of its days in the last list that has one of them.
PeriodOf(handle, frames) ==
  LET lists == PeriodLists(frames)
      list == lists[SelectLastInSeq(lists, LAMBDA l : handle \in Range(DaysOf(l)))]
  IN list[SelectInSeq(list, LAMBDA p : Days(p) = handle)]

PeriodsKnown(handles, frames) ==
  \A h \in Range(handles) : \E l \in Range(PeriodLists(frames)) : h \in Range(DaysOf(l))

\* Fault: a handle is looked up by the operand's name alone.
FaultSourceOperand(handle, frames) ==
  LET found == {x \in OperandIndex(frames) : x.operand.id = handle.operand}
  IN IF found = {} THEN <<>> ELSE <<(CHOOSE x \in found : TRUE).operand>>

\* The operand a handle names, nothing if the frames do not hold it.
SourceOperand(handle, frames) ==
  LET found == {x \in OperandIndex(frames) :
                  x.turn = handle.turn /\ x.operand.id = handle.operand}
  IN IF found = {} THEN <<>> ELSE <<(CHOOSE x \in found : TRUE).operand>>

Handle(entity) == [role |-> entity.role, type |-> entity.type, id |-> entity.id]

EntityOf(handle, frames) == CHOOSE e \in EntityIndex(frames) : Handle(e) = handle

EntitiesKnown(handles, frames) ==
  \A h \in Range(handles) : \E e \in EntityIndex(frames) : Handle(e) = h

-----------------------------------------------------------------------------
(* The shape of the graph *)

AddNew(seq, x) == IF Contains(seq, x) THEN seq ELSE Append(seq, x)

FirstOfEach(seq) == FoldLeft(AddNew, <<>>, seq)

Destinations(mentions) == FirstOfEach(OfRoles(mentions, {"destination"}))

SameSource(a, b) ==
  /\ a.source = b.source /\ a.metric = b.metric /\ a.agg = b.agg
  /\ a.handles = b.handles /\ a.mentions = b.mentions

\* The same operand over two periods is one operand and two periods.
TwoPeriods(graph) ==
  CASE Len(graph.operands) = 2
         /\ SameSource(graph.operands[1], graph.operands[2])
         /\ \A i \in 1..2 : Len(graph.operands[i].periods) = 1 ->
           [graph EXCEPT
             !.operands = <<[graph.operands[1] EXCEPT
                              !.periodMode = "clear", !.periodHandles = <<>>, !.periods = <<>>]>>,
             !.periodHandles = <<>>,
             !.periods = graph.operands[1].periods \o graph.operands[2].periods,
             !.comparison = <<>>]
    [] Len(graph.operands) = 1 /\ Len(graph.periods) = 2 -> [graph EXCEPT !.comparison = <<>>]
    [] OTHER -> graph

\* One operand compared over the destinations of the message is one operand for
\* each, in their order.
PeerOperands(graph, destinations) ==
  LET id(i) == Append(graph.operands[1].id, i)
  IN [graph EXCEPT
       !.operands = [i \in 1..Len(destinations) |->
          [graph.operands[1] EXCEPT
            !.id = id(i), !.entityMode = "replace", !.handles = <<>>,
            !.mentions = <<destinations[i]>>]],
       !.comparison = <<[baseline |-> id(1), target |-> id(2)]>>]

IsPeerComparison(graph, mentions) ==
  /\ graph.operation = "compare"
  /\ Len(graph.operands) = 1
  /\ Len(Destinations(mentions)) >= 2

\* _normalize_graph_shape
NormalShape(graph, mentions) ==
  IF graph.operation = "compare_periods" THEN TwoPeriods(graph)
  ELSE IF IsPeerComparison(graph, mentions)
  THEN PeerOperands(graph, Destinations(mentions))
  ELSE graph

-----------------------------------------------------------------------------
(* The entities the message itself names *)

\* The mentions that make up an operand the graph gives none, by its metric.
Topology(metric, mentions) ==
  LET Of(role) == OfRoles(mentions, {role})
      route == IF Len(Of("source")) = 1 /\ Len(Of("destination")) = 1
               THEN Of("source") \o Of("destination") ELSE <<>>
      balance == IF Len(Of("balance")) = 1 THEN Of("balance") ELSE <<>>
  IN CASE metric = "incoming" -> route
       [] metric = "distribution" -> IF balance # <<>> THEN balance ELSE route
       [] OTHER -> balance

Complete(spec, mentions) ==
  LET selected == Topology(spec.metric, mentions)
  IN IF spec.handles = <<>> /\ spec.mentions = <<>> /\ selected # <<>>
     THEN [spec EXCEPT !.entityMode = "replace", !.mentions = selected]
     ELSE spec

\* Mentions no operand refers to, by mention or by handle.
Missing(specs, mentions, frames) ==
  LET said == UNION {Range(s.mentions) : s \in Range(specs)}
      held == {[text |-> EntityOf(h, frames).name, role |-> h.role] :
                 h \in {x \in UNION {Range(s.handles) : s \in Range(specs)} :
                          EntitiesKnown(<<x>>, frames)}}
  IN Without(mentions, said \cup held)

\* _reconcile_current_mentions
Reconciled(specs, mentions, frames) ==
  LET n == Len(specs)
      complete == [i \in 1..n |-> Complete(specs[i], mentions)]
      missing == Missing(complete, mentions, frames)
      Asking(spec, named) == [spec EXCEPT !.entityMode = "replace", !.mentions = named]
  IN IF mentions = <<>> THEN specs
     ELSE IF Len(mentions) = n /\ n > 1
     THEN [i \in 1..n |-> [Asking(complete[i], <<mentions[i]>>) EXCEPT !.handles = <<>>]]
     ELSE IF missing = <<>> THEN complete
     ELSE IF n = 1
     THEN LET mode == complete[1].entityMode
          IN <<[Asking(complete[1], complete[1].mentions \o missing) EXCEPT
                 !.entityMode = IF mode = "inherit" THEN "add" ELSE mode]>>
     ELSE IF Len(missing) = n THEN [i \in 1..n |-> Asking(complete[i], <<missing[i]>>)]
     ELSE IF Len(missing) = 1
     THEN [complete EXCEPT ![n] = Asking(complete[n], Append(complete[n].mentions, missing[1]))]
     ELSE complete

-----------------------------------------------------------------------------
(* One operand *)

\* _referenced_periods
Referenced(handles, values, frames) ==
  FirstOfEach([i \in 1..Len(handles) |-> PeriodOf(handles[i], frames)] \o values)

\* A mode that keeps what there is cannot select; what it selects replaces it.
Mode(mode, selects) == IF mode = "inherit" /\ selects THEN "replace" ELSE mode

\* _graph_periods, if the mode allows what is selected.
GraphPeriods(mode, inherited, selected) ==
  CASE mode = "inherit" -> inherited
    [] mode = "clear" -> <<>>
    [] mode = "replace" -> selected
    [] mode = "add" -> inherited \o Without(selected, Range(inherited))

\* One entity per role; the later one takes the place of the earlier.
PutRole(entities, e) ==
  LET i == SelectInSeq(entities, LAMBDA x : x.role = e.role)
  IN IF i = 0 THEN Append(entities, e) ELSE [entities EXCEPT ![i] = e]

PutRoles(entities, selected) == FoldLeft(PutRole, entities, selected)

\* _graph_entities, likewise.
GraphEntities(mode, inherited, selected) ==
  CASE mode = "inherit" -> inherited
    [] mode = "clear" -> <<>>
    [] mode \in {"replace", "add"} ->
         PutRoles(IF mode = "add" THEN inherited ELSE <<>>, selected)

\* Those over just these days.
Over(operands, periods) ==
  {o \in Range(operands) : Range(DaysOf(o.periods)) = Range(DaysOf(periods))}

\* Fault: the first such operand.
FaultOperandOfPeriods(operands, requested) ==
  LET matches == Over(operands, requested)
  IN IF requested = <<>> \/ matches = {} THEN <<>> ELSE <<CHOOSE o \in matches : TRUE>>

\* _unique_active_operand_for_period
OperandOfPeriods(operands, requested) ==
  IF requested = <<>> THEN <<>>
  ELSE Only(Over(operands, requested))

\* The operand a spec continues: the one its handle names, else, in a mutation,
\* the only active one or the only active one over the periods asked for.
Source(spec, mode, active, globals, frames) ==
  IF spec.source # <<>> THEN SourceOperand(spec.source[1], frames)
  ELSE IF mode # "mutation" THEN <<>>
  ELSE IF Len(active) = 1 THEN active
  ELSE OperandOfPeriods(active,
         IF spec.periodHandles # <<>> \/ spec.periods # <<>>
         THEN Referenced(spec.periodHandles, spec.periods, frames) ELSE globals)

\* A spec that continues an operand without saying which of several.
Ambiguous(spec, mode, active, source) ==
  /\ source = <<>> /\ mode = "mutation" /\ active # <<>>
  /\ spec.entityMode = "inherit" /\ spec.handles = <<>> /\ spec.mentions = <<>>

\* The aggregate is the spec's, else the source's for the same metric, else the
\* metric's own.
AggregateOf(spec, metric, source) ==
  IF spec.agg # None THEN spec.agg
  ELSE IF source # <<>> THEN IF source[1].metric = metric THEN source[1].agg
                             ELSE MetricDefinition(metric).default
  ELSE MetricDefinition(metric).default

\* A field of the source, if there is one.
FieldOf(source, field) == IF source = <<>> THEN <<>> ELSE source[1][field]

MetricOf(spec, source) ==
  IF spec.metric # None \/ source = <<>> THEN spec.metric ELSE source[1].metric

EntityModeOf(spec) == Mode(spec.entityMode, spec.handles # <<>> \/ spec.mentions # <<>>)

PeriodModeOf(spec) == Mode(spec.periodMode, spec.periodHandles # <<>> \/ spec.periods # <<>>)

KnownEntities(spec, frames) == [i \in 1..Len(spec.handles) |-> EntityOf(spec.handles[i], frames)]

\* What _compile_graph and its helpers raise for one spec; `held` are the
\* entities it starts from.
LegalSpec(spec, source, metric, held, frames) ==
  /\ spec.source # <<>> => source # <<>>
  /\ metric # None
  /\ EntitiesKnown(spec.handles, frames)
  /\ Bindable(spec.mentions, held \o KnownEntities(spec, frames), metric)
  /\ EntityModeOf(spec) = "clear" => spec.handles = <<>> /\ spec.mentions = <<>>
  /\ PeriodModeOf(spec) = "clear" => spec.periodHandles = <<>> /\ spec.periods = <<>>
  /\ AggregateOf(spec, metric, source) \in MetricDefinition(metric).allowed

SpecEntities(spec, metric, held, frames) ==
  LET known == KnownEntities(spec, frames)
  IN GraphEntities(EntityModeOf(spec), held,
       known \o BindOperand(spec.mentions, held \o known, metric))

SpecOperand(spec, source, metric, held, frames) ==
  WithMetricArticle(
    [id |-> spec.id, metric |-> metric, agg |-> AggregateOf(spec, metric, source),
     entities |-> SpecEntities(spec, metric, held, frames),
     periods |-> GraphPeriods(PeriodModeOf(spec), FieldOf(source, "periods"),
                              Referenced(spec.periodHandles, spec.periods, frames))])

InDirection(operand, reverse) ==
  IF reverse /\ ~Reversible(operand) THEN RelationMissing(Reversed(operand))
  ELSE [BindingError EXCEPT !.kind = "bound",
                            !.operand = <<IF reverse THEN Reversed(operand) ELSE operand>>]

FromSource(spec, source, metric, held, frames) ==
  IF LegalSpec(spec, source, metric, held, frames)
  THEN InDirection(SpecOperand(spec, source, metric, held, frames), spec.reverse)
  ELSE BindingError

Continued(spec, mode, active, source, frames) ==
  IF Ambiguous(spec, mode, active, source) THEN BindingError
  ELSE FromSource(spec, source, MetricOf(spec, source), FieldOf(source, "entities"), frames)

\* The loop body of _compile_graph; wherever it looks periods up, an unknown handle
\* is an error.
GraphOperand(spec, mode, active, globals, frames) ==
  IF ~PeriodsKnown(spec.periodHandles, frames) THEN BindingError
  ELSE Continued(spec, mode, active, Source(spec, mode, active, globals, frames), frames)

-----------------------------------------------------------------------------
(* The whole graph *)

\* A first turn knows no handles; those of periods it invents are dropped where
\* it also gives periods, and those of entities where the message names some.
InventsPeriods(graph, frames) ==
  \/ ~PeriodsKnown(graph.periodHandles, frames) /\ graph.periods = <<>>
  \/ \E s \in Range(graph.operands) :
       \/ s.source # <<>>
       \/ ~PeriodsKnown(s.periodHandles, frames) /\ s.periods = <<>> /\ graph.periods = <<>>

WithoutHandles(graph, mentions, frames) ==
  LET Drop(handles) == IF PeriodsKnown(handles, frames) THEN handles ELSE <<>>
      Freed(s) == [s EXCEPT !.periodHandles = Drop(s.periodHandles),
                            !.handles = IF mentions # <<>> THEN <<>> ELSE s.handles]
  IN [graph EXCEPT
       !.periodHandles = Drop(graph.periodHandles),
       !.operands = [i \in 1..Len(graph.operands) |-> Freed(graph.operands[i])]]

\* Two operands shown together are compared; an extremum or an average shown is
\* an aggregate.
OperationOf(graph, operands) ==
  LET two == IF Len(operands) = 2 /\ graph.operation \in {"show", "aggregate"}
             THEN "compare" ELSE graph.operation
  IN IF two = "show" /\ \E o \in Range(operands) : o.agg \in {"min", "max", "avg"}
     THEN "aggregate" ELSE two

GraphIntent(graph, operands, periods) ==
  LET operation == OperationOf(graph, operands)
  IN [operation |-> operation, operands |-> operands, periods |-> periods,
      grouping |-> graph.grouping, grain |-> graph.grain,
      comparison |-> IF operation = "compare" /\ graph.comparison = <<>> /\ Len(operands) >= 2
                     THEN <<[baseline |-> operands[1].id, target |-> operands[2].id]>>
                     ELSE graph.comparison,
      formula |-> graph.formula, ranking |-> graph.ranking]

\* A contract the compiler validates itself.
Validated(intent) == IF ValidShape(intent) THEN Bound(intent) ELSE BindingError

\* The first operand that cannot be bound fails the graph.
Combined(graph, results, globals) ==
  LET failed == SelectInSeq(results, LAMBDA r : r.kind # "bound")
  IN IF failed # 0 THEN results[failed]
     ELSE Validated(GraphIntent(graph, [i \in 1..Len(results) |-> results[i].operand[1]], globals))

\* The periods the operands share: those given, else those of the active intent.
GlobalPeriods(graph, active, frames) ==
  LET selected == Referenced(graph.periodHandles, graph.periods, frames)
  IN IF selected = <<>> THEN FieldOf(active, "periods") ELSE selected

CompileOperands(graph, specs, mode, active, globals, frames) ==
  Combined(graph,
    [i \in 1..Len(specs) |->
       GraphOperand(specs[i], mode, FieldOf(active, "operands"), globals, frames)],
    globals)

CompileShaped(graph, mode, active, frames, mentions) ==
  IF ~PeriodsKnown(graph.periodHandles, frames) THEN BindingError
  ELSE CompileOperands(graph, Reconciled(graph.operands, mentions, frames), mode, active,
                       GlobalPeriods(graph, active, frames), frames)

\* _compile_graph; `active` is the intent of the active scope, if there is one.
CompileGraph(given, mode, active, frames, mentions) ==
  LET shaped == NormalShape(given, mentions)
  IN IF mode = "mutation" \/ frames # <<>> \/ active # <<>>
     THEN CompileShaped(shaped, mode, active, frames, mentions)
     ELSE IF InventsPeriods(shaped, frames) THEN BindingError
     ELSE CompileShaped(WithoutHandles(shaped, mentions, frames), mode, active, frames, mentions)

-----------------------------------------------------------------------------
(* A draft of directives against the active intent *)

Metrics(intent) == [i \in 1..Len(intent.operands) |-> intent.operands[i].metric]

AllEntities(intent) ==
  FirstOfEach(FlattenSeq([i \in 1..Len(intent.operands) |-> intent.operands[i].entities]))

\* The fields a draft may edit, as lists.
Editable(intent) ==
  [operation |-> <<intent.operation>>, metrics |-> Metrics(intent),
   entities |-> AllEntities(intent), periods |-> intent.periods,
   grouping |-> intent.grouping,
   grain |-> IF intent.grain = None THEN <<>> ELSE <<intent.grain>>]

\* What a directive makes of the field in force; `base` is the intent it edits,
\* `scopes` those it may refer to instead (_scalar, _list_directive, _metrics).
Directed(d, base, scopes, field) ==
  LET current == IF base = <<>> THEN <<>> ELSE Editable(base[1])[field]
  IN CASE d.action = "keep" -> current
       [] d.action = "clear" -> <<>>
       [] d.action = "set" -> d.values
       [] d.action = "reference" -> Editable(scopes[d.scope][1])[field]
       [] d.action = "add" -> current \o Without(d.values, Range(current))
       [] d.action = "remove" -> Without(current, Range(d.values))

\* _scope raises on an empty one.
Referable(draft, scopes) ==
  \A d \in {draft.operation, draft.metrics, draft.periods, draft.grouping, draft.grain} :
    d.action = "reference" => scopes[d.scope] # <<>>

\* _entities: of all operands together, so that two of one role may stand side
\* by side.
DraftEntities(d, base) ==
  LET bound == IF d.action \in {"keep", "clear"} THEN <<>>
               ELSE BindOperand(d.mentions, <<>>, None)
  IN Directed([action |-> d.action, values |-> bound], base, <<>>, "entities")

\* Roles that more than one entity fills.
VaryingRoles(entities) ==
  {e.role : e \in {x \in Range(entities) :
                     Len(OfRoles(entities, {x.role})) > 1}}

\* A comparison that sets its entities has one operand for each of the role that
\* varies.
IsMatrix(operation, action, entities) ==
  operation = "compare" /\ action = "set" /\ VaryingRoles(entities) # {}

\* The ContextBindingErrors of _materialize_operands.
Materializable(base, metrics, entities, action, operation) ==
  /\ metrics # <<>>
  /\ IF IsMatrix(operation, action, entities)
     THEN Cardinality(VaryingRoles(entities)) = 1 /\ Len(metrics) = 1
     ELSE action = "keep" /\ base # <<>> => Len(metrics) = Len(base[1].operands)

\* _materialize_operands
DraftOperands(base, metrics, entities, action, operation) ==
  LET existing == IF base = <<>> THEN <<>> ELSE base[1].operands
      role == CHOOSE r \in VaryingRoles(entities) : TRUE
      varying == OfRoles(entities, {role})
      shared == OfRoles(entities, EntityRoles \ {role})
      Blank(i, metric, own) ==
        [id |-> <<"operand", i>>, metric |-> metric, agg |-> MetricDefinition(metric).default,
         entities |-> own, periods |-> <<>>]
      Like(i, template) ==
        [id |-> IF Len(metrics) = Len(existing) THEN template.id ELSE <<"operand", i>>,
         metric |-> metrics[i],
         agg |-> IF template.metric = metrics[i] THEN template.agg
                 ELSE MetricDefinition(metrics[i]).default,
         entities |-> entities, periods |-> template.periods]
  IN IF IsMatrix(operation, action, entities)
     THEN [i \in 1..Len(varying) |->
             [Blank(i, metrics[1], Append(shared, varying[i])) EXCEPT !.agg = "sum"]]
     ELSE IF action = "keep" /\ existing # <<>>
     THEN [i \in 1..Len(existing) |-> [existing[i] EXCEPT !.metric = metrics[i]]]
     ELSE [i \in 1..Len(metrics) |->
             IF existing = <<>> THEN Blank(i, metrics[i], entities)
             ELSE Like(i, existing[IF i < Len(existing) THEN i ELSE Len(existing)])]

\* The aggregate the draft sets for all operands; kept, it is that of the first.
WithAggregate(made, d) ==
  [i \in 1..Len(made) |->
     [made[i] EXCEPT !.agg = CASE d.action = "set" -> d.values[1]
                               [] d.action = "clear" -> @
                               [] OTHER -> made[1].agg]]

Turned(operands, reverse) ==
  IF reverse THEN [i \in 1..Len(operands) |-> SwapEnds(operands[i])] ELSE operands

GrainOf(set) == IF set = <<>> THEN None ELSE set[1]

DraftIntent(draft, base, scopes, operation, operands) ==
  [operation |-> operation, operands |-> operands,
   periods |-> Directed(draft.periods, base, scopes, "periods"),
   grouping |-> Directed(draft.grouping, base, scopes, "grouping"),
   grain |-> GrainOf(Directed(draft.grain, base, scopes, "grain")),
   comparison |-> IF operation = "compare" /\ Len(operands) >= 2
                  THEN <<[baseline |-> operands[1].id, target |-> operands[2].id]>>
                  ELSE <<>>,
   formula |-> <<>>, ranking |-> <<>>]

\* Only the operands of a comparison and their aggregates are checked here: an
\* intent of an illegal shape is not caught.
FromOperands(draft, base, scopes, operation, operands) ==
  IF \/ \E o \in Range(operands) : o.agg \notin MetricDefinition(o.metric).allowed
     \/ operation = "compare" /\ Len(operands) < 2
  THEN BindingError
  ELSE LET intent == DraftIntent(draft, base, scopes, operation, operands)
       IN IF ValidShape(intent) THEN Bound(intent) ELSE Crash

\* Nor is an operand with two entities of a role, nor a reference to the aggregate
\* of a scope, which has none.
FromMade(draft, base, scopes, operation, made) ==
  IF \/ \E o \in Range(made) : Cardinality(Roles(o)) < Len(o.entities)
     \/ draft.agg.action = "reference"
  THEN Crash
  ELSE FromOperands(draft, base, scopes, operation,
                    Turned(WithAggregate(made, draft.agg), draft.reverse))

FromFields(draft, base, scopes, operation, metrics, entities) ==
  LET action == draft.entities.action
  IN IF operation = <<>> THEN BindingError
     ELSE IF ~Materializable(base, metrics, entities, action, operation[1]) THEN BindingError
     ELSE FromMade(draft, base, scopes, operation[1],
                   DraftOperands(base, metrics, entities, action, operation[1]))

MentionsBound(d) == d.action \in {"keep", "clear"} \/ Bindable(d.mentions, <<>>, None)

FromBase(draft, base, scopes) ==
  IF ~Referable(draft, scopes) \/ ~MentionsBound(draft.entities) THEN BindingError
  ELSE FromFields(draft, base, scopes,
         Directed(draft.operation, base, scopes, "operation"),
         Directed(draft.metrics, base, scopes, "metrics"),
         DraftEntities(draft.entities, base))

\* compile, of a draft.
CompileDraft(draft, mode, scopes) ==
  FromBase(draft, IF mode = "mutation" THEN scopes["active_dialog_scope"] ELSE <<>>, scopes)
=============================================================================
