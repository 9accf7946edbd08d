------------------------- MODULE TurnInterpretation -------------------------
(***************************************************************************)
(* How a session's turns are understood, one after the other: process and  *)
(* _process_contextual of processor.py choose a route for a message, the   *)
(* deterministic routes build its intent themselves, every other message   *)
(* goes to the interpreter (interpretation.py), whose graph or draft is    *)
(* compiled against the turns before it (IntentGraph), with one repair if  *)
(* the evidence is incomplete (gating.py).  The intent that comes out is   *)
(* executed (TurnExecution) and journaled (DialogContext); here these two  *)
(* are a step each, with the outcome as their choice.                      *)
(*                                                                         *)
(* A message is what the tagger, the regular expressions and the external  *)
(* analyser read in its words:                                             *)
(*   spans     business entities and the preposition before each           *)
(*   geos      geo objects, in order                                       *)
(*   analyzed  the analyser's intent, metric, ends, periods ...            *)
(*   arrow     "from A to B", and not "between A and B"                    *)
(*   day       its only explicit day, section the section it asks for      *)
(*   peers     "compare ... to A and B", own "... and own consumers of B"  *)
(*   derived, compound  the words of the two routing policies              *)
(*   words     the words TurnExecution's normalisations look for           *)
(*   plan      what the pipeline would resolve, geo its one geo object     *)
(* The words of a name (declined, prefixed) are the name the registry      *)
(* reads in them.                                                          *)
(***************************************************************************)
EXTENDS IntentGraph, ResolvedPlan

CONSTANTS
  Messages,
  Interpretations(_, _),  \* what the interpreter may make of a message, given the frames
  Sessions,               \* [journal, since] of stored sessions: since turns are from
                          \* before there was a window
  WindowLimit,            \* DEFAULT_WINDOW_SIZE (7)
  MaxTurns                \* bound: turns taken in a new or a stored session

\* An intent the contract has validated, of canonical entities.
IsBound(intent) ==
  /\ IsIntent(intent) /\ ValidShape(intent)
  /\ \A o \in Range(intent.operands) : o.entities \in Seq(Entities)

\* What is stored was bound when it was committed.
ASSUME SessionsAreBound ==
  \A s \in Sessions :
    /\ IsList(s.journal) /\ \A row \in Range(s.journal) : IsBound(row.intent)
    /\ s.since \in 0..Len(s.journal)

\* The tagger finds names in a role and the geo objects the registry has; the two
\* peers are taken from one pattern; the pipeline resolves canonical entities.
ASSUME MessagesAreRead ==
  \A m \in Messages :
    /\ IsList(m.spans) /\ \A s \in Range(m.spans) : s.before \in EntityRoles
    /\ IsList(m.geos) /\ \A g \in Range(m.geos) : Named("geo_object", g) # {}
    /\ IsList(m.peers) /\ Len(m.peers) \in {0, 2}
    /\ IsList(m.plan.periods) /\ IsList(m.plan.expressions) /\ IsList(m.plan.groupBy)
    /\ \A e \in Range(m.plan.expressions) :
         /\ DOMAIN e = {"metric", "agg", "entities", "geos"}
         /\ {e.entities, e.geos} \subseteq Seq(Entities)
    /\ m.geo \in Seq(Entities)

ASSUME BoundsAssumption == WindowLimit \in Nat \ {0} /\ MaxTurns \in Nat

VARIABLES
  journal,   \* committed turns: [intent, outcome]
  since,     \* turns before the window was introduced
  limit,     \* the revision MaxTurns allows; nothing in the code
  stage,     \* idle, repairing or execute
  message,   \* of the turn that is under way, <<>> if none is
  decision,  \* the interpretation it follows, <<>> on a deterministic route
  bound,     \* its intent
  reply      \* how the last turn ended

vars == <<journal, since, limit, stage, message, decision, bound, reply>>

-----------------------------------------------------------------------------
(* The session the turn starts from; DialogContext shows that the scopes and *)
(* the window are these functions of the journal.                            *)

Revision == Len(journal)

Successful == {t \in 1..Revision : journal[t].outcome = "success"}

\* active_dialog_scope: its turn, 0 if there is none.
Active == IF Successful = {} THEN 0 ELSE CHOOSE t \in Successful : \A u \in Successful : u <= t

ActiveIntent == IF Active = 0 THEN <<>> ELSE <<journal[Active].intent>>

ScopesOfSession ==
  [s \in {"active_dialog_scope", "last_attempted_scope", "last_successful_scope"} |->
     IF s = "last_attempted_scope" /\ Revision > 0 THEN <<journal[Revision].intent>>
     ELSE ActiveIntent]

\* materialize_window: the newest turns, or for a session from before the window
\* one made up from its active scope.
Frames ==
  LET kept == IF Revision - since < WindowLimit THEN Revision - since ELSE WindowLimit
  IN IF kept > 0
     THEN [k \in 1..kept |-> [turn |-> Revision - kept + k,
                              intent |-> journal[Revision - kept + k].intent]]
     ELSE IF Active # 0 THEN <<[turn |-> Revision, intent |-> journal[Active].intent]>>
     ELSE <<>>

-----------------------------------------------------------------------------
(* What the tagger finds *)

BalanceNamed(name) == Named("balance", name)

Spans(m) ==
  Picked(m.spans, {i \in 1..Len(m.spans) : BalanceNamed(m.spans[i].name) # {}})

Businesses(m) == FirstOfEach([i \in 1..Len(Spans(m)) |-> Spans(m)[i].name])

\* A single business is the balance whatever stands before it; of several the
\* preposition tells the role (_tagged_business_entity_mentions).
BusinessMentions(m) ==
  [i \in 1..Len(Spans(m)) |->
     [text |-> Spans(m)[i].name,
      role |-> IF Len(Businesses(m)) = 1 THEN "balance" ELSE Spans(m)[i].before]]

\* current_entity_mentions
Tags(m) ==
  BusinessMentions(m)
    \o [i \in 1..Len(m.geos) |-> [text |-> m.geos[i], role |-> "destination"]]

\* The names a bound intent has to cover.
Explicit(m) == Range(Businesses(m)) \cup Range(m.geos)

-----------------------------------------------------------------------------
(* Deterministic routes: the intent, or nothing *)

One(S) == CHOOSE x \in S : TRUE

ShowIntent(id, metric, entities, periods) ==
  [operation |-> "show",
   operands |-> <<[id |-> <<id>>, metric |-> metric, agg |-> "sum",
                   entities |-> entities, periods |-> <<>>]>>,
   periods |-> periods, grouping |-> <<>>, grain |-> None,
   comparison |-> <<>>, formula |-> <<>>, ranking |-> <<>>]

\* _unique_direction_article
DirectionArticle(balance, target, metric) ==
  Only({a \in ArticlesOf(balance) :
          /\ a.name = target
          /\ IF metric = "incoming" THEN {"incoming"} \in Range(a.path)
             ELSE a.section = "distribution"})

\* A flow read on the balance of one end, at the article of the other.
FlowEntities(balance, role, target, article) ==
  <<Ref("balance", balance), Ref(role, target), Ref("article", article)>>

\* _deterministic_analyzed_flow_mutation
AnalyzedFlow(m) ==
  LET a == m.analyzed
      ends == BalanceNamed(a.from) # {} /\ BalanceNamed(a.to) # {}
      from == One(BalanceNamed(a.from))
      to == One(BalanceNamed(a.to))
      article == DirectionArticle(from.id, to.name, "distribution")
      shown == ShowIntent("directed_flow", "distribution",
                          FlowEntities(from, "destination", to, article[1]), a.periods)
  IN IF m.arrow /\ a.metric = "flow_balance" /\ ~a.clarify /\ ends
     THEN IF article = <<>> \/ a.periods = <<>> THEN <<>>
          ELSE <<[shown EXCEPT
                   !.operands[1].agg = a.agg,
                   !.operation = IF Len(a.periods) = 2 /\ a.intent = "compare"
                                 THEN "compare_periods" ELSE "show"]>>
     ELSE <<>>

\* _is_explicit_flow_balance_query
IsFlowBalance(m) ==
  LET a == m.analyzed
  IN /\ a.metric = "flow_balance" /\ ~a.clarify
     /\ a.from # {} /\ a.to # {} /\ a.from # a.to
     /\ a.periods # <<>>

\* One business, one explicit day, and a plain show.
Snapshot(m) == Len(Businesses(m)) = 1 /\ m.day # <<>> /\ m.analyzed.intent = "show"

TheBusiness(m) == One(BalanceNamed(Businesses(m)[1]))

\* _explicit_section_article: an article of the balance with others below it.
SectionArticle(m) ==
  Only({a \in ArticlesOf(TheBusiness(m).id) :
          /\ a.name = m.section
          /\ \E b \in ArticlesOf(TheBusiness(m).id) :
               IsPrefix(a.path, b.path) /\ a.path # b.path})

\* _deterministic_balance_section_mutation
SectionSnapshot(m) ==
  IF Snapshot(m) /\ SectionArticle(m) # <<>>
  THEN <<ShowIntent("section_snapshot", "balance_section",
                    <<Ref("balance", TheBusiness(m)), Ref("article", SectionArticle(m)[1])>>,
                    m.day)>>
  ELSE <<>>

\* _deterministic_full_balance_mutation
BalanceSnapshot(m) ==
  IF Snapshot(m) /\ m.analyzed.metric = "balance" /\ m.analyzed.whole
  THEN <<ShowIntent("balance_snapshot", "balance", <<Ref("balance", TheBusiness(m))>>, m.day)>>
  ELSE <<>>

\* The first business in a role.
InRole(m, roles) ==
  LET found == OfRoles(BusinessMentions(m), roles)
  IN IF found = <<>> THEN {} ELSE BalanceNamed(found[1].text)

\* _deterministic_directed_flow_mutation: what comes in is read on the
\* destination, what is distributed on the source.
DirectedFlow(m) ==
  LET metric == m.analyzed.metric
      from == IF InRole(m, {"source"}) # {} THEN InRole(m, {"source"})
              ELSE IF metric = "distribution" THEN InRole(m, {"balance"}) ELSE {}
      to == InRole(m, {"destination"})
      between == m.geos = <<>> /\ from # {} /\ to # {} /\ Len(Businesses(m)) = 2
      toGeo == metric = "distribution" /\ Len(Businesses(m)) = 1 /\ Len(m.geos) = 1
      balance == IF toGeo THEN TheBusiness(m) ELSE IF metric = "incoming" THEN One(to) ELSE One(from)
      target == IF toGeo THEN One(Named("geo_object", m.geos[1]))
                ELSE IF metric = "incoming" THEN One(from) ELSE One(to)
      article == DirectionArticle(balance.id, target.name, metric)
  IN IF /\ m.day # <<>> /\ m.analyzed.intent = "show"
        /\ metric \in {"incoming", "distribution"}
        /\ between \/ toGeo
     THEN IF article = <<>> THEN <<>>
          ELSE <<ShowIntent("directed_flow", metric,
                   FlowEntities(balance, IF metric = "incoming" THEN "source" ELSE "destination",
                                target, article[1]),
                   m.day)>>
     ELSE <<>>

DistributionArticle(name) ==
  Only({a \in ArticleCandidates(name, NoBalance) : a.section = "distribution"})

\* A balance's article, as the two peer routes name it, if there is that balance.
OnBalance(article) ==
  LET balance == WithId("balance", article.balance)
  IN IF balance = {} THEN <<>>
     ELSE <<Ref("balance", One(balance)), Ref("article", article)>>

\* _matched_peer_entities: an article if it is the only one, else a geo object.
PeerEntities(m) ==
  LET Of(name) ==
        IF DistributionArticle(name) # <<>> THEN OnBalance(DistributionArticle(name)[1])
        ELSE IF Named("geo_object", name) # {}
        THEN <<Ref("destination", One(Named("geo_object", name)))>> ELSE <<>>
      peers == [i \in 1..Len(m.peers) |-> Of(m.peers[i])]
  IN IF <<>> \in Range(peers) THEN <<>> ELSE peers

\* _matched_distribution_own_consumers
OwnConsumers(m) ==
  IF m.own = <<>> THEN <<>>
  ELSE LET to == DistributionArticle(m.own[1])
           balance == BalanceNamed(m.own[2])
           own == Only({a \in ArticlesOf(One(balance).id) :
                          a.name = {"own", "consumers"} /\ a.section = "distribution"})
       IN IF to = <<>> \/ balance = {} THEN <<>>
          ELSE IF own = <<>> \/ OnBalance(to[1]) = <<>> THEN <<>>
          ELSE <<OnBalance(to[1]), OnBalance(own[1])>>

-----------------------------------------------------------------------------
(* The route of a message *)

\* HybridInterpretationPolicy.should_invoke and EvidenceCompletenessGate.route:
\* why a first turn is interpreted.
RoutingReason(m) ==
  CASE m.derived -> "semantic_operation"
    [] m.compound /\ ~m.derived -> "compound_semantics"
    [] Len(Businesses(m)) + Len(m.geos) > 1 /\ ~m.compound /\ ~m.derived -> "multiple_explicit_entities"
    [] OTHER -> "legacy_scalar"

RoleSeparated(m) ==
  /\ Len(Businesses(m)) = 1 /\ Len(m.geos) = 1
  /\ RoutingReason(m) = "multiple_explicit_entities"

\* process and _process_contextual, in their order; the routes after
\* "contextual" are those of a session without active scope.
Routes(m) ==
  <<[name |-> "analyzed_flow", applies |-> AnalyzedFlow(m) # <<>>],
    [name |-> "standalone", applies |-> IsFlowBalance(m)],
    [name |-> "section", applies |-> SectionSnapshot(m) # <<>>],
    [name |-> "full_balance", applies |-> BalanceSnapshot(m) # <<>>],
    [name |-> "directed_flow", applies |-> DirectedFlow(m) # <<>>],
    [name |-> "interpret", applies |-> Active # 0],
    [name |-> "own_consumers", applies |-> OwnConsumers(m) # <<>>],
    [name |-> "role_separated", applies |-> RoleSeparated(m)],
    [name |-> "peers", applies |-> PeerEntities(m) # <<>>],
    [name |-> "standalone", applies |-> RoutingReason(m) = "legacy_scalar"],
    [name |-> "interpret", applies |-> TRUE]>>

FirstThatApplies(routes) == routes[SelectInSeq(routes, LAMBDA r : r.applies)].name

Route(m) == FirstThatApplies(Routes(m))

-----------------------------------------------------------------------------
(* Steps *)

Codes == {"turn_failed", "interpretation_contract_invalid", "interpretation_binding_failed",
          "routing_evidence_incomplete", "resolved_plan_translation_failed",
          "resolved_comparison_degraded", "resolved_grouping_unsupported", "period_required",
          "explicit_operand_binding_failed"}

Init ==
  /\ \E s \in Sessions \cup {[journal |-> <<>>, since |-> 0]} :
       journal = s.journal /\ since = s.since
  /\ limit = Len(journal) + MaxTurns
  /\ stage = "idle"
  /\ message = <<>> /\ decision = <<>> /\ bound = <<>>
  /\ reply = "none"

\* The turn ends; what it leaves behind is in the journal alone.
Finish(code) ==
  /\ stage' = "idle"
  /\ message' = <<>> /\ decision' = <<>> /\ bound' = <<>>
  /\ reply' = code

\* A refused turn commits nothing.
Refuse(code) == Finish(code) /\ UNCHANGED <<journal, since, limit>>

Commit(intent, outcome) ==
  /\ journal' = Append(journal, [intent |-> intent, outcome |-> outcome])
  /\ Finish("committed")
  /\ UNCHANGED <<since, limit>>

\* Pydantic validates an intent where it is made.
Proceed(m, d, intent) ==
  /\ message' = <<m>> /\ decision' = d /\ bound' = <<intent>>
  /\ stage' = "execute"
  /\ reply' = "none"
  /\ UNCHANGED <<journal, since, limit>>

\* What _execute_mutation and _execute_grouping_mutation make of the intent
\* before the gate; the active result has `rows` rows.
Normalised(m, intent, rows) ==
  SeriesReduction(PeriodComparison(TemporalGrouping(intent, m.words)), m.words,
    IF Active = 0 THEN <<>> ELSE <<[intent |-> journal[Active].intent, rows |-> rows]>>)

\* The gate of _execute_mutation; `explicit` is the evidence the route passes.
Admit(m, d, intent, explicit) ==
  \E rows \in 1..2 : \E normal \in {Normalised(m, intent, rows)} :
    IF EvidenceComplete(normal, explicit) THEN Proceed(m, d, normal)
    ELSE Refuse("routing_evidence_incomplete")

Ready(m, route) == stage = "idle" /\ Revision < limit /\ Route(m) = route

\* The routes that bind the message's own words; the first passes no evidence.
BindAnalyzedFlow(m) == Ready(m, "analyzed_flow") /\ Admit(m, <<>>, AnalyzedFlow(m)[1], {})

BindSnapshot(m) ==
  \/ Ready(m, "section") /\ Admit(m, <<>>, SectionSnapshot(m)[1], Range(Businesses(m)))
  \/ Ready(m, "full_balance") /\ Admit(m, <<>>, BalanceSnapshot(m)[1], Range(Businesses(m)))

BindDirectedFlow(m) ==
  Ready(m, "directed_flow") /\ Admit(m, <<>>, DirectedFlow(m)[1], Explicit(m))

\* _canonical_entity_comparison: of two articles or geo objects, or of a
\* distribution with a balance's own consumers.
BindComparison(m, route, peers, metrics) ==
  /\ Ready(m, route)
  /\ \E compared \in {PeerIntent(m.plan, peers, metrics)} :
       IF compared = <<>> THEN Refuse("explicit_operand_binding_failed")
       ELSE Admit(m, <<>>, compared[1], {})

\* _role_separated_standalone: the pipeline resolves all but the entities, which
\* are the balance and the geo object.
BindRoleSeparated(m) ==
  /\ Ready(m, "role_separated")
  /\ \E answered \in BOOLEAN : \E read \in {Translated(m.plan, <<>>, answered)} :
       LET roles == <<[text |-> Businesses(m)[1], role |-> "balance"],
                      [text |-> m.geos[1], role |-> "destination"]>>
       IN IF read.intent = <<>> THEN Refuse(read.reason)
          ELSE IF Len(read.intent[1].operands) # 1 \/ read.intent[1].grouping # <<>>
          THEN Refuse("resolved_plan_translation_failed")
          ELSE IF Bindable(roles, <<>>, None)
          THEN Admit(m, <<>>, [read.intent[1] EXCEPT
                                !.operands[1].entities = BindOperand(roles, <<>>, None)], {})
          ELSE Refuse("turn_failed")

\* _standalone: the pipeline resolves and runs the message; only then is its plan
\* read, with no gate.
Standalone(m) ==
  /\ Ready(m, "standalone")
  /\ \E outcome \in {"success", "no_data", "error"} :
       \E read \in {Translated(m.plan, m.geo, outcome = "success")} :
         IF read.intent = <<>> THEN Refuse(read.reason)
         ELSE Commit(read.intent[1], outcome)

-----------------------------------------------------------------------------
(* The interpreter *)

Compile(m, d) ==
  IF d.kind = "graph" THEN CompileGraph(d.graph, d.mode, ActiveIntent, Frames, Tags(m))
  ELSE CompileDraft(d.draft, d.mode, ScopesOfSession)

\* Fault: the operation of the active intent, which may have compared two operands.
FaultSingleOperandAttempt(base, operand) ==
  [base EXCEPT !.operands = <<operand>>]

\* _single_operand_attempt: what is left of the active intent if the opposite
\* direction of one of its operands does not exist.
SingleOperandAttempt(base, operand) ==
  [operation |-> IF operand.agg = "sum" THEN "show" ELSE "aggregate",
   operands |-> <<operand>>, periods |-> base.periods, grouping |-> <<>>,
   grain |-> base.grain, comparison |-> <<>>, formula |-> <<>>, ranking |-> <<>>]

\* A decision that is no graph and no draft: the interpreter asks back, which is
\* an error without an active scope, or names what it cannot do.
Undecided(d) ==
  CASE d.kind = "clarify" /\ Active # 0 -> Commit(ActiveIntent[1], "clarification")
    [] d.kind = "clarify" /\ Active = 0 -> Refuse("turn_failed")
    [] d.kind = "unsupported" -> Refuse("turn_failed")

\* A compilation that bound nothing.  Without an active scope the handler of a
\* missing relation reads the intent of no scope.
Unbound(result) ==
  CASE result.kind = "binding" -> Refuse("interpretation_binding_failed")
    [] result.kind = "crash" -> Refuse("turn_failed")
    [] result.kind = "relation" /\ Active = 0 -> Refuse("turn_failed")
    [] result.kind = "relation" /\ Active # 0 ->
         Commit(SingleOperandAttempt(ActiveIntent[1], result.operand[1]), "no_data")

\* The intent has to be complete as compiled, for the repair to be tried, and
\* again as normalised.
Interpret(m) ==
  /\ Ready(m, "interpret")
  /\ \E d \in Interpretations(m, Frames) :
       IF ~IsDecision(d) THEN Refuse("interpretation_contract_invalid")
       ELSE IF d.kind \notin {"graph", "draft"} THEN Undecided(d)
       ELSE \E result \in {Compile(m, d)} :
         IF result.kind # "bound" THEN Unbound(result)
         ELSE IF EvidenceComplete(result.intent, Explicit(m))
         THEN Admit(m, <<d>>, result.intent, Explicit(m))
         ELSE /\ stage' = "repairing"
              /\ message' = <<m>>
              /\ reply' = "none"
              /\ UNCHANGED <<journal, since, limit, decision, bound>>

\* _repair_incomplete_evidence: the interpreter is asked once more, with the
\* issues; everything but a complete intent ends the turn.
Repair ==
  /\ stage = "repairing"
  /\ \E d \in Interpretations(message[1], Frames) :
       IF ~IsDecision(d) \/ d.kind \notin {"graph", "draft"}
       THEN Refuse("routing_evidence_incomplete")
       ELSE \E result \in {Compile(message[1], d)} :
         IF result.kind = "crash" THEN Refuse("turn_failed")
         ELSE IF result.kind = "bound" /\ EvidenceComplete(result.intent, Explicit(message[1]))
         THEN Admit(message[1], <<d>>, result.intent, Explicit(message[1]))
         ELSE Refuse("routing_evidence_incomplete")

\* The turn runs (TurnExecution) and is committed with its outcome, or fails.
Execute ==
  /\ stage = "execute"
  /\ \/ \E outcome \in {"success", "no_data", "error"} : Commit(bound[1], outcome)
     \/ Refuse("turn_failed")

Next ==
  \/ \E m \in Messages :
       \/ BindAnalyzedFlow(m) \/ BindSnapshot(m) \/ BindDirectedFlow(m)
       \/ BindComparison(m, "own_consumers", OwnConsumers(m), <<"distribution", "consumption">>)
       \/ BindComparison(m, "peers", PeerEntities(m), <<>>)
       \/ BindRoleSeparated(m) \/ Standalone(m) \/ Interpret(m)
  \/ Repair
  \/ Execute

Spec == Init /\ [][Next]_vars

-----------------------------------------------------------------------------
(* What understanding a turn promises *)

\* Every intent the session keeps or runs has a shape the contract accepts and a
\* period, after all that was done to it since it was validated
\* (model_copy(update=...) does not validate): a failed reversal of one side of
\* a comparison, say, is no comparison (_single_operand_attempt).
TypeOK ==
  /\ stage \in {"idle", "repairing", "execute"}
  /\ reply \in Codes \cup {"none", "committed"}
  /\ since <= Revision /\ Revision <= limit
  /\ \A row \in Range(journal) : ValidShape(row.intent)
  /\ \A intent \in Range(bound) :
       /\ ValidShape(intent)
       /\ \A o \in Range(intent.operands) : EffectivePeriods(intent, o) # <<>>

\* The graph the interpreter gave for this turn.
GraphUsed == NormalShape(decision[1].graph, Tags(message[1]))

\* Its specs, if there is one bound operand for each.
Specs ==
  IF /\ stage = "execute" /\ decision # <<>> /\ decision[1].kind = "graph"
     /\ Len(GraphUsed.operands) = Len(bound[1].operands)
  THEN GraphUsed.operands ELSE <<>>

\* The interpreter takes the message as a continuation.
Continues == decision[1].mode = "mutation"

\* The operand a spec means, read off the journal: that of the turn its handle
\* names (the bridge of an old session stands for the active turn), else, of a
\* continuation, the only active one.
MeantBy(spec) ==
  IF spec.source # <<>>
  THEN LET t == IF Revision = since THEN Active ELSE spec.source[1].turn
       IN Only({o \in Range(journal[t].intent.operands) : o.id = spec.source[1].operand})
  ELSE IF Continues /\ Active # 0 /\ Len(journal[Active].intent.operands) = 1
  THEN journal[Active].intent.operands ELSE <<>>

NamesNothing(spec) ==
  spec.entityMode = "inherit" /\ spec.handles = <<>> /\ spec.mentions = <<>>

\* Of a graph as well as of one of its specs.
NamesNoPeriods(x) == x.periodHandles = <<>> /\ x.periods = <<>>

\* What is left of the active intent where a draft, which edits it, says nothing; two
\* operands it makes alike but for their periods become one compared over both
\* (PeriodComparison).
DraftKeepsTheRest ==
  stage = "execute" /\ decision # <<>> /\ decision[1].kind = "draft" /\ Active # 0
    /\ Continues =>
    LET d == decision[1].draft
        was == journal[Active].intent
        is == bound[1]
        asked == Directed(d.operation, ActiveIntent, ScopesOfSession, "operation")
    IN \/ /\ d.operation.action = "keep" => is.operation = was.operation
          /\ d.periods.action = "keep" => is.periods = was.periods
          /\ d.metrics.action = "keep" /\ d.entities.action = "keep" =>
               /\ Len(is.operands) = Len(was.operands)
               /\ \A i \in 1..Len(is.operands) :
                    /\ is.operands[i].metric = was.operands[i].metric
                    /\ is.operands[i].periods = was.operands[i].periods
                    /\ ~d.reverse => is.operands[i].entities = was.operands[i].entities
       \/ asked = <<"compare">> /\ is.operation = "compare_periods"

\* What a follow-up does not change stays as it was in the operand it refers to,
\* however many turns lie between and whatever they left behind: the metric, the
\* aggregate, the operand's own periods and the entities ("GEO, period or article
\* are not reset as a side effect of changing another field").  The periods the
\* operands of a turn share are not the operand's: whichever turn a follow-up refers
\* to, it shares those of the active one (_compile_graph).
FollowUpKeepsTheRest ==
  /\ DraftKeepsTheRest
  /\ Specs # <<>> /\ NamesNoPeriods(GraphUsed) /\ Active # 0 =>
       bound[1].periods = journal[Active].intent.periods
  /\ \A i \in 1..Len(Specs) : MeantBy(Specs[i]) # <<>> =>
      LET spec == Specs[i]
          was == MeantBy(spec)[1]
          is == bound[1].operands[i]
      IN /\ spec.metric = None => is.metric = was.metric
         /\ spec.metric = None /\ spec.agg = None => is.agg = was.agg
         /\ spec.periodMode = "inherit" /\ NamesNoPeriods(spec) => is.periods = was.periods
         /\ NamesNothing(spec) /\ Tags(message[1]) = <<>> /\ ~spec.reverse =>
              /\ Range(was.entities) \subseteq Range(is.entities)
              /\ \A e \in Range(is.entities) \ Range(was.entities) : e.role = "article"

\* The days a spec asks for, however it names them.
DaysAskedFor(spec) ==
  IF NamesNoPeriods(spec) THEN Range(DaysOf(bound[1].periods))
  ELSE Range(spec.periodHandles) \cup Range(DaysOf(spec.periods))

\* Of several active operands none is picked at will: a spec without a handle
\* continues the only one over just the days it asks for, if it continues any, or
\* none, and then it says itself what it measures and, unless it gives up its
\* entities or is no continuation, where (_unique_active_operand_for_period).
AmbiguousNeverPicked ==
  Active # 0 /\ Len(journal[Active].intent.operands) > 1 =>
    \A i \in 1..Len(Specs) :
      Specs[i].source = <<>> =>
        LET spec == Specs[i]
            over == {o \in Range(journal[Active].intent.operands) :
                       Range(DaysOf(o.periods)) = DaysAskedFor(spec)}
            is == bound[1].operands[i]
        IN ~Continues \/ Cardinality(over) # 1 =>
             /\ is.metric = spec.metric
             /\ Continues /\ spec.entityMode = "inherit" => is.entities # <<>>
             /\ Tags(message[1]) = <<>> /\ ~spec.reverse =>
                  \A e \in Range(is.entities) :
                    \/ e.role = "article"
                    \/ Handle(e) \in Range(spec.handles)
                    \/ \E m \in Range(spec.mentions) : m.text = e.name

\* What leaves a balance is read on it at an article of its distribution.
LeavesItsBalance(o) ==
  \E r \in WithId("article", RefOf(o, "article")[1].id) : r.section = "distribution"

\* The two ends of the flow an operand is about, from and to.
FlowOf(o) ==
  LET Name(role) == RefOf(o, role)[1].name
  IN IF ~IsReadOnBalance(o) THEN <<Name("source"), Name("destination")>>
     ELSE IF LeavesItsBalance(o) THEN <<Name("balance"), Name("article")>>
     ELSE <<Name("article"), Name("balance")>>

\* A spec that only turns an operand round.
OnlyReverses(spec) ==
  spec.reverse /\ NamesNothing(spec) /\ Tags(message[1]) = <<>> /\ MeantBy(spec) # <<>>

Opposite(is, was) == FlowOf(is) = <<FlowOf(was)[2], FlowOf(was)[1]>>

\* "The other way round" of a flow that leaves the balance it is read on is the
\* opposite flow, read on the balance of its other end; a source and a destination
\* change places; no article of the old direction is left.  What is read on a balance
\* is always read on the other one afterwards, as what leaves that: of a flow that
\* came in this is the same flow again (_resolve_reverse_operand, ReversalIsOpposite).
ReversalSwapsTheEnds ==
  \A i \in 1..Len(Specs) : OnlyReverses(Specs[i]) =>
      LET was == MeantBy(Specs[i])[1]
          is == bound[1].operands[i]
      IN IF IsReadOnBalance(was)
         THEN /\ IsReadOnBalance(is) /\ LeavesItsBalance(is)
              /\ RefOf(is, "balance")[1].name = RefOf(was, "article")[1].name
              /\ LeavesItsBalance(was) => Opposite(is, was)
         ELSE "balance" \notin Roles(was) =>
              Opposite(is, was) /\ "article" \notin Roles(is)

\* What the specs of a graph mention, all of them.
SaidBy(specs) == UNION {Range(s.mentions) : s \in Range(specs)}

\* What the k-th operand of a graph is asked about: what its spec mentions and, of
\* an only spec, what the message names.
AskedOf(specs, mentions, k) ==
  Range(specs[k].mentions) \cup (IF Len(specs) = 1 THEN Range(mentions) ELSE {})

\* That is all it is asked about: it uses no handle, and is not given a name that
\* another spec of the graph left out.
NamedOnly(specs, mentions, k) ==
  /\ specs[k].handles = <<>>
  /\ \/ Len(specs) = 1
     \/ Len(mentions) # Len(specs) /\ Range(mentions) \subseteq SaidBy(specs)

NamesIn(mentions, role) == {m.text : m \in {x \in mentions : x.role = role}}

\* a is the source it is asked about, and b the destination.
AsksFromTo(mentions, a, b) ==
  NamesIn(mentions, "source") = {a} /\ NamesIn(mentions, "destination") = {b}

\* The articles the registry has for the flow from a to b.
FlowsKnown(a, b, metric) ==
  IF metric = "incoming"
  THEN UNION {FlowArticles(r.id, a, metric) : r \in BalanceNamed(b)}
  ELSE UNION {FlowArticles(r.id, b, metric) : r \in BalanceNamed(a)}

\* What comes in is read on b at the article of a, what is distributed on a at that
\* of b.
OnItsEnd(o, a, b) ==
  /\ IsReadOnBalance(o)
  /\ RefOf(o, "balance")[1].name = IF o.metric = "incoming" THEN b ELSE a
  /\ RefOf(o, "article")[1].name = IF o.metric = "incoming" THEN a ELSE b

HoldsBothEnds(o, a, b) ==
  /\ {"source", "destination"} \subseteq Roles(o)
  /\ RefOf(o, "source")[1].name = a
  /\ RefOf(o, "destination")[1].name = b

FlowIsKnown(metric, a, b) ==
  metric \in {"incoming", "distribution"} /\ Cardinality(FlowsKnown(a, b, metric)) = 1

FlowRead(o, a, b) ==
  IF FlowIsKnown(o.metric, a, b) THEN OnItsEnd(o, a, b) ELSE HoldsBothEnds(o, a, b)

SpecsReadFlows(specs, mentions) ==
  \A k \in 1..Len(specs) : NamedOnly(specs, mentions, k) /\ ~specs[k].reverse =>
    \A a \in NamesIn(AskedOf(specs, mentions, k), "source"),
       b \in NamesIn(AskedOf(specs, mentions, k), "destination") :
      AsksFromTo(AskedOf(specs, mentions, k), a, b) => FlowRead(bound[1].operands[k], a, b)

RouteReadsFlow(route, m) ==
  /\ route = "analyzed_flow" =>
       OnItsEnd(bound[1].operands[1], m.analyzed.from, m.analyzed.to)
  /\ route = "directed_flow" =>
       LET tags == Range(BusinessMentions(m))
       IN \A a \in NamesIn(tags, "source"), b \in NamesIn(tags, "destination") :
            AsksFromTo(tags, a, b) => OnItsEnd(bound[1].operands[1], a, b)

\* "From A to B" is read on B as what comes in from A, or on A as what is
\* distributed to B, and never the other way round, whichever of the routes bound
\* it; a flow the registry does not know, or knows twice, keeps both its ends,
\* whatever the operand was about before ("lose neither side of a directed flow";
\* _bind_directed_viewpoint, _deterministic_directed_flow_mutation,
\* _deterministic_analyzed_flow_mutation).
FlowIsReadOnItsEnd ==
  /\ SpecsReadFlows(Specs, Tags(message[1]))
  /\ stage = "execute" /\ decision = <<>> => RouteReadsFlow(Route(message[1]), message[1])

\* The names the gate of a route looks for.
EvidenceFor(route, m) ==
  CASE route \in {"directed_flow", "interpret"} -> Explicit(m)
    [] route \in {"section", "full_balance"} -> Range(Businesses(m))
    [] OTHER -> {}
Evidence(m) == EvidenceFor(Route(m), m)

\* No other name of the registry contains, letter by letter, this one or an alias of
\* it, or is contained in one.
StandsApart(name) ==
  \A r \in Registry :
    r.name = name \/ \A v \in Variants(name) : ~Overlaps(v, SemanticName(r.name))

\* Every business entity and every geo object the message names is in the intent
\* that runs, itself or as an article of its name, if it stands apart: a word in
\* common is not enough, and a repaired interpretation is no exception.  One that
\* does not stand apart may be lost, and the gate takes the other for it, as it
\* takes Tomsk for Omsk (validate_bound_intent, _reconcile_current_mentions).
EveryNameIsBound ==
  stage = "execute" =>
    LET entities == UNION {Range(o.entities) : o \in Range(bound[1].operands)}
    IN \A name \in Evidence(message[1]) :
         StandsApart(name) => \E e \in entities : e.name = name

\* A comparison the message asks for is journaled with two sides at least, or the
\* turn is refused; it is never answered by the one number the pipeline may have
\* resolved instead (PipelineEnvelopeTranslator.intent).
ComparisonNeverDegrades ==
  [][\A m \in Messages :
       m.plan.requested = "compare" /\ Len(journal') > Revision /\ Standalone(m) =>
         LET intent == Last(journal').intent
         IN /\ intent.operation \in {"compare", "compare_periods", "multi_step"}
            /\ Len(intent.operands) >= 2 \/ Len(intent.periods) >= 2]_vars

\* "The other way round" is the opposite flow: source and destination change places,
\* whichever end the flow was read on ("the reverse direction swapped source and
\* destination", "two new canonical relations for the reverse direction";
\* _resolve_reverse_operand).
ReversalIsOpposite ==
  \A i \in 1..Len(Specs) : OnlyReverses(Specs[i]) =>
    LET was == MeantBy(Specs[i])[1]
    IN IsReadOnBalance(was) => Opposite(bound[1].operands[i], was)
=============================================================================
