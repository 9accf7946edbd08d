--------------------------- MODULE EntityBinding ---------------------------
(***************************************************************************)
(* binding.py, RegistryEntityBinder and what surrounds it: the mentions of *)
(* a message become canonical entities of the metadata registry, within    *)
(* the balance the operand is about, and a direction is reversed along a   *)
(* relation the registry holds.                                            *)
(*                                                                         *)
(* The registry is external and read only.  A record is looked up by one   *)
(* name; what matches an alias of it is written as a mention of that name  *)
(* (the aliases count where the gate compares names, see AnalysisIntent).  *)
(***************************************************************************)
EXTENDS AnalysisIntent

\* Records [type, id, name, balance, section, path]: balances, articles, routes,
\* geo objects and geo groups.  The balance of a record that is not an article
\* is NoBalance.
CONSTANTS Registry, NoBalance

\* Names are unique but for articles, which belong to a balance.
ASSUME RegistryNames ==
  \A r, s \in Registry :
    /\ r.type = s.type /\ (r.name = s.name \/ r.id = s.id) /\ r.type # "article" => r = s
    /\ r.type = "article" /\ s.type = "article" /\ r.id = s.id => r = s
    /\ r.id # NoBalance

ASSUME RegistryIsFinite == IsFiniteSet(Registry)

\* The only element of a set, in a sequence; the empty sequence if there is none
\* or no single one.
Only(S) == IF Cardinality(S) = 1 THEN SetToSeq(S) ELSE <<>>

Named(type, text) == {r \in Registry : r.type = type /\ r.name = text}

WithId(type, id) == {r \in Registry : r.type = type /\ r.id = id}

\* find_article_candidates: without a balance, of all balances.
ArticleCandidates(text, balance) ==
  {r \in Named("article", text) : balance \in {NoBalance, r.balance}}

ArticlesOf(balance) == {r \in Registry : r.type = "article" /\ r.balance = balance}

Ref(role, record) ==
  [role |-> role, type |-> record.type, id |-> record.id, name |-> record.name]

\* What an operand may hold: canonical entities, in a role.
Entities ==
  {Ref(e.role, e.record) :
     e \in {e \in [role : EntityRoles, record : Registry] :
              e.role \in {"balance", "article"} => e.record.type = e.role}}

RefOf(operand, role) == OfRoles(operand.entities, {role})

-----------------------------------------------------------------------------
(* Mentions *)

\* The article of a place named without its balance's role: in the balance of
\* the operand, else anywhere if that is unambiguous.
PlaceArticle(text, balance) ==
  IF ArticleCandidates(text, balance) = {} THEN ArticleCandidates(text, NoBalance)
  ELSE ArticleCandidates(text, balance)

\* _bind_one: a place is a geo object, else a group of them, else an article.
Candidates(mention, balance) ==
  CASE mention.role = "balance" -> Named("balance", mention.text)
    [] mention.role = "article" -> ArticleCandidates(mention.text, balance)
    [] mention.role = "route" -> Named("route", mention.text)
    [] OTHER ->
         IF Named("geo_object", mention.text) # {} THEN Named("geo_object", mention.text)
         ELSE IF Named("geo_group", mention.text) # {} THEN Named("geo_group", mention.text)
         ELSE PlaceArticle(mention.text, balance)

\* The balance in which the other mentions are looked up: the last one that is
\* mentioned, else that of the entities the operand already has.
Namespace(mentions, inherited) ==
  LET spoken == OfRoles(mentions, {"balance"})
      held == OfRoles(inherited, {"balance"})
  IN IF spoken # <<>>
     THEN LET named == Named("balance", Last(spoken).text)
          IN IF named # {} THEN (CHOOSE r \in named : TRUE).id ELSE NoBalance
     ELSE IF held # <<>> THEN held[1].id ELSE NoBalance

\* An article of the balance that leads from or to the place, by the metric.
FlowArticles(balance, place, metric) ==
  {a \in ArticlesOf(balance) :
     /\ a.name = place
     /\ IF metric = "incoming"
        THEN a.section = "resources" /\ {"incoming"} \in Range(a.path)
        ELSE a.section = "distribution"}

\* Fault: both flows are read on the balance of the source.
FaultHeldEnd(metric) == "source"

\* The end whose balance a flow is read on.
HeldEnd(metric) == IF metric = "incoming" THEN "destination" ELSE "source"

\* _bind_directed_viewpoint: "from A to B" is read on one balance, incoming on
\* that of B and distribution on that of A, at the article of the other end.
Viewpoint(mentions, metric) ==
  LET At(roles) == SelectLastInSeq(mentions, LAMBDA m : m.role \in roles)
      held == At({HeldEnd(metric)})
      named == At({"source", "destination"} \ {HeldEnd(metric)})
      balances == Named("balance", mentions[held].text)
      articles == UNION {FlowArticles(b.id, mentions[named].text, metric) : b \in balances}
  IN IF /\ metric \in {"incoming", "distribution"}
        /\ held # 0 /\ named # 0
        /\ Cardinality(articles) = 1
     THEN <<Ref("balance", Only(balances)[1]), Ref("article", Only(articles)[1])>>
     ELSE <<>>

\* Balances first; the order within is that of the message.
BalancesFirst(mentions) ==
  OfRoles(mentions, {"balance"}) \o OfRoles(mentions, EntityRoles \ {"balance"})

\* bind_operand: a mention without exactly one candidate is an error.
Bindable(mentions, inherited, metric) ==
  \/ Viewpoint(mentions, metric) # <<>>
  \/ \A m \in Range(mentions) :
       Cardinality(Candidates(m, Namespace(mentions, inherited))) = 1

BindOperand(mentions, inherited, metric) ==
  IF Viewpoint(mentions, metric) # <<>> THEN Viewpoint(mentions, metric)
  ELSE LET ordered == BalancesFirst(mentions)
           balance == Namespace(mentions, inherited)
       IN [i \in 1..Len(ordered) |->
             Ref(ordered[i].role, CHOOSE r \in Candidates(ordered[i], balance) : TRUE)]

-----------------------------------------------------------------------------
(* Articles of a metric *)

\* MetricDefinition.canonical_articles
MetricArticles(metric) ==
  CASE metric = "distribution" -> <<{"distribution"}>>
    [] metric = "incoming" -> <<{"incoming"}>>
    [] metric = "consumption" -> <<{"own", "consumers"}>>
    [] metric = "own_needs" -> <<{"own", "needs", "losses"}, {"own", "needs"}>>
    [] OTHER -> <<>>

\* The root article of the name, if it is unique, else the only one.
CuratedArticle(balance, name) ==
  LET matches == {a \in ArticlesOf(balance) : a.name = name}
      roots == {a \in matches : a.path = <<name>>}
  IN IF Cardinality(roots) = 1 THEN roots ELSE matches

\* _bind_metric_article: a balance without an article takes the metric's own.
WithMetricArticle(operand) ==
  LET balance == RefOf(operand, "balance")
      names == MetricArticles(operand.metric)
      n == SelectInSeq(names, LAMBDA name :
             Cardinality(CuratedArticle(balance[1].id, name)) = 1)
  IN IF balance = <<>> \/ RefOf(operand, "article") # <<>> \/ names = <<>> THEN operand
     ELSE IF n = 0 THEN operand
     ELSE [operand EXCEPT !.entities =
             Append(@, Ref("article", CHOOSE a \in CuratedArticle(balance[1].id, names[n]) : TRUE))]

-----------------------------------------------------------------------------
(* The opposite direction *)

\* Fault: the ends stay where they are, only the article is dropped.
FaultSwapEnds(operand) ==
  [operand EXCEPT !.entities = OfRoles(@, EntityRoles \ {"article"})]

\* _reverse_operand: source and destination change places, the article of the
\* old direction is dropped.
SwapEnds(operand) ==
  LET kept == OfRoles(operand.entities, EntityRoles \ {"article"})
      both == RefOf(operand, "source") # <<>> /\ RefOf(operand, "destination") # <<>>
      Other(role) == RefOf(operand, IF role = "source" THEN "destination" ELSE "source")[1]
  IN [operand EXCEPT !.entities =
        [i \in 1..Len(kept) |->
           IF both /\ kept[i].role \in {"source", "destination"}
           THEN [Other(kept[i].role) EXCEPT !.role = kept[i].role]
           ELSE kept[i]]]

\* The balance the article leads to, and there the way back: the article named
\* like the balance itself, among those that leave the balance.
WayBack(operand) ==
  LET here == WithId("balance", RefOf(operand, "balance")[1].id)
      article == WithId("article", RefOf(operand, "article")[1].id)
      there == UNION {Named("balance", a.name) : a \in article}
  IN {a \in UNION {ArticleCandidates(h.name, t.id) : h \in here, t \in there} :
        a.section = "distribution" /\ {"outside"} \in Range(a.path)}

IsReadOnBalance(operand) ==
  RefOf(operand, "balance") # <<>> /\ RefOf(operand, "article") # <<>>

\* _resolve_reverse_operand; otherwise CanonicalRelationNotFound.
Reversible(operand) ==
  IF IsReadOnBalance(operand) THEN Cardinality(WayBack(operand)) = 1
  ELSE {"source", "destination"} \subseteq Roles(operand)

\* The operand with the direction reversed; what the error carries is the
\* operand with its ends swapped, or as it was if it is read on a balance.
Reversed(operand) ==
  IF ~IsReadOnBalance(operand) THEN SwapEnds(operand)
  ELSE IF ~Reversible(operand) THEN operand
  ELSE LET article == CHOOSE a \in WayBack(operand) : TRUE
       IN [operand EXCEPT !.entities =
             <<Ref("balance", CHOOSE b \in WithId("balance", article.balance) : TRUE),
               Ref("article", article)>>]
=============================================================================
