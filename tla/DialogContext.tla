---------------------------- MODULE DialogContext ----------------------------
(***************************************************************************)
(* The conversation a session holds: ContextContractV2 as the reducer      *)
(* (reducer.py) changes it, and what the turn processor (processor.py)     *)
(* reads of it to decide the next turn: the active scope, the pending      *)
(* clarification and the result references.                                *)
(*                                                                         *)
(* A step is a committed turn.  TurnService interleaves the turns of many  *)
(* clients and shows that each is computed from the revision just before   *)
(* it (NoLostUpdate), so one turn at a time is no restriction here.  A     *)
(* turn the processor refuses commits nothing and is no step.              *)
(*                                                                         *)
(* A turn is named by the revision it produced (turn_id is a fresh uuid).  *)
(* A scope is the turn that set it: the intent of the scope is the intent  *)
(* of that turn.                                                           *)
(***************************************************************************)
EXTENDS Naturals, SequencesExt

CONSTANTS
  Entity,       \* canonical entities with their role
  Intent,       \* analysis intents a turn can be bound to
  Mentions,     \* the entities of an intent's operands, in order, with repetitions
  Grouping,     \* intents that group by a canonical dimension other than the period
  WindowLimit,  \* conversation_window keeps this many turns (7)
  TurnLimit,    \* recent_turns (20)
  ResultLimit,  \* result_references (50)
  EntityLimit,  \* entity_memory (100)
  MaxTurns      \* bound: turns of one session

ASSUME DialogAssumption ==
  /\ Mentions \in [Intent -> Seq(Entity)]
  /\ Grouping \subseteq Intent
  /\ {WindowLimit, TurnLimit, ResultLimit, EntityLimit} \subseteq Nat \ {0}
  /\ WindowLimit <= TurnLimit /\ WindowLimit <= ResultLimit
  /\ MaxTurns \in Nat

VARIABLES
  journal,     \* context_mutations_v2, append only; its length is the revision
  active,      \* active_dialog_scope: its turn, 0 if there is none
  attempted,   \* last_attempted_scope
  successful,  \* last_successful_scope
  pending,     \* pending_clarification: the turn that asked, 0 if there is none
  recent,      \* recent_turns
  references,  \* result_references
  window,      \* conversation_window
  entities     \* entity_memory, most recently mentioned last

vars == <<journal, active, attempted, successful, pending, recent, references,
          window, entities>>

-----------------------------------------------------------------------------
(* Records *)

Outcomes == {"success", "no_data", "error", "clarification"}

\* A journal row.  `answers` is the clarification the turn answered (0: none),
\* `groups` the turn whose facts a grouping turn aggregated, its own if it
\* queried (0: not a grouping turn), `facts` whether the result holds any.
Row == [intent: Intent, outcome: Outcomes, answers: Nat, groups: Nat, facts: BOOLEAN]

Reference == [turn: Nat, facts: BOOLEAN]

\* A frame shows the interpreter one turn: what it meant and what it found.
Frame == [turn: Nat, intent: Intent, outcome: Outcomes, result: Nat]

EntityEntry == [ent: Entity, first: Nat, last: Nat, count: Nat \ {0}]

Revision == Len(journal)

Turns == 1..Revision

TypeOK ==
  /\ journal \in Seq(Row)
  /\ {active, attempted, successful, pending} \subseteq 0..Revision
  /\ recent \in Seq([turn: Nat, outcome: Outcomes])
  /\ references \in Seq(Reference)
  /\ window \in Seq(Frame)
  /\ entities \in Seq(EntityEntry)

\* store.create: an empty contract.
Init ==
  /\ journal = <<>>
  /\ active = 0 /\ attempted = 0 /\ successful = 0 /\ pending = 0
  /\ recent = <<>> /\ references = <<>> /\ window = <<>> /\ entities = <<>>

-----------------------------------------------------------------------------
(* apply_context_transition *)

\* list[-n:]
LastN(s, n) == SubSeq(s, IF Len(s) > n THEN Len(s) - n + 1 ELSE 1, Len(s))

\* Fault: a new entity starts uncounted.
MentionUncounted(memory, e, t) ==
  Append(SelectSeq(memory, LAMBDA m : m.ent # e),
         [ent |-> e, first |-> t, last |-> t,
          count |-> Cardinality({i \in 1..Len(memory) : memory[i].ent = e})])

\* Fault: a known entity is updated where it stands.
MentionInPlace(memory, e, t) ==
  LET at == {i \in 1..Len(memory) : memory[i].ent = e}
  IN  IF at = {}
      THEN Append(memory, [ent |-> e, first |-> t, last |-> t, count |-> 1])
      ELSE [i \in 1..Len(memory) |->
              IF i \in at THEN [memory[i] EXCEPT !.last = t, !.count = @ + 1]
              ELSE memory[i]]

\* One mention: a known entity moves to the end, a new one is appended there.
Mention(memory, e, t) ==
  LET at == {i \in 1..Len(memory) : memory[i].ent = e}
  IN  IF at = {}
      THEN Append(memory, [ent |-> e, first |-> t, last |-> t, count |-> 1])
      ELSE LET i == CHOOSE i \in at : TRUE
           IN  Append(RemoveAt(memory, i),
                      [memory[i] EXCEPT !.last = t, !.count = @ + 1])

\* _update_entity_memory
EntityMemory(i, t) ==
  LastN(FoldLeft(LAMBDA memory, e : Mention(memory, e, t), entities, Mentions[i]),
        EntityLimit)

\* Fault: a turn without a result becomes the focus of the dialogue too.
FocusOnEveryTurn(outcome, t) == t

\* The active scope after a turn.  Its second case is never met: the processor
\* asks nothing back without an active scope (Clarify).
Focus(outcome, t) ==
  IF outcome = "success" \/ (outcome = "clarification" /\ active = 0) THEN t ELSE active

\* Fault: only a successful turn clears the question.
PendingUntilSuccess(outcome, t) ==
  CASE outcome = "clarification" -> t
    [] outcome = "success" -> 0
    [] OTHER -> pending

\* A question is pending for exactly one turn.
Question(outcome, t) == IF outcome = "clarification" THEN t ELSE 0

\* Fault: one frame too many survives.
WindowOffByOne(frames) == LastN(frames, WindowLimit + 1)

Window(frames) == LastN(frames, WindowLimit)

\* Fault: list[:n] keeps the oldest references.
OldestReferences(refs) == SubSeq(refs, 1, IF Len(refs) > ResultLimit THEN ResultLimit
                                          ELSE Len(refs))

References(refs) == LastN(refs, ResultLimit)

\* The reduction of one turn: `row` is what the processor made of it.  A turn
\* carries a result reference exactly if it succeeded.
Reduce(row) ==
  LET t == Revision + 1
      success == row.outcome = "success"
  IN  /\ Revision < MaxTurns
      /\ journal' = Append(journal, row)
      /\ attempted' = t
      /\ active' = Focus(row.outcome, t)
      /\ successful' = IF success THEN t ELSE successful
      /\ entities' = IF success THEN EntityMemory(row.intent, t) ELSE entities
      /\ recent' = LastN(Append(recent, [turn |-> t, outcome |-> row.outcome]), TurnLimit)
      /\ references' = IF success
                       THEN References(Append(references,
                                              [turn |-> t, facts |-> row.facts]))
                       ELSE references
      /\ window' = Window(Append(window,
                     [turn |-> t, intent |-> row.intent, outcome |-> row.outcome,
                      result |-> IF success THEN t ELSE 0]))
      /\ pending' = Question(row.outcome, t)

-----------------------------------------------------------------------------
(* What the processor makes of a message *)

\* Fault: an answer is taken for any question the session ever asked.
AnyQuestion(a) == TRUE

\* _validate_clarification_answer: the answer names the pending question, and picks
\* what that offers: of an answer the model keeps only the turn whose question it is
\* to; a choice that was not offered is refused, as a stale one is, and changes
\* nothing.  A plain message (0) needs none, even if a question is pending.
Accepts(a) == a # 0 => a = pending

\* Clients answer questions they were once shown; several tabs may hold
\* questions of different age.
Answers == {0} \cup {t \in Turns : journal[t].outcome = "clarification"}

\* The newest stored result of the active scope that has facts.
Regroupable == {i \in DOMAIN references : references[i].turn = active /\ references[i].facts}

\* The rows of a query decide the outcome of a turn; a success may have none.
Queried(i, a, g) ==
  \E outcome \in {"success", "no_data", "error"}, f \in BOOLEAN :
    /\ f => outcome = "success"
    /\ Reduce([intent |-> i, outcome |-> outcome, answers |-> a, groups |-> g, facts |-> f])

\* _execute_mutation: the plan of an intent bound by the interpreter or by a
\* deterministic route, executed natively or as a hierarchical balance.
Execute(i, a) == Accepts(a) /\ i \notin Grouping /\ Queried(i, a, 0)

\* _standalone: the pipeline resolves and runs the message itself, in a session
\* without active scope or for a flow balance; the intent is read off its plan.
Standalone(i, a) == Accepts(a) /\ Queried(i, a, 0)

\* _reverse_no_data: metadata knows no relation for the reverse direction of an
\* operand of the active scope, so nothing is queried.
ReverseNoData(i, a) ==
  /\ Accepts(a)
  /\ active # 0
  /\ i \notin Grouping
  /\ Reduce([intent |-> i, outcome |-> "no_data", answers |-> a, groups |-> 0,
             facts |-> FALSE])

\* Grouping over the stored facts of the active scope, without a query.
Regroup(i, a) ==
  /\ Accepts(a)
  /\ i \in Grouping
  /\ \E k \in Regroupable :
       Reduce([intent |-> i, outcome |-> "success", answers |-> a,
               groups |-> references[k].turn, facts |-> TRUE])

\* Grouping over the rows of a query, when there are no facts to regroup.
QueryAndGroup(i, a) ==
  /\ Accepts(a)
  /\ i \in Grouping
  /\ Regroupable = {}
  /\ Queried(i, a, Revision + 1)

\* The interpreter asks back.  Without an active scope that is an error
\* (process), so the turn repeats the active intent.
Clarify(a) ==
  /\ Accepts(a)
  /\ active # 0
  /\ Reduce([intent |-> journal[active].intent, outcome |-> "clarification",
             answers |-> a, groups |-> 0, facts |-> FALSE])

Next ==
  \E a \in Answers :
    \/ \E i \in Intent :
         \/ Execute(i, a) \/ Standalone(i, a) \/ ReverseNoData(i, a)
         \/ Regroup(i, a) \/ QueryAndGroup(i, a)
    \/ Clarify(a)

Spec == Init /\ [][Next]_vars

-----------------------------------------------------------------------------
(* What the conversation promises *)

Successes == {t \in Turns : journal[t].outcome = "success"}

Newest(S) == IF S = {} THEN 0 ELSE CHOOSE t \in S : \A u \in S : u <= t

\* no_data, an error and a clarification never replace the last successful
\* result: the dialogue continues from the newest successful turn of the journal,
\* and the attempted scope is the newest turn (reducer, processor's clarify).
ScopesFollowJournal ==
  /\ active = Newest(Successes)
  /\ successful = Newest(Successes)
  /\ attempted = Revision

\* A clarification is answered by the turn right after it or never, hence at
\* most once: no answer of a stale tab is ever taken for a newer question.
AnswersAreCurrent ==
  \A t \in Turns : journal[t].answers # 0 =>
    /\ journal[t].answers = t - 1
    /\ journal[t - 1].outcome = "clarification"

\* A question is pending exactly while it is the last thing that happened, and
\* there is a scope its answer can continue from.
PendingIsLastTurn ==
  /\ pending # 0 <=> (Revision > 0 /\ journal[Revision].outcome = "clarification")
  /\ pending # 0 => pending = Revision /\ active # 0

\* The window shows the interpreter the last WindowLimit turns of the journal,
\* none missing and none doubled, and every result it shows is still stored.
WindowIsJournalTail ==
  /\ Len(window) = IF Revision < WindowLimit THEN Revision ELSE WindowLimit
  /\ \A k \in DOMAIN window :
       LET t == Revision - Len(window) + k
       IN  /\ window[k].turn = t
           /\ window[k].intent = journal[t].intent
           /\ window[k].outcome = journal[t].outcome
           /\ window[k].result # 0 =>
                \E r \in DOMAIN references : references[r].turn = window[k].result

\* The mentions of successful turns, in order: <<entity, turn>>.
AllMentions ==
  FlattenSeq([t \in Turns |->
    IF t \in Successes
    THEN [k \in DOMAIN Mentions[journal[t].intent] |-> <<Mentions[journal[t].intent][k], t>>]
    ELSE <<>>])

\* Entity memory is the list of the EntityLimit most recently mentioned entities
\* in the order of their last mention, each with the number of mentions since it
\* entered, whatever the turns mentioned, repeated and pushed out.
MemoryIsByRecency ==
  LET all == AllMentions
      LastOf(e) == Newest({p \in DOMAIN all : all[p][1] = e})
      known == {all[p][1] : p \in DOMAIN all}
      kept == {entities[k].ent : k \in DOMAIN entities}
  IN  /\ Len(entities) = Cardinality(kept)
      /\ Cardinality(kept) =
           IF Cardinality(known) < EntityLimit THEN Cardinality(known) ELSE EntityLimit
      /\ \A e \in known \ kept, f \in kept : LastOf(e) < LastOf(f)
      /\ \A k \in DOMAIN entities :
           LET m == entities[k]
           IN  /\ m.last = all[LastOf(m.ent)][2]
               /\ m.count = Cardinality({p \in DOMAIN all :
                                           all[p][1] = m.ent /\ all[p][2] >= m.first})
               /\ \A j \in DOMAIN entities : j < k => LastOf(entities[j].ent) < LastOf(m.ent)

\* A grouping turn aggregates the stored facts of the newest success before it,
\* without a second query, and queries only if there are none: never the facts of
\* an older turn (_execute_grouping_mutation over active scope and references).
GroupingUsesLastResult ==
  \A t \in Turns : journal[t].groups # 0 =>
    LET last == Newest({u \in Successes : u < t})
    IN  journal[t].groups = IF last # 0 /\ journal[last].facts THEN last ELSE t
=============================================================================
