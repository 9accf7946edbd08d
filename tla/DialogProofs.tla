---------------------------- MODULE DialogProofs ----------------------------
(***************************************************************************)
(* Theorems about DialogContext, for any intents and mentions and for any  *)
(* limits, the code's 7, 20, 50 and 100 among them.                        *)
(***************************************************************************)
EXTENDS DialogContext, ListLemmas

-----------------------------------------------------------------------------
(* Helpers *)

\* The newest of a set is its greatest member.
LEMMA NewestIs ==
  ASSUME NEW S \in SUBSET Nat, NEW t \in S, \A u \in S : u <= t
  PROVE  Newest(S) = t
  <1>1. \A v \in S : (\A u \in S : u <= v) => v = t
    OBVIOUS
  <1>2. QED
    BY <1>1 DEF Newest

\* list[-n:] keeps the last elements in place, and the very last one always.
LEMMA LastNKeeps ==
  ASSUME NEW T, NEW s \in Seq(T), NEW n \in Nat \ {0}
  PROVE  /\ LastN(s, n) \in Seq(T)
         /\ Len(LastN(s, n)) = IF Len(s) > n THEN n ELSE Len(s)
         /\ \A k \in 1..Len(LastN(s, n)) :
              LastN(s, n)[k] = s[Len(s) - Len(LastN(s, n)) + k]
  <1>1. CASE Len(s) > n
    BY <1>1 DEF LastN
  <1>2. CASE ~(Len(s) > n)
    <2>1. LastN(s, n) = SubSeq(s, 1, Len(s))
      BY <1>2 DEF LastN
    <2>2. Len(s) \in Nat
      OBVIOUS
    <2>3. /\ SubSeq(s, 1, Len(s)) \in Seq(T)
          /\ Len(SubSeq(s, 1, Len(s))) = Len(s)
          /\ \A k \in 1..Len(s) : SubSeq(s, 1, Len(s))[k] = s[k]
      BY <2>2
    <2>4. Len(LastN(s, n)) = Len(s)
      BY <2>1, <2>3
    <2>5. ASSUME NEW k \in 1..Len(LastN(s, n))
          PROVE  LastN(s, n)[k] = s[Len(s) - Len(LastN(s, n)) + k]
      <3>1. k \in 1..Len(s) /\ Len(s) - Len(LastN(s, n)) + k = k
        BY <2>2, <2>4
      <3>2. QED
        BY <2>1, <2>3, <3>1
    <2>6. QED
      BY <1>2, <2>1, <2>3, <2>4, <2>5
  <1>3. QED
    BY <1>1, <1>2

-----------------------------------------------------------------------------
(* The inductive invariant *)

ScopesOK ==
  /\ journal \in Seq(Row)
  /\ {active, attempted, successful, pending} \subseteq 0..Revision
  /\ references \in Seq(Reference)

\* The focus of the dialogue, without Newest: inductive, as Newest alone is not
\* without an argument about finite sets.
FocusIsNewest ==
  /\ active = 0 => Successes = {}
  /\ active # 0 => active \in Successes /\ \A u \in Successes : u <= active
  /\ successful = active
  /\ attempted = Revision

\* A stored result is that of a successful turn, and the active one is stored.
ReferencesFollowJournal ==
  /\ \A k \in 1..Len(references) :
       /\ references[k].turn \in Successes
       /\ references[k].facts = journal[references[k].turn].facts
  /\ active # 0 => \E k \in 1..Len(references) : references[k].turn = active

\* The successes before a turn have a newest one, if there are any.
PastHasNewest ==
  \A t \in Turns :
    LET before == {u \in Successes : u < t}
    IN  before = {} \/ \E n \in before : \A u \in before : u <= n

DialogInv ==
  /\ ScopesOK
  /\ FocusIsNewest
  /\ AnswersAreCurrent
  /\ PendingIsLastTurn
  /\ ReferencesFollowJournal
  /\ PastHasNewest
  /\ GroupingUsesLastResult

-----------------------------------------------------------------------------
(* Every step is the reduction of one row *)

\* What the processor guarantees of the row it hands to the reducer.
RowFits(row) ==
  /\ row \in Row
  /\ Accepts(row.answers)
  /\ row.outcome = "clarification" => active # 0
  /\ row.groups # 0 =>
       \/ \E k \in Regroupable : row.groups = references[k].turn
       \/ Regroupable = {} /\ row.groups = Revision + 1

LEMMA QueriedFits ==
  ASSUME ScopesOK, NEW i \in Intent, NEW a \in Nat, Accepts(a), NEW g \in Nat,
         g # 0 => Regroupable = {} /\ g = Revision + 1, Queried(i, a, g)
  PROVE  \E row : RowFits(row) /\ Reduce(row)
  <1>1. PICK outcome \in {"success", "no_data", "error"}, f \in BOOLEAN :
          Reduce([intent |-> i, outcome |-> outcome, answers |-> a, groups |-> g,
                  facts |-> f])
    BY DEF Queried
  <1> DEFINE row == [intent |-> i, outcome |-> outcome, answers |-> a, groups |-> g,
                     facts |-> f]
  <1>2. row \in Row
    BY DEF Row, Outcomes
  <1>3. RowFits(row)
    BY <1>2 DEF RowFits
  <1>4. QED
    BY <1>1, <1>3

LEMMA StepReduces ==
  ASSUME ScopesOK, Next
  PROVE  \E row : RowFits(row) /\ Reduce(row)
  <1>1. Revision \in Nat
    BY DEF ScopesOK, Revision
  <1>2. PICK a \in Answers :
          \/ \E i \in Intent :
               \/ Execute(i, a) \/ Standalone(i, a) \/ ReverseNoData(i, a)
               \/ Regroup(i, a) \/ QueryAndGroup(i, a)
          \/ Clarify(a)
    BY DEF Next
  <1>3. a \in Nat
    BY <1>1 DEF Answers, Turns
  <1>4. ASSUME NEW i \in Intent, Execute(i, a)
        PROVE  \E row : RowFits(row) /\ Reduce(row)
    BY <1>3, <1>4, QueriedFits DEF Execute
  <1>5. ASSUME NEW i \in Intent, Standalone(i, a)
        PROVE  \E row : RowFits(row) /\ Reduce(row)
    BY <1>3, <1>5, QueriedFits DEF Standalone
  <1>6. ASSUME NEW i \in Intent, ReverseNoData(i, a)
        PROVE  \E row : RowFits(row) /\ Reduce(row)
    <2> DEFINE row == [intent |-> i, outcome |-> "no_data", answers |-> a, groups |-> 0,
                       facts |-> FALSE]
    <2>1. RowFits(row)
      BY <1>3, <1>6 DEF RowFits, Row, Outcomes, ReverseNoData
    <2>2. QED
      BY <1>6, <2>1 DEF ReverseNoData
  <1>7. ASSUME NEW i \in Intent, Regroup(i, a)
        PROVE  \E row : RowFits(row) /\ Reduce(row)
    <2>1. PICK k \in Regroupable :
            Reduce([intent |-> i, outcome |-> "success", answers |-> a,
                    groups |-> references[k].turn, facts |-> TRUE])
      BY <1>7 DEF Regroup
    <2> DEFINE row == [intent |-> i, outcome |-> "success", answers |-> a,
                       groups |-> references[k].turn, facts |-> TRUE]
    <2>2. references[k].turn \in Nat
      BY DEF ScopesOK, Regroupable, Reference
    <2>3. row \in Row
      BY <1>3, <2>2 DEF Row, Outcomes
    <2>4. RowFits(row)
      BY <1>7, <2>3 DEF RowFits, Regroup
    <2>5. QED
      BY <2>1, <2>4
  <1>8. ASSUME NEW i \in Intent, QueryAndGroup(i, a)
        PROVE  \E row : RowFits(row) /\ Reduce(row)
    BY <1>1, <1>3, <1>8, QueriedFits DEF QueryAndGroup
  <1>9. ASSUME Clarify(a)
        PROVE  \E row : RowFits(row) /\ Reduce(row)
    <2> DEFINE row == [intent |-> journal[active].intent, outcome |-> "clarification",
                       answers |-> a, groups |-> 0, facts |-> FALSE]
    <2>1. active \in 1..Len(journal)
      BY <1>9 DEF Clarify, ScopesOK, Revision
    <2>2. journal[active].intent \in Intent
      <3>1. journal[active] \in Row
        BY <2>1 DEF ScopesOK
      <3>2. QED
        BY <3>1 DEF Row
    <2>3. RowFits(row)
      BY <1>3, <1>9, <2>2 DEF RowFits, Row, Outcomes, Clarify
    <2>4. QED
      BY <1>9, <2>3 DEF Clarify
  <1>10. QED
    BY <1>2, <1>4, <1>5, <1>6, <1>7, <1>8, <1>9

-----------------------------------------------------------------------------
(* What one reduction does to the journal *)

LEMMA JournalGrows ==
  ASSUME ScopesOK, NEW row \in Row, Reduce(row)
  PROVE  /\ Revision \in Nat
         /\ Revision' = Revision + 1
         /\ journal' \in Seq(Row)
         /\ journal'[Revision + 1] = row
         /\ \A t \in Turns : journal'[t] = journal[t]
         /\ Turns' = Turns \cup {Revision + 1}
  <1>1. journal \in Seq(Row) /\ Revision \in Nat
    BY DEF ScopesOK, Revision
  <1>2. journal' = Append(journal, row)
    BY DEF Reduce
  <1>3. /\ journal' \in Seq(Row)
        /\ Revision' = Revision + 1
        /\ journal'[Revision + 1] = row
        /\ \A t \in 1..Revision : journal'[t] = journal[t]
    BY <1>1, <1>2 DEF Revision
  <1>4. 1..(Revision + 1) = 1..Revision \cup {Revision + 1}
    BY <1>1
  <1>5. QED
    BY <1>1, <1>3, <1>4 DEF Turns

\* Only a success becomes a success.
LEMMA SuccessesGrow ==
  ASSUME ScopesOK, NEW row \in Row, Reduce(row)
  PROVE  /\ Successes \subseteq Turns
         /\ Successes' = IF row.outcome = "success" THEN Successes \cup {Revision + 1}
                         ELSE Successes
  BY JournalGrows DEF Successes

LEMMA FocusGivesScopes ==
  ASSUME ScopesOK, FocusIsNewest
  PROVE  ScopesFollowJournal /\ active = Newest(Successes)
  <1>1. Successes \in SUBSET Nat
    BY DEF Successes, Turns, ScopesOK, Revision
  <1>2. active = Newest(Successes)
    <2>1. CASE active = 0
      BY <2>1 DEF FocusIsNewest, Newest
    <2>2. CASE active # 0
      BY <1>1, <2>2, NewestIs DEF FocusIsNewest
    <2>3. QED
      BY <2>1, <2>2
  <1>3. QED
    BY <1>2 DEF FocusIsNewest, ScopesFollowJournal

\* What the journal said of its past, it says of it for good.
LEMMA PastIsFixed ==
  ASSUME ScopesOK, NEW row \in Row, Reduce(row), NEW t \in Turns
  PROVE  {u \in Successes : u < t}' = {u \in Successes : u < t}
  <1>1. Revision \in Nat /\ t \in 1..Revision
    BY JournalGrows DEF Turns
  <1>2. QED
    BY <1>1, SuccessesGrow

-----------------------------------------------------------------------------
(* Every reduction preserves each part of the invariant *)

LEMMA ReferencesGrow ==
  ASSUME ScopesOK, NEW row \in Row, Reduce(row)
  PROVE  /\ references' \in Seq(Reference)
         /\ row.outcome # "success" => references' = references
         /\ row.outcome = "success" =>
              LET new == [turn |-> Revision + 1, facts |-> row.facts]
              IN  /\ \A k \in 1..Len(references') :
                       \/ references'[k] = new
                       \/ \E j \in 1..Len(references) : references'[k] = references[j]
                  /\ \E k \in 1..Len(references') : references'[k] = new
  <1> DEFINE new == [turn |-> Revision + 1, facts |-> row.facts]
  <1> DEFINE more == Append(references, new)
  <1>1. Revision \in Nat /\ references \in Seq(Reference) /\ Len(references) \in Nat
    BY JournalGrows DEF ScopesOK
  <1>2. new \in Reference
    BY <1>1 DEF Row, Reference
  <1>3. /\ more \in Seq(Reference)
        /\ Len(more) = Len(references) + 1
        /\ more[Len(references) + 1] = new
        /\ \A j \in 1..Len(references) : more[j] = references[j]
    BY <1>1, <1>2
  <1>4. CASE row.outcome # "success"
    BY <1>1, <1>4 DEF Reduce
  <1>5. CASE row.outcome = "success"
    <2>1. references' = LastN(more, ResultLimit)
      BY <1>5 DEF Reduce, References
    <2>2. ResultLimit \in Nat \ {0}
      BY DialogAssumption
    <2> HIDE DEF new, more
    <2>3. /\ references' \in Seq(Reference)
          /\ Len(references') = IF Len(more) > ResultLimit THEN ResultLimit ELSE Len(more)
          /\ \A k \in 1..Len(references') :
               references'[k] = more[Len(more) - Len(references') + k]
      BY <1>3, <2>1, <2>2, LastNKeeps
    <2>4. Len(references') \in 1..Len(more)
      BY <1>1, <1>3, <2>2, <2>3
    <2>5. ASSUME NEW k \in 1..Len(references')
          PROVE  \/ references'[k] = new
                 \/ \E j \in 1..Len(references) : references'[k] = references[j]
      <3>1. Len(more) - Len(references') + k \in 1..(Len(references) + 1)
        BY <1>1, <1>3, <2>4
      <3>2. QED
        BY <1>1, <1>3, <2>3, <3>1
    <2>6. Len(references') \in 1..Len(references')
      BY <1>1, <1>3, <2>4
    <2>7. references'[Len(references')] = new
      <3>1. references'[Len(references')] =
              more[Len(more) - Len(references') + Len(references')]
        BY <2>3, <2>6
      <3>2. Len(more) - Len(references') + Len(references') = Len(references) + 1
        BY <1>1, <1>3, <2>4
      <3>3. QED
        BY <1>3, <3>1, <3>2, Zenon
    <2>8. QED
      BY <1>5, <2>3, <2>5, <2>6, <2>7 DEF new
  <1>6. QED
    BY <1>4, <1>5

LEMMA ScopesStep ==
  ASSUME ScopesOK, FocusIsNewest, NEW row \in Row, Reduce(row),
         row.outcome = "clarification" => active # 0
  PROVE  ScopesOK' /\ FocusIsNewest'
  <1>1. Revision \in Nat /\ Revision' = Revision + 1 /\ journal' \in Seq(Row)
    BY JournalGrows
  <1>2. {active, attempted, successful, pending} \subseteq 0..Revision
    BY DEF ScopesOK
  <1>3. active' = IF row.outcome = "success" THEN Revision + 1 ELSE active
    BY DEF Reduce, Focus
  <1>4. /\ successful' = IF row.outcome = "success" THEN Revision + 1 ELSE successful
        /\ attempted' = Revision + 1
        /\ pending' \in {0, Revision + 1}
    BY DEF Reduce, Question
  <1>5. {active, attempted, successful, pending}' \subseteq 0..Revision'
    <2>1. 0..Revision \subseteq 0..Revision' /\ {0, Revision + 1} \subseteq 0..Revision'
      BY <1>1
    <2>2. /\ active' \in 0..Revision' /\ attempted' \in 0..Revision'
          /\ successful' \in 0..Revision' /\ pending' \in 0..Revision'
      BY <1>2, <1>3, <1>4, <2>1
    <2>3. QED
      BY <2>2
  <1>6. ScopesOK'
    BY <1>1, <1>5, ReferencesGrow DEF ScopesOK
  <1>7. Successes \subseteq 1..Revision
    BY SuccessesGrow DEF Turns
  <1>8. Successes' = IF row.outcome = "success" THEN Successes \cup {Revision + 1}
                     ELSE Successes
    BY SuccessesGrow
  <1>9. FocusIsNewest'
    <2>1. CASE row.outcome = "success"
      <3>1. active' = Revision + 1 /\ active' # 0 /\ active' \in Successes'
        BY <1>1, <1>3, <1>8, <2>1
      <3>2. \A u \in Successes' : u <= Revision + 1
        BY <1>1, <1>7, <1>8, <2>1
      <3>3. QED
        BY <1>1, <1>4, <2>1, <3>1, <3>2 DEF FocusIsNewest
    <2>2. CASE row.outcome # "success"
      BY <1>1, <1>3, <1>4, <1>8, <2>2 DEF FocusIsNewest
    <2>3. QED
      BY <2>1, <2>2
  <1>10. QED
    BY <1>6, <1>9

LEMMA ClarificationStep ==
  ASSUME ScopesOK, FocusIsNewest, AnswersAreCurrent, PendingIsLastTurn,
         NEW row, RowFits(row), Reduce(row)
  PROVE  AnswersAreCurrent' /\ PendingIsLastTurn'
  <1>1. row \in Row
    BY DEF RowFits
  <1>2. /\ Revision \in Nat
        /\ Revision' = Revision + 1
        /\ journal'[Revision + 1] = row
        /\ \A t \in Turns : journal'[t] = journal[t]
        /\ Turns' = Turns \cup {Revision + 1}
    BY <1>1, JournalGrows
  <1>3. ASSUME row.answers # 0
        PROVE  /\ row.answers = Revision /\ Revision \in Turns
               /\ journal[Revision].outcome = "clarification"
    <2>1. row.answers = pending /\ pending # 0
      BY <1>3 DEF RowFits, Accepts
    <2>2. QED
      BY <1>2, <2>1 DEF PendingIsLastTurn, Turns
  <1>4. AnswersAreCurrent'
    <2>1. ASSUME NEW t \in Turns, journal'[t].answers # 0
          PROVE  journal'[t].answers = t - 1 /\ journal'[t - 1].outcome = "clarification"
      <3>1. journal[t].answers = t - 1 /\ journal[t - 1].outcome = "clarification"
        BY <1>2, <2>1 DEF AnswersAreCurrent
      <3>2. t - 1 \in Turns
        BY <1>2, <1>2, <2>1, <3>1 DEF Turns
      <3>3. QED
        BY <1>2, <3>1, <3>2
    <2>2. ASSUME row.answers # 0
          PROVE  /\ journal'[Revision + 1].answers = Revision + 1 - 1
                 /\ journal'[Revision + 1 - 1].outcome = "clarification"
      <3>1. Revision + 1 - 1 = Revision
        BY <1>2
      <3>2. QED
        BY <1>2, <1>3, <2>2, <3>1
    <2>3. QED
      BY <1>2, <2>1, <2>2 DEF AnswersAreCurrent
  <1>5. PendingIsLastTurn'
    <2>1. pending' = IF row.outcome = "clarification" THEN Revision + 1 ELSE 0
      BY DEF Reduce, Question
    <2>2. active' = IF row.outcome = "success" \/ (row.outcome = "clarification" /\ active = 0)
                    THEN Revision + 1 ELSE active
      BY DEF Reduce, Focus
    <2>3. row.outcome = "clarification" => active' # 0
      BY <1>2, <2>2
    <2>4. QED
      BY <1>2, <2>1, <2>3 DEF PendingIsLastTurn
  <1>6. QED
    BY <1>4, <1>5

LEMMA ReferencesStep ==
  ASSUME ScopesOK, FocusIsNewest, ReferencesFollowJournal,
         NEW row \in Row, Reduce(row), row.outcome = "clarification" => active # 0
  PROVE  ReferencesFollowJournal'
  <1>1. /\ Revision \in Nat
        /\ journal'[Revision + 1] = row
        /\ \A t \in Turns : journal'[t] = journal[t]
    BY JournalGrows
  <1>2. /\ Successes \subseteq Turns
        /\ Successes' = IF row.outcome = "success" THEN Successes \cup {Revision + 1}
                        ELSE Successes
    BY SuccessesGrow
  <1>3. active' = IF row.outcome = "success" THEN Revision + 1 ELSE active
    BY DEF Reduce, Focus
  <1>4. CASE row.outcome # "success"
    <2>1. references' = references /\ Successes' = Successes /\ active' = active
      BY <1>2, <1>3, <1>4, ReferencesGrow
    <2>2. QED
      BY <1>1, <1>2, <2>1 DEF ReferencesFollowJournal
  <1>5. CASE row.outcome = "success"
    <2> DEFINE new == [turn |-> Revision + 1, facts |-> row.facts]
    <2>1. /\ \A k \in 1..Len(references') :
               \/ references'[k] = new
               \/ \E j \in 1..Len(references) : references'[k] = references[j]
          /\ \E k \in 1..Len(references') : references'[k] = new
      BY <1>5, ReferencesGrow
    <2>2. Successes' = Successes \cup {Revision + 1} /\ active' = Revision + 1
      BY <1>2, <1>3, <1>5
    <2>3. new.turn = Revision + 1 /\ new.facts = row.facts
      OBVIOUS
    <2>4. ASSUME NEW k \in 1..Len(references')
          PROVE  /\ references'[k].turn \in Successes'
                 /\ references'[k].facts = journal'[references'[k].turn].facts
      <3>1. CASE references'[k] = new
        BY <1>1, <2>2, <2>3, <3>1
      <3>2. ASSUME NEW j \in 1..Len(references), references'[k] = references[j]
            PROVE  /\ references'[k].turn \in Successes'
                   /\ references'[k].facts = journal'[references'[k].turn].facts
        <4>1. /\ references[j].turn \in Successes
              /\ references[j].facts = journal[references[j].turn].facts
          BY DEF ReferencesFollowJournal
        <4>2. journal'[references[j].turn] = journal[references[j].turn]
          BY <1>1, <1>2, <4>1
        <4>3. QED
          BY <2>2, <3>2, <4>1, <4>2
      <3>3. QED
        BY <2>1, <3>1, <3>2
    <2>5. \E k \in 1..Len(references') : references'[k].turn = active'
      BY <2>1, <2>2, <2>3
    <2>6. QED
      BY <2>4, <2>5 DEF ReferencesFollowJournal
  <1>6. QED
    BY <1>4, <1>5

LEMMA PastStep ==
  ASSUME ScopesOK, FocusIsNewest, PastHasNewest, NEW row \in Row, Reduce(row)
  PROVE  /\ PastHasNewest'
         /\ {u \in Successes' : u < Revision + 1} = Successes
  <1>1. /\ Revision \in Nat /\ Turns = 1..Revision
        /\ Turns' = Turns \cup {Revision + 1}
    BY JournalGrows DEF Turns
  <1>2. {u \in Successes' : u < Revision + 1} = Successes
    BY <1>1, SuccessesGrow
  <1>3. Successes = {} \/ \E n \in Successes : \A u \in Successes : u <= n
    BY DEF FocusIsNewest
  <1>4. ASSUME NEW t \in Turns'
        PROVE  LET before == {u \in Successes' : u < t}
               IN  before = {} \/ \E n \in before : \A u \in before : u <= n
    <2>1. CASE t \in Turns
      <3>1. {u \in Successes' : u < t} = {u \in Successes : u < t}
        BY <2>1, PastIsFixed
      <3>2. QED
        BY <2>1, <3>1 DEF PastHasNewest
    <2>2. CASE t = Revision + 1
      BY <1>2, <1>3, <2>2
    <2>3. QED
      BY <1>1, <2>1, <2>2
  <1>5. PastHasNewest'
    BY <1>4 DEF PastHasNewest
  <1>6. QED
    BY <1>2, <1>5

LEMMA GroupingStep ==
  ASSUME ScopesOK, FocusIsNewest, ReferencesFollowJournal, PastHasNewest,
         GroupingUsesLastResult, NEW row, RowFits(row), Reduce(row)
  PROVE  GroupingUsesLastResult'
  <1>1. row \in Row
    BY DEF RowFits
  <1>2. /\ Revision \in Nat
        /\ journal'[Revision + 1] = row
        /\ \A t \in Turns : journal'[t] = journal[t]
        /\ Turns' = Turns \cup {Revision + 1}
        /\ Turns = 1..Revision
    BY <1>1, JournalGrows DEF Turns
  <1>3. Successes \subseteq Turns /\ active = Newest(Successes)
    BY <1>1, SuccessesGrow, FocusGivesScopes
  <1>4. ASSUME NEW t \in Turns, journal'[t].groups # 0
        PROVE  LET last == Newest({u \in Successes' : u < t})
               IN  journal'[t].groups = IF last # 0 /\ journal'[last].facts THEN last ELSE t
    <2> DEFINE before == {u \in Successes : u < t}
    <2>1. {u \in Successes' : u < t} = before
      BY <1>1, PastIsFixed
    <2>2. journal'[t] = journal[t]
      BY <1>2
    <2>3. journal[t].groups =
            IF Newest(before) # 0 /\ journal[Newest(before)].facts THEN Newest(before) ELSE t
      BY <1>4, <2>2 DEF GroupingUsesLastResult
    <2>4. Newest(before) # 0 => Newest(before) \in Turns
      <3>1. before \in SUBSET Nat /\ before \subseteq Turns
        <4>1. before \subseteq Turns
          BY <1>3
        <4>2. Turns \subseteq Nat
          BY <1>2
        <4>3. QED
          BY <4>1, <4>2
      <3>2. before = {} \/ \E n \in before : \A u \in before : u <= n
        BY DEF PastHasNewest
      <3> HIDE DEF before
      <3>3. CASE before = {}
        BY <3>3 DEF Newest
      <3>4. ASSUME NEW n \in before, \A u \in before : u <= n
            PROVE  Newest(before) \in Turns
        BY <3>1, <3>4, NewestIs
      <3>5. QED
        BY <3>2, <3>3, <3>4
    <2> HIDE DEF before
    <2>5. Newest(before) # 0 => journal'[Newest(before)] = journal[Newest(before)]
      BY <1>2, <2>4
    <2>6. QED
      BY <2>1, <2>2, <2>3, <2>5
  <1>5. ASSUME row.groups # 0
        PROVE  row.groups = IF active # 0 /\ journal[active].facts THEN active
                            ELSE Revision + 1
    <2>1. ASSUME NEW k \in Regroupable, row.groups = references[k].turn
          PROVE  row.groups = active /\ journal[active].facts
      <3>1. k \in 1..Len(references) /\ references[k].turn = active /\ references[k].facts
        BY DEF Regroupable, ScopesOK
      <3>2. QED
        BY <2>1, <3>1 DEF ReferencesFollowJournal
    <2>2. ASSUME Regroupable = {}, row.groups = Revision + 1, active # 0
          PROVE  ~journal[active].facts
      <3>1. PICK k \in 1..Len(references) : references[k].turn = active
        BY <2>2 DEF ReferencesFollowJournal
      <3>2. ~references[k].facts
        BY <2>2, <3>1 DEF Regroupable, ScopesOK
      <3>3. QED
        BY <3>1, <3>2 DEF ReferencesFollowJournal
    <2>3. QED
      BY <1>5, <2>1, <2>2 DEF RowFits
  <1>6. ASSUME row.groups # 0
        PROVE  LET last == Newest({u \in Successes' : u < Revision + 1})
               IN  journal'[Revision + 1].groups =
                     IF last # 0 /\ journal'[last].facts THEN last ELSE Revision + 1
    <2>1. Newest({u \in Successes' : u < Revision + 1}) = active
      BY <1>1, <1>3, PastStep
    <2>2. active # 0 => journal'[active] = journal[active]
      BY <1>2, <1>3 DEF FocusIsNewest
    <2>3. QED
      BY <1>2, <1>5, <1>6, <2>1, <2>2
  <1>7. ASSUME NEW t \in Turns', journal'[t].groups # 0
        PROVE  LET last == Newest({u \in Successes' : u < t})
               IN  journal'[t].groups = IF last # 0 /\ journal'[last].facts THEN last ELSE t
    <2>1. CASE t \in Turns
      BY <1>4, <1>7, <2>1
    <2>2. CASE t = Revision + 1
      BY <1>2, <1>6, <1>7, <2>2
    <2>3. QED
      BY <1>2, <2>1, <2>2
  <1>8. QED
    BY <1>7 DEF GroupingUsesLastResult

-----------------------------------------------------------------------------
(* The theorems *)

LEMMA DialogInvInit == Init => DialogInv
  <1> SUFFICES ASSUME Init PROVE DialogInv
    OBVIOUS
  <1>1. Revision = 0 /\ Turns = {} /\ Successes = {}
    BY DEF Init, Revision, Turns, Successes
  <1>2. ScopesOK
    BY <1>1 DEF Init, ScopesOK
  <1>3. FocusIsNewest /\ ReferencesFollowJournal
    BY <1>1 DEF Init, FocusIsNewest, ReferencesFollowJournal
  <1>4. AnswersAreCurrent /\ PendingIsLastTurn /\ PastHasNewest /\ GroupingUsesLastResult
    BY <1>1 DEF Init, AnswersAreCurrent, PendingIsLastTurn, PastHasNewest,
                GroupingUsesLastResult
  <1>5. QED
    BY <1>2, <1>3, <1>4 DEF DialogInv

LEMMA DialogInvStep == DialogInv /\ [Next]_vars => DialogInv'
  <1> SUFFICES ASSUME DialogInv, [Next]_vars PROVE DialogInv'
    OBVIOUS
  <1> USE DEF DialogInv
  <1>1. CASE Next
    <2>1. PICK row : RowFits(row) /\ Reduce(row)
      BY <1>1, StepReduces
    <2>2. row \in Row /\ (row.outcome = "clarification" => active # 0)
      BY <2>1 DEF RowFits
    <2>3. ScopesOK' /\ FocusIsNewest'
      BY <2>1, <2>2, ScopesStep
    <2>4. AnswersAreCurrent' /\ PendingIsLastTurn'
      BY <2>1, ClarificationStep
    <2>5. ReferencesFollowJournal'
      BY <2>1, <2>2, ReferencesStep
    <2>6. PastHasNewest' /\ GroupingUsesLastResult'
      BY <2>1, <2>2, PastStep, GroupingStep
    <2>7. QED
      BY <2>3, <2>4, <2>5, <2>6
  <1>2. CASE UNCHANGED vars
    <2>1. Revision' = Revision /\ Turns' = Turns /\ Successes' = Successes
      BY <1>2 DEF vars, Revision, Turns, Successes
    <2>2. ScopesOK' /\ FocusIsNewest' /\ ReferencesFollowJournal'
      BY <1>2, <2>1 DEF vars, ScopesOK, FocusIsNewest, ReferencesFollowJournal
    <2>3. AnswersAreCurrent' /\ PendingIsLastTurn' /\ PastHasNewest'
      BY <1>2, <2>1 DEF vars, AnswersAreCurrent, PendingIsLastTurn, PastHasNewest
    <2>4. GroupingUsesLastResult'
      BY <1>2, <2>1 DEF vars, GroupingUsesLastResult
    <2>5. QED
      BY <2>2, <2>3, <2>4
  <1>3. QED
    BY <1>1, <1>2

LEMMA DialogInvHolds == Spec => []DialogInv
  BY DialogInvInit, DialogInvStep, PTL DEF Spec

\* Neither no_data, nor an error, nor a clarification ever replaces the last
\* successful result as the scope the dialogue continues from, in a session of
\* any length (apply_context_transition).
THEOREM ScopesHold == Spec => []ScopesFollowJournal
  <1>1. DialogInv => ScopesFollowJournal
    BY FocusGivesScopes DEF DialogInv
  <1>2. QED
    BY <1>1, DialogInvHolds, PTL

\* A clarification is answered by the turn right after it or never
\* (_validate_clarification_answer over the pending_clarification the reducer
\* clears with every other turn).
THEOREM ClarificationsHold == Spec => []AnswersAreCurrent
  <1>1. DialogInv => AnswersAreCurrent
    BY DEF DialogInv
  <1>2. QED
    BY <1>1, DialogInvHolds, PTL

\* A question is pending exactly while it is the last turn, and always has an
\* active scope to continue from.
THEOREM PendingHolds == Spec => []PendingIsLastTurn
  <1>1. DialogInv => PendingIsLastTurn
    BY DEF DialogInv
  <1>2. QED
    BY <1>1, DialogInvHolds, PTL

\* A grouping turn aggregates the stored facts of the newest success, however
\* short the list of stored references is, and queries only if it has none.
THEOREM GroupingHolds == Spec => []GroupingUsesLastResult
  <1>1. DialogInv => GroupingUsesLastResult
    BY DEF DialogInv
  <1>2. QED
    BY <1>1, DialogInvHolds, PTL

-----------------------------------------------------------------------------
(* The window: a second invariant, on top of the first *)

\* The window as it was built: frame by frame, from the rows of the journal.
FramesFollowJournal ==
  /\ window \in Seq(Frame)
  /\ Len(window) = IF Revision < WindowLimit THEN Revision ELSE WindowLimit
  /\ \A k \in 1..Len(window) :
       LET t == Revision - Len(window) + k
       IN  /\ window[k].turn = t
           /\ window[k].intent = journal[t].intent
           /\ window[k].outcome = journal[t].outcome
           /\ window[k].result = IF journal[t].outcome = "success" THEN t ELSE 0

\* The stored results, in order of their turns; what is not stored was pushed out by
\* ResultLimit younger ones, so it is at least that old.
ReferencesAreNewest ==
  /\ Len(references) <= ResultLimit
  /\ \A j, k \in 1..Len(references) : j < k => references[j].turn < references[k].turn
  /\ \A k \in 1..Len(references) : references[k].turn <= Revision - Len(references) + k
  /\ \A u \in Successes :
       \/ \E k \in 1..Len(references) : references[k].turn = u
       \/ Len(references) = ResultLimit /\ u < references[1].turn

WindowInv == DialogInv /\ FramesFollowJournal /\ ReferencesAreNewest

-----------------------------------------------------------------------------

LEMMA FramesStep ==
  ASSUME ScopesOK, FramesFollowJournal, NEW row \in Row, Reduce(row)
  PROVE  FramesFollowJournal'
  <1> DEFINE frame == [turn |-> Revision + 1, intent |-> row.intent, outcome |-> row.outcome,
                       result |-> IF row.outcome = "success" THEN Revision + 1 ELSE 0]
             more == Append(window, frame)
  <1>1. /\ Revision \in Nat /\ Revision' = Revision + 1
        /\ journal'[Revision + 1] = row
        /\ \A t \in 1..Revision : journal'[t] = journal[t]
    BY JournalGrows DEF Turns
  <1>2. window' = LastN(more, WindowLimit)
    BY DEF Reduce, Window
  <1>3. frame \in Frame
    BY <1>1 DEF Frame, Row
  <1>4. /\ frame.turn = Revision + 1 /\ frame.intent = row.intent
        /\ frame.outcome = row.outcome
        /\ frame.result = IF row.outcome = "success" THEN Revision + 1 ELSE 0
    OBVIOUS
  <1> HIDE DEF frame
  <1>5. WindowLimit \in Nat \ {0} /\ window \in Seq(Frame) /\ Len(window) <= WindowLimit
    BY <1>1, DialogAssumption DEF FramesFollowJournal
  <1>6. /\ more \in Seq(Frame) /\ Len(more) = Len(window) + 1
        /\ more[Len(window) + 1] = frame
        /\ \A k \in 1..Len(window) : more[k] = window[k]
    BY <1>3, <1>5
  <1> HIDE DEF more
  <1>7. /\ Len(window') = IF Len(window) < WindowLimit THEN Len(window) + 1 ELSE WindowLimit
        /\ window'[Len(window')] = frame
        /\ \A k \in 1..(Len(window') - 1) :
             /\ Len(window) - Len(window') + 1 + k \in 1..Len(window)
             /\ window'[k] = window[Len(window) - Len(window') + 1 + k]
    <2>1. /\ Len(window') = IF Len(more) > WindowLimit THEN WindowLimit ELSE Len(more)
          /\ \A k \in 1..Len(window') : window'[k] = more[Len(more) - Len(window') + k]
      BY <1>2, <1>5, <1>6, LastNKeeps
    <2>2. Len(window) \in Nat /\ Len(more) = Len(window) + 1 /\ WindowLimit \in Nat \ {0}
      BY <1>5, <1>6
    <2>3. Len(window') = IF Len(window) < WindowLimit THEN Len(window) + 1 ELSE WindowLimit
      BY <1>5, <1>6, <2>1, <2>2
    <2>4. window'[Len(window')] = frame
      <3>1. Len(window') \in 1..Len(window') /\ Len(more) - Len(window') + Len(window') = Len(window) + 1
        BY <2>2, <2>3
      <3>2. window'[Len(window')] = more[Len(window) + 1]
        BY <2>1, <3>1
      <3>3. QED
        BY <1>6, <3>2
    <2>5. ASSUME NEW k \in 1..(Len(window') - 1)
          PROVE  /\ Len(window) - Len(window') + 1 + k \in 1..Len(window)
                 /\ window'[k] = window[Len(window) - Len(window') + 1 + k]
      <3>1. Len(window) - Len(window') + 1 + k \in 1..Len(window) /\ k \in 1..Len(window')
        BY <1>5, <1>6, <2>2, <2>3
      <3>2. Len(more) - Len(window') + k = Len(window) - Len(window') + 1 + k
        BY <2>2, <2>3, <3>1
      <3>3. QED
        BY <1>6, <2>1, <3>1, <3>2
    <2>6. QED
      BY <2>3, <2>4, <2>5
  <1>8. window' \in Seq(Frame)
    BY <1>2, <1>5, <1>6, LastNKeeps
  <1>9. Len(window) = IF Revision < WindowLimit THEN Revision ELSE WindowLimit
    BY DEF FramesFollowJournal
  <1>10. Len(window') = IF Revision' < WindowLimit THEN Revision' ELSE WindowLimit
    BY <1>1, <1>5, <1>7, <1>9
  <1>11. ASSUME NEW k \in 1..Len(window'), NEW t, t = Revision' - Len(window') + k
        PROVE  /\ window'[k].turn = t
               /\ window'[k].intent = journal'[t].intent
               /\ window'[k].outcome = journal'[t].outcome
               /\ window'[k].result = IF journal'[t].outcome = "success" THEN t ELSE 0
    <2>1. CASE k = Len(window')
      <3>1. t = Revision + 1
        BY <1>1, <1>5, <1>10, <1>11, <2>1
      <3>2. window'[k] = frame
        BY <1>7, <2>1
      <3>3. QED
        BY <1>1, <1>4, <3>1, <3>2
    <2>2. CASE k # Len(window')
      <3> DEFINE j == Len(window) - Len(window') + 1 + k
      <3>1. k \in 1..(Len(window') - 1)
        BY <1>1, <1>5, <1>10, <2>2
      <3>2. j \in 1..Len(window) /\ window'[k] = window[j]
        BY <1>7, <3>1
      <3>3. t = Revision - Len(window) + j /\ t \in 1..Revision
        <4>1. Len(window) \in Nat /\ Len(window') \in Nat /\ k \in Nat
          BY <1>1, <1>5, <1>9, <1>10
        <4>2. t = Revision - Len(window) + j
          BY <1>1, <1>11, <4>1
        <4>3. QED
          BY <1>1, <1>5, <1>9, <3>2, <4>1, <4>2
      <3> HIDE DEF j
      <3>4. /\ window[j].turn = t
            /\ window[j].intent = journal[t].intent
            /\ window[j].outcome = journal[t].outcome
            /\ window[j].result = IF journal[t].outcome = "success" THEN t ELSE 0
        BY <3>2, <3>3 DEF FramesFollowJournal
      <3>5. QED
        BY <1>1, <3>2, <3>3, <3>4
    <2>3. QED
      BY <2>1, <2>2
  <1>12. QED
    BY <1>8, <1>10, <1>11 DEF FramesFollowJournal

LEMMA NewestStep ==
  ASSUME ScopesOK, ReferencesAreNewest, ReferencesFollowJournal, NEW row \in Row, Reduce(row)
  PROVE  ReferencesAreNewest'
  <1>1. Revision \in Nat /\ Revision' = Revision + 1 /\ Successes \subseteq 1..Revision
    BY JournalGrows, SuccessesGrow DEF Turns
  <1>2. references \in Seq(Reference) /\ Len(references) \in Nat
    BY DEF ScopesOK
  <1>3. \A k \in 1..Len(references) : references[k].turn \in 1..Revision
    BY <1>1 DEF ReferencesFollowJournal
  <1>4. CASE row.outcome # "success"
    <2>1. references' = references /\ Successes' = Successes
      BY <1>4, ReferencesGrow, SuccessesGrow
    <2>2. QED
      BY <1>1, <1>2, <1>3, <2>1 DEF ReferencesAreNewest
  <1>5. CASE row.outcome = "success"
    <2> DEFINE new == [turn |-> Revision + 1, facts |-> row.facts]
               refs == references'
               more == Append(references, new)
    <2>1. refs = LastN(more, ResultLimit)
      BY <1>5 DEF Reduce, References
    <2>2. new \in Reference /\ new.turn = Revision + 1
      BY <1>1 DEF Row, Reference
    <2>3. ResultLimit \in Nat \ {0} /\ Len(references) <= ResultLimit
      BY DialogAssumption DEF ReferencesAreNewest
    <2>4. Successes' = Successes \cup {Revision + 1}
      BY <1>5, SuccessesGrow
    <2> HIDE DEF new, refs
    <2>5. /\ more \in Seq(Reference) /\ Len(more) = Len(references) + 1
          /\ more[Len(references) + 1] = new
          /\ \A k \in 1..Len(references) : more[k] = references[k]
      BY <1>2, <2>2
    <2> HIDE DEF more
    <2>6. /\ Len(refs) = IF Len(references) < ResultLimit THEN Len(references) + 1
                         ELSE ResultLimit
          /\ refs[Len(refs)] = new
          /\ \A k \in 1..(Len(refs) - 1) :
               /\ Len(references) - Len(refs) + 1 + k \in 1..Len(references)
               /\ refs[k] = references[Len(references) - Len(refs) + 1 + k]
      <3>1. /\ Len(refs) = IF Len(more) > ResultLimit THEN ResultLimit ELSE Len(more)
            /\ \A k \in 1..Len(refs) : refs[k] = more[Len(more) - Len(refs) + k]
        BY <2>1, <2>3, <2>5, LastNKeeps
      <3>2. Len(references) \in Nat /\ Len(more) = Len(references) + 1 /\ ResultLimit \in Nat \ {0}
        BY <1>2, <2>3, <2>5
      <3>3. Len(refs) = IF Len(references) < ResultLimit THEN Len(references) + 1 ELSE ResultLimit
        BY <1>2, <2>3, <2>5, <3>1, <3>2
      <3>4. refs[Len(refs)] = new
        <4>1. Len(refs) \in 1..Len(refs) /\ Len(more) - Len(refs) + Len(refs) = Len(references) + 1
          BY <3>2, <3>3
        <4>2. refs[Len(refs)] = more[Len(references) + 1]
          BY <3>1, <4>1
        <4>3. QED
          BY <2>5, <4>2
      <3>5. ASSUME NEW k \in 1..(Len(refs) - 1)
            PROVE  /\ Len(references) - Len(refs) + 1 + k \in 1..Len(references)
                   /\ refs[k] = references[Len(references) - Len(refs) + 1 + k]
        <4>1. Len(references) - Len(refs) + 1 + k \in 1..Len(references) /\ k \in 1..Len(refs)
          BY <1>2, <2>3, <2>5, <3>2, <3>3
        <4>2. Len(more) - Len(refs) + k = Len(references) - Len(refs) + 1 + k
          BY <3>2, <3>3, <4>1
        <4>3. QED
          BY <2>5, <3>1, <4>1, <4>2
      <3>6. QED
        BY <3>3, <3>4, <3>5
    <2>7. Len(refs) \in 1..ResultLimit
      BY <1>2, <2>3, <2>6
    <2>8. ASSUME NEW j \in 1..Len(refs), NEW k \in 1..Len(refs), j < k
          PROVE  refs[j].turn < refs[k].turn
      <3> DEFINE i == Len(references) - Len(refs) + 1 + j
                 l == Len(references) - Len(refs) + 1 + k
      <3>1. j \in 1..(Len(refs) - 1) /\ i \in 1..Len(references) /\ refs[j] = references[i]
        BY <2>6, <2>7, <2>8
      <3>2. CASE k = Len(refs)
        <4>1. references[i].turn \in 1..Revision
          BY <1>3, <3>1
        <4>2. refs[k].turn = Revision + 1
          BY <2>2, <2>6, <3>2
        <4>3. QED
          BY <1>1, <3>1, <4>1, <4>2
      <3>3. CASE k # Len(refs)
        <4>1. k \in 1..(Len(refs) - 1) /\ l \in 1..Len(references) /\ refs[k] = references[l]
          BY <2>6, <2>7, <3>3
        <4>2. i < l
          BY <1>2, <2>7, <2>8
        <4>3. QED
          BY <3>1, <4>1, <4>2 DEF ReferencesAreNewest
      <3>4. QED
        BY <3>2, <3>3
    <2>9. ASSUME NEW k \in 1..Len(refs)
          PROVE  refs[k].turn <= Revision + 1 - Len(refs) + k
      <3>1. CASE k = Len(refs)
        BY <1>1, <2>2, <2>6, <2>7, <3>1
      <3>2. CASE k # Len(refs)
        <4> DEFINE l == Len(references) - Len(refs) + 1 + k
        <4>1. k \in 1..(Len(refs) - 1)
          BY <2>7, <3>2
        <4>2. l \in 1..Len(references) /\ refs[k] = references[l]
          BY <2>6, <4>1
        <4>3. references[l].turn <= Revision - Len(references) + l
          BY <4>2 DEF ReferencesAreNewest
        <4>4. Revision - Len(references) + l = Revision + 1 - Len(refs) + k
          BY <1>1, <1>2, <2>7
        <4>5. QED
          BY <4>2, <4>3, <4>4
      <3>3. QED
        BY <3>1, <3>2
    <2>10. ASSUME NEW u \in Successes'
          PROVE  \/ \E k \in 1..Len(refs) : refs[k].turn = u
                 \/ Len(refs) = ResultLimit /\ u < refs[1].turn
      <3>1. CASE u = Revision + 1
        BY <2>2, <2>6, <2>7, <3>1
      <3>2. ASSUME NEW i \in 1..Len(references), references[i].turn = u
            PROVE  \/ \E k \in 1..Len(refs) : refs[k].turn = u
                   \/ Len(refs) = ResultLimit /\ u < refs[1].turn
        <4> DEFINE k == i - (Len(references) - Len(refs) + 1)
        <4>1. CASE Len(references) < ResultLimit
          <5>1. Len(refs) = Len(references) + 1
            BY <2>6, <4>1
          <5>2. i \in 1..(Len(refs) - 1) /\ Len(references) - Len(refs) + 1 + i = i
            BY <1>2, <5>1
          <5>3. refs[i] = references[i] /\ i \in 1..Len(refs)
            BY <2>6, <2>7, <5>2
          <5>4. QED
            BY <3>2, <5>3
        <4>2. CASE Len(references) = ResultLimit /\ i # 1
          <5>1. Len(refs) = ResultLimit
            BY <2>3, <2>6, <4>2
          <5>2. i - 1 \in 1..(Len(refs) - 1) /\ Len(references) - Len(refs) + 1 + (i - 1) = i
            BY <1>2, <2>3, <4>2, <5>1
          <5>3. refs[i - 1] = references[i] /\ i - 1 \in 1..Len(refs)
            BY <2>6, <2>7, <5>2
          <5>4. QED
            BY <3>2, <5>3
        <4>3. CASE Len(references) = ResultLimit /\ i = 1
          <5>1. Len(refs) = ResultLimit
            BY <2>3, <2>6, <4>3
          <5>2. CASE ResultLimit = 1
            <6>1. refs[1] = new
              BY <2>6, <5>1, <5>2
            <6>2. QED
              BY <1>1, <1>3, <2>2, <3>2, <5>1, <6>1
          <5>3. CASE ResultLimit # 1
            <6>1. 1 \in 1..(Len(refs) - 1) /\ Len(references) - Len(refs) + 1 + 1 = 2
              BY <2>3, <4>3, <5>1, <5>3
            <6>2. refs[1] = references[2] /\ 2 \in 1..Len(references)
              BY <2>3, <2>6, <4>3, <5>3, <6>1
            <6>3. references[1].turn < references[2].turn
              BY <4>3, <6>2 DEF ReferencesAreNewest
            <6>4. QED
              BY <3>2, <4>3, <5>1, <6>2, <6>3
          <5>4. QED
            BY <5>2, <5>3
        <4>4. QED
          BY <1>2, <2>3, <4>1, <4>2, <4>3
      <3>3. CASE Len(references) = ResultLimit /\ u < references[1].turn
        <4>1. Len(refs) = ResultLimit /\ 1 \in 1..Len(references)
          BY <2>3, <2>6, <3>3
        <4>2. references[1].turn < refs[1].turn
          <5>1. CASE ResultLimit = 1
            BY <1>1, <1>3, <2>2, <2>6, <4>1, <5>1
          <5>2. CASE ResultLimit # 1
            <6>1. 1 \in 1..(Len(refs) - 1) /\ Len(references) - Len(refs) + 1 + 1 = 2
              BY <2>3, <3>3, <4>1, <5>2
            <6>2. refs[1] = references[2] /\ 2 \in 1..Len(references)
              BY <2>3, <2>6, <3>3, <5>2, <6>1
            <6>3. QED
              BY <4>1, <6>2 DEF ReferencesAreNewest
          <5>3. QED
            BY <5>1, <5>2
        <4>3. references[1].turn \in Nat /\ refs[1].turn \in Nat /\ u \in Nat
          <5>1. u \in 1..(Revision + 1)
            BY <1>1, <2>4
          <5>2. references[1].turn \in Nat
            BY <1>3, <4>1
          <5>3. \A k \in 1..Len(refs) : refs[k].turn \in Nat
            BY <1>1, <1>3, <2>2, <2>6, <2>7
          <5>4. QED
            BY <1>1, <2>7, <5>1, <5>2, <5>3
        <4>4. QED
          BY <3>3, <4>1, <4>2, <4>3
      <3>4. u = Revision + 1 \/ u \in Successes
        BY <2>4
      <3>5. QED
        BY <3>1, <3>2, <3>3, <3>4 DEF ReferencesAreNewest
    <2>11. Len(refs) <= ResultLimit /\ \A k \in 1..Len(refs) :
             refs[k].turn <= Revision' - Len(refs) + k
      BY <1>1, <2>3, <2>7, <2>9
    <2>12. QED
      BY <2>8, <2>10, <2>11 DEF ReferencesAreNewest, refs
  <1>6. QED
    BY <1>4, <1>5

LEMMA WindowInvInit ==
  ASSUME Init
  PROVE  WindowInv
  <1>1. Revision = 0 /\ Successes = {} /\ WindowLimit \in Nat \ {0} /\ ResultLimit \in Nat
    BY DialogAssumption DEF Init, Revision, Turns, Successes
  <1>2. FramesFollowJournal /\ ReferencesAreNewest
    BY <1>1 DEF Init, FramesFollowJournal, ReferencesAreNewest
  <1>3. QED
    BY <1>2, DialogInvInit DEF WindowInv

LEMMA WindowInvStep == WindowInv /\ [Next]_vars => WindowInv'
  <1> SUFFICES ASSUME WindowInv, [Next]_vars
               PROVE  WindowInv'
    OBVIOUS
  <1>1. DialogInv'
    BY DialogInvStep DEF WindowInv
  <1>2. CASE Next
    <2>1. PICK row : RowFits(row) /\ Reduce(row)
      BY <1>2, StepReduces DEF WindowInv, DialogInv
    <2>2. row \in Row
      BY <2>1 DEF RowFits
    <2>3. FramesFollowJournal' /\ ReferencesAreNewest'
      BY <2>1, <2>2, FramesStep, NewestStep DEF WindowInv, DialogInv
    <2>4. QED
      BY <1>1, <2>3 DEF WindowInv
  <1>3. CASE UNCHANGED vars
    BY <1>1, <1>3 DEF WindowInv, FramesFollowJournal, ReferencesAreNewest, Successes, Turns,
                      Revision, vars
  <1>4. QED
    BY <1>2, <1>3

LEMMA WindowShowsTail ==
  ASSUME WindowInv
  PROVE  WindowIsJournalTail
  <1>1. /\ Revision \in Nat /\ WindowLimit \in Nat \ {0} /\ WindowLimit <= ResultLimit
        /\ ResultLimit \in Nat
    BY DialogAssumption DEF WindowInv, DialogInv, ScopesOK, Revision
  <1>2. FramesFollowJournal /\ ReferencesAreNewest /\ ReferencesFollowJournal
    BY DEF WindowInv, DialogInv
  <1>3. ASSUME NEW k \in 1..Len(window), window[k].result # 0
        PROVE  \E r \in 1..Len(references) : references[r].turn = window[k].result
    <2> DEFINE t == Revision - Len(window) + k
    <2>1. window[k].result = t /\ journal[t].outcome = "success"
      BY <1>2, <1>3 DEF FramesFollowJournal
    <2>2. /\ Len(window) = IF Revision < WindowLimit THEN Revision ELSE WindowLimit
          /\ t \in 1..Revision /\ t > Revision - WindowLimit
      BY <1>1, <1>2 DEF FramesFollowJournal
    <2> HIDE DEF t
    <2>3. t \in Successes
      BY <2>1, <2>2 DEF Successes, Turns
    <2>4. ~(Len(references) = ResultLimit /\ t < references[1].turn)
      <3> SUFFICES ASSUME Len(references) = ResultLimit, t < references[1].turn
                   PROVE  FALSE
        OBVIOUS
      <3>1. 1 \in 1..Len(references)
        BY <1>1
      <3>2. references[1].turn <= Revision - Len(references) + 1
        BY <1>2, <3>1 DEF ReferencesAreNewest
      <3>3. references[1].turn \in 1..Revision
        BY <1>2, <3>1 DEF ReferencesFollowJournal, Successes, Turns
      <3>4. QED
        BY <1>1, <2>2, <3>2, <3>3
    <2>5. QED
      BY <1>2, <2>1, <2>3, <2>4 DEF ReferencesAreNewest
  <1>4. DOMAIN window = 1..Len(window) /\ DOMAIN references = 1..Len(references)
    BY DEF WindowInv, DialogInv, ScopesOK, FramesFollowJournal
  <1>5. QED
    BY <1>2, <1>3, <1>4 DEF FramesFollowJournal, WindowIsJournalTail

\* The interpreter is shown the last WindowLimit turns, none missing and none doubled,
\* in a session of any length, and every result it is shown can still be referred to
\* (apply_context_transition cuts the window and the references independently).
THEOREM WindowHolds == Spec => []WindowIsJournalTail
  <1>1. WindowInv => WindowIsJournalTail
    BY WindowShowsTail
  <1>2. Spec => []WindowInv
    BY WindowInvInit, WindowInvStep, PTL DEF Spec
  <1>3. QED
    BY <1>1, <1>2, PTL
-----------------------------------------------------------------------------
(***************************************************************************)
(* The entity memory, a cut of the mentions of all successful turns by     *)
(* recency, and the types of the contract.                                 *)
(***************************************************************************)

-----------------------------------------------------------------------------
(* Mentions: pairs of an entity and the turn it was mentioned in *)

IsMentions(all) == all \in Seq(Entity \X Nat)

At(all, e) == {p \in DOMAIN all : all[p][1] = e}

LastAt(all, e) == Newest(At(all, e))

Known(all) == {all[p][1] : p \in DOMAIN all}

Since(all, e, first) == {p \in DOMAIN all : all[p][1] = e /\ all[p][2] >= first}

Kept(mem) == {mem[k].ent : k \in DOMAIN mem}

LEMMA LastAtIs ==
  ASSUME NEW all, IsMentions(all), NEW e \in Known(all)
  PROVE  /\ LastAt(all, e) \in 1..Len(all)
         /\ all[LastAt(all, e)][1] = e
         /\ \A p \in 1..Len(all) : all[p][1] = e => p <= LastAt(all, e)
  <1> DEFINE S == At(all, e)
  <1>1. Len(all) \in Nat /\ DOMAIN all = 1..Len(all)
    BY DEF IsMentions
  <1>2. S \in SUBSET (1..Len(all)) /\ S # {}
    BY <1>1 DEF At, Known
  <1> HIDE DEF S
  <1>3. Max(S) \in S /\ \A y \in S : y <= Max(S)
    BY <1>1, <1>2, MaxIsGreatest
  <1>4. S \in SUBSET Nat
    BY <1>2
  <1>5. Newest(S) = Max(S)
    BY <1>3, <1>4, NewestIs
  <1>6. LastAt(all, e) \in S /\ \A y \in S : y <= LastAt(all, e)
    BY <1>3, <1>5 DEF LastAt, S
  <1>7. QED
    BY <1>1, <1>6 DEF S, At

\* One more mention is the last of its entity and leaves the others.
Extends(more, all, e, t) ==
  LET q == Len(all) + 1
  IN /\ IsMentions(more) /\ \A p \in DOMAIN more : more[p][2] <= t
     /\ Known(more) = Known(all) \cup {e}
     /\ LastAt(more, e) = q /\ more[q] = <<e, t>>
     /\ \A f \in Known(all) :
          /\ LastAt(all, f) < q
          /\ f # e => /\ LastAt(more, f) = LastAt(all, f)
                      /\ more[LastAt(more, f)] = all[LastAt(all, f)]
     /\ \A f, first : f # e => Since(more, f, first) = Since(all, f, first)
     /\ \A first \in Nat : first <= t =>
          /\ IsFiniteSet(Since(all, e, first))
          /\ Cardinality(Since(more, e, first)) = Cardinality(Since(all, e, first)) + 1
     /\ DOMAIN more = 1..q /\ DOMAIN all = 1..Len(all) /\ Len(all) \in Nat
     /\ \A p \in DOMAIN all : more[p] = all[p]

LEMMA OneMoreMention ==
  ASSUME NEW all, IsMentions(all), NEW e \in Entity, NEW t \in Nat,
         \A p \in DOMAIN all : all[p][2] <= t
  PROVE  Extends(Append(all, <<e, t>>), all, e, t)
  <1> DEFINE more == Append(all, <<e, t>>)
             q == Len(all) + 1
  <1>1. /\ Len(all) \in Nat /\ DOMAIN all = 1..Len(all)
        /\ \A p \in 1..Len(all) : all[p] \in Entity \X Nat
    BY DEF IsMentions
  <1>2. /\ more \in Seq(Entity \X Nat) /\ Len(more) = q /\ DOMAIN more = 1..q
        /\ more[q] = <<e, t>> /\ \A p \in 1..Len(all) : more[p] = all[p]
    BY <1>1 DEF IsMentions
  <1>3. 1..q = 1..Len(all) \cup {q} /\ q \in 1..q /\ q \notin 1..Len(all)
    BY <1>1
  <1>4. more[q][1] = e /\ more[q][2] = t
    BY <1>2
  <1> HIDE DEF more, q
  <1>5. IsMentions(more)
    BY <1>2 DEF IsMentions
  <1>6. \A p \in DOMAIN more : more[p][2] <= t
    BY <1>1, <1>2, <1>3, <1>4
  <1>7. Known(more) = Known(all) \cup {e}
    <2>1. \A f : f \in Known(more) <=> \E p \in 1..q : more[p][1] = f
      BY <1>2 DEF Known
    <2>2. \A f : f \in Known(all) <=> \E p \in 1..Len(all) : all[p][1] = f
      BY <1>1 DEF Known
    <2>3. ASSUME NEW f \in Known(more)
          PROVE  f \in Known(all) \/ f = e
      <3>1. PICK p \in 1..q : more[p][1] = f
        BY <2>1
      <3>2. CASE p = q
        BY <1>4, <3>1, <3>2
      <3>3. CASE p # q
        <4>1. p \in 1..Len(all)
          BY <1>3, <3>3
        <4>2. all[p][1] = f
          BY <1>2, <3>1, <4>1
        <4>3. QED
          BY <2>2, <4>1, <4>2
      <3>4. QED
        BY <3>2, <3>3
    <2>4. ASSUME NEW f \in Known(all)
          PROVE  f \in Known(more)
      <3>1. PICK p \in 1..Len(all) : all[p][1] = f
        BY <2>2
      <3>2. p \in 1..q /\ more[p][1] = f
        BY <1>2, <1>3, <3>1
      <3>3. QED
        BY <2>1, <3>2
    <2>5. e \in Known(more)
      BY <1>3, <1>4, <2>1
    <2>6. QED
      BY <2>3, <2>4, <2>5
  <1>8. LastAt(more, e) = q
    <2>1. e \in Known(more)
      BY <1>7
    <2>2. LastAt(more, e) \in 1..q /\ q <= LastAt(more, e)
      BY <1>2, <1>3, <1>4, <1>5, <2>1, LastAtIs
    <2>3. QED
      BY <1>1, <2>2 DEF q
  <1>9. ASSUME NEW f \in Known(all)
        PROVE  /\ LastAt(all, f) < q
               /\ f # e => /\ LastAt(more, f) = LastAt(all, f)
                           /\ more[LastAt(more, f)] = all[LastAt(all, f)]
    <2>1. LastAt(all, f) \in 1..Len(all)
      BY LastAtIs
    <2>2. LastAt(all, f) < q
      BY <1>1, <2>1 DEF q
    <2>3. ASSUME f # e
          PROVE  At(more, f) = At(all, f)
      BY <1>1, <1>2, <1>3, <1>4, <2>3 DEF At
    <2>4. ASSUME f # e
          PROVE  LastAt(more, f) = LastAt(all, f)
      BY <2>3, <2>4 DEF LastAt
    <2>5. QED
      BY <1>2, <2>1, <2>2, <2>4
  <1>10. ASSUME NEW f, NEW first, f # e
         PROVE  Since(more, f, first) = Since(all, f, first)
    BY <1>1, <1>2, <1>3, <1>4, <1>10 DEF Since
  <1>11. ASSUME NEW first \in Nat, first <= t
         PROVE  /\ IsFiniteSet(Since(all, e, first))
                /\ Cardinality(Since(more, e, first)) = Cardinality(Since(all, e, first)) + 1
    <2> DEFINE S == Since(all, e, first)
    <2>1. S \in SUBSET (1..Len(all)) /\ Since(more, e, first) = S \cup {q} /\ q \notin S
      BY <1>1, <1>2, <1>3, <1>4, <1>11 DEF Since
    <2> HIDE DEF S
    <2>2. IsFiniteSet(1..Len(all))
      BY <1>1, FS_Interval
    <2>3. IsFiniteSet(S)
      BY <2>1, <2>2, FS_Subset
    <2>4. Cardinality(S \cup {q}) = Cardinality(S) + 1
      BY <2>1, <2>3, FS_AddElement
    <2>5. QED
      BY <2>1, <2>3, <2>4 DEF S
  <1>12. QED
    BY <1>1, <1>2, <1>4, <1>5, <1>6, <1>7, <1>8, <1>9, <1>10, <1>11 DEF Extends, more, q

-----------------------------------------------------------------------------
(* The invariant *)

\* Up to turn t, the memory is of the latest mentions, in their order.
ByRecency(mem, all, t) ==
  /\ mem \in Seq(EntityEntry) /\ IsMentions(all)
  /\ \A p \in DOMAIN all : all[p][2] <= t
  /\ \A k \in 1..Len(mem) :
       /\ mem[k].ent \in Known(all) /\ mem[k].first <= t
       /\ mem[k].last = all[LastAt(all, mem[k].ent)][2]
       /\ mem[k].count = Cardinality(Since(all, mem[k].ent, mem[k].first))
  /\ \A j, k \in 1..Len(mem) :
       j < k => LastAt(all, mem[j].ent) < LastAt(all, mem[k].ent)
  /\ \A e \in Known(all) \ Kept(mem), k \in 1..Len(mem) :
       LastAt(all, e) < LastAt(all, mem[k].ent)

\* Within a turn nothing is pushed out.
NothingIsLost(mem, all, t) ==
  \A p \in DOMAIN all : all[p][2] = t => all[p][1] \in Kept(mem)

\* Nothing was pushed out without need.
Full(mem, all) == Kept(mem) = Known(all) \/ Len(mem) >= EntityLimit

-----------------------------------------------------------------------------
(* One mention *)

\* The entry of e is at the end, the others, o[1], o[2] ..., come before it as
\* they were.
Moved(new, mem, e, t, o) ==
  LET n == Len(new)
  IN /\ new \in Seq(EntityEntry) /\ n >= 1 /\ n >= Len(mem)
     /\ \A k \in 1..n-1 : o[k] \in 1..Len(mem) /\ new[k] = mem[o[k]] /\ new[k].ent # e
     /\ \A j, k \in 1..n-1 : j < k => o[j] < o[k]
     /\ Kept(new) = Kept(mem) \cup {e}
     /\ new[n].ent = e /\ new[n].last = t
     /\ \/ e \notin Kept(mem) /\ new[n].first = t /\ new[n].count = 1
        \/ \E i \in 1..Len(mem) :
             mem[i].ent = e /\ new[n].first = mem[i].first /\ new[n].count = mem[i].count + 1

LEMMA MentionMoves ==
  ASSUME NEW mem, mem \in Seq(EntityEntry), NEW e \in Entity, NEW t \in Nat,
         \A j, k \in 1..Len(mem) : mem[j].ent = mem[k].ent => j = k
  PROVE  \E o : Moved(Mention(mem, e, t), mem, e, t, o)
  <1> DEFINE new == Mention(mem, e, t)
             n == Len(mem)
             at == {i \in 1..n : mem[i].ent = e}
  <1>1. /\ n \in Nat /\ DOMAIN mem = 1..n
        /\ \A k \in 1..n : mem[k] \in EntityEntry
    OBVIOUS
  <1>2. CASE at = {}
    <2> DEFINE z == [ent |-> e, first |-> t, last |-> t, count |-> 1]
               o == [k \in 1..n |-> k]
    <2>1. new = Append(mem, z)
      BY <1>2, Zenon DEF Mention
    <2>2. z \in EntityEntry
      BY DEF EntityEntry
    <2>3. /\ new \in Seq(EntityEntry) /\ Len(new) = n + 1 /\ new[n + 1] = z
          /\ \A k \in 1..n : new[k] = mem[k]
          /\ DOMAIN new = 1..n+1
      BY <2>1, <2>2
    <2>4. z.ent = e /\ z.first = t /\ z.last = t /\ z.count = 1
      OBVIOUS
    <2> HIDE DEF new, z
    <2>5. Kept(new) = Kept(mem) \cup {e} /\ e \notin Kept(mem)
      <3>1. 1..n+1 = 1..n \cup {n + 1}
        BY <1>1
      <3>2. \A k \in 1..n : new[k].ent = mem[k].ent
        BY <2>3
      <3>3. new[n + 1].ent = e
        BY <2>3, <2>4
      <3>4. e \notin Kept(mem)
        BY <1>1, <1>2 DEF Kept
      <3>5. QED
        BY <1>1, <2>3, <3>1, <3>2, <3>3, <3>4 DEF Kept
    <2>6. \A k \in 1..n : o[k] = k /\ new[k].ent # e
      BY <1>2, <2>3
    <2> HIDE DEF o
    <2>7. Moved(new, mem, e, t, o)
      BY <1>1, <2>3, <2>4, <2>5, <2>6 DEF Moved
    <2>8. QED
      BY <2>7 DEF new
  <1>3. CASE at # {}
    <2> DEFINE i == CHOOSE i \in at : TRUE
               z == [mem[i] EXCEPT !.last = t, !.count = @ + 1]
               rest == RemoveAt(mem, i)
               o == [k \in 1..n-1 |-> IF k < i THEN k ELSE k + 1]
    <2>1. new = Append(rest, z)
      BY <1>3, Zenon DEF Mention
    <2>2. i \in 1..n /\ mem[i].ent = e
      BY <1>3
    <2> HIDE DEF i
    <2>3. /\ z \in EntityEntry /\ z.ent = e /\ z.first = mem[i].first /\ z.last = t
          /\ z.count = mem[i].count + 1
      <3> DEFINE old == mem[i]
      <3>1. old \in [ent : Entity, first : Nat, last : Nat, count : Nat \ {0}] /\ old.ent = e
        BY <1>1, <2>2 DEF EntityEntry
      <3>2. z = [old EXCEPT !.last = t, !.count = old.count + 1]
        OBVIOUS
      <3> HIDE DEF old, z
      <3>3. old.count + 1 \in Nat \ {0}
        BY <3>1
      <3>4. /\ z \in EntityEntry /\ z.ent = e /\ z.first = old.first /\ z.last = t
            /\ z.count = old.count + 1
        BY <3>1, <3>2, <3>3 DEF EntityEntry
      <3>5. QED
        BY <3>4 DEF old
    <2>4. /\ rest \in Seq(EntityEntry) /\ Len(rest) = n - 1
          /\ \A k \in 1..n-1 : rest[k] = mem[o[k]]
      <3>1. \A k \in 1..n-1 : o[k] = IF k < i THEN k ELSE k + 1
        OBVIOUS
      <3> HIDE DEF o
      <3>2. /\ rest \in Seq(EntityEntry) /\ Len(rest) = n - 1
            /\ \A k \in 1..n-1 : rest[k] = IF k < i THEN mem[k] ELSE mem[k + 1]
        BY <2>2, RemovedAt
      <3>3. QED
        BY <3>1, <3>2
    <2>5. /\ \A k \in 1..n-1 : o[k] \in 1..n /\ o[k] # i
          /\ \A j, k \in 1..n-1 : j < k => o[j] < o[k]
          /\ \A j \in 1..n : j # i => \E k \in 1..n-1 : o[k] = j
      <3>1. ASSUME NEW j \in 1..n, j # i
            PROVE  \E k \in 1..n-1 : o[k] = j
        <4>1. CASE j < i
          <5>1. j \in 1..n-1 /\ o[j] = j
            BY <2>2, <4>1
          <5>2. QED
            BY <5>1
        <4>2. CASE j > i
          <5>1. j - 1 \in 1..n-1 /\ o[j - 1] = j
            BY <2>2, <4>2
          <5>2. QED
            BY <5>1
        <4>3. QED
          BY <2>2, <3>1, <4>1, <4>2
      <3>2. QED
        BY <2>2, <3>1
    <2> HIDE DEF o, z, rest, new, n
    <2>6. /\ new \in Seq(EntityEntry) /\ Len(new) = n /\ DOMAIN new = 1..n /\ new[n] = z
          /\ \A k \in 1..n-1 : new[k] = mem[o[k]]
      <3>1. Len(rest) = n - 1 /\ n - 1 \in Nat
        BY <1>1, <2>2, <2>4
      <3>2. /\ new \in Seq(EntityEntry) /\ Len(new) = (n - 1) + 1 /\ new[(n - 1) + 1] = z
            /\ \A k \in 1..n-1 : new[k] = rest[k]
        BY <2>1, <2>3, <2>4, <3>1
      <3>3. (n - 1) + 1 = n
        BY <1>1
      <3>4. QED
        BY <2>4, <3>2, <3>3
    <2>7. \A k \in 1..n-1 : new[k].ent # e
      <3> SUFFICES ASSUME NEW k \in 1..n-1, new[k].ent = e
                   PROVE  FALSE
        BY Zenon
      <3>1. mem[o[k]].ent = mem[i].ent /\ o[k] \in 1..n /\ o[k] # i
        BY <2>2, <2>5, <2>6
      <3>2. QED
        BY <2>2, <3>1 DEF n
    <2>8. Kept(new) = Kept(mem) \cup {e}
      <3>1. ASSUME NEW k \in 1..n
            PROVE  new[k].ent \in Kept(mem) \cup {e}
        <4>1. CASE k = n
          BY <2>3, <2>6, <4>1
        <4>2. CASE k # n
          <5>1. k \in 1..n-1
            BY <1>1, <4>2
          <5>2. new[k] = mem[o[k]] /\ o[k] \in DOMAIN mem
            BY <1>1, <2>5, <2>6, <5>1
          <5>3. QED
            BY <5>2 DEF Kept
        <4>3. QED
          BY <4>1, <4>2
      <3>2. ASSUME NEW j \in 1..n
            PROVE  mem[j].ent \in Kept(new)
        <4>1. CASE j = i
          <5>1. n \in DOMAIN new /\ new[n].ent = mem[j].ent
            BY <2>2, <2>3, <2>6, <4>1
          <5>2. QED
            BY <5>1 DEF Kept
        <4>2. CASE j # i
          <5>1. PICK k \in 1..n-1 : o[k] = j
            BY <2>5, <4>2
          <5>2. k \in DOMAIN new /\ new[k].ent = mem[j].ent
            BY <2>2, <2>6, <5>1
          <5>3. QED
            BY <5>2 DEF Kept
        <4>3. QED
          BY <4>1, <4>2
      <3>3. e \in Kept(new)
        BY <2>2, <3>2
      <3>4. \A x \in Kept(new) : x \in Kept(mem) \cup {e}
        BY <2>6, <3>1 DEF Kept
      <3>5. \A x \in Kept(mem) : x \in Kept(new)
        BY <1>1, <3>2 DEF Kept
      <3>6. QED
        BY <3>3, <3>4, <3>5
    <2>9. Moved(new, mem, e, t, o)
      BY <1>1, <2>2, <2>3, <2>5, <2>6, <2>7, <2>8 DEF Moved, n
    <2>10. QED
      BY <2>9 DEF new
  <1>4. QED
    BY <1>2, <1>3

LEMMA EntitiesAreDistinct ==
  ASSUME NEW mem, NEW all, NEW t, ByRecency(mem, all, t)
  PROVE  \A j, k \in 1..Len(mem) : mem[j].ent = mem[k].ent => j = k
  <1>1. /\ Len(mem) \in Nat
        /\ \A j, k \in 1..Len(mem) :
             j < k => LastAt(all, mem[j].ent) < LastAt(all, mem[k].ent)
        /\ \A k \in 1..Len(mem) : mem[k].ent \in Known(all)
        /\ IsMentions(all)
    BY DEF ByRecency
  <1>2. \A k \in 1..Len(mem) : LastAt(all, mem[k].ent) \in Int
    BY <1>1, LastAtIs
  <1>3. SUFFICES ASSUME NEW j \in 1..Len(mem), NEW k \in 1..Len(mem), mem[j].ent = mem[k].ent
                 PROVE  j = k
    OBVIOUS
  <1>4. LastAt(all, mem[j].ent) = LastAt(all, mem[k].ent)
    BY <1>3
  <1>5. ~(j < k) /\ ~(k < j)
    BY <1>1, <1>2, <1>4
  <1>6. QED
    BY <1>5

LEMMA MentionStep ==
  ASSUME NEW t \in Nat, NEW mem, NEW all, ByRecency(mem, all, t),
         NothingIsLost(mem, all, t), Full(mem, all), NEW e \in Entity
  PROVE  LET new == Mention(mem, e, t)
             more == Append(all, <<e, t>>)
         IN ByRecency(new, more, t) /\ NothingIsLost(new, more, t) /\ Full(new, more)
  <1> DEFINE new == Mention(mem, e, t)
             more == Append(all, <<e, t>>)
             m == Len(new)
             q == Len(all) + 1
  <1>1. /\ mem \in Seq(EntityEntry) /\ Len(mem) \in Nat /\ DOMAIN mem = 1..Len(mem)
        /\ IsMentions(all)
        /\ \A p \in DOMAIN all : all[p][2] <= t
        /\ \A k \in 1..Len(mem) :
             /\ mem[k] \in EntityEntry
             /\ mem[k].ent \in Known(all) /\ mem[k].first <= t
             /\ mem[k].last = all[LastAt(all, mem[k].ent)][2]
             /\ mem[k].count = Cardinality(Since(all, mem[k].ent, mem[k].first))
        /\ \A j, k \in 1..Len(mem) :
             j < k => LastAt(all, mem[j].ent) < LastAt(all, mem[k].ent)
        /\ \A f \in Known(all) \ Kept(mem), k \in 1..Len(mem) :
             LastAt(all, f) < LastAt(all, mem[k].ent)
    BY DEF ByRecency
  <1>2. PICK o : Moved(new, mem, e, t, o)
    BY <1>1, EntitiesAreDistinct, MentionMoves
  <1>3. /\ IsMentions(more) /\ \A p \in DOMAIN more : more[p][2] <= t
        /\ Known(more) = Known(all) \cup {e}
        /\ LastAt(more, e) = q /\ more[q] = <<e, t>>
        /\ \A f \in Known(all) :
             /\ LastAt(all, f) < q
             /\ f # e => /\ LastAt(more, f) = LastAt(all, f)
                         /\ more[LastAt(more, f)] = all[LastAt(all, f)]
        /\ \A f, first : f # e => Since(more, f, first) = Since(all, f, first)
        /\ \A first \in Nat : first <= t =>
             /\ IsFiniteSet(Since(all, e, first))
             /\ Cardinality(Since(more, e, first)) = Cardinality(Since(all, e, first)) + 1
        /\ DOMAIN more = 1..q /\ DOMAIN all = 1..Len(all) /\ Len(all) \in Nat
        /\ \A p \in DOMAIN all : more[p] = all[p]
    <2>1. Extends(more, all, e, t)
      BY <1>1, OneMoreMention
    <2> HIDE DEF more
    <2>2. QED
      BY <2>1 DEF Extends, q
  <1> HIDE DEF new, more, q
  <1>4. /\ new \in Seq(EntityEntry) /\ m \in Nat /\ m >= 1 /\ m >= Len(mem)
        /\ DOMAIN new = 1..m
        /\ \A k \in 1..m-1 : o[k] \in 1..Len(mem) /\ new[k] = mem[o[k]] /\ new[k].ent # e
        /\ \A j, k \in 1..m-1 : j < k => o[j] < o[k]
        /\ Kept(new) = Kept(mem) \cup {e}
        /\ new[m].ent = e /\ new[m].last = t
        /\ \/ e \notin Kept(mem) /\ new[m].first = t /\ new[m].count = 1
           \/ \E i \in 1..Len(mem) :
                mem[i].ent = e /\ new[m].first = mem[i].first /\ new[m].count = mem[i].count + 1
    BY <1>2 DEF Moved
  <1> HIDE DEF m
  <1>5. \A k \in 1..m : k \in 1..m-1 \/ k = m
    BY <1>4
  <1>6. ASSUME NEW k \in 1..m-1
        PROVE  /\ new[k].ent \in Known(all) /\ new[k].ent # e /\ new[k].first <= t
               /\ LastAt(more, new[k].ent) = LastAt(all, mem[o[k]].ent)
               /\ LastAt(more, new[k].ent) < q
               /\ new[k].last = more[LastAt(more, new[k].ent)][2]
               /\ new[k].count = Cardinality(Since(more, new[k].ent, new[k].first))
    <2>1. o[k] \in 1..Len(mem) /\ new[k] = mem[o[k]] /\ new[k].ent # e
      BY <1>4
    <2> DEFINE x == mem[o[k]]
    <2>2. /\ x.ent \in Known(all) /\ x.first <= t
          /\ x.last = all[LastAt(all, x.ent)][2]
          /\ x.count = Cardinality(Since(all, x.ent, x.first))
      BY <1>1, <2>1
    <2>3. new[k] = x /\ x.ent # e
      BY <2>1
    <2> HIDE DEF x
    <2>4. /\ LastAt(more, x.ent) = LastAt(all, x.ent) /\ LastAt(all, x.ent) < q
          /\ more[LastAt(more, x.ent)] = all[LastAt(all, x.ent)]
          /\ Since(more, x.ent, x.first) = Since(all, x.ent, x.first)
      BY <1>3, <2>2, <2>3
    <2>5. QED
      BY <2>2, <2>3, <2>4 DEF x
  <1>7. /\ new[m].first \in Nat /\ new[m].first <= t
        /\ new[m].count = Cardinality(Since(more, e, new[m].first))
    <2>1. CASE e \notin Kept(mem) /\ new[m].first = t /\ new[m].count = 1
      <3>1. Since(all, e, t) = {}
        <4> SUFFICES ASSUME NEW p \in DOMAIN all, all[p][1] = e, all[p][2] >= t
                     PROVE  FALSE
          BY DEF Since
        <4>1. all[p] \in Entity \X Nat
          BY <1>1 DEF IsMentions
        <4>2. all[p][2] \in Nat /\ all[p][2] <= t
          BY <1>1, <4>1
        <4>3. all[p][2] = t
          BY <4>2
        <4>4. QED
          BY <2>1, <4>3 DEF NothingIsLost
      <3>2. Cardinality(Since(all, e, t)) = 0
        BY <3>1, FS_EmptySet
      <3>3. t <= t
        OBVIOUS
      <3>4. Cardinality(Since(more, e, t)) = 1
        BY <1>3, <3>2, <3>3
      <3>5. QED
        BY <2>1, <3>4
    <2>2. ASSUME NEW i \in 1..Len(mem), mem[i].ent = e, new[m].first = mem[i].first,
                 new[m].count = mem[i].count + 1
          PROVE  /\ new[m].first \in Nat /\ new[m].first <= t
                 /\ new[m].count = Cardinality(Since(more, e, new[m].first))
      <3>1. /\ mem[i].first \in Nat /\ mem[i].first <= t
            /\ mem[i].count = Cardinality(Since(all, e, mem[i].first))
        BY <1>1, <2>2 DEF EntityEntry
      <3>2. Cardinality(Since(more, e, mem[i].first)) = Cardinality(Since(all, e, mem[i].first)) + 1
        BY <1>3, <3>1
      <3>3. QED
        BY <2>2, <3>1, <3>2
    <2>3. QED
      BY <1>4, <2>1, <2>2
  <1>8. new[m].last = more[LastAt(more, new[m].ent)][2] /\ LastAt(more, new[m].ent) = q
    BY <1>3, <1>4
  <1>9. ASSUME NEW k \in 1..m
        PROVE  /\ new[k].ent \in Known(more) /\ new[k].first <= t
               /\ new[k].last = more[LastAt(more, new[k].ent)][2]
               /\ new[k].count = Cardinality(Since(more, new[k].ent, new[k].first))
    <2>1. CASE k \in 1..m-1
      BY <1>3, <1>6, <2>1
    <2>2. CASE k = m
      BY <1>3, <1>4, <1>7, <1>8, <2>2
    <2>3. QED
      BY <1>5, <2>1, <2>2
  <1>10. ASSUME NEW j \in 1..m, NEW k \in 1..m, j < k
         PROVE  LastAt(more, new[j].ent) < LastAt(more, new[k].ent)
    <2>1. j \in 1..m-1
      BY <1>4, <1>10
    <2>2. CASE k = m
      BY <1>6, <1>8, <2>1, <2>2
    <2>3. CASE k \in 1..m-1
      <3>1. o[j] < o[k] /\ o[j] \in 1..Len(mem) /\ o[k] \in 1..Len(mem)
        BY <1>4, <1>10, <2>1, <2>3
      <3>2. LastAt(all, mem[o[j]].ent) < LastAt(all, mem[o[k]].ent)
        BY <1>1, <3>1
      <3>3. QED
        BY <1>6, <2>1, <2>3, <3>2
    <2>4. QED
      BY <1>5, <2>2, <2>3
  <1>11. ASSUME NEW f \in Known(more) \ Kept(new), NEW k \in 1..m
         PROVE  LastAt(more, f) < LastAt(more, new[k].ent)
    <2>1. f # e /\ f \in Known(all) \ Kept(mem)
      BY <1>3, <1>4
    <2>2. LastAt(more, f) = LastAt(all, f) /\ LastAt(all, f) < q
      BY <1>3, <2>1
    <2>3. CASE k = m
      BY <1>8, <2>2, <2>3
    <2>4. CASE k \in 1..m-1
      <3>1. o[k] \in 1..Len(mem)
        BY <1>4, <2>4
      <3>2. LastAt(all, f) < LastAt(all, mem[o[k]].ent)
        BY <1>1, <2>1, <3>1
      <3>3. QED
        BY <1>6, <2>2, <2>4, <3>2
    <2>5. QED
      BY <1>5, <2>3, <2>4
  <1>12. ByRecency(new, more, t)
    BY <1>3, <1>4, <1>9, <1>10, <1>11 DEF ByRecency, m
  <1>13. NothingIsLost(new, more, t)
    <2> SUFFICES ASSUME NEW p \in DOMAIN more, more[p][2] = t
                 PROVE  more[p][1] \in Kept(new)
      BY DEF NothingIsLost
    <2>1. CASE p = q
      BY <1>3, <1>4, <2>1
    <2>2. CASE p # q
      <3>1. p \in DOMAIN all
        BY <1>3, <2>2 DEF q
      <3>2. QED
        BY <1>3, <1>4, <3>1 DEF NothingIsLost
    <2>3. QED
      BY <2>1, <2>2
  <1>14. Full(new, more)
    <2>1. EntityLimit \in Nat
      BY DialogAssumption
    <2>2. QED
      BY <1>1, <1>3, <1>4, <2>1 DEF Full, m
  <1>15. QED
    BY <1>12, <1>13, <1>14 DEF new, more

-----------------------------------------------------------------------------
(* The mentions of one turn *)

LEMMA MentionType ==
  ASSUME NEW mem \in Seq(EntityEntry), NEW e \in Entity, NEW t \in Nat
  PROVE  Mention(mem, e, t) \in Seq(EntityEntry)
  <1> DEFINE at == {i \in 1..Len(mem) : mem[i].ent = e}
  <1>1. CASE at = {}
    <2> DEFINE z == [ent |-> e, first |-> t, last |-> t, count |-> 1]
    <2>1. z \in EntityEntry
      BY DEF EntityEntry
    <2>2. Mention(mem, e, t) = Append(mem, z)
      BY <1>1, Zenon DEF Mention
    <2> HIDE DEF z
    <2>3. QED
      BY <2>1, <2>2
  <1>2. CASE at # {}
    <2> DEFINE i == CHOOSE i \in at : TRUE
               old == mem[i]
               z == [old EXCEPT !.last = t, !.count = @ + 1]
    <2>1. Mention(mem, e, t) = Append(RemoveAt(mem, i), z)
      BY <1>2, Zenon DEF Mention
    <2>2. i \in 1..Len(mem)
      BY <1>2
    <2> HIDE DEF i
    <2>3. RemoveAt(mem, i) \in Seq(EntityEntry)
      BY <2>2, RemovedAt
    <2>4. old \in [ent : Entity, first : Nat, last : Nat, count : Nat \ {0}]
      <3>1. mem[i] \in EntityEntry
        BY <2>2
      <3>2. QED
        BY <3>1 DEF EntityEntry
    <2>5. z = [old EXCEPT !.last = t, !.count = old.count + 1]
      OBVIOUS
    <2> HIDE DEF old, z
    <2>6. old.count + 1 \in Nat \ {0}
      BY <2>4
    <2>7. z \in EntityEntry
      BY <2>4, <2>5, <2>6 DEF EntityEntry
    <2>8. QED
      BY <2>1, <2>3, <2>7
  <1>3. QED
    BY <1>1, <1>2

\* p[k] is the memory after the first k mentions of ms.
Remembers(p, mem, ms, t) ==
  /\ p[0] = mem
  /\ \A k \in 1..Len(ms) : p[k] = Mention(p[k-1], ms[k], t)

LEMMA EntityMemorySteps ==
  ASSUME entities \in Seq(EntityEntry), NEW i \in Intent, NEW t \in Nat
  PROVE  \E p : /\ Remembers(p, entities, Mentions[i], t)
                /\ EntityMemory(i, t) = LastN(p[Len(Mentions[i])], EntityLimit)
  <1> DEFINE ms == Mentions[i]
             n == Len(ms)
             T == Seq(EntityEntry)
             step == [x \in (1..n) \X T |-> Mention(x[2], ms[x[1]], t)]
             total == FoldLeft(LAMBDA memory, e : Mention(memory, e, t), entities, ms)
             iter[s \in SUBSET (DOMAIN ms)] ==
               IF s = {} THEN entities
               ELSE Mention(iter[s \ {Max(s)}], ms[Max(s)], t)
  <1>1. n \in Nat /\ DOMAIN ms = 1..n /\ \A k \in 1..n : ms[k] \in Entity
    BY DialogAssumption
  <1>2. StepsWithin(n, T, step)
    BY <1>1, MentionType DEF StepsWithin
  <1>3. \A k \in 1..n, x \in T : step[<<k, x>>] = Mention(x, ms[k], t)
    OBVIOUS
  <1> HIDE DEF step
  <1>4. PICK h \in [SUBSET (1..n) -> T] : IsLeftFold(h, n, entities, step)
    BY <1>1, <1>2, LeftFoldExists
  <1>5. ASSUME NEW s \in SUBSET (1..n)
        PROVE  h[s] = IF s = {} THEN entities ELSE Mention(h[s \ {Max(s)}], ms[Max(s)], t)
    <2>1. CASE s = {}
      BY <1>4, <2>1 DEF IsLeftFold
    <2>2. CASE s # {}
      <3>1. Max(s) \in 1..n
        BY <1>1, <2>2, MaxIsGreatest
      <3>2. s \ {Max(s)} \in SUBSET (1..n)
        OBVIOUS
      <3>3. h[s \ {Max(s)}] \in T
        BY <1>4, <3>2
      <3>4. h = [u \in SUBSET (1..n) |->
                   IF u = {} THEN entities ELSE step[<<Max(u), h[u \ {Max(u)}]>>]]
        BY <1>4 DEF IsLeftFold
      <3>5. h[s] = step[<<Max(s), h[s \ {Max(s)}]>>]
        BY <2>2, <3>4, Zenon
      <3>6. QED
        BY <1>3, <2>2, <3>1, <3>3, <3>5
    <2>3. QED
      BY <2>1, <2>2
  <1>6. h = [s \in SUBSET (1..n) |->
               IF s = {} THEN entities ELSE Mention(h[s \ {Max(s)}], ms[Max(s)], t)]
    <2>1. h = [s \in SUBSET (1..n) |-> h[s]]
      BY <1>4
    <2>2. QED
      BY <1>5, <2>1, Zenon
  <1> HIDE DEF n, ms
  <1>7. iter = [s \in SUBSET (DOMAIN ms) |->
                  IF s = {} THEN entities ELSE Mention(iter[s \ {Max(s)}], ms[Max(s)], t)]
    <2>1. \E f : f = [s \in SUBSET (DOMAIN ms) |->
                  IF s = {} THEN entities ELSE Mention(f[s \ {Max(s)}], ms[Max(s)], t)]
      BY <1>1, <1>6, Zenon
    <2>2. QED
      BY <2>1, Zenon
  <1>8. total = iter[DOMAIN ms]
    BY Zenon DEF FoldLeft, MapThenFoldSet
  <1> DEFINE p == [k \in 0..n |-> iter[1..k]]
  <1>9. total = p[n]
    <2>1. p[n] = iter[1..n]
      BY <1>1
    <2>2. QED
      BY <1>1, <1>8, <2>1
  <1>10. \A s \in SUBSET (1..n) :
           iter[s] = IF s = {} THEN entities ELSE Mention(iter[s \ {Max(s)}], ms[Max(s)], t)
    BY <1>1, <1>7, Zenon
  <1> HIDE DEF iter, total
  <1>11. p[0] = entities
    <2>1. 1..0 = {} /\ 0 \in 0..n /\ {} \in SUBSET (1..n)
      BY <1>1
    <2>2. iter[{}] = entities
      BY <1>10, <2>1
    <2>3. p[0] = iter[1..0]
      BY <2>1
    <2>4. QED
      BY <2>1, <2>2, <2>3
  <1>12. ASSUME NEW k \in 1..n
         PROVE  p[k] = Mention(p[k-1], ms[k], t)
    <2>0. n \in Nat /\ k \in Nat /\ 1 <= k /\ k <= n /\ k \in 1..k
      BY <1>1
    <2>1. 1..k \in SUBSET (1..n) /\ 1..k # {} /\ k - 1 \in 0..n /\ k \in 0..n /\ k \in Nat
      <3>1. 1..k \in SUBSET (1..n)
        <4>1. \A j \in 1..k : j \in 1..n
          BY <2>0
        <4>2. QED
          BY <4>1
      <3>2. 1..k # {}
        BY <2>0
      <3>3. k - 1 \in 0..n /\ k \in 0..n
        BY <2>0
      <3>4. QED
        BY <2>0, <3>1, <3>2, <3>3
    <2>2. Max(1..k) = k
      <3>1. Max(1..k) \in 1..k /\ \A y \in 1..k : y <= Max(1..k)
        BY <2>1, MaxIsGreatest
      <3>2. QED
        BY <2>1, <3>1
    <2>3. (1..k) \ {k} = 1..k-1
      BY <2>1
    <2>4. iter[1..k] = Mention(iter[1..k-1], ms[k], t)
      BY <1>10, <2>1, <2>2, <2>3
    <2>5. p[k] = iter[1..k] /\ p[k-1] = iter[1..k-1]
      BY <2>1
    <2>6. QED
      BY <2>4, <2>5
  <1> HIDE DEF p
  <1>13. Remembers(p, entities, ms, t)
    BY <1>11, <1>12 DEF Remembers, n
  <1>14. EntityMemory(i, t) = LastN(p[n], EntityLimit)
    BY <1>9, Zenon DEF EntityMemory, total, ms
  <1>15. QED
    BY <1>13, <1>14, Zenon DEF n, ms

LEMMA NextTurn ==
  ASSUME NEW r \in Nat, NEW mem, NEW all, ByRecency(mem, all, r)
  PROVE  ByRecency(mem, all, r + 1) /\ NothingIsLost(mem, all, r + 1)
  <1>1. /\ mem \in Seq(EntityEntry) /\ IsMentions(all)
        /\ \A p \in DOMAIN all : all[p][2] <= r
        /\ \A k \in 1..Len(mem) : mem[k].first <= r
    BY DEF ByRecency
  <1>2. \A p \in DOMAIN all : all[p][2] \in Nat
    BY <1>1 DEF IsMentions
  <1>3. \A p \in DOMAIN all : all[p][2] <= r + 1 /\ all[p][2] # r + 1
    BY <1>1, <1>2
  <1>4. \A k \in 1..Len(mem) : mem[k].first <= r + 1
    <2> SUFFICES ASSUME NEW k \in 1..Len(mem)
                 PROVE  mem[k].first <= r + 1
      OBVIOUS
    <2>1. mem[k] \in EntityEntry
      BY <1>1
    <2>2. mem[k].first \in Nat
      BY <2>1 DEF EntityEntry
    <2>3. QED
      BY <1>1, <2>2
  <1>5. NothingIsLost(mem, all, r + 1)
    BY <1>3 DEF NothingIsLost
  <1>6. QED
    BY <1>3, <1>4, <1>5 DEF ByRecency

\* The mentions ms of turn t.
Said(ms, t) == [j \in DOMAIN ms |-> <<ms[j], t>>]

LEMMA TurnOfMentions ==
  ASSUME NEW r \in Nat, NEW mem, NEW all, ByRecency(mem, all, r), Full(mem, all),
         NEW ms \in Seq(Entity), NEW p, Remembers(p, mem, ms, r + 1)
  PROVE  LET more == all \o Said(ms, r + 1)
         IN ByRecency(p[Len(ms)], more, r + 1) /\ Full(p[Len(ms)], more)
  <1> DEFINE t == r + 1
             n == Len(ms)
             said(k) == [j \in 1..k |-> <<ms[j], t>>]
             more(k) == all \o said(k)
             Holds(k) == /\ ByRecency(p[k], more(k), t)
                         /\ NothingIsLost(p[k], more(k), t)
                         /\ Full(p[k], more(k))
             S == {k \in Nat : k <= n => Holds(k)}
  <1>1. n \in Nat /\ DOMAIN ms = 1..n /\ \A k \in 1..n : ms[k] \in Entity
    OBVIOUS
  <1>2. t \in Nat
    OBVIOUS
  <1>3. all \in Seq(Entity \X Nat)
    BY DEF ByRecency, IsMentions
  <1>4. /\ p[0] = mem
        /\ \A k \in 1..n : p[k] = Mention(p[k-1], ms[k], t)
    BY DEF Remembers
  <1>5. Holds(0)
    <2>1. said(0) = <<>>
      OBVIOUS
    <2>2. more(0) = all
      BY <1>3, <2>1, ConcatEmptySeq
    <2>3. QED
      BY <1>4, <2>2, NextTurn
  <1>6. ASSUME NEW k \in Nat, k + 1 <= n
        PROVE  more(k + 1) = Append(more(k), <<ms[k + 1], t>>)
    <2> DEFINE x == <<ms[k + 1], t>>
               a == said(k)
               b == said(k + 1)
    <2>1. k + 1 \in 1..n /\ \A j \in 1..k+1 : j \in 1..n
      BY <1>1, <1>6
    <2>2. x \in Entity \X Nat
      BY <1>1, <1>2, <2>1
    <2>3. a \in Seq(Entity \X Nat) /\ Len(a) = k
      BY <1>1, <1>2, <2>1
    <2>4. b \in Seq(Entity \X Nat) /\ Len(b) = k + 1
      BY <1>1, <1>2, <2>1
    <2>5. b[k + 1] = x /\ \A j \in 1..k : b[j] = a[j]
      OBVIOUS
    <2> HIDE DEF a, b, x
    <2>6. b = Append(a, x)
      BY <2>2, <2>3, <2>4, <2>5
    <2>7. all \o Append(a, x) = Append(all \o a, x)
      BY <1>3, <2>2, <2>3
    <2>8. QED
      BY <2>6, <2>7 DEF a, b, x
  <1> HIDE DEF more, said, t
  <1>7. ASSUME NEW k \in Nat, k + 1 <= n, Holds(k)
        PROVE  Holds(k + 1)
    <2>1. k + 1 \in 1..n /\ (k + 1) - 1 = k
      BY <1>1, <1>7
    <2>2. p[k + 1] = Mention(p[k], ms[k + 1], t) /\ ms[k + 1] \in Entity
      BY <1>1, <1>4, <2>1
    <2>3. /\ ByRecency(p[k], more(k), t) /\ NothingIsLost(p[k], more(k), t)
          /\ Full(p[k], more(k))
      BY <1>7
    <2> DEFINE mk == p[k]
               ak == more(k)
               e == ms[k + 1]
    <2>4. LET new == Mention(mk, e, t)
              one == Append(ak, <<e, t>>)
          IN ByRecency(new, one, t) /\ NothingIsLost(new, one, t) /\ Full(new, one)
      <3>1. e \in Entity /\ ByRecency(mk, ak, t) /\ NothingIsLost(mk, ak, t) /\ Full(mk, ak)
        BY <2>2, <2>3
      <3> HIDE DEF mk, ak, e
      <3>2. QED
        BY <1>2, <3>1, MentionStep
    <2>5. more(k + 1) = Append(ak, <<e, t>>) /\ p[k + 1] = Mention(mk, e, t)
      BY <1>6, <1>7, <2>2
    <2>6. QED
      BY <2>4, <2>5
  <1> HIDE DEF Holds
  <1>8. 0 \in S /\ \A k \in Nat : k \in S => k + 1 \in S
    <2>1. 0 \in S
      BY <1>5
    <2>2. ASSUME NEW k \in Nat, k \in S, k + 1 <= n
          PROVE  Holds(k + 1)
      <3>1. k <= n
        BY <1>1, <2>2
      <3>2. QED
        BY <1>7, <2>2, <3>1
    <2>3. QED
      BY <2>1, <2>2
  <1> HIDE DEF S
  <1>9. n \in S
    BY <1>1, <1>8, Induction
  <1>10. Holds(n)
    BY <1>1, <1>9 DEF S
  <1>11. more(n) = all \o Said(ms, t)
    BY <1>1 DEF more, said, Said
  <1>12. QED
    BY <1>10, <1>11 DEF Holds, t, n

-----------------------------------------------------------------------------
(* The cut *)

LEMMA CutKeepsTheLatest ==
  ASSUME NEW t \in Nat, NEW mem, NEW all, ByRecency(mem, all, t), Full(mem, all)
  PROVE  LET cut == LastN(mem, EntityLimit)
         IN ByRecency(cut, all, t) /\ Full(cut, all) /\ Len(cut) <= EntityLimit
  <1> DEFINE cut == LastN(mem, EntityLimit)
             m == Len(cut)
             d == Len(mem) - m
  <1>1. EntityLimit \in Nat \ {0}
    BY DialogAssumption
  <1>2. /\ mem \in Seq(EntityEntry) /\ Len(mem) \in Nat /\ DOMAIN mem = 1..Len(mem)
        /\ IsMentions(all)
        /\ \A p \in DOMAIN all : all[p][2] <= t
        /\ \A k \in 1..Len(mem) :
             /\ mem[k].ent \in Known(all) /\ mem[k].first <= t
             /\ mem[k].last = all[LastAt(all, mem[k].ent)][2]
             /\ mem[k].count = Cardinality(Since(all, mem[k].ent, mem[k].first))
        /\ \A j, k \in 1..Len(mem) :
             j < k => LastAt(all, mem[j].ent) < LastAt(all, mem[k].ent)
        /\ \A f \in Known(all) \ Kept(mem), k \in 1..Len(mem) :
             LastAt(all, f) < LastAt(all, mem[k].ent)
    BY DEF ByRecency
  <1>3. /\ cut \in Seq(EntityEntry)
        /\ m = IF Len(mem) > EntityLimit THEN EntityLimit ELSE Len(mem)
        /\ \A k \in 1..m : cut[k] = mem[d + k]
    BY <1>1, <1>2, LastNKeeps
  <1> HIDE DEF cut
  <1>4. m \in Nat /\ DOMAIN cut = 1..m
    BY <1>3
  <1> HIDE DEF m
  <1>5. Len(mem) \in Nat /\ m = IF Len(mem) > EntityLimit THEN EntityLimit ELSE Len(mem)
    BY <1>2, <1>3
  <1>6. m <= EntityLimit /\ m <= Len(mem)
    BY <1>1, <1>5
  <1>7. d \in Nat /\ \A k \in 1..m : d + k \in 1..Len(mem)
    BY <1>4, <1>5, <1>6
  <1> HIDE DEF d
  <1>8. ASSUME NEW f \in Known(all) \ Kept(cut), NEW k \in 1..m
        PROVE  LastAt(all, f) < LastAt(all, cut[k].ent)
    <2>1. cut[k] = mem[d + k] /\ d + k \in 1..Len(mem)
      BY <1>3, <1>7
    <2>2. CASE f \notin Kept(mem)
      BY <1>2, <2>1, <2>2
    <2>3. CASE f \in Kept(mem)
      <3>1. PICK j \in 1..Len(mem) : mem[j].ent = f
        BY <1>2, <2>3 DEF Kept
      <3>2. j <= d
        <4> SUFFICES ASSUME j > d
                     PROVE  FALSE
          BY <1>7
        <4>1. j - d \in 1..m /\ d + (j - d) = j
          BY <1>2, <1>4, <1>7 DEF d
        <4>2. cut[j - d].ent = f /\ j - d \in DOMAIN cut
          BY <1>3, <1>4, <3>1, <4>1
        <4>3. QED
          BY <1>8, <4>2 DEF Kept
      <3>3. j < d + k
        BY <1>7, <3>2
      <3>4. QED
        BY <1>2, <2>1, <3>1, <3>3
    <2>4. QED
      BY <2>2, <2>3
  <1>9. ByRecency(cut, all, t)
    <2>1. \A k \in 1..m :
             /\ cut[k].ent \in Known(all) /\ cut[k].first <= t
             /\ cut[k].last = all[LastAt(all, cut[k].ent)][2]
             /\ cut[k].count = Cardinality(Since(all, cut[k].ent, cut[k].first))
      BY <1>2, <1>3, <1>7
    <2>2. ASSUME NEW j \in 1..m, NEW k \in 1..m, j < k
          PROVE  LastAt(all, cut[j].ent) < LastAt(all, cut[k].ent)
      <3>1. d + j < d + k /\ d + j \in 1..Len(mem) /\ d + k \in 1..Len(mem)
        BY <1>7, <2>2
      <3>2. QED
        BY <1>2, <1>3, <3>1
    <2>3. QED
      BY <1>2, <1>3, <1>8, <2>1, <2>2 DEF ByRecency, m
  <1>10. Full(cut, all)
    <2>1. CASE Len(mem) > EntityLimit
      BY <1>1, <1>3, <2>1 DEF Full, m
    <2>2. CASE ~(Len(mem) > EntityLimit)
      <3>1. m = Len(mem) /\ d = 0
        BY <1>2, <1>3, <2>2 DEF d
      <3>2. \A k \in 1..m : cut[k] = mem[k]
        BY <1>3, <3>1
      <3>3. Kept(cut) = Kept(mem)
        BY <1>2, <1>4, <3>1, <3>2 DEF Kept
      <3>4. QED
        BY <3>1, <3>3 DEF Full, m
    <2>3. QED
      BY <2>1, <2>2
  <1>11. QED
    BY <1>9, <1>10, <1>6 DEF cut, m

-----------------------------------------------------------------------------
(* The mentions of all turns *)

MentionsByTurn ==
  [t \in Turns |-> IF t \in Successes THEN Said(Mentions[journal[t].intent], t) ELSE <<>>]

LEMMA AllMentionsFlattened == AllMentions = FlattenSeq(MentionsByTurn)
  BY Zenon DEF AllMentions, MentionsByTurn, Said

LEMMA SaidType ==
  ASSUME NEW i \in Intent, NEW t \in Nat
  PROVE  Said(Mentions[i], t) \in Seq(Entity \X Nat)
  <1>1. Mentions[i] \in Seq(Entity)
    BY DialogAssumption
  <1>2. QED
    BY <1>1 DEF Said

LEMMA MentionsByTurnType ==
  ASSUME ScopesOK
  PROVE  /\ MentionsByTurn \in Seq(Seq(Entity \X Nat))
         /\ Len(MentionsByTurn) = Revision
         /\ \A t \in Turns : MentionsByTurn[t] =
              IF t \in Successes THEN Said(Mentions[journal[t].intent], t) ELSE <<>>
  <1>1. Revision \in Nat /\ Turns = 1..Revision /\ journal \in Seq(Row)
    BY DEF ScopesOK, Revision, Turns
  <1>2. \A t \in Turns : journal[t].intent \in Intent
    <2> SUFFICES ASSUME NEW t \in Turns
                 PROVE  journal[t].intent \in Intent
      OBVIOUS
    <2>1. journal[t] \in Row
      BY <1>1 DEF Revision
    <2>2. QED
      BY <2>1 DEF Row
  <1>3. \A t \in Turns : MentionsByTurn[t] =
          IF t \in Successes THEN Said(Mentions[journal[t].intent], t) ELSE <<>>
    BY DEF MentionsByTurn
  <1>4. \A t \in Turns : MentionsByTurn[t] \in Seq(Entity \X Nat)
    <2> SUFFICES ASSUME NEW t \in Turns
                 PROVE  MentionsByTurn[t] \in Seq(Entity \X Nat)
      OBVIOUS
    <2>1. t \in Nat
      BY <1>1
    <2>2. Said(Mentions[journal[t].intent], t) \in Seq(Entity \X Nat)
      BY <1>2, <2>1, SaidType
    <2>3. <<>> \in Seq(Entity \X Nat)
      OBVIOUS
    <2>4. CASE t \in Successes
      BY <1>3, <2>2, <2>4
    <2>5. CASE t \notin Successes
      BY <1>3, <2>3, <2>5
    <2>6. QED
      BY <2>4, <2>5
  <1> DEFINE T == Seq(Entity \X Nat)
             f == MentionsByTurn
  <1>5. f = [t \in 1..Revision |-> f[t]] /\ \A t \in 1..Revision : f[t] \in T
    BY <1>1, <1>4 DEF MentionsByTurn
  <1> HIDE DEF T, f
  <1>6. f \in Seq(T) /\ Len(f) = Revision
    BY <1>1, <1>5
  <1>7. QED
    BY <1>3, <1>6 DEF T, f

LEMMA MentionsGrow ==
  ASSUME ScopesOK, ScopesOK', NEW row \in Row, Reduce(row)
  PROVE  AllMentions' = AllMentions \o
           (IF row.outcome = "success" THEN Said(Mentions[row.intent], Revision + 1) ELSE <<>>)
  <1>1. /\ Revision \in Nat /\ Revision' = Revision + 1
        /\ journal'[Revision + 1] = row
        /\ \A t \in Turns : journal'[t] = journal[t]
        /\ Turns' = Turns \cup {Revision + 1}
    BY JournalGrows
  <1>2. /\ Turns = 1..Revision /\ Revision + 1 \notin Turns
        /\ Successes \subseteq Turns
        /\ Successes' = IF row.outcome = "success" THEN Successes \cup {Revision + 1}
                        ELSE Successes
    BY <1>1, SuccessesGrow DEF Turns
  <1> DEFINE seqs == MentionsByTurn
             more == MentionsByTurn'
  <1>3. /\ seqs \in Seq(Seq(Entity \X Nat)) /\ Len(seqs) = Revision
        /\ \A t \in Turns : seqs[t] =
              IF t \in Successes THEN Said(Mentions[journal[t].intent], t) ELSE <<>>
    BY MentionsByTurnType
  <1>4. (/\ MentionsByTurn \in Seq(Seq(Entity \X Nat))
         /\ Len(MentionsByTurn) = Revision
         /\ \A t \in Turns : MentionsByTurn[t] =
              IF t \in Successes THEN Said(Mentions[journal[t].intent], t) ELSE <<>>)'
    BY MentionsByTurnType, PTL
  <1>5. /\ more \in Seq(Seq(Entity \X Nat)) /\ Len(more) = Revision + 1
        /\ \A t \in Turns' : more[t] =
              IF t \in Successes' THEN Said(Mentions[journal'[t].intent], t) ELSE <<>>
    BY <1>1, <1>4
  <1>6. AllMentions = FlattenSeq(seqs)
    BY AllMentionsFlattened
  <1>7. AllMentions' = FlattenSeq(more)
    <2>1. (AllMentions = FlattenSeq(MentionsByTurn))'
      BY AllMentionsFlattened, PTL
    <2>2. QED
      BY <2>1
  <1> HIDE DEF seqs, more
  <1>8. \A t \in 1..Revision : more[t] = seqs[t]
    BY <1>1, <1>2, <1>3, <1>5
  <1>9. more[Revision + 1] =
          IF row.outcome = "success" THEN Said(Mentions[row.intent], Revision + 1) ELSE <<>>
    BY <1>1, <1>2, <1>5
  <1>10. FlattenSeq(more) = FlattenSeq(seqs) \o more[Revision + 1]
    <2> DEFINE S == Entity \X Nat
    <2>1. /\ seqs \in Seq(Seq(S)) /\ more \in Seq(Seq(S))
          /\ Len(more) = Len(seqs) + 1
          /\ \A k \in 1..Len(seqs) : more[k] = seqs[k]
      BY <1>1, <1>3, <1>5, <1>8
    <2> HIDE DEF S
    <2>2. OneListMore(more, seqs, S)
      BY <2>1 DEF OneListMore
    <2>3. FlattenSeq(more) = FlattenSeq(seqs) \o more[Len(seqs) + 1]
      BY <2>2, FlattenOneMore
    <2>4. QED
      BY <1>3, <2>3
  <1>11. QED
    BY <1>6, <1>7, <1>9, <1>10

-----------------------------------------------------------------------------
(* The inductive invariant *)

RecencyInv ==
  /\ ByRecency(entities, AllMentions, Revision)
  /\ Full(entities, AllMentions)
  /\ Len(entities) <= EntityLimit

LEMMA RecencyInit == Init => RecencyInv
  <1> SUFFICES ASSUME Init
               PROVE  RecencyInv
    OBVIOUS
  <1>1. entities = <<>> /\ journal = <<>> /\ Revision = 0 /\ Turns = {}
    BY DEF Init, Revision, Turns
  <1>2. MentionsByTurn = <<>>
    BY <1>1 DEF MentionsByTurn
  <1>3. AllMentions = <<>>
    <2>1. FlattenSeq(<<>>) = <<>>
      BY DEF FlattenSeq
    <2>2. QED
      BY <1>2, <2>1, AllMentionsFlattened
  <1>4. Len(entities) = 0 /\ entities \in Seq(EntityEntry) /\ 1..Len(entities) = {}
    BY <1>1
  <1>5. IsMentions(<<>>) /\ DOMAIN <<>> = {} /\ Known(<<>>) = {}
    BY DEF IsMentions, Known
  <1>6. Kept(entities) = {}
    BY <1>1 DEF Kept
  <1>7. EntityLimit \in Nat
    BY DialogAssumption
  <1>8. ByRecency(entities, AllMentions, Revision)
    BY <1>1, <1>3, <1>4, <1>5 DEF ByRecency
  <1>9. Full(entities, AllMentions)
    BY <1>3, <1>5, <1>6 DEF Full
  <1>10. QED
    BY <1>4, <1>7, <1>8, <1>9 DEF RecencyInv

LEMMA RecencyStep ==
  ASSUME ScopesOK, ScopesOK', RecencyInv, NEW row \in Row, Reduce(row)
  PROVE  RecencyInv'
  <1> DEFINE all == AllMentions
             all1 == AllMentions'
             r == Revision
  <1>1. r \in Nat /\ Revision' = r + 1
    BY JournalGrows
  <1>2. ByRecency(entities, all, r) /\ Full(entities, all) /\ Len(entities) <= EntityLimit
    BY DEF RecencyInv
  <1>3. all \in Seq(Entity \X Nat) /\ entities \in Seq(EntityEntry)
    BY <1>2 DEF ByRecency, IsMentions
  <1>4. all1 = all \o
          (IF row.outcome = "success" THEN Said(Mentions[row.intent], r + 1) ELSE <<>>)
    BY MentionsGrow
  <1> HIDE DEF all, all1, r
  <1>5. CASE row.outcome = "success"
    <2> DEFINE i == row.intent
               ms == Mentions[i]
               cut == EntityMemory(i, r + 1)
               n == Len(ms)
               more == all \o Said(ms, r + 1)
    <2>1. i \in Intent /\ ms \in Seq(Entity) /\ r + 1 \in Nat
      BY <1>1, DialogAssumption DEF Row
    <2>2. PICK p : /\ Remembers(p, entities, ms, r + 1)
                   /\ cut = LastN(p[n], EntityLimit)
      BY <1>3, <2>1, EntityMemorySteps
    <2>3. all1 = more
      BY <1>4, <1>5
    <2>4. entities' = cut
      BY <1>5 DEF Reduce, r
    <2> HIDE DEF i, ms, cut
    <2>5. ByRecency(p[n], more, r + 1) /\ Full(p[n], more)
      BY <1>1, <1>2, <2>1, <2>2, TurnOfMentions
    <2> HIDE DEF n, more
    <2>6. ByRecency(cut, more, r + 1) /\ Full(cut, more) /\ Len(cut) <= EntityLimit
      BY <2>1, <2>2, <2>5, CutKeepsTheLatest
    <2>7. QED
      BY <1>1, <2>3, <2>4, <2>6 DEF RecencyInv, all1
  <1>6. CASE row.outcome # "success"
    <2>1. entities' = entities
      BY <1>6 DEF Reduce
    <2>2. all1 = all
      BY <1>3, <1>4, <1>6, ConcatEmptySeq
    <2>3. ByRecency(entities, all, r + 1)
      BY <1>1, <1>2, NextTurn
    <2>4. QED
      BY <1>1, <1>2, <2>1, <2>2, <2>3 DEF RecencyInv, all1
  <1>7. QED
    BY <1>5, <1>6

-----------------------------------------------------------------------------
(* From the invariant to the property *)

LEMMA RecencyShows ==
  ASSUME RecencyInv
  PROVE  MemoryIsByRecency
  <1> DEFINE all == AllMentions
             n == Len(entities)
  <1>1. /\ entities \in Seq(EntityEntry) /\ n \in Nat /\ DOMAIN entities = 1..n
        /\ IsMentions(all)
        /\ \A k \in 1..n :
             /\ entities[k].ent \in Known(all)
             /\ entities[k].last = all[LastAt(all, entities[k].ent)][2]
             /\ entities[k].count = Cardinality(Since(all, entities[k].ent, entities[k].first))
        /\ \A j, k \in 1..n :
             j < k => LastAt(all, entities[j].ent) < LastAt(all, entities[k].ent)
        /\ \A f \in Known(all) \ Kept(entities), k \in 1..n :
             LastAt(all, f) < LastAt(all, entities[k].ent)
    BY DEF RecencyInv, ByRecency
  <1>2. ByRecency(entities, all, Revision) /\ Full(entities, all) /\ n <= EntityLimit
    BY DEF RecencyInv
  <1>3. \A j, k \in 1..n : entities[j].ent = entities[k].ent => j = k
    BY <1>2, EntitiesAreDistinct
  <1> HIDE DEF all, n
  <1>4. IsFiniteSet(Kept(entities)) /\ Cardinality(Kept(entities)) = n
    <2> DEFINE f == [k \in 1..n |-> entities[k].ent]
               S == Kept(entities)
    <2>1. f \in Bijection(1..n, S)
      BY <1>1, <1>3, Zenon DEF Kept, Bijection, Injection, Surjection, IsInjective
    <2>2. ExistsBijection(1..n, S)
      BY <2>1, Zenon DEF ExistsBijection
    <2> HIDE DEF S, f
    <2>3. IsFiniteSet(S) /\ Cardinality(S) = n
      BY <1>1, <2>2, FS_NatBijection, FS_CountingElements
    <2>4. QED
      BY <2>3 DEF S
  <1>5. IsFiniteSet(Known(all)) /\ Kept(entities) \subseteq Known(all)
    <2>1. IsFiniteSet(DOMAIN all)
      <3>1. DOMAIN all = 1..Len(all) /\ Len(all) \in Nat
        BY <1>1 DEF IsMentions
      <3>2. QED
        BY <3>1, FS_Interval
    <2> DEFINE f == [p \in DOMAIN all |-> all[p][1]]
    <2>2. IsFiniteSet(Known(all))
      <3>1. f \in Surjection(DOMAIN all, Known(all))
        BY Zenon DEF Surjection, Known
      <3>2. QED
        BY <2>1, <3>1, FS_Surjection
    <2>3. Kept(entities) \subseteq Known(all)
      BY <1>1 DEF Kept
    <2>4. QED
      BY <2>2, <2>3
  <1>6. Cardinality(Kept(entities)) =
          IF Cardinality(Known(all)) < EntityLimit THEN Cardinality(Known(all)) ELSE EntityLimit
    <2>1. n <= Cardinality(Known(all)) /\ Cardinality(Known(all)) \in Nat
      BY <1>4, <1>5, FS_Subset, FS_CardinalityType
    <2>2. Kept(entities) = Known(all) \/ n >= EntityLimit
      BY <1>2 DEF Full, n
    <2>3. EntityLimit \in Nat
      BY DialogAssumption
    <2>4. QED
      BY <1>1, <1>2, <1>4, <2>1, <2>2, <2>3
  <1>7. \A e \in Known(all) \ Kept(entities), f \in Kept(entities) :
          LastAt(all, e) < LastAt(all, f)
    BY <1>1 DEF Kept
  <1>8. QED
    <2>1. Len(entities) = Cardinality(Kept(entities))
      BY <1>4 DEF n
    <2>2. \A k \in DOMAIN entities :
            /\ entities[k].last = all[LastAt(all, entities[k].ent)][2]
            /\ entities[k].count = Cardinality(Since(all, entities[k].ent, entities[k].first))
            /\ \A j \in DOMAIN entities :
                 j < k => LastAt(all, entities[j].ent) < LastAt(all, entities[k].ent)
      BY <1>1
    <2>3. QED
      BY <1>6, <1>7, <2>1, <2>2, Zenon
         DEF MemoryIsByRecency, all, LastAt, At, Known, Kept, Since

-----------------------------------------------------------------------------
(* The theorems *)

RecentOK == recent \in Seq([turn: Nat, outcome: Outcomes])

LEMMA RecentStep ==
  ASSUME ScopesOK, RecentOK, NEW row \in Row, Reduce(row)
  PROVE  RecentOK'
  <1> DEFINE T == [turn: Nat, outcome: Outcomes]
             z == [turn |-> Revision + 1, outcome |-> row.outcome]
  <1>1. z \in T
    BY JournalGrows DEF Row
  <1>2. recent' = LastN(Append(recent, z), TurnLimit)
    BY DEF Reduce
  <1>3. TurnLimit \in Nat \ {0}
    BY DialogAssumption
  <1>4. recent \in Seq(T)
    BY DEF RecentOK
  <1> HIDE DEF T, z
  <1>5. Append(recent, z) \in Seq(T)
    BY <1>1, <1>4
  <1>6. recent' \in Seq(T)
    BY <1>2, <1>3, <1>5, LastNKeeps
  <1>7. QED
    BY <1>6 DEF RecentOK, T

ContextInv == WindowInv /\ RecencyInv /\ RecentOK

LEMMA ContextInvHolds == Spec => []ContextInv
  <1>1. Init => ContextInv
    <2>1. Init => RecentOK
      BY DEF Init, RecentOK
    <2>2. QED
      BY <2>1, WindowInvInit, RecencyInit DEF ContextInv
  <1>2. ContextInv /\ [Next]_vars => ContextInv'
    <2> SUFFICES ASSUME ContextInv, [Next]_vars
                 PROVE  ContextInv'
      OBVIOUS
    <2>1. WindowInv /\ WindowInv' /\ RecencyInv /\ RecentOK
      BY WindowInvStep DEF ContextInv
    <2>2. ScopesOK /\ ScopesOK'
      BY <2>1 DEF WindowInv, DialogInv
    <2>3. CASE Next
      <3>1. PICK row : RowFits(row) /\ Reduce(row)
        BY <2>2, <2>3, StepReduces
      <3>2. row \in Row
        BY <3>1 DEF RowFits
      <3>3. RecencyInv' /\ RecentOK'
        BY <2>1, <2>2, <3>1, <3>2, RecencyStep, RecentStep
      <3>4. QED
        BY <2>1, <3>3 DEF ContextInv
    <2>4. CASE UNCHANGED vars
      <3>1. entities' = entities /\ recent' = recent /\ journal' = journal
        BY <2>4 DEF vars
      <3>2. Revision' = Revision /\ Turns' = Turns /\ Successes' = Successes
        BY <3>1 DEF Revision, Turns, Successes
      <3>3. AllMentions' = AllMentions
        BY <3>1, <3>2 DEF AllMentions
      <3>4. RecencyInv' /\ RecentOK'
        BY <2>1, <3>1, <3>2, <3>3 DEF RecencyInv, RecentOK
      <3>5. QED
        BY <2>1, <3>4 DEF ContextInv
    <2>5. QED
      BY <2>3, <2>4
  <1>3. QED
    BY <1>1, <1>2, PTL DEF Spec

\* The entity memory is the EntityLimit most recently mentioned entities, in the
\* order of their last mention and each with the number of its mentions since it
\* entered, whatever a session of any length mentioned, repeated and pushed out
\* (_update_entity_memory).
THEOREM RecencyHolds == Spec => []MemoryIsByRecency
  <1>1. ContextInv => MemoryIsByRecency
    BY RecencyShows DEF ContextInv
  <1>2. QED
    BY <1>1, ContextInvHolds, PTL

\* The contract has the shape the store validates on every save: its lists hold
\* whole records, the scopes and the question are turns of the journal
\* (apply_context_transition).
THEOREM DialogTypesHold == Spec => []TypeOK
  <1>1. ContextInv => TypeOK
    BY DEF ContextInv, WindowInv, DialogInv, ScopesOK, FramesFollowJournal, RecencyInv,
           ByRecency, RecentOK, TypeOK
  <1>2. QED
    BY <1>1, ContextInvHolds, PTL
=============================================================================
