SPECIFICATION Spec
CONSTANTS
  Entity <- Entities3
  Intent <- Intents
  Mentions <- MentionsOf
  Grouping <- Groupings
  WindowLimit = 2
  TurnLimit = 3
  ResultLimit = 2
  EntityLimit = 2
  MaxTurns = 5
\* A session may take no further turn.
CHECK_DEADLOCK FALSE
INVARIANTS
  TypeOK
  ScopesFollowJournal
  AnswersAreCurrent
  PendingIsLastTurn
  WindowIsJournalTail
  MemoryIsByRecency
  GroupingUsesLastResult
