SPECIFICATION Spec
CONSTANTS
  Turns <- MCTurns
  Answers <- MCAnswers
  LevelAnswers <- MCLevelAnswers
  GroupAnswers <- MCGroupAnswers
  Subtree <- MCSubtree
  GeosNamed <- MCGeosNamed
  Aliases <- MCAliases
  Inside <- MCInside
\* A turn ends.
CHECK_DEADLOCK FALSE
INVARIANTS
  TypeOK
  EachQuestionOnce
  AllTasksOrNothing
  SidesAreAsNamed
  RankingIsTheTop
  ReductionIsOfTheSeries
  GroupsConserveRows
  MemoryIsOfTheResult
