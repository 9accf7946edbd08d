SPECIFICATION Spec
CONSTANTS
  Turns <- MCLongFlows
  Answers <- MCAnswers
  LevelAnswers <- MCLevelAnswers
  GroupAnswers <- MCGroupAnswers
  Subtree <- MCSubtree
  GeosNamed <- MCGeosNamed
  Aliases <- MCAliases
  Inside <- MCInside
\* A turn ends.
CHECK_DEADLOCK FALSE
INVARIANT
  CallersHoldExactDay
