SPECIFICATION Spec
CONSTANTS
  Registry <- MCRegistry
  NoBalance = "none"
  Aliases <- MCAliases
  Inside <- MCInside
  Messages <- MCMessages
  Interpretations <- MCInterpretations
  Sessions <- MCSessions
  WindowLimit = 1
  MaxTurns = 2
\* A session may take no further turn.
CHECK_DEADLOCK FALSE
INVARIANTS
  TypeOK
  FollowUpKeepsTheRest
  AmbiguousNeverPicked
  ReversalSwapsTheEnds
  FlowIsReadOnItsEnd
  EveryNameIsBound
PROPERTY
  ComparisonNeverDegrades
