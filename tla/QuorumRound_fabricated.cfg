SPECIFICATION Spec
CONSTANTS
  Drone <- Three
  Cell <- Two
  Dist <- Two
  None = None
  Contests <- Offered
  MayStall <- OneOrAll
  MaxRound = 2
INVARIANT VotesWereCast
\* The run ends after MaxRound contests, or with the exception.
CHECK_DEADLOCK FALSE
