CONSTANTS
  Requests <- MCRequests
  Levels <- MCLevels
  MaxRuns = 2
SPECIFICATION LanguageSpec
CHECK_DEADLOCK FALSE
PROPERTY NeighboursUntouched
PROPERTY CommandsAsAsked
