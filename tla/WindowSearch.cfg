SPECIFICATION Spec
CONSTANTS
  a = a
  b = b
  Windows = {a, b}
  Titles <- MCTitles
  Patterns <- MCPatterns
  MatchesPattern <- MCMatches
  None = None
  Worlds <- MCWorlds
INVARIANTS
  SearchTypeOK
  NotOverlooked
  KillJustified
  SurvivesStaleIds
PROPERTIES
  ReturnsMatch
CHECK_DEADLOCK FALSE
