SPECIFICATION MCSpec
CONSTANTS
  CommandLines <- MCCommandLines
  Files <- MCFiles
  NoFile = NoFile
  Loadable <- MCLoadable
  Numerals <- MCNumerals
  Chars <- MCChars
  Lower <- MCLower
  Compared <- Titled
  MaxOptions = 4
  MaxPattern = 4
  MaxTitle = 3
INVARIANTS
  CommandTypeOK
  CompleteNeverCrashes
  LastPaddingWins
  SlotsReversed
  DecidesRight
CHECK_DEADLOCK FALSE
