SPECIFICATION FairSpec
CONSTANTS
  Timeout = 3
  Idles = {0, 250, 750}
  N = 2
  MaxWaiting = 3
  None = None
INVARIANTS
  TypeOK
  PromptPictures
  IdleKept
  TicksKeepPace
  EndNoticed
PROPERTIES
  Delivers
