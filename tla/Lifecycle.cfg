SPECIFICATION FairSpec
CONSTANTS
  xterm = xterm
  firefox = firefox
  nothing = nothing
  plain = plain
  changed = changed
  broken = broken
  N = 2
  Pids = {1, 2}
  Command <- MCCommand
  NoCommand = nothing
  Exclusive <- MCExclusive
  FadeStart <- MCFadeStart
  Icons <- MCIcons
  Loadable <- MCIcons
  FirstIcon <- MCFirstIcon
  MarkType = "cross"
  LeftAction = "iconify"
  RightAction = "close"
  Inputs <- LauncherInputs
  MayStop = FALSE
  MayHide = FALSE
INVARIANTS
  TypeOK
  NoStrayKill
  PidTracksChild
  GreyIsTracked
  OneInstance
PROPERTIES
  ImplementsLauncher
  FadeEnds
  ExclusiveReaped
  CloseNoticed
