SPECIFICATION Spec
CONSTANTS
  xterm = xterm
  firefox = firefox
  nothing = nothing
  plain = plain
  changed = changed
  broken = broken
  N = 1
  Pids = {1, 2}
  Command <- OneCommand
  NoCommand = nothing
  Exclusive <- MCExclusive
  FadeStart <- FastFadeStart
  Icons <- MCIcons
  Loadable <- MCIcons
  FirstIcon <- MCFirstIcon
  MarkType = "cross"
  LeftAction = "nothing"
  RightAction = "iconify"
  Inputs <- LeftClicks
  MayStop = TRUE
  MayHide = FALSE
INVARIANTS
  OneInstance
