SPECIFICATION Spec
CONSTANTS
  xterm = xterm
  firefox = firefox
  nothing = nothing
  plain = plain
  changed = changed
  broken = broken
  N = 1
  Pids = {1, 2}
  Command <- OneCommand
  NoCommand = nothing
  Exclusive <- MCExclusive
  FadeStart <- FastFadeStart
  Icons <- DrawingIcons
  Loadable <- DrawingIcons
  FirstIcon <- MCFirstIcon
  MarkType = "cross"
  LeftAction = "nothing"
  RightAction = "nothing"
  Inputs <- DrawingInputs
  MayStop = TRUE
  MayHide = TRUE
INVARIANTS
  MarkShown
