SPECIFICATION Spec
CONSTANTS
  xterm = xterm
  firefox = firefox
  nothing = nothing
  plain = plain
  changed = changed
  broken = broken
  N = 3
  Pids = {1}
  Command <- SharedCommand
  NoCommand = nothing
  Exclusive <- MCExclusive
  FadeStart <- SharedFadeStart
  Icons <- RemoteIcons
  Loadable <- RemoteLoadable
  FirstIcon <- MCFirstIcon
  MarkType = "play"
  LeftAction = "nothing"
  RightAction = "lower"
  Inputs <- PictureInputs
  MayStop = TRUE
  MayHide = TRUE
INVARIANTS
  PictureCurrent
PROPERTIES
  ClickLaunches
