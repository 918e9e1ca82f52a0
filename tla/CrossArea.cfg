SPECIFICATION Spec
CONSTANTS
  Modules = {"Mark"}
  Bits = {32}
  Widths = {12}
  Heights = {12}
  Margins <- MCMargins
  ImageWidths = {1}
  ImageHeights = {1}
  Levels = {0}
  Alphas = {0}
  Idles = {250}
  Places = {"left"}
  MaxEvents = 1
INVARIANTS
  AreaIsCross
