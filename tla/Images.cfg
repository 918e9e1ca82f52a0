SPECIFICATION Spec
CONSTANTS
  Modules = {"Mark", "GreyImage", "Blend", "Background"}
  Bits = {16, 24, 32}
  Widths = {5, 10, 11, 14}
  Heights = {2, 9, 12}
  Margins <- MCMargins
  ImageWidths = {1, 2, 3, 5}
  ImageHeights = {1, 2, 3}
  Levels = {0, 103, 255}
  Alphas = {0, 1, 26, 200, 255}
  Idles = {250, 2500}
  Places = {"left", "right"}
  MaxEvents = 3
INVARIANTS
  InsideImage
  MarkPlaced
  ExpandedInPlace
  InRange
  BackgroundCurrent
  Settled
  SurvivesHiddenSlit
PROPERTIES
  FadesIn
CHECK_DEADLOCK FALSE
