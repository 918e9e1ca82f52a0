SPECIFICATION FairSpec
CONSTANTS
  x1 = x1
  x2 = x2
  x3 = x3
  i1 = i1
  None = None
  Clients = {x1, x2}
  Message <- RivalMessage
PROPERTIES
  EveryRequestServed
CHECK_DEADLOCK FALSE
