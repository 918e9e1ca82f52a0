SPECIFICATION FairSpec
CONSTANTS
  x1 = x1
  x2 = x2
  x3 = x3
  i1 = i1
  None = None
  Clients = {x1, x2, x3, i1}
  Message <- MCMessage
INVARIANTS
  AtMostOnce
  OnlyRequests
  RequestKept
  NoneStranded
PROPERTIES
  LoneRequestServed
CHECK_DEADLOCK FALSE
