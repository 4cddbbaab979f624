CONSTANTS
  f1 = f1
  f2 = f2
  c1 = c1
  c2 = c2
  x = x
  y = y
  None = None
  Name = {f1, f2}
  Base = {x, y}
  Code = {c1, c2}
  BaseOf <- TwoBases
  Request = {1, 2}
  MaxRequests = 3
SPECIFICATION Spec
INVARIANTS
  OneRoutePerFile
  ServedIsOnDisk
PROPERTIES
  RequestsEnd
CHECK_DEADLOCK FALSE
