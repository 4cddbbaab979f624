CONSTANTS
  r1 = r1
  r2 = r2
  Request = {r1, r2}
  MaxFamilies = 2
  MaxTokens = 2
  Late = {x}
SPECIFICATION Spec
INVARIANTS
  NoReuseOfItsOwn
PROPERTIES
  RequestsEnd
CHECK_DEADLOCK FALSE
