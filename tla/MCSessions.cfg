CONSTANTS
  r1 = r1
  r2 = r2
  Request = {r1, r2}
  MaxTokens = 4
  MaxFamilies = 2
  MaxChanges = 1
SPECIFICATION Spec
SYMMETRY Interchangeable
INVARIANTS
  OneLiveToken
PROPERTIES
  ImplementsFamilies
  OldVersionsEnd
CHECK_DEADLOCK FALSE
