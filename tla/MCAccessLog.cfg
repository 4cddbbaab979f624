CONSTANTS
  BatchSize = 2
  MaxQueue = 3
  MaxEntries = 5
  MaxLosses = 2
SPECIFICATION Spec
INVARIANTS
  
  LastNoticeFollows
PROPERTIES
  QueueEmpties
CHECK_DEADLOCK FALSE
