CONSTANTS
  EaseDown = 1
  EaseUp = 2
  MaxQueue = 3
  HeavyDown = 4
  HeavyUp = 5
  HardLimit = 6
  Calm = 2
  MaxRecords = 9
  MaxConns = 1
SPECIFICATION Spec
INVARIANTS
  EveryRecordAccounted
  NobodyStranded
  DrainedBeforeClose
PROPERTIES
  PressureEases
  ShutdownEnds
CHECK_DEADLOCK FALSE
