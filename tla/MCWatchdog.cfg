CONSTANTS
  h1 = h1
  Human = {h1}
  Boot = boot
  Dog = dog
  Term = term
  Caller = {h1, boot, dog, term}
  HealthTries = 1
  MaxNotices = 1
  MaxRequests = 2
  Failures = 2
  MinGap = 2
  Hour = 3
  MaxPerHour = 1
  HistoryLimit = 2
  RestartOnExit = TRUE
SPECIFICATION Spec
INVARIANTS
  HaltIsQuiet
  BudgetKept
PROPERTIES
  GapKept
  ImplementsSupervisor
  HangIsHandled
  RestartEnds
  ShutdownEnds
CHECK_DEADLOCK FALSE
