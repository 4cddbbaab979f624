CONSTANTS
  h1 = h1
  Human = {h1}
  Boot = boot
  Dog = dog
  Term = term
  Caller = {h1, boot, dog, term}
  HealthTries = 0
  MaxNotices = 1
  MaxRequests = 0
  Failures = 2
  MinGap = 1
  Hour = 2
  MaxPerHour = 1
  HistoryLimit = 2
  RestartOnExit = TRUE
SPECIFICATION Spec
PROPERTY
  CrashIsHandled
CHECK_DEADLOCK FALSE
