CONSTANTS
  Caller = {a, b, c}
  HealthTries = 1
SPECIFICATION SupSpec
INVARIANTS
  ExpectedIffStopping
  NeverTwoServers
PROPERTIES
  CallsReturn
  ImplementsSingleServer
