CONSTANTS
  users = users
  traces = traces
  base = base
  name = name
  ts = ts
  Table = {users, traces}
  Feature = {base, name, ts}
  Files <- Shipped
  MaxRestarts = 3
  MaxFaults = 2
  MaxDrops = 1
SPECIFICATION Spec
INVARIANTS
  ReappliesSafely
CHECK_DEADLOCK FALSE
