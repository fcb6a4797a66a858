CONSTANTS
  default = default
  a = a
  b = b
  Namespaces = {default, a, b}
  Default = default
  MinVNID = 10
  MaxVNID = 11
  Requests <- SelfJoins
  Modes = {TRUE}
  Faults = {}
  Calm = TRUE
  MaxOps = 4
  MaxFaults = 0
  MaxRestarts = 0
SPECIFICATION Spec
INVARIANTS AllocatorMatchesMap
