CONSTANTS
  default = default
  a = a
  b = b
  Namespaces = {default, a, b}
  Default = default
  MinVNID = 10
  MaxVNID = 11
  Requests <- NoJoins
  Modes = {TRUE}
  Faults = {}
  Calm = FALSE
  MaxOps = 5
  MaxFaults = 0
  MaxRestarts = 0
SPECIFICATION Spec
INVARIANTS SharedOnlyWhenJoined
