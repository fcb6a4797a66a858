CONSTANTS
  default = default
  a = a
  b = b
  Namespaces = {default, a, b}
  Default = default
  MinVNID = 10
  MaxVNID = 11
  Requests <- AllRequests
  Modes = {TRUE}
  Faults = {}
  Calm = TRUE
  MaxOps = 5
  MaxFaults = 0
  MaxRestarts = 1
SYMMETRY Symmetry
SPECIFICATION Spec
PROPERTIES AssignmentSpec
