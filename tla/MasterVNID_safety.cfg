CONSTANTS
  default = default
  a = a
  b = b
  Namespaces = {default, a, b}
  Default = default
  MinVNID = 10
  MaxVNID = 11
  Requests <- AllRequests
  Modes = {TRUE}
  Faults = {"error", "lost"}
  Calm = FALSE
  MaxOps = 3
  MaxFaults = 1
  MaxRestarts = 1
SYMMETRY Symmetry
SPECIFICATION Spec
INVARIANTS TypeOK AllocatorMatchesMap
PROPERTIES SharingNeedsJoin
