CONSTANTS
  none = none
  ghost = ghost
  Parts = {"manager"}
INIT Init
NEXT Next
INVARIANT ReallocationCompletes
CHECK_DEADLOCK FALSE
