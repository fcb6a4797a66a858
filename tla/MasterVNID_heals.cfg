CONSTANTS
  default = default
  a = a
  b = b
  Namespaces = {default, a, b}
  Default = default
  MinVNID = 10
  MaxVNID = 11
  Requests <- LastingRequests
  Modes = {TRUE, FALSE}
  Faults = {"error"}
  Calm = TRUE
  MaxOps = 4
  MaxFaults = 2
  MaxRestarts = 0
SPECIFICATION FairSpec
INVARIANTS DivergenceIsPending
PROPERTIES AgreementRestored NamespacesServed
