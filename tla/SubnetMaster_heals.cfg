CONSTANTS
  n1 = n1
  n2 = n2
  ip1 = ip1
  ip2 = ip2
  ip3 = ip3
  NodeNames = {n1}
  ClaimedNames = {n2}
  NodeIPs = {ip1, ip2, ip3}
  BadIPs = {ip3}
  MaxBirths = 1
  Faults = {"error"}
  Scenarios <- LivenessScenarios
SPECIFICATION FairSpec
PROPERTIES NodesServed OrphansCollected
