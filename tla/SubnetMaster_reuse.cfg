CONSTANTS
  n1 = n1
  n2 = n2
  ip1 = ip1
  ip2 = ip2
  ip3 = ip3
  NodeNames = {n1}
  ClaimedNames = {}
  NodeIPs = {ip1, ip2}
  BadIPs = {}
  MaxBirths = 2
  Faults = {"error"}
  Scenarios <- ReuseScenarios
SPECIFICATION FairSpec
PROPERTIES NodesServed
