CONSTANTS
  x = x
  y = y
  none = none
  ghost = ghost
  Hosts = {hostA, hostB}
  UIDs = {hostA, hostB}
  UIDsOf <- OneUID
  NodeIPs = {ip1, ip2, ip3}
  Namespaces = {nsP, nsQ}
  VNIDs = {nsP, nsQ}
  VNIDsOf <- OneVNID
  EgressIPs = {x, y}
  CIDRs = {c}
  Lists <- AllLists
SPECIFICATION Spec
SYMMETRY Interchangeable
INVARIANTS TypeOK ClaimsAreJustified UnambiguousIsClaimed RedeliveryRepairs OneEgressIPPerNode RoutesFollowClaims NodesAreFound
PROPERTIES ReallocationAskedFor
