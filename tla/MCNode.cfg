CONSTANTS
  none = none
  name = name
  Parts = {"pods", "networkpolicy", "subnets", "firewall", "hybrid", "socket", "policy"}
INIT Init
NEXT Next
INVARIANTS
  PodsFollowNamespaces
  VNIDRulesPresent
  MulticastFollowsPods
  InUseIsWritten
  
  TunnelsFollowHostSubnets
  EndpointsFiltered
  ServicesPlaced
  ConnectionsAccountedFor
  EgressRulesCurrent
CHECK_DEADLOCK FALSE
