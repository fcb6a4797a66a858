CONSTANTS
  none = none
  ghost = ghost
  Parts = {"manager", "node", "policy"}
SPECIFICATION Spec
INVARIANTS
  OneHostPerEgressIP
  ReallocationIsSound
  EgressTrafficTranslated
  MonitorFollowsTracker
  StuckNeedsTwoReports
PROPERTIES
  EgressIPsPlaced
  NodesComeBack
  NamesFollowed
CHECK_DEADLOCK FALSE
