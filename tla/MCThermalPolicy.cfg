SPECIFICATION Spec
CONSTANTS
  RateCount = 1
  Clusters <- MCClusters
  ClusterOrder <- MCOrder
  StateDeps <- MCStateDeps
  Policies <- MCPolicies
  ActionItems <- MCActions
  Values <- MCValues
  States <- MCStates
  Reports <- MCReports
  Leftovers <- MCLeftovers
  MaxPending = 2
  Nothing = Nothing
  Malformed = Malformed
INVARIANTS
  TypeOK
  NoOrphanTimer
  CurrentNotLost
  SocLimitHeld
  ObserverCurrent
PROPERTIES
  DecisionArbitrates
  SocRestored
CHECK_DEADLOCK FALSE
