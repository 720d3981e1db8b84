\* any caller, a SAI that may refuse anything
CONSTANTS
  v1 = v1
  p1 = p1
  h1 = h1
  h2 = h2
  h3 = h3
  Vlans <- MCVlans
  Ports <- MCPorts
  Instances <- MCInstances
  Requests <- MCRequests
  Default = Default
  None = None
  PoolSize = 4
SPECIFICATION Spec
SYMMETRY Symmetry
INVARIANTS TypeOK GroupsAreInstances GroupsFollowCalls
CHECK_DEADLOCK FALSE
