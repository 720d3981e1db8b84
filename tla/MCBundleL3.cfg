\* a port, a VLAN interface and a LAG; one prefix, one neighbour
CONSTANTS
  p1 = p1
  v1 = v1
  l1 = l1
  a1 = a1
  a2 = a2
  r1 = r1
  r2 = r2
  r3 = r3
  Ports <- MCPorts
  VlanIntfs <- MCVlanIntfs
  Lags <- MCLags
  Neighbors <- MCPorts
  Configs <- MCConfigs
  Addresses <- MCAddresses
  Prefixes = {x1}
  Hosts = {n1}
  RifIds <- MCRifIds
  None = None
  Refusable = {"neighbor"}
SPECIFICATION Spec
SYMMETRY Symmetry
CHECK_DEADLOCK FALSE
INVARIANTS TypeOK HardwareFollowsBundles CachedHasNothing HandlesAreLive
