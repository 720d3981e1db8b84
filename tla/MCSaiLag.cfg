\* three bundles share two ids; SAI may refuse anything
CONSTANTS
  b1 = b1
  b2 = b2
  b3 = b3
  p1 = p1
  p2 = p2
  p3 = p3
  h1 = h1
  h2 = h2
  h3 = h3
  Bundles <- MCBundles
  Ports <- MCPorts
  Handles <- MCHandles
  NoHandle = NoHandle
  PoolSize = 2
  MayFail = TRUE
SPECIFICATION Spec
SYMMETRY LagSymmetry
INVARIANTS LagClassIsFaithful BundlesOwnTheirLag LagsFollowBundles
