\* a LAG bundle and two ports, two mirrors that share two sessions, one direction
CONSTANTS
  b1 = b1
  p1 = p1
  p2 = p2
  h1 = h1
  h2 = h2
  m1 = m1
  m2 = m2
  s1 = s1
  s2 = s2
  Bundles <- MCBundles
  Ports <- MCPorts
  Handles <- MCHandles
  Mirrors <- MCMirrors
  Sessions <- MCSessions
  Directions <- MCDirections
  NoHandle = NoHandle
  None = None
  PoolSize = 1
  MayFail = FALSE
SPECIFICATION MirrorSpec
SYMMETRY Symmetry
INVARIANTS MirrorTypeOK  OnlySourcesMirror
CHECK_DEADLOCK FALSE
