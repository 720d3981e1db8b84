\* one MAC that moves between two ports, reported as aged and learned, events on
\* unknown ports among others; two buffers of two nodes
CONSTANTS
  m1 = m1
  m2 = m2
  p1 = p1
  p2 = p2
  Macs <- MCOneMac
  PortNames <- MCPortNames
  NoPort = NoPort
  MaxBuffers = 2
  BufferSize = 2
  MovesAreAged = TRUE
  NamesResolve = FALSE
SPECIFICATION Spec
SYMMETRY PortSymmetry
VIEW MCView
INVARIANTS TypeOK DatabaseFollowsFdb
