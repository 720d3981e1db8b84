\* three buffers of two nodes: the ring as a queue, and what the fairness of
\* the threads gives
CONSTANTS
  m1 = m1
  m2 = m2
  p1 = p1
  p2 = p2
  Macs <- MCOneMac
  PortNames <- MCOnePort
  NoPort = NoPort
  MaxBuffers = 3
  BufferSize = 2
  MovesAreAged = TRUE
  NamesResolve = TRUE
SPECIFICATION FairSpec
PROPERTIES RingIsAQueue EventsArePublished BuffersAreTaken DatabaseSettles
