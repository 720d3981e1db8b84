\* two prefixes, three next hops, two groups; SAI may refuse to create anything, and
\* the client may name any next hops
CONSTANTS
  x1 = x1
  x2 = x2
  a1 = a1
  n1 = n1
  n2 = n2
  n3 = n3
  g1 = g1
  g2 = g2
  mac1 = mac1
  mac2 = mac2
  Prefixes <- MCPrefixes
  Addresses <- MCAddresses
  NextHops <- MCNextHops
  Groups <- MCGroups
  Macs <- MCMacs
  Refusals <- MCRefusals
  Cpu = Cpu
  NoObject = NoObject
  MaxRef = 2
SPECIFICATION Spec
CONSTRAINT MCBound
SYMMETRY RouteSymmetry
VIEW MCView
INVARIANTS TypeOK RoutesCanGo TableCoversSai CountsAreExact SaiFollowsTables NothingIsLeftBehind
