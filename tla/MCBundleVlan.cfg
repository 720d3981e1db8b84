\* a client that uses VLANs only while they exist, a SAI that never refuses:
\* hardware follows the settings
CONSTANTS
  p1 = p1
  p2 = p2
  b1 = b1
  lag1 = lag1
  Ports <- MCPorts
  Vlans <- MCVlans
  Bundles <- MCBundles
  Lags <- MCLags
  DefaultPvid = 1
  StrictRemove = TRUE
  MayRefuse = FALSE
  Disciplined = TRUE
  NativeInTrunks = FALSE
SPECIFICATION Spec
SYMMETRY PortSymmetry
INVARIANTS TypeOK LinkedPortsConverge UnlinkedPortsAreFresh ListsAndLagsAgree
