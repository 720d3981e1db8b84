\* a port, its child, the neighbour and a VLAN interface
CONSTANTS
  port = port
  child = child
  other = other
  None = None
  Splitable = {port}
  Children = {child}
  Fixed = {other}
  Internals = {v}
  ParentOf <- MCParentOf
  NeighborOf <- MCNeighborOf
  Configs = {zero, off, on}
  Enabled = {on}
  Zero = zero
  HwDefault = off
  Mixed = mixed
  MaySplit = TRUE
SPECIFICATION Spec
CHECK_DEADLOCK FALSE
INVARIANTS TypeOK LanesHaveOneUser NeighborsComeBack 
