\* three lists, two ports and an L3 interface; tables of two rules, three counters
CONSTANTS
  a1 = a1
  a2 = a2
  a3 = a3
  p1 = p1
  p2 = p2
  r1 = r1
  Lists <- MCLists
  Ports <- MCPorts
  L3Only <- MCL3Only
  Contents <- MCContents
  MaxTables = 4
  MaxRules = 2
  MaxCounters = 3
  MinBound <- MCMinBound
  None = None
SPECIFICATION Spec
SYMMETRY Symmetry
CHECK_DEADLOCK FALSE
INVARIANTS TypeOK AccountsAddUp TwoTablesAreExact TablesFollowPorts
