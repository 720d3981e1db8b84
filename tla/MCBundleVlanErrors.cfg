\* one port moving between bundles, any client, a lenient SAI that may refuse work
CONSTANTS
  p1 = p1
  p2 = p2
  b1 = b1
  lag1 = lag1
  Ports <- MCOnePort
  Vlans <- MCOneVlan
  Bundles <- MCBundles
  Lags <- MCLags
  DefaultPvid = 1
  StrictRemove = FALSE
  MayRefuse = TRUE
  Disciplined = FALSE
  NativeInTrunks = TRUE
SPECIFICATION Spec
INVARIANTS OneBundlePerPort 
PROPERTY FrozenWhileAbsent
