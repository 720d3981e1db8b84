---------------------------- MODULE MCBundleVlan ----------------------------
(* Model-checking instances of BundleVlan: two ports, a plain bundle and a  *)
(* LAG, two VLANs.                                                          *)
EXTENDS BundleVlan

CONSTANTS p1, p2, b1, lag1

MCPorts == {p1, p2}
MCVlans == {2, 3}
MCOneVlan == {2}
MCOnePort == {p1}
MCBundles == {b1, lag1}
MCLags == {lag1}
PortSymmetry == Permutations(MCPorts)
=============================================================================
