------------------------------ MODULE MCSaiLag ------------------------------
(* Model-checking instance of SaiLag: three bundles and ports.  *)
EXTENDS SaiLag, TLC

CONSTANTS b1, b2, b3, p1, p2, p3, h1, h2, h3

MCBundles == {b1, b2, b3}
MCPorts == {p1, p2, p3}
MCHandles == {h1, h2, h3}
LagSymmetry == Permutations(MCPorts) \cup Permutations(MCHandles)
=============================================================================
