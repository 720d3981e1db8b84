---------------------------- MODULE MCSaiMirror ----------------------------
(* Model-checking instance of SaiMirror: a LAG bundle, two ports with       *)
(* bundles of their own, two mirrors and two sessions.                      *)
EXTENDS SaiMirror, TLC

CONSTANTS b1, p1, p2, h1, h2, m1, m2, s1, s2

MCBundles == {b1}
MCPorts == {p1, p2}
MCHandles == {h1, h2}
MCMirrors == {m1, m2}
MCSessions == {s1, s2}
MCDirections == {"ingress"}
Symmetry == Permutations(MCPorts) \cup Permutations(MCHandles)
            \cup Permutations(MCMirrors) \cup Permutations(MCSessions)
=============================================================================
