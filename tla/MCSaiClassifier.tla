--------------------------- MODULE MCSaiClassifier ---------------------------
(* Model-checking instances of SaiClassifier: three lists, two ports and an *)
(* interface that is L3 only.                                               *)
EXTENDS SaiClassifier, TLC

CONSTANTS a1, a2, a3, p1, p2, r1

MCLists == {a1, a2, a3}
MCPorts == {p1, p2, r1}
MCL3Only == {r1}
MCMinBound == -1
MCContents == [rules : {1}, counters : {0, 1}] \cup [rules : {2}, counters : {2}] \cup [rules : {3}, counters : {0}]
Symmetry == Permutations(MCLists) \cup Permutations({p1, p2})
=============================================================================
