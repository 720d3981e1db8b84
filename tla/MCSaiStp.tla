------------------------------ MODULE MCSaiStp ------------------------------
(* Model-checking instance of SaiStp: ids 1 to 3, a VLAN, a port, and three*)
(* instances next to the default one.                                      *)
EXTENDS SaiStp, TLC

CONSTANTS v1, p1, h1, h2, h3

MCVlans == {v1}
MCPorts == {p1}
MCInstances == {Default, h1, h2, h3}
MCRequests == {0, 1, 3}
Symmetry == Permutations({h1, h2, h3})
=============================================================================
