----------------------------- MODULE MCBundleL3 -----------------------------
(* Model-checking instances of BundleL3: a port that a split switches off,  *)
(* a VLAN interface and a LAG.                                              *)
EXTENDS BundleL3, TLC

CONSTANTS p1, v1, l1, a1, a2, r1, r2, r3

MCPorts == {p1}
MCVlanIntfs == {v1}
MCLags == {l1}
MCAddresses == {a1, a2}
MCRifIds == {r1, r2, r3}

Symmetry == Permutations(MCRifIds)

Plain(slaves, vlan, enable) ==
  [slaves |-> slaves, vlan |-> vlan, enable |-> enable, ip4 |-> None,
   secondary |-> {}, db |-> None, ip6 |-> FALSE]

\* A VLAN interface that changes its VLAN, and has its address as a secondary or
\* as the primary one; a LAG whose address is in the database only, and that may
\* lose its port.
MCConfigs ==
  (p1 :> {Plain({p1}, 0, TRUE)})
  @@ (v1 :> {[Plain({v1}, 1, TRUE) EXCEPT !.secondary = {a1}],
             [Plain({v1}, 2, TRUE) EXCEPT !.ip4 = a1]})
  @@ (l1 :> {[Plain({p1}, 0, TRUE) EXCEPT !.db = a2], Plain({}, 0, TRUE)})
=============================================================================
