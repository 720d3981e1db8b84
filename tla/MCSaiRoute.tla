----------------------------- MODULE MCSaiRoute -----------------------------
(* Instance of SaiRoute for TLC. *)
EXTENDS SaiRoute, TLC

CONSTANTS x1, x2, a1, n1, n2, n3, g1, g2, mac1, mac2

MCPrefixes == {x1, x2}
MCAddresses == {a1}
MCNextHops == {n1, n2, n3}
MCGroups == {g1, g2}
MCMacs == {mac1, mac2}
RouteSymmetry == Permutations(MCPrefixes) \cup Permutations(MCNextHops)
                   \cup Permutations(MCGroups)

\* SAI refuses nothing, or one thing a call.
Refusal(H, g, e) == [hops |-> H, group |-> g, entry |-> e]
MCRefusals == {Refusal({}, FALSE, FALSE), Refusal({}, TRUE, FALSE), Refusal({}, FALSE, TRUE)}
                \cup {Refusal({n}, FALSE, FALSE) : n \in MCNextHops}

\* States to go on from: as long as the history is clean, all the objects there
\* can be with one neighbour; a few of them after that, or with an own address.
MCSize  == Cardinality(sai.hops) + Cardinality(DOMAIN sai.groups) + Cardinality(DOMAIN route)
             + 2 * Cardinality({n \in NextHops : neighbor[n] # "none"})
MCBound == MCSize <= IF MCAddresses \cap DOMAIN sai.routes # {} THEN 2
                     ELSE IF clean THEN 9 ELSE 3

\* leaked matters only while the history is clean.
MCView == <<nexthop, route, neighbor, sai, clean, IF clean THEN leaked ELSE {}>>
=============================================================================
