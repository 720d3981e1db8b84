--------------------------- MODULE MCMacLearning ----------------------------
(* Model-checking instances of MacLearning: three or four small buffers.   *)
EXTENDS MacLearning

CONSTANTS m1, m2, p1, p2

MCOneMac == {m1}
MCMacs == {m1, m2}
MCOnePort == {p1}
MCPortNames == {p1, p2}

\* Without the nodes left behind in buffers that are neither current, nor
\* published, nor being read: each is cleared before it is used again.
InUse(i) == i = cur \/ IsPublished(i) \/ IsRead(i)
MCView == <<[i \in Index |-> IF InUse(i) THEN buf[i] ELSE <<>>], cur, rd, plugged, triggered,
            threadVars, notice, fdb, db, taken, damaged>>
PortSymmetry == Permutations(MCPortNames)
=============================================================================
