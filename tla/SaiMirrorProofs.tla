--------------------------- MODULE SaiMirrorProofs ---------------------------
(***************************************************************************)
(* The invariants of SaiLag and of SaiMirror, proved for any number of     *)
(* bundles, ports, ids, handles, mirrors and sessions.                     *)
(*                                                                         *)
(* Those of SaiLag are inductive together: a call trusts the table, so     *)
(* that the table must match SAI for a bundle's LAG to be its own, and a   *)
(* bundle's LAG must be its own for removing it to leave the others alone. *)
(* Every step of SaiMirror is one of SaiLag, or changes nothing of it, so  *)
(* that they hold there too, and the invariant of the mirrors rests on     *)
(* them.  A call of the mirror class is a walk from world to world: each   *)
(* step is shown to leave a world as right as the one it found (Keeps),    *)
(* and the world a call leaves to be right with the lists it leaves.       *)
(***************************************************************************)
EXTENDS SaiMirror, FiniteSetTheorems, TLAPS

-----------------------------------------------------------------------------
(* The LAG class and the LAGs of bundles *)

TableInv == TypeOK /\ PoolMatchesTable /\ TableMatchesHw

LagInv == TableInv /\ BundlesOwnTheirLag

\* The part of the state the methods of the class change.
TableTypeOK(id, l, h) ==
  /\ id \subseteq Ids
  /\ DOMAIN l \subseteq Ids
  /\ l \in [DOMAIN l -> Entry]
  /\ DOMAIN h \subseteq Handles
  /\ h \in [DOMAIN h -> SUBSET Ports]

-----------------------------------------------------------------------------

\* Creating a LAG keeps the table faithful, and touches no other entry.
LEMMA CreatedKeepsTable ==
  ASSUME TableInv, NEW i \in Ids, NEW h \in Handles, NEW P \in SUBSET Ports, LagCreated(i, h, P)
  PROVE  /\ TableTypeOK(idle', lag', hw') /\ PoolMatchesTable' /\ TableMatchesHw'
         /\ i \in DOMAIN lag' /\ i \notin DOMAIN lag /\ lag'[i].handle \in DOMAIN hw'
         /\ \A j \in DOMAIN lag : j \in DOMAIN lag' /\ lag'[j] = lag[j]
         /\ DOMAIN hw \subseteq DOMAIN hw'
<1> DEFINE e == [handle |-> h, members |-> P]
<1>1. /\ i \in idle /\ i \notin DOMAIN lag /\ h \notin DOMAIN hw
      /\ idle' = idle \ {i} /\ lag' = With(lag, i, e) /\ hw' = With(hw, h, P)
  BY DEF LagCreated, IsNextId, TableInv, PoolMatchesTable
<1>2. e \in Entry /\ e # FreshEntry
  BY HandleAssumption DEF Entry, FreshEntry
<1>3. /\ DOMAIN lag' = DOMAIN lag \cup {i} /\ lag'[i] = e
      /\ \A j \in DOMAIN lag : lag'[j] = lag[j]
      /\ DOMAIN hw' = DOMAIN hw \cup {h} /\ hw'[h] = P
      /\ \A g \in DOMAIN hw : hw'[g] = hw[g]
  BY <1>1 DEF With
<1>4. TableTypeOK(idle', lag', hw')
  <2>1. \A j \in DOMAIN lag' : lag'[j] \in Entry
    BY <1>2, <1>3 DEF TableInv, TypeOK
  <2>2. \A g \in DOMAIN hw' : hw'[g] \in SUBSET Ports
    BY <1>3 DEF TableInv, TypeOK
  <2>3. lag' = [j \in DOMAIN lag' |-> lag'[j]] /\ hw' = [g \in DOMAIN hw' |-> hw'[g]]
    BY <1>1 DEF With
  <2>4. idle' \subseteq Ids /\ DOMAIN lag' \subseteq Ids /\ DOMAIN hw' \subseteq Handles
    BY <1>1, <1>3 DEF TableInv, TypeOK
  <2> QED BY <2>1, <2>2, <2>3, <2>4 DEF TableTypeOK
<1>5. PoolMatchesTable'
  BY <1>1, <1>3 DEF TableInv, PoolMatchesTable, TypeOK
<1>6. TableMatchesHw'
  <2>1. \A g \in DOMAIN hw' : \E j \in DOMAIN lag' : lag'[j].handle = g
    BY <1>3 DEF TableInv, TableMatchesHw
  <2>2. \A j \in DOMAIN lag' :
          lag'[j] = FreshEntry \/ (lag'[j].handle \in DOMAIN hw' /\ lag'[j].members = hw'[lag'[j].handle])
    BY <1>3 DEF TableInv, TableMatchesHw
  <2>3. \A j \in DOMAIN lag : lag[j].handle # h
    BY <1>1, HandleAssumption DEF TableInv, TableMatchesHw, FreshEntry
  <2>4. \A j, k \in DOMAIN lag' : lag'[j].handle = lag'[k].handle /\ lag'[j] # FreshEntry => j = k
    BY <1>3, <2>3 DEF TableInv, TableMatchesHw
  <2> QED BY <2>1, <2>2, <2>4 DEF TableMatchesHw
<1> QED BY <1>1, <1>3, <1>4, <1>5, <1>6

\* A failed creation may leave an entry behind; the table stays faithful.
LEMMA NotCreatedKeepsTable ==
  ASSUME TableInv, LagNotCreated
  PROVE  /\ TableTypeOK(idle', lag', hw') /\ PoolMatchesTable' /\ TableMatchesHw'
         /\ \A j \in DOMAIN lag : j \in DOMAIN lag' /\ lag'[j] = lag[j]
         /\ hw' = hw
<1>1. CASE UNCHANGED <<idle, lag, hw>>
  BY <1>1 DEF TableTypeOK, TableInv, TypeOK, PoolMatchesTable, TableMatchesHw
<1>2. CASE ~UNCHANGED <<idle, lag, hw>>
  <2>1. PICK i \in idle : idle' = idle \ {i} /\ lag' = With(lag, i, FreshEntry) /\ hw' = hw
    BY <1>2 DEF LagNotCreated
  <2>2. i \in Ids /\ i \notin DOMAIN lag
    BY DEF TableInv, TypeOK, PoolMatchesTable
  <2>3. /\ DOMAIN lag' = DOMAIN lag \cup {i} /\ lag'[i] = FreshEntry
        /\ \A j \in DOMAIN lag : lag'[j] = lag[j]
    BY <2>1, <2>2 DEF With
  <2>4. FreshEntry \in Entry
    BY DEF FreshEntry, Entry
  <2>5. TableTypeOK(idle', lag', hw')
    <3>1. \A j \in DOMAIN lag' : lag'[j] \in Entry
      BY <2>3, <2>4 DEF TableInv, TypeOK
    <3>2. lag' = [j \in DOMAIN lag' |-> lag'[j]]
      BY <2>1 DEF With
    <3>3. DOMAIN lag' \subseteq Ids /\ idle' \subseteq Ids
      BY <2>1, <2>2, <2>3 DEF TableInv, TypeOK
    <3> QED BY <2>1, <3>1, <3>2, <3>3 DEF TableTypeOK, TableInv, TypeOK
  <2>6. PoolMatchesTable'
    BY <2>1, <2>2, <2>3 DEF TableInv, PoolMatchesTable, TypeOK
  <2>7. TableMatchesHw'
    <3>1. \A g \in DOMAIN hw' : \E j \in DOMAIN lag' : lag'[j].handle = g
      BY <2>1, <2>3 DEF TableInv, TableMatchesHw
    <3>2. \A j \in DOMAIN lag' :
            lag'[j] = FreshEntry \/ (lag'[j].handle \in DOMAIN hw' /\ lag'[j].members = hw'[lag'[j].handle])
      BY <2>1, <2>3 DEF TableInv, TableMatchesHw
    <3>3. \A j \in DOMAIN lag : lag[j].handle = NoHandle => lag[j] = FreshEntry
      BY HandleAssumption DEF TableInv, TableMatchesHw, TypeOK
    <3>4. \A j, k \in DOMAIN lag' : lag'[j].handle = lag'[k].handle /\ lag'[j] # FreshEntry => j = k
      <4> SUFFICES ASSUME NEW j \in DOMAIN lag', NEW k \in DOMAIN lag',
                          lag'[j].handle = lag'[k].handle, lag'[j] # FreshEntry
                   PROVE  j = k
        OBVIOUS
      <4>1. FreshEntry.handle = NoHandle
        BY DEF FreshEntry
      <4>2. j \in DOMAIN lag /\ lag'[j] = lag[j]
        BY <2>3
      <4>3. k # i
        BY <2>3, <3>3, <4>1, <4>2
      <4> QED BY <2>3, <4>2, <4>3 DEF TableInv, TableMatchesHw
    <3> QED BY <3>1, <3>2, <3>4 DEF TableMatchesHw
  <2> QED BY <2>1, <2>3, <2>5, <2>6, <2>7
<1> QED BY <1>1, <1>2

\* Changing the members of one LAG keeps the table faithful and every handle.
LEMMA MembersKeepTable ==
  ASSUME TableInv, NEW i \in DOMAIN lag, lag[i].handle \in DOMAIN hw,
         NEW P \in SUBSET Ports, MembersBecome(i, P)
  PROVE  /\ TableTypeOK(idle', lag', hw') /\ PoolMatchesTable' /\ TableMatchesHw'
         /\ DOMAIN lag' = DOMAIN lag /\ DOMAIN hw' = DOMAIN hw
         /\ \A j \in DOMAIN lag : lag'[j].handle = lag[j].handle
<1> DEFINE h == lag[i].handle
<1>1. /\ lag' = [lag EXCEPT ![i].members = P] /\ hw' = [hw EXCEPT ![h] = P] /\ idle' = idle
  BY DEF MembersBecome
<1>2. /\ lag \in [DOMAIN lag -> Entry] /\ hw \in [DOMAIN hw -> SUBSET Ports]
      /\ DOMAIN lag \subseteq Ids /\ DOMAIN hw \subseteq Handles
  BY DEF TableInv, TypeOK
<1>3. /\ DOMAIN lag' = DOMAIN lag /\ DOMAIN hw' = DOMAIN hw
      /\ lag'[i] = [lag[i] EXCEPT !.members = P] /\ \A j \in DOMAIN lag : j # i => lag'[j] = lag[j]
      /\ hw'[h] = P /\ \A g \in DOMAIN hw : g # h => hw'[g] = hw[g]
  BY <1>1, <1>2
<1>4. lag'[i] \in Entry /\ lag'[i].handle = h /\ lag'[i].members = P
  BY <1>2, <1>3 DEF Entry
<1>5. \A j \in DOMAIN lag : lag'[j].handle = lag[j].handle
  BY <1>3, <1>4
<1>6. TableTypeOK(idle', lag', hw')
  BY <1>1, <1>2, <1>3, <1>4 DEF TableTypeOK, TableInv, TypeOK
<1>7. PoolMatchesTable'
  BY <1>1, <1>3 DEF TableInv, PoolMatchesTable
<1>8. lag[i] # FreshEntry
  BY <1>2, HandleAssumption DEF FreshEntry
<1>9. \A j \in DOMAIN lag : j # i => lag[j].handle # h
  BY <1>8 DEF TableInv, TableMatchesHw
<1>10. TableMatchesHw'
  <2>1. \A g \in DOMAIN hw' : \E j \in DOMAIN lag' : lag'[j].handle = g
    BY <1>3, <1>5 DEF TableInv, TableMatchesHw
  <2>2. \A j \in DOMAIN lag' :
          lag'[j] = FreshEntry \/ (lag'[j].handle \in DOMAIN hw' /\ lag'[j].members = hw'[lag'[j].handle])
    <3> SUFFICES ASSUME NEW j \in DOMAIN lag
                 PROVE  \/ lag'[j] = FreshEntry
                        \/ lag'[j].handle \in DOMAIN hw' /\ lag'[j].members = hw'[lag'[j].handle]
      BY <1>3
    <3>1. CASE j = i
      BY <1>3, <1>4, <3>1
    <3>2. CASE j # i
      BY <1>3, <1>9, <3>2 DEF TableInv, TableMatchesHw
    <3> QED BY <3>1, <3>2
  <2>3. \A j, k \in DOMAIN lag' : lag'[j].handle = lag'[k].handle /\ lag'[j] # FreshEntry => j = k
    BY <1>3, <1>4, <1>5, <1>9 DEF TableInv, TableMatchesHw
  <2> QED BY <2>1, <2>2, <2>3 DEF TableMatchesHw
<1> QED BY <1>3, <1>5, <1>6, <1>7, <1>10

\* Removing a LAG keeps the table faithful and leaves the other entries alone.
LEMMA RemovedKeepsTable ==
  ASSUME TableInv, NEW i \in DOMAIN lag, lag[i].handle \in DOMAIN hw,
         NEW P \in SUBSET Ports, LagRemoved(i, P)
  PROVE  /\ TableTypeOK(idle', lag', hw') /\ PoolMatchesTable' /\ TableMatchesHw'
         /\ \A j \in DOMAIN lag \ {i} : j \in DOMAIN lag' /\ lag'[j].handle = lag[j].handle
         /\ DOMAIN hw \ {lag[i].handle} \subseteq DOMAIN hw'
         /\ \A j \in DOMAIN lag \ {i} : lag[j].handle # lag[i].handle
<1> DEFINE h == lag[i].handle
<1>1. lag[i] # FreshEntry
  BY HandleAssumption DEF FreshEntry, TableInv, TypeOK
<1>2. \A j \in DOMAIN lag \ {i} : lag[j].handle # h
  BY <1>1 DEF TableInv, TableMatchesHw
<1>3. CASE MembersBecome(i, P)
  BY <1>2, <1>3, MembersKeepTable
<1>4. CASE ~MembersBecome(i, P)
  <2>1. idle' = idle \cup {i} /\ lag' = Without(lag, i) /\ hw' = Without(hw, h)
    BY <1>4 DEF LagRemoved
  <2>2. /\ DOMAIN lag' = DOMAIN lag \ {i} /\ DOMAIN hw' = DOMAIN hw \ {h}
        /\ \A j \in DOMAIN lag' : lag'[j] = lag[j]
        /\ \A g \in DOMAIN hw' : hw'[g] = hw[g]
    BY <2>1 DEF Without
  <2>3. TableTypeOK(idle', lag', hw')
    <3>1. lag' = [j \in DOMAIN lag' |-> lag'[j]] /\ hw' = [g \in DOMAIN hw' |-> hw'[g]]
      BY <2>1 DEF Without
    <3>2. \A j \in DOMAIN lag' : lag'[j] \in Entry
      BY <2>2 DEF TableInv, TypeOK
    <3>3. \A g \in DOMAIN hw' : hw'[g] \in SUBSET Ports
      BY <2>2 DEF TableInv, TypeOK
    <3>4. idle' \subseteq Ids /\ DOMAIN lag' \subseteq Ids /\ DOMAIN hw' \subseteq Handles
      BY <2>1, <2>2 DEF TableInv, TypeOK
    <3> QED BY <3>1, <3>2, <3>3, <3>4 DEF TableTypeOK
  <2>4. PoolMatchesTable'
    BY <2>1, <2>2 DEF TableInv, PoolMatchesTable, TypeOK
  <2>5. TableMatchesHw'
    BY <1>2, <2>2 DEF TableInv, TableMatchesHw
  <2> QED BY <1>2, <2>2, <2>3, <2>4, <2>5
<1> QED BY <1>3, <1>4

-----------------------------------------------------------------------------

\* The invariant holds initially.
LEMMA LagInvInit == Init => LagInv
<1> SUFFICES ASSUME Init PROVE LagInv
  OBVIOUS
<1>1. DOMAIN lag = {} /\ DOMAIN hw = {}
  BY DEF Init
<1>2. TypeOK
  BY <1>1 DEF Init, TypeOK
<1>3. PoolMatchesTable /\ TableMatchesHw /\ BundlesOwnTheirLag
  BY <1>1 DEF Init, PoolMatchesTable, TableMatchesHw, BundlesOwnTheirLag
<1> QED BY <1>2, <1>3 DEF LagInv, TableInv

\* The provider's variables have their types after any step.
LEMMA ProviderType ==
  ASSUME TypeOK, Next
  PROVE  /\ lagId' \in [Bundles -> Ids \cup {-1}]
         /\ isLag' \in [Bundles -> BOOLEAN]
         /\ linked' \in [Bundles -> SUBSET Ports]
         /\ failed' \in BOOLEAN
<1> USE DEF TypeOK
<1> PICK b \in Bundles :
      \/ BundleGetsLag(b)
      \/ BundleGetsNoLag(b)
      \/ \E p \in Ports : LinkPort(b, p) \/ UnlinkPort(b, p)
      \/ DestroyBundle(b)
  BY DEF Next
<1>1. CASE BundleGetsLag(b)
  <2>1. PICK i \in Ids : lagId' = [lagId EXCEPT ![b] = i] /\ isLag' = [isLag EXCEPT ![b] = TRUE]
    BY <1>1 DEF BundleGetsLag
  <2>2. failed' \in BOOLEAN
    BY <1>1 DEF BundleGetsLag, Works, Fails
  <2> QED BY <1>1, <2>1, <2>2 DEF BundleGetsLag
<1>2. CASE BundleGetsNoLag(b)
  BY <1>2 DEF BundleGetsNoLag, LagNotCreated, Works, Fails
<1>3. CASE \E p \in Ports : LinkPort(b, p) \/ UnlinkPort(b, p)
  <2>1. failed' \in BOOLEAN
    BY <1>3 DEF LinkPort, UnlinkPort, Works, Fails
  <2> QED BY <1>3, <2>1 DEF LinkPort, UnlinkPort
<1>4. CASE DestroyBundle(b)
  <2>1. failed' \in BOOLEAN
    BY <1>4 DEF DestroyBundle, LagRemoved, Works, Fails
  <2> QED BY <1>4, <2>1 DEF DestroyBundle
<1> QED BY <1>1, <1>2, <1>3, <1>4

\* The invariant is inductive.
LEMMA LagInvNext == LagInv /\ [Next]_vars => LagInv'
<1> SUFFICES ASSUME LagInv, [Next]_vars PROVE LagInv'
  OBVIOUS
<1>1. TableInv /\ TypeOK /\ BundlesOwnTheirLag
  BY DEF LagInv, TableInv
<1>2. ASSUME Next, TableTypeOK(idle', lag', hw') PROVE TypeOK'
  BY <1>1, <1>2, ProviderType DEF TypeOK, TableTypeOK
<1>3. ASSUME NEW b \in Bundles, isLag[b]
      PROVE  lagId[b] \in DOMAIN lag /\ lag[lagId[b]].handle \in DOMAIN hw
  BY <1>1, <1>3 DEF BundlesOwnTheirLag
<1>4. ASSUME NEW b \in Bundles, BundleGetsLag(b) PROVE LagInv'
  <2>1. PICK i \in Ids, h \in Handles, P \in SUBSET linked[b] :
          /\ LagCreated(i, h, P)
          /\ lagId' = [lagId EXCEPT ![b] = i] /\ isLag' = [isLag EXCEPT ![b] = TRUE]
    BY <1>4 DEF BundleGetsLag
  <2>2. P \in SUBSET Ports
    BY <1>1 DEF TypeOK
  <2>3. /\ TableTypeOK(idle', lag', hw') /\ PoolMatchesTable' /\ TableMatchesHw'
        /\ i \in DOMAIN lag' /\ i \notin DOMAIN lag /\ lag'[i].handle \in DOMAIN hw'
        /\ \A j \in DOMAIN lag : j \in DOMAIN lag' /\ lag'[j] = lag[j]
        /\ DOMAIN hw \subseteq DOMAIN hw'
    BY <1>1, <2>1, <2>2, CreatedKeepsTable
  <2>4. /\ lagId'[b] = i /\ isLag'[b]
        /\ \A c \in Bundles : c # b => lagId'[c] = lagId[c] /\ isLag'[c] = isLag[c]
    BY <1>1, <2>1 DEF TypeOK
  <2>5. BundlesOwnTheirLag'
    BY <1>1, <2>3, <2>4 DEF BundlesOwnTheirLag
  <2> QED BY <1>2, <1>4, <2>3, <2>5 DEF LagInv, TableInv, Next
<1>5. ASSUME NEW b \in Bundles, BundleGetsNoLag(b) PROVE LagInv'
  <2>1. LagNotCreated /\ UNCHANGED <<lagId, isLag>>
    BY <1>5 DEF BundleGetsNoLag
  <2>2. /\ TableTypeOK(idle', lag', hw') /\ PoolMatchesTable' /\ TableMatchesHw'
        /\ \A j \in DOMAIN lag : j \in DOMAIN lag' /\ lag'[j] = lag[j]
        /\ hw' = hw
    BY <1>1, <2>1, NotCreatedKeepsTable
  <2>3. BundlesOwnTheirLag'
    BY <1>1, <2>1, <2>2 DEF BundlesOwnTheirLag
  <2> QED BY <1>2, <1>5, <2>2, <2>3 DEF LagInv, TableInv, Next
<1>6. ASSUME NEW b \in Bundles, NEW p \in Ports, LinkPort(b, p) \/ UnlinkPort(b, p)
      PROVE  LagInv'
  <2>1. UNCHANGED <<lagId, isLag>>
    BY <1>6 DEF LinkPort, UnlinkPort
  <2>2. CASE UNCHANGED <<idle, lag, hw>>
    <3>1. TableTypeOK(idle', lag', hw')
      BY <1>1, <2>2 DEF TypeOK, TableTypeOK
    <3>2. PoolMatchesTable' /\ TableMatchesHw' /\ BundlesOwnTheirLag'
      BY <1>1, <2>1, <2>2 DEF TableInv, PoolMatchesTable, TableMatchesHw, BundlesOwnTheirLag
    <3> QED BY <1>2, <1>6, <3>1, <3>2 DEF LagInv, TableInv, Next
  <2>3. CASE ~UNCHANGED <<idle, lag, hw>>
    <3>1. isLag[b] /\ \E P : P \in {lag[lagId[b]].members \cup {p}, lag[lagId[b]].members \ {p}}
                             /\ MembersBecome(lagId[b], P)
      BY <1>6, <2>3 DEF LinkPort, UnlinkPort
    <3>2. lagId[b] \in DOMAIN lag /\ lag[lagId[b]].handle \in DOMAIN hw
      BY <1>3, <3>1
    <3>3. lag[lagId[b]].members \in SUBSET Ports
      BY <1>1, <3>2 DEF TypeOK, Entry
    <3>4. PICK P \in SUBSET Ports : MembersBecome(lagId[b], P)
      BY <3>1, <3>3
    <3>5. /\ TableTypeOK(idle', lag', hw') /\ PoolMatchesTable' /\ TableMatchesHw'
          /\ DOMAIN lag' = DOMAIN lag /\ DOMAIN hw' = DOMAIN hw
          /\ \A j \in DOMAIN lag : lag'[j].handle = lag[j].handle
      BY <1>1, <3>2, <3>4, MembersKeepTable
    <3>6. BundlesOwnTheirLag'
      BY <1>1, <2>1, <3>5 DEF BundlesOwnTheirLag
    <3> QED BY <1>2, <1>6, <3>5, <3>6 DEF LagInv, TableInv, Next
  <2> QED BY <2>2, <2>3
<1>7. ASSUME NEW b \in Bundles, DestroyBundle(b) PROVE LagInv'
  <2>1. /\ ~isLag'[b]
        /\ \A c \in Bundles : c # b => lagId'[c] = lagId[c] /\ isLag'[c] = isLag[c]
    BY <1>1, <1>7 DEF DestroyBundle, TypeOK
  <2>2. CASE ~isLag[b]
    <3>1. UNCHANGED <<idle, lag, hw>>
      BY <1>7, <2>2 DEF DestroyBundle
    <3>2. TableTypeOK(idle', lag', hw')
      BY <1>1, <3>1 DEF TypeOK, TableTypeOK
    <3>3. PoolMatchesTable' /\ TableMatchesHw' /\ BundlesOwnTheirLag'
      BY <1>1, <2>1, <3>1 DEF TableInv, PoolMatchesTable, TableMatchesHw, BundlesOwnTheirLag
    <3> QED BY <1>2, <1>7, <3>2, <3>3 DEF LagInv, TableInv, Next
  <2>3. CASE isLag[b]
    <3> DEFINE i == lagId[b]
    <3>1. i \in DOMAIN lag /\ lag[i].handle \in DOMAIN hw
      BY <1>3, <2>3
    <3>2. PICK P \in SUBSET lag[i].members : LagRemoved(i, P)
      BY <1>7, <2>3 DEF DestroyBundle
    <3>3. P \in SUBSET Ports
      BY <1>1, <3>1 DEF TypeOK, Entry
    <3>4. /\ TableTypeOK(idle', lag', hw') /\ PoolMatchesTable' /\ TableMatchesHw'
          /\ \A j \in DOMAIN lag \ {i} : j \in DOMAIN lag' /\ lag'[j].handle = lag[j].handle
          /\ DOMAIN hw \ {lag[i].handle} \subseteq DOMAIN hw'
          /\ \A j \in DOMAIN lag \ {i} : lag[j].handle # lag[i].handle
      BY <1>1, <3>1, <3>2, <3>3, RemovedKeepsTable
    <3>5. \A c \in Bundles : isLag[c] /\ c # b => lagId[c] # i
      BY <1>1, <2>3 DEF BundlesOwnTheirLag
    <3>6. BundlesOwnTheirLag'
      BY <1>1, <2>1, <3>4, <3>5 DEF BundlesOwnTheirLag
    <3> QED BY <1>2, <1>7, <3>4, <3>6 DEF LagInv, TableInv, Next
  <2> QED BY <2>2, <2>3
<1>8. CASE UNCHANGED vars
  BY <1>8 DEF vars, LagInv, TableInv, TypeOK, PoolMatchesTable, TableMatchesHw, BundlesOwnTheirLag
<1> QED BY <1>4, <1>5, <1>6, <1>7, <1>8 DEF Next

\* The invariant holds in every reachable state.
THEOREM LagInvariant == Spec => []LagInv
BY LagInvInit, LagInvNext, PTL DEF Spec

\* The variables always have their types.
THEOREM LagTypeCorrect == Spec => []TypeOK
BY LagInvariant, PTL DEF LagInv, TableInv

\* An id is idle or has an entry, never both, even after SAI refused a LAG.
THEOREM PoolMatchesTableHolds == Spec => []PoolMatchesTable
BY LagInvariant, PTL DEF LagInv, TableInv

\* all_lag is a faithful copy of SAI's LAGs, whatever SAI refused.
THEOREM TableMatchesHwHolds == Spec => []TableMatchesHw
BY LagInvariant, PTL DEF LagInv, TableInv

\* The pool, the table and SAI's LAGs agree, whatever SAI refused.
THEOREM LagClassIsFaithfulHolds == Spec => []LagClassIsFaithful
BY LagInvariant, PTL DEF LagInv, TableInv, LagClassIsFaithful

\* No bundle adds its ports to another bundle's LAG, or removes it.
THEOREM BundlesOwnTheirLagHolds == Spec => []BundlesOwnTheirLag
BY LagInvariant, PTL DEF LagInv

-----------------------------------------------------------------------------

\* A port is listed by one bundle at most, so that a port of SAI's LAGs has one
\* bundle that unlinks it.
LinkedOnce == \A b, c \in Bundles : linked[b] \cap linked[c] # {} => b = c

FollowInv == LinkedOnce /\ LagsFollowBundles

\* While nothing failed, a port no LAG bundle lists is in no LAG of SAI.
LEMMA StrangersAreInNoLag ==
  ASSUME LagInv, FollowInv, ~failed, NEW p \in Ports,
         \A c \in Bundles : isLag[c] => p \notin linked[c]
  PROVE  ~InSomeLag(p)
<1> SUFFICES ASSUME NEW h \in DOMAIN hw, p \in hw[h] PROVE FALSE
  BY DEF InSomeLag
<1>1. PICK i \in DOMAIN lag : lag[i].handle = h
  BY DEF LagInv, TableInv, TableMatchesHw
<1>2. PICK c \in Bundles : isLag[c] /\ lagId[c] = i
  BY DEF FollowInv, LagsFollowBundles
<1> QED BY <1>1, <1>2 DEF FollowInv, LagsFollowBundles

\* Every step keeps the members of each LAG and the ports of its bundle alike.
LEMMA FollowInvNext == LagInv /\ LagInv' /\ FollowInv /\ [Next]_vars => FollowInv'
<1> SUFFICES ASSUME LagInv, LagInv', FollowInv, [Next]_vars PROVE FollowInv'
  OBVIOUS
<1> DEFINE Owned(i) == \E c \in Bundles : isLag[c] /\ lagId[c] = i
           Full(c) == isLag[c] => hw[lag[lagId[c]].handle] = linked[c]
<1>1. TypeOK /\ PoolMatchesTable /\ TableMatchesHw /\ BundlesOwnTheirLag
  BY DEF LagInv, TableInv
<1>2. ASSUME NEW b \in Bundles, BundleGetsLag(b) PROVE FollowInv'
  <2>1. PICK i \in Ids, h \in Handles, P \in SUBSET linked[b] :
          /\ LagCreated(i, h, P)
          /\ \A p \in P : ~InSomeLag(p)
          /\ IF \A p \in linked[b] : p \in P \/ InSomeLag(p) THEN Works ELSE Fails
          /\ lagId' = [lagId EXCEPT ![b] = i] /\ isLag' = [isLag EXCEPT ![b] = TRUE]
    BY <1>2 DEF BundleGetsLag
  <2>2. LinkedOnce'
    BY <1>2 DEF BundleGetsLag, FollowInv, LinkedOnce
  <2>3. ASSUME ~failed' PROVE LagsFollowBundles'
    <3>1. ~failed /\ \A p \in linked[b] : p \in P \/ InSomeLag(p)
      BY <2>1, <2>3 DEF Works, Fails
    <3>2. ~isLag[b]
      <4>1. lagId[b] = -1 /\ \A j \in DOMAIN lag : j \in Ids
        BY <1>1, <1>2 DEF BundleGetsLag, TypeOK
      <4>2. -1 \notin Ids
        BY PoolAssumption DEF Ids
      <4> QED BY <1>1, <4>1, <4>2 DEF BundlesOwnTheirLag
    <3>3. \A p \in linked[b] : ~InSomeLag(p)
      <4> SUFFICES ASSUME NEW p \in linked[b] PROVE ~InSomeLag(p)
        OBVIOUS
      <4>1. p \in Ports
        BY <1>1 DEF TypeOK
      <4>2. \A c \in Bundles : isLag[c] => p \notin linked[c]
        BY <3>2 DEF FollowInv, LinkedOnce
      <4> QED BY <3>1, <4>1, <4>2, StrangersAreInNoLag
    <3>4. P = linked[b] /\ linked' = linked
      BY <1>2, <3>1, <3>3 DEF BundleGetsLag
    <3>5. /\ DOMAIN lag' = DOMAIN lag \cup {i} /\ lag'[i].handle = h /\ i \notin DOMAIN lag
          /\ \A j \in DOMAIN lag : lag'[j] = lag[j]
          /\ hw'[h] = P /\ h \notin DOMAIN hw /\ \A g \in DOMAIN hw : hw'[g] = hw[g]
      BY <1>1, <2>1 DEF LagCreated, IsNextId, With, PoolMatchesTable
    <3>6. /\ lagId'[b] = i /\ isLag'[b]
          /\ \A c \in Bundles : c # b => lagId'[c] = lagId[c] /\ isLag'[c] = isLag[c]
      BY <1>1, <2>1 DEF TypeOK
    <3>7. \A c \in Bundles : Full(c)'
      <4> SUFFICES ASSUME NEW c \in Bundles, isLag'[c]
                   PROVE  hw'[lag'[lagId'[c]].handle] = linked'[c]
        OBVIOUS
      <4>1. CASE c = b
        BY <3>4, <3>5, <3>6, <4>1
      <4>2. CASE c # b
        <5>1. isLag[c] /\ lagId[c] \in DOMAIN lag /\ lag[lagId[c]].handle \in DOMAIN hw
          BY <1>1, <3>6, <4>2 DEF BundlesOwnTheirLag
        <5>2. hw[lag[lagId[c]].handle] = linked[c]
          BY <3>1, <5>1 DEF FollowInv, LagsFollowBundles
        <5> QED BY <3>4, <3>5, <3>6, <4>2, <5>1, <5>2
      <4> QED BY <4>1, <4>2
    <3>8. \A j \in DOMAIN lag' : Owned(j)'
      <4> SUFFICES ASSUME NEW j \in DOMAIN lag' PROVE \E c \in Bundles : isLag'[c] /\ lagId'[c] = j
        OBVIOUS
      <4>1. CASE j = i
        BY <3>6, <4>1
      <4>2. CASE j # i
        <5>1. PICK c \in Bundles : isLag[c] /\ lagId[c] = j
          BY <3>1, <3>5, <4>2 DEF FollowInv, LagsFollowBundles
        <5> QED BY <3>2, <3>6, <5>1
      <4> QED BY <4>1, <4>2
    <3> QED BY <3>7, <3>8 DEF LagsFollowBundles
  <2> QED BY <2>2, <2>3 DEF FollowInv, LagsFollowBundles
<1>3. ASSUME NEW b \in Bundles, BundleGetsNoLag(b) PROVE FollowInv'
  <2>1. LinkedOnce'
    BY <1>3 DEF BundleGetsNoLag, FollowInv, LinkedOnce
  <2>2. ASSUME ~failed' PROVE ~failed /\ UNCHANGED <<idle, lag, hw, lagId, isLag, linked>>
    BY <1>3, <2>2 DEF BundleGetsNoLag, LagNotCreated, Works, Fails
  <2> QED BY <2>1, <2>2 DEF FollowInv, LagsFollowBundles
<1>4. ASSUME NEW b \in Bundles, NEW p \in Ports, LinkPort(b, p) \/ UnlinkPort(b, p)
      PROVE  FollowInv'
  <2>1. /\ linked'[b] = linked[b] \cup {p} \/ linked'[b] = linked[b] \ {p}
        /\ LinkPort(b, p) => linked'[b] = linked[b] \cup {p} /\ Unlinked(p)
        /\ UnlinkPort(b, p) => linked'[b] = linked[b] \ {p}
        /\ \A c \in Bundles : c # b => linked'[c] = linked[c]
    BY <1>1, <1>4 DEF LinkPort, UnlinkPort, TypeOK
  <2>2. LinkedOnce'
    BY <1>4, <2>1 DEF FollowInv, LinkedOnce, Unlinked
  <2>3. UNCHANGED <<lagId, isLag>>
    BY <1>4 DEF LinkPort, UnlinkPort
  <2>4. ASSUME ~failed' PROVE LagsFollowBundles'
    <3>1. ~failed
      BY <1>4, <2>4 DEF LinkPort, UnlinkPort, Works, Fails
    <3>2. CASE ~isLag[b]
      <4>1. UNCHANGED <<lag, hw>>
        BY <1>4, <3>2 DEF LinkPort, UnlinkPort
      <4> QED BY <2>1, <2>3, <3>1, <3>2, <4>1 DEF FollowInv, LagsFollowBundles
    <3>3. CASE isLag[b]
      <4> DEFINE i == lagId[b]
                 h == lag[i].handle
      <4>1. i \in DOMAIN lag /\ h \in DOMAIN hw /\ hw[h] = linked[b]
        BY <1>1, <3>1, <3>3 DEF BundlesOwnTheirLag, FollowInv, LagsFollowBundles
      <4>2. lag[i].members = hw[h] /\ lag[i] # FreshEntry
        BY <1>1, <4>1, HandleAssumption DEF TableMatchesHw, FreshEntry, TypeOK
      <4>3. LinkPort(b, p) => ~InSomeLag(p)
        <5>1. LinkPort(b, p) => \A c \in Bundles : p \notin linked[c]
          BY DEF LinkPort, Unlinked
        <5> QED BY <3>1, <5>1, StrangersAreInNoLag
      <4>4. MembersBecome(i, linked'[b])
        <5>1. CASE LinkPort(b, p)
          BY <1>4, <2>1, <2>4, <3>3, <4>1, <4>2, <4>3, <5>1 DEF LinkPort, Works, Fails
        <5>2. CASE UnlinkPort(b, p)
          BY <1>4, <2>1, <2>4, <3>3, <4>1, <4>2, <5>2 DEF UnlinkPort, Works, Fails
        <5> QED BY <1>4, <5>1, <5>2
      <4>5. /\ DOMAIN lag' = DOMAIN lag /\ hw'[h] = linked'[b]
            /\ \A g \in DOMAIN hw : g # h => hw'[g] = hw[g]
        BY <1>1, <4>1, <4>4 DEF MembersBecome, TypeOK
      <4>6. \A j \in DOMAIN lag : lag'[j].handle = lag[j].handle
        <5>1. lag[i] \in Entry
          BY <1>1, <4>1 DEF TypeOK
        <5> QED BY <1>1, <4>1, <4>4, <5>1 DEF MembersBecome, TypeOK, Entry
      <4>7. ASSUME NEW c \in Bundles, isLag[c], c # b
            PROVE  /\ lagId[c] \in DOMAIN lag /\ lag[lagId[c]].handle \in DOMAIN hw
                   /\ lag[lagId[c]].handle # h /\ hw[lag[lagId[c]].handle] = linked[c]
        <5>1. lagId[c] \in DOMAIN lag /\ lag[lagId[c]].handle \in DOMAIN hw /\ lagId[c] # i
          BY <1>1, <3>3, <4>7 DEF BundlesOwnTheirLag
        <5>2. lag[lagId[c]].handle # h
          BY <1>1, <4>1, <4>2, <5>1 DEF TableMatchesHw
        <5> QED BY <3>1, <4>7, <5>1, <5>2 DEF FollowInv, LagsFollowBundles
      <4>8. \A c \in Bundles : Full(c)'
        <5> SUFFICES ASSUME NEW c \in Bundles, isLag'[c]
                     PROVE  hw'[lag'[lagId'[c]].handle] = linked'[c]
          OBVIOUS
        <5>1. CASE c = b
          BY <2>3, <4>1, <4>5, <4>6, <5>1
        <5>2. CASE c # b
          BY <2>1, <2>3, <4>5, <4>6, <4>7, <5>2
        <5> QED BY <5>1, <5>2
      <4>9. \A j \in DOMAIN lag' : Owned(j)'
        BY <2>3, <3>1, <4>5 DEF FollowInv, LagsFollowBundles
      <4> QED BY <4>8, <4>9 DEF LagsFollowBundles
    <3> QED BY <3>2, <3>3
  <2> QED BY <2>2, <2>4 DEF FollowInv, LagsFollowBundles
<1>5. ASSUME NEW b \in Bundles, DestroyBundle(b) PROVE FollowInv'
  <2>1. /\ linked'[b] = {} /\ ~isLag'[b]
        /\ \A c \in Bundles : c # b => linked'[c] = linked[c] /\ lagId'[c] = lagId[c] /\ isLag'[c] = isLag[c]
    BY <1>1, <1>5 DEF DestroyBundle, TypeOK
  <2>2. LinkedOnce'
    BY <2>1 DEF FollowInv, LinkedOnce
  <2>3. ASSUME ~failed' PROVE LagsFollowBundles'
    <3>1. CASE ~isLag[b]
      <4>1. UNCHANGED <<lag, hw, failed>>
        BY <1>5, <3>1 DEF DestroyBundle, Works
      <4> QED BY <2>1, <2>3, <3>1, <4>1 DEF FollowInv, LagsFollowBundles
    <3>2. CASE isLag[b]
      <4> DEFINE i == lagId[b]
                 h == lag[i].handle
      <4>1. ~failed /\ lag' = Without(lag, i) /\ hw' = Without(hw, h)
        BY <1>5, <2>3, <3>2 DEF DestroyBundle, LagRemoved, Works, Fails
      <4>2. /\ i \in DOMAIN lag /\ h \in DOMAIN hw
            /\ DOMAIN lag' = DOMAIN lag \ {i} /\ \A j \in DOMAIN lag' : lag'[j] = lag[j]
            /\ DOMAIN hw' = DOMAIN hw \ {h} /\ \A g \in DOMAIN hw' : hw'[g] = hw[g]
        BY <1>1, <3>2, <4>1 DEF BundlesOwnTheirLag, Without
      <4>3. lag[i] # FreshEntry
        BY <1>1, <4>2, HandleAssumption DEF FreshEntry, TypeOK
      <4>4. ASSUME NEW c \in Bundles, isLag'[c] PROVE hw'[lag'[lagId'[c]].handle] = linked'[c]
        <5>1. c # b /\ isLag[c] /\ lagId'[c] = lagId[c] /\ linked'[c] = linked[c]
          BY <2>1, <4>4
        <5>2. lagId[c] \in DOMAIN lag /\ lag[lagId[c]].handle \in DOMAIN hw /\ lagId[c] # i
          BY <1>1, <3>2, <5>1 DEF BundlesOwnTheirLag
        <5>3. lag[lagId[c]].handle # h
          BY <1>1, <4>2, <4>3, <5>2 DEF TableMatchesHw
        <5>4. hw[lag[lagId[c]].handle] = linked[c]
          BY <4>1, <5>1 DEF FollowInv, LagsFollowBundles
        <5> QED BY <4>2, <5>1, <5>2, <5>3, <5>4
      <4>5. ASSUME NEW j \in DOMAIN lag' PROVE \E c \in Bundles : isLag'[c] /\ lagId'[c] = j
        <5>1. PICK c \in Bundles : isLag[c] /\ lagId[c] = j
          BY <4>1, <4>2 DEF FollowInv, LagsFollowBundles
        <5> QED BY <2>1, <4>2, <5>1
      <4> QED BY <4>4, <4>5 DEF LagsFollowBundles
    <3> QED BY <3>1, <3>2
  <2> QED BY <2>2, <2>3 DEF FollowInv, LagsFollowBundles
<1>6. CASE UNCHANGED vars
  BY <1>6 DEF vars, FollowInv, LinkedOnce, LagsFollowBundles
<1> QED BY <1>2, <1>3, <1>4, <1>5, <1>6 DEF Next

LEMMA FollowInvariant == Spec => []FollowInv
<1>1. Init => FollowInv
  <2> SUFFICES ASSUME Init PROVE FollowInv
    OBVIOUS
  <2>1. DOMAIN lag = {}
    BY DEF Init
  <2> QED BY <2>1 DEF Init, FollowInv, LinkedOnce, LagsFollowBundles
<1> QED BY <1>1, FollowInvNext, LagInvariant, PTL DEF Spec

\* While nothing failed, each LAG of SAI has its bundle's ports as members, and
\* no id or LAG is kept that no bundle has.
THEOREM LagsFollowBundlesHolds == Spec => []LagsFollowBundles
<1>1. FollowInv => LagsFollowBundles
  BY DEF FollowInv
<1> QED BY <1>1, FollowInvariant, PTL

-----------------------------------------------------------------------------
(* Worlds, and what a world of the mirror class keeps *)

Partial(A, B) == UNION {[D -> B] : D \in SUBSET A}

Entries == [out : AllBundles, hid : Sessions \cup {None}]
Objects == Ports \cup Handles

Worlds ==
  [mirror : Partial(Mirrors, Entries),
   owner : [Directions -> [AllBundles -> Mirrors \cup {None}]],
   attr : [Directions -> [Ports -> Sessions \cup {None}]],
   monitors : Partial(Sessions, Objects),
   stop : BOOLEAN, busy : BOOLEAN]

\* MirrorsAndBundlesAgree of a world.  What a session monitors is said by the output
\* of its mirror: a LAG is that bundle's, and so is there as long as the bundle is.
OwnersLive(w) ==
  \A d \in Directions : \A x \in AllBundles :
    w.owner[d][x] # None => w.owner[d][x] \in DOMAIN w.mirror

SessionsOwned(w) ==
  /\ \A m \in DOMAIN w.mirror : w.mirror[m].hid \in DOMAIN w.monitors \cup {None}
  /\ \A m \in DOMAIN w.mirror : \A n \in DOMAIN w.mirror :
       w.mirror[m].hid = w.mirror[n].hid /\ m # n => w.mirror[m].hid = None

Monitored(x, o) == o \in Ports \/ (x \in Bundles /\ isLag[x] /\ o = HandleOf(x))

MonitorsRight(w) ==
  \A m \in DOMAIN w.mirror :
    w.mirror[m].hid # None => Monitored(w.mirror[m].out, w.monitors[w.mirror[m].hid])

OutputsThere(w, P) ==
  \A m \in DOMAIN w.mirror : w.mirror[m].out \in Ports => w.mirror[m].out \in P

Agree(w) == OwnersLive(w) /\ SessionsOwned(w) /\ MonitorsRight(w) /\ OutputsThere(w, plain)

\* OnlySourcesMirror of a world, but for the ports of T.
IsSource(w, d, p, x) ==
  /\ p \in ListedBy(x) /\ w.owner[d][x] # None
  /\ w.attr[d][p] = w.mirror[w.owner[d][x]].hid

Right(w, T) ==
  \A d \in Directions : \A p \in Ports \ T :
    w.attr[d][p] # None => \E x \in AllBundles : IsSource(w, d, p, x)

\* The ports of a bundle are those it lists, as they are while nothing failed, and a
\* port is listed by one.
Tidy == /\ \A x \in AllBundles : PortsOf(x) = ListedBy(x)
        /\ \A x \in AllBundles : \A y \in AllBundles : ListedBy(x) \cap ListedBy(y) # {} => x = y

Exclusive == \A p \in plain : \A b \in Bundles : p \notin linked[b]

MirrorInv ==
  /\ World \in Worlds /\ plain \subseteq Ports /\ stale \subseteq Ports /\ stopped \in BOOLEAN
  /\ Exclusive
  /\ ~stopped => Agree(World)
  /\ ~stopped /\ ~failed => Right(World, stale)

\* No bundle has another mirror than it had.
OwnersLeave(w, v) ==
  \A d \in Directions : \A x \in AllBundles : v.owner[d][x] = None \/ v.owner[d][x] = w.owner[d][x]

\* A world is as right as the one it came from.
Keeps(w, v) ==
  /\ v \in Worlds /\ (w.stop => v.stop)
  /\ ~v.stop /\ Agree(w) => Agree(v)
  /\ \A T : ~v.stop /\ Tidy /\ Agree(w) /\ Right(w, T) => Right(v, T)

-----------------------------------------------------------------------------
(* Partial functions *)

LEMMA PartialElim ==
  ASSUME NEW A, NEW B, NEW f \in Partial(A, B)
  PROVE  DOMAIN f \subseteq A /\ f \in [DOMAIN f -> B]
BY DEF Partial

LEMMA PartialIntro ==
  ASSUME NEW A, NEW B, NEW D \in SUBSET A, NEW f \in [D -> B]
  PROVE  f \in Partial(A, B)
BY DEF Partial

\* Function g is f, with x mapped to y.
IsWith(g, f, x, y) ==
  /\ \A z : z \in DOMAIN g <=> z \in DOMAIN f \/ z = x
  /\ g[x] = y /\ \A z \in DOMAIN f : z # x => g[z] = f[z]

LEMMA WithIs ==
  ASSUME NEW A, NEW B, NEW f \in Partial(A, B), NEW x \in A, NEW y \in B
  PROVE  With(f, x, y) \in Partial(A, B) /\ IsWith(With(f, x, y), f, x, y)
<1>1. DOMAIN f \cup {x} \in SUBSET A /\ f \in [DOMAIN f -> B]
  BY PartialElim
<1>2. With(f, x, y) \in [DOMAIN f \cup {x} -> B]
  BY <1>1 DEF With
<1>3. With(f, x, y) \in Partial(A, B)
  BY <1>1, <1>2, PartialIntro
<1>4. IsWith(With(f, x, y), f, x, y)
  BY DEF With, IsWith
<1> QED
  BY <1>3, <1>4

\* A function on fewer arguments.
LEMMA FewerIs ==
  ASSUME NEW A, NEW B, NEW f \in Partial(A, B), NEW X, NEW g, g = [z \in DOMAIN f \ X |-> f[z]]
  PROVE  /\ g \in Partial(A, B) /\ DOMAIN g = DOMAIN f \ X /\ \A z \in DOMAIN g : g[z] = f[z]
<1>1. DOMAIN f \ X \in SUBSET A /\ f \in [DOMAIN f -> B]
  BY PartialElim
<1>2. g \in [DOMAIN f \ X -> B]
  BY <1>1
<1>3. g \in Partial(A, B)
  BY <1>1, <1>2, PartialIntro
<1> QED
  BY <1>3

-----------------------------------------------------------------------------
(* What the steps of a call change *)

\* Bundles S lost their mirrors, unless the process stopped.
LostSources(w, v, S) ==
  \A d \in Directions : \A x \in AllBundles :
    /\ v.owner[d][x] = None \/ v.owner[d][x] = w.owner[d][x]
    /\ ~v.stop => v.owner[d][x] = IF <<d, x>> \in S THEN None ELSE w.owner[d][x]

LEMMA SourcesLeaveIs ==
  ASSUME NEW w \in Worlds, NEW S \in SUBSET (Directions \X AllBundles), NEW v,
         v = SourcesLeave(w, S)
  PROVE  /\ v \in Worlds /\ v.mirror = w.mirror /\ v.monitors = w.monitors
         /\ v.busy = w.busy /\ (w.stop => v.stop)
         /\ LostSources(w, v, S)
         /\ \A d \in Directions : \A p \in Ports :
              /\ v.attr[d][p] = None \/ v.attr[d][p] = w.attr[d][p]
              /\ \A x \in AllBundles :
                   ~v.stop /\ <<d, x>> \in S /\ p \in ListedBy(x) /\ p \in PortsOf(x)
                     => v.attr[d][p] = None
<1> DEFINE listed == {q \in S : ListedBy(q[2]) # {}}
           P(d) == UNION {PortsOf(q[2]) : q \in {r \in listed : r[1] = d}}
           own == [d \in Directions |->
                     [x \in AllBundles |-> IF <<d, x>> \in S THEN None ELSE w.owner[d][x]]]
           att == [d \in Directions |->
                     [p \in Ports |-> IF p \in P(d) THEN None ELSE w.attr[d][p]]]
<1>1. CASE \E q \in listed : ~HasObject(q[2])
  <2>1. v = [w EXCEPT !.stop = TRUE]
    BY <1>1 DEF SourcesLeave
  <2> QED
    BY <2>1 DEF Worlds, LostSources
<1>2. CASE ~\E q \in listed : ~HasObject(q[2])
  <2>1. v = [w EXCEPT !.owner = own, !.attr = att]
    BY <1>2 DEF SourcesLeave
  <2>2. /\ own \in [Directions -> [AllBundles -> Mirrors \cup {None}]]
        /\ \A d \in Directions : \A x \in AllBundles :
             own[d][x] = IF <<d, x>> \in S THEN None ELSE w.owner[d][x]
    BY DEF Worlds
  <2>3. /\ att \in [Directions -> [Ports -> Sessions \cup {None}]]
        /\ \A d \in Directions : \A p \in Ports :
             att[d][p] = IF p \in P(d) THEN None ELSE w.attr[d][p]
    <3> HIDE DEF P
    <3> QED
      BY DEF Worlds
  <2>4. ASSUME NEW d \in Directions, NEW p \in Ports, NEW x \in AllBundles, <<d, x>> \in S,
               p \in ListedBy(x), p \in PortsOf(x)
        PROVE  p \in P(d)
    <3>1. <<d, x>> \in {r \in listed : r[1] = d}
      BY <2>4
    <3>2. PortsOf(<<d, x>>[2]) = PortsOf(x)
      OBVIOUS
    <3> QED
      BY <2>4, <3>1, <3>2
  <2> HIDE DEF own, att, P
  <2>5. /\ v \in Worlds /\ v.owner = own /\ v.attr = att /\ v.mirror = w.mirror
        /\ v.monitors = w.monitors /\ v.busy = w.busy /\ v.stop = w.stop
    BY <2>1, <2>2, <2>3 DEF Worlds
  <2> QED
    BY <2>2, <2>3, <2>4, <2>5 DEF LostSources
<1> QED
  BY <1>1, <1>2

\* A world in which sources have left is as right as it was.
LEMMA SourcesLeaveAgree ==
  ASSUME NEW w \in Worlds, NEW S \in SUBSET (Directions \X AllBundles), NEW v,
         v = SourcesLeave(w, S), ~v.stop
  PROVE  /\ Agree(w) => Agree(v)
         /\ \A T : Tidy /\ Right(w, T) => Right(v, T)
<1>0. v.mirror = w.mirror /\ v.monitors = w.monitors
  BY SourcesLeaveIs
<1>1. /\ v.mirror = w.mirror /\ v.monitors = w.monitors
      /\ \A d \in Directions : \A x \in AllBundles :
           /\ v.owner[d][x] = None \/ v.owner[d][x] = w.owner[d][x]
           /\ v.owner[d][x] = IF <<d, x>> \in S THEN None ELSE w.owner[d][x]
      /\ \A d \in Directions : \A p \in Ports :
           /\ v.attr[d][p] = None \/ v.attr[d][p] = w.attr[d][p]
           /\ \A x \in AllBundles :
                <<d, x>> \in S /\ p \in ListedBy(x) /\ p \in PortsOf(x) => v.attr[d][p] = None
  BY SourcesLeaveIs DEF LostSources
<1>2. Agree(w) => Agree(v)
  <2>1. OwnersLive(w) => OwnersLive(v)
    BY <1>1 DEF OwnersLive
  <2>2. SessionsOwned(w) => SessionsOwned(v)
    BY <1>0 DEF SessionsOwned
  <2>3. MonitorsRight(w) => MonitorsRight(v)
    BY <1>0 DEF MonitorsRight
  <2>4. OutputsThere(w, plain) => OutputsThere(v, plain)
    BY <1>0 DEF OutputsThere
  <2> QED
    BY <2>1, <2>2, <2>3, <2>4 DEF Agree
<1>3. ASSUME NEW T, Tidy, Right(w, T), NEW d \in Directions, NEW p \in Ports \ T,
             v.attr[d][p] # None
      PROVE  \E x \in AllBundles : IsSource(v, d, p, x)
  <2>1. w.attr[d][p] # None /\ v.attr[d][p] = w.attr[d][p]
    BY <1>1, <1>3
  <2>2. PICK x \in AllBundles : IsSource(w, d, p, x)
    BY <1>3, <2>1 DEF Right
  <2>3. p \in PortsOf(x) /\ p \in ListedBy(x)
    BY <1>3, <2>2 DEF Tidy, IsSource
  <2>4. <<d, x>> \notin S
    BY <1>1, <1>3, <2>3
  <2>5. v.owner[d][x] = w.owner[d][x]
    BY <1>1, <2>4
  <2> QED
    BY <1>1, <2>1, <2>2, <2>5 DEF IsSource
<1> QED
  BY <1>2, <1>3 DEF Right

\* Mirrors M of world w are gone in world v, their sources first.
Drops(w, v, M) ==
  /\ v \in Worlds
  /\ \E u : /\ u = SourcesLeave(w, SourcesOf(w, M))
            /\ v.owner = u.owner /\ v.attr = u.attr /\ v.stop = u.stop /\ v.busy = u.busy
  /\ DOMAIN v.mirror = DOMAIN w.mirror \ M
  /\ \A m \in DOMAIN v.mirror : v.mirror[m] = w.mirror[m]
  /\ DOMAIN v.monitors \subseteq DOMAIN w.monitors
  /\ \A s \in DOMAIN v.monitors : v.monitors[s] = w.monitors[s]
  /\ \A s \in DOMAIN w.monitors \ DOMAIN v.monitors : \E m \in M \cap DOMAIN w.mirror : s = w.mirror[m].hid

LEMMA SourcesOfAre ==
  ASSUME NEW w, NEW M
  PROVE  /\ SourcesOf(w, M) \in SUBSET (Directions \X AllBundles)
         /\ \A d \in Directions : \A x \in AllBundles :
              <<d, x>> \in SourcesOf(w, M) <=> w.owner[d][x] \in M
BY DEF SourcesOf

\* What a world in which mirrors are gone has, and that it is as right as it was.
LEMMA DropsKeep ==
  ASSUME NEW w \in Worlds, NEW M \in SUBSET Mirrors, NEW v, Drops(w, v, M)
  PROVE  /\ Keeps(w, v) /\ OwnersLeave(w, v)
         /\ ~v.stop => \A d \in Directions : \A x \in AllBundles : v.owner[d][x] \notin M
<1> DEFINE S == SourcesOf(w, M)
<1>1. PICK u : /\ u = SourcesLeave(w, S)
               /\ v.owner = u.owner /\ v.attr = u.attr /\ v.stop = u.stop /\ v.busy = u.busy
  BY DEF Drops
<1>2. /\ S \in SUBSET (Directions \X AllBundles)
      /\ \A d \in Directions : \A x \in AllBundles : <<d, x>> \in S <=> w.owner[d][x] \in M
  BY SourcesOfAre
<1>3. /\ DOMAIN v.mirror = DOMAIN w.mirror \ M
      /\ \A m \in DOMAIN v.mirror : v.mirror[m] = w.mirror[m]
      /\ DOMAIN v.monitors \subseteq DOMAIN w.monitors
      /\ \A s \in DOMAIN v.monitors : v.monitors[s] = w.monitors[s]
      /\ \A s \in DOMAIN w.monitors \ DOMAIN v.monitors : \E m \in M \cap DOMAIN w.mirror : s = w.mirror[m].hid
      /\ v \in Worlds
  BY DEF Drops
<1> HIDE DEF S
<1>4. /\ u \in Worlds /\ u.mirror = w.mirror /\ u.monitors = w.monitors /\ (w.stop => u.stop)
      /\ LostSources(w, u, S)
  BY <1>1, <1>2, SourcesLeaveIs
<1>5. None \notin Mirrors /\ None \notin Sessions
  BY MirrorAssumption
<1>6. \A d \in Directions : \A x \in AllBundles : ~v.stop => v.owner[d][x] \notin M
  <2> TAKE d \in Directions
  <2> TAKE x \in AllBundles
  <2> HAVE ~v.stop
  <2>1. v.owner[d][x] = IF w.owner[d][x] \in M THEN None ELSE w.owner[d][x]
    <3>1. v.owner[d][x] = u.owner[d][x] /\ ~u.stop
      BY <1>1
    <3>2. u.owner[d][x] = IF <<d, x>> \in S THEN None ELSE w.owner[d][x]
      BY <1>4, <3>1 DEF LostSources
    <3>3. <<d, x>> \in S <=> w.owner[d][x] \in M
      BY <1>2
    <3> QED
      BY <3>1, <3>2, <3>3, Zenon
  <2> QED
    BY <1>5, <2>1
<1>7. ASSUME ~v.stop, Agree(w) PROVE Agree(v)
  <2>1. Agree(u)
    BY <1>1, <1>2, <1>7, SourcesLeaveAgree
  <2>2. OwnersLive(v)
    BY <1>1, <1>3, <1>4, <1>6, <1>7, <2>1 DEF Agree, OwnersLive, LostSources
  <2>3. ASSUME NEW m \in DOMAIN v.mirror, v.mirror[m].hid # None
        PROVE  v.mirror[m].hid \in DOMAIN v.monitors
    <3>1. m \in DOMAIN w.mirror /\ m \notin M /\ v.mirror[m] = w.mirror[m]
      BY <1>3
    <3>2. w.mirror[m].hid \in DOMAIN w.monitors
      BY <1>7, <2>3, <3>1 DEF Agree, SessionsOwned
    <3>3. \A n \in M \cap DOMAIN w.mirror : w.mirror[m].hid # w.mirror[n].hid
      BY <1>7, <2>3, <3>1 DEF Agree, SessionsOwned
    <3> QED
      BY <1>3, <3>1, <3>2, <3>3
  <2>4. SessionsOwned(v)
    BY <1>3, <1>7, <2>3 DEF Agree, SessionsOwned
  <2>5. MonitorsRight(v)
    BY <1>3, <1>7, <2>3 DEF Agree, MonitorsRight
  <2>6. OutputsThere(v, plain)
    BY <1>3, <1>7 DEF Agree, OutputsThere
  <2> QED
    BY <2>2, <2>4, <2>5, <2>6 DEF Agree
<1>8. ASSUME NEW T, ~v.stop, Tidy, Agree(w), Right(w, T) PROVE Right(v, T)
  <2>1. Right(u, T)
    BY <1>1, <1>2, <1>8, SourcesLeaveAgree
  <2>2. ASSUME NEW d \in Directions, NEW p \in Ports \ T, v.attr[d][p] # None
        PROVE  \E x \in AllBundles : IsSource(v, d, p, x)
    <3>1. PICK x \in AllBundles : IsSource(u, d, p, x)
      BY <1>1, <2>1, <2>2 DEF Right
    <3>2. v.owner[d][x] = u.owner[d][x] /\ v.attr[d][p] = u.attr[d][p]
      BY <1>1
    <3> QED
      <4>1. w.owner[d][x] = v.owner[d][x] /\ v.owner[d][x] # None
        BY <1>1, <1>4, <1>8, <3>1, <3>2 DEF IsSource, LostSources
      <4>2. v.owner[d][x] \in DOMAIN v.mirror
        BY <1>3, <1>6, <1>8, <4>1 DEF Agree, OwnersLive
      <4> QED
        BY <1>3, <1>4, <3>1, <3>2, <4>1, <4>2 DEF IsSource
  <2> QED
    BY <2>2 DEF Right
<1>9. OwnersLeave(w, v)
  <2>1. \A d \in Directions : \A x \in AllBundles :
          u.owner[d][x] = None \/ u.owner[d][x] = w.owner[d][x]
    BY <1>4 DEF LostSources
  <2>2. v.owner = u.owner
    BY <1>1
  <2> QED
    BY <2>1, <2>2 DEF OwnersLeave
<1>10. w.stop => v.stop
  BY <1>1, <1>4
<1> QED
  BY <1>3, <1>6, <1>7, <1>8, <1>9, <1>10 DEF Keeps

LEMMA WorldParts ==
  ASSUME NEW w \in Worlds
  PROVE  /\ w.mirror \in Partial(Mirrors, Entries)
         /\ w.owner \in [Directions -> [AllBundles -> Mirrors \cup {None}]]
         /\ w.attr \in [Directions -> [Ports -> Sessions \cup {None}]]
         /\ w.monitors \in Partial(Sessions, Objects)
         /\ w.stop \in BOOLEAN /\ w.busy \in BOOLEAN
BY DEF Worlds

LEMMA MirrorGoneDrops ==
  ASSUME NEW w \in Worlds, NEW m \in DOMAIN w.mirror, NEW v, v = MirrorGone(w, m)
  PROVE  Drops(w, v, {m})
<1> DEFINE S == SourcesOf(w, {m})
<1>1. S \in SUBSET (Directions \X AllBundles)
  BY SourcesOfAre
<1> DEFINE u == SourcesLeave(w, S)
<1>2. /\ u \in Worlds /\ u.mirror = w.mirror /\ u.monitors = w.monitors
  <2> HIDE DEF S
  <2> QED
    BY <1>1, SourcesLeaveIs
<1> DEFINE h == w.mirror[m].hid
           r == SessionRemoved(u, h)
           mir == [n \in DOMAIN w.mirror \ {m} |-> w.mirror[n]]
           mon == [s \in DOMAIN w.monitors \ {h} |-> w.monitors[s]]
<1>3. v = [r EXCEPT !.mirror = Without(@, m)]
  BY DEF MirrorGone
<1>4. /\ mir \in Partial(Mirrors, Entries)
      /\ DOMAIN mir = DOMAIN w.mirror \ {m} /\ \A n \in DOMAIN mir : mir[n] = w.mirror[n]
  <2>1. w.mirror \in Partial(Mirrors, Entries)
    BY WorldParts
  <2> HIDE DEF mir
  <2>2. mir = [n \in DOMAIN w.mirror \ {m} |-> w.mirror[n]]
    BY DEF mir
  <2> QED
    BY <2>1, <2>2, FewerIs
<1>5. /\ mon \in Partial(Sessions, Objects)
      /\ DOMAIN mon = DOMAIN w.monitors \ {h} /\ \A s \in DOMAIN mon : mon[s] = w.monitors[s]
  <2>1. w.monitors \in Partial(Sessions, Objects)
    BY WorldParts
  <2> HIDE DEF mon, h, S, u, r, mir
  <2>2. mon = [s \in DOMAIN w.monitors \ {h} |-> w.monitors[s]]
    BY DEF mon
  <2> QED
    BY <2>1, <2>2, FewerIs
<1>6. r = u \/ r = [u EXCEPT !.monitors = mon]
  BY <1>2 DEF SessionRemoved, Without
<1> HIDE DEF S, u, h, r, mir, mon
<1>7. /\ r \in Worlds /\ r.mirror = w.mirror /\ r.owner = u.owner /\ r.attr = u.attr
      /\ r.stop = u.stop /\ r.busy = u.busy /\ (r.monitors = w.monitors \/ r.monitors = mon)
  BY <1>2, <1>5, <1>6 DEF Worlds
<1>8. v = [r EXCEPT !.mirror = mir]
  BY <1>3, <1>7 DEF Without, mir, Worlds
<1>9. /\ v \in Worlds /\ v.mirror = mir /\ v.owner = u.owner /\ v.attr = u.attr
      /\ v.stop = u.stop /\ v.busy = u.busy /\ (v.monitors = w.monitors \/ v.monitors = mon)
  BY <1>4, <1>7, <1>8 DEF Worlds
<1>10. \E x : /\ x = SourcesLeave(w, SourcesOf(w, {m}))
              /\ v.owner = x.owner /\ v.attr = x.attr /\ v.stop = x.stop /\ v.busy = x.busy
  BY <1>9 DEF u, S
<1>11. \A s \in DOMAIN w.monitors \ DOMAIN v.monitors :
         \E n \in {m} \cap DOMAIN w.mirror : s = w.mirror[n].hid
  BY <1>5, <1>9 DEF h
<1> QED
  BY <1>4, <1>5, <1>9, <1>10, <1>11 DEF Drops

LEMMA MirrorsGoneDrops ==
  ASSUME NEW w \in Worlds, NEW M \in SUBSET DOMAIN w.mirror, NEW v \in MirrorsGone(w, M)
  PROVE  Drops(w, v, M)
<1> DEFINE without(N) == SourcesLeave(w, SourcesOf(w, N))
           removed(order) ==
             {w.mirror[order[i]].hid : i \in {j \in DOMAIN order :
                \A d \in Directions, p \in Ports :
                  without({order[k] : k \in 1..j}).attr[d][p] # w.mirror[order[j]].hid}}
           u == without(M)
<1>1. PICK order \in SetToSeqs(M) :
        v = [u EXCEPT !.mirror   = [m \in DOMAIN u.mirror \ M |-> u.mirror[m]],
                      !.monitors = [s \in DOMAIN u.monitors \ removed(order) |-> u.monitors[s]]]
  <2>1. v \in {[u EXCEPT !.mirror   = [m \in DOMAIN u.mirror \ M |-> u.mirror[m]],
                         !.monitors = [s \in DOMAIN u.monitors \ removed(order) |-> u.monitors[s]]]
                  : order \in SetToSeqs(M)}
    BY Zenon DEF MirrorsGone
  <2> HIDE DEF u, removed
  <2> QED
    BY <2>1
<1> DEFINE R == removed(order)
           mir == [m \in DOMAIN w.mirror \ M |-> w.mirror[m]]
           mon == [s \in DOMAIN w.monitors \ R |-> w.monitors[s]]
<1>2. \A i \in DOMAIN order : order[i] \in M
  BY DEF SetToSeqs
<1>3. \A s \in R : \E m \in M : s = w.mirror[m].hid
  <2> HIDE DEF without
  <2> QED
    BY <1>2
<1>4. SourcesOf(w, M) \in SUBSET (Directions \X AllBundles)
  BY SourcesOfAre
<1>5. u \in Worlds /\ u.mirror = w.mirror /\ u.monitors = w.monitors
  BY <1>4, SourcesLeaveIs
<1> HIDE DEF without, removed
<1>6. v = [u EXCEPT !.mirror = mir, !.monitors = mon]
  BY <1>1, <1>5
<1>7. /\ mir \in Partial(Mirrors, Entries)
      /\ DOMAIN mir = DOMAIN w.mirror \ M /\ \A m \in DOMAIN mir : mir[m] = w.mirror[m]
  <2>1. w.mirror \in Partial(Mirrors, Entries)
    BY WorldParts
  <2> HIDE DEF mir
  <2>2. mir = [n \in DOMAIN w.mirror \ M |-> w.mirror[n]]
    BY DEF mir
  <2> QED
    BY <2>1, <2>2, FewerIs
<1>8. /\ mon \in Partial(Sessions, Objects)
      /\ DOMAIN mon = DOMAIN w.monitors \ R /\ \A s \in DOMAIN mon : mon[s] = w.monitors[s]
  <2>1. w.monitors \in Partial(Sessions, Objects)
    BY WorldParts
  <2> HIDE DEF mon, R
  <2>2. mon = [s \in DOMAIN w.monitors \ R |-> w.monitors[s]]
    BY DEF mon
  <2> QED
    BY <2>1, <2>2, FewerIs
<1> HIDE DEF u, R, mir, mon
<1>9. /\ v \in Worlds /\ v.mirror = mir /\ v.monitors = mon /\ v.owner = u.owner
      /\ v.attr = u.attr /\ v.stop = u.stop /\ v.busy = u.busy
  BY <1>5, <1>6, <1>7, <1>8 DEF Worlds
<1>10. \E x : /\ x = SourcesLeave(w, SourcesOf(w, M))
              /\ v.owner = x.owner /\ v.attr = x.attr /\ v.stop = x.stop /\ v.busy = x.busy
  BY <1>9 DEF u, without
<1>11. \A s \in DOMAIN w.monitors \ DOMAIN v.monitors :
         \E m \in M \cap DOMAIN w.mirror : s = w.mirror[m].hid
  BY <1>3, <1>8, <1>9
<1> QED
  BY <1>7, <1>8, <1>9, <1>10, <1>11 DEF Drops

\* The object of a bundle that has one is a port, or its LAG.
LEMMA ObjectIs ==
  ASSUME LagInv, plain \subseteq Ports, NEW x \in AllBundles, HasObject(x)
  PROVE  ObjectOf(x) \in Objects /\ Monitored(x, ObjectOf(x))
<1>1. ListedBy(x) \subseteq Ports
  BY DEF ListedBy, AllBundles, LagInv, TableInv, TypeOK
<1>2. CASE IsLag(x)
  <2>1. x \in Bundles /\ isLag[x]
    BY <1>2 DEF IsLag
  <2>2. HandleOf(x) \in Handles
    BY <2>1 DEF HandleOf, LagInv, TableInv, TypeOK, BundlesOwnTheirLag
  <2> QED
    BY <1>2, <2>1, <2>2 DEF ObjectOf, Monitored, Objects
<1>3. CASE ~IsLag(x)
  <2>1. Cardinality(ListedBy(x)) = 1
    BY <1>3 DEF HasObject
  <2>2. Cardinality({}) = 0
    BY FS_EmptySet
  <2>3. \E p \in ListedBy(x) : TRUE
    BY <2>1, <2>2
  <2>4. ObjectOf(x) \in ListedBy(x)
    BY <1>3, <2>3 DEF ObjectOf
  <2>5. ObjectOf(x) \in Ports
    BY <1>1, <2>4
  <2> QED
    BY <2>5, Zenon DEF Monitored, Objects
<1> QED
  BY <1>2, <1>3

\* Making a mirror: it has no source, and the session is its own.
LEMMA MirrorMadeKeeps ==
  ASSUME LagInv, plain \subseteq Ports, NEW w \in Worlds, NEW m \in Mirrors \ DOMAIN w.mirror,
         NEW x \in AllBundles, Exists(x), NEW s \in Sessions \cup {None}, s \notin DOMAIN w.monitors,
         NEW v, v = MirrorMade(w, m, x, s)
  PROVE  /\ Keeps(w, v) /\ v.owner = w.owner
         /\ ~v.stop => m \in DOMAIN v.mirror
<1>1. CASE ~HasObject(x)
  <2>1. v = [w EXCEPT !.stop = TRUE]
    BY <1>1 DEF MirrorMade
  <2> QED
    BY <2>1 DEF Worlds, Keeps
<1>2. CASE HasObject(x)
  <2> DEFINE new == [out |-> x, hid |-> s]
             mir == With(w.mirror, m, new)
             mon == IF s = None THEN w.monitors ELSE With(w.monitors, s, ObjectOf(x))
  <2>1. ObjectOf(x) \in Objects /\ Monitored(x, ObjectOf(x))
    BY <1>2, ObjectIs
  <2>2. v = [w EXCEPT !.mirror = mir, !.monitors = mon]
    BY <1>2 DEF MirrorMade, Worlds
  <2>3. /\ mir \in Partial(Mirrors, Entries)
        /\ DOMAIN mir = DOMAIN w.mirror \cup {m} /\ mir[m] = new
        /\ \A n \in DOMAIN w.mirror : mir[n] = w.mirror[n]
    <3>1. w.mirror \in Partial(Mirrors, Entries)
      BY WorldParts
    <3>2. new \in Entries
      BY DEF Entries
    <3> HIDE DEF new, mir
    <3>3. mir = With(w.mirror, m, new) /\ m \in Mirrors
      BY DEF mir
    <3>4. mir \in Partial(Mirrors, Entries) /\ IsWith(mir, w.mirror, m, new)
      BY <3>1, <3>2, <3>3, WithIs
    <3> QED
      BY <3>4 DEF IsWith
  <2>4. /\ mon \in Partial(Sessions, Objects)
        /\ s # None => s \in DOMAIN mon /\ mon[s] = ObjectOf(x)
        /\ DOMAIN w.monitors \subseteq DOMAIN mon
        /\ \A t \in DOMAIN w.monitors : mon[t] = w.monitors[t]
    <3>1. w.monitors \in Partial(Sessions, Objects)
      BY WorldParts
    <3>2. ASSUME s # None
          PROVE  /\ mon \in Partial(Sessions, Objects)
                 /\ DOMAIN mon = DOMAIN w.monitors \cup {s} /\ mon[s] = ObjectOf(x)
                 /\ \A t \in DOMAIN w.monitors \ {s} : mon[t] = w.monitors[t]
      <4>1. mon = With(w.monitors, s, ObjectOf(x)) /\ s \in Sessions
        BY <3>2
      <4>2. mon \in Partial(Sessions, Objects) /\ IsWith(mon, w.monitors, s, ObjectOf(x))
        <5> HIDE DEF mon
        <5> QED
          BY <2>1, <3>1, <4>1, WithIs
      <4> QED
        BY <4>2 DEF IsWith
    <3>3. ASSUME s = None PROVE mon = w.monitors
      BY <3>3
    <3> HIDE DEF mon
    <3> QED
      BY <3>1, <3>2, <3>3
  <2>5. new.out = x /\ new.hid = s
    OBVIOUS
  <2> HIDE DEF new, mir, mon
  <2>6. /\ v \in Worlds /\ v.mirror = mir /\ v.monitors = mon /\ v.owner = w.owner
        /\ v.attr = w.attr /\ v.stop = w.stop
    BY <2>2, <2>3, <2>4 DEF Worlds
  <2>7. ASSUME Agree(w) PROVE Agree(v)
    <3>1. OwnersLive(v)
      BY <2>3, <2>6, <2>7 DEF Agree, OwnersLive
    <3>2. \A n \in DOMAIN w.mirror : w.mirror[n].hid = s => s = None
      BY <2>7 DEF Agree, SessionsOwned
    <3>3. SessionsOwned(v)
      <4>1. \A n \in DOMAIN v.mirror : v.mirror[n].hid \in DOMAIN v.monitors \cup {None}
        BY <2>3, <2>4, <2>5, <2>6, <2>7 DEF Agree, SessionsOwned
      <4>2. ASSUME NEW n \in DOMAIN v.mirror, NEW o \in DOMAIN v.mirror, n # o,
                   v.mirror[n].hid = v.mirror[o].hid
            PROVE  v.mirror[n].hid = None
        <5>1. CASE n \in DOMAIN w.mirror /\ o \in DOMAIN w.mirror
          BY <2>3, <2>6, <2>7, <4>2, <5>1 DEF Agree, SessionsOwned
        <5>2. CASE n = m \/ o = m
          BY <2>3, <2>5, <2>6, <3>2, <4>2, <5>2
        <5> QED
          BY <2>3, <2>6, <5>1, <5>2
      <4> QED
        BY <4>1, <4>2 DEF SessionsOwned
    <3>4. MonitorsRight(v)
      <4>1. ASSUME NEW n \in DOMAIN v.mirror, v.mirror[n].hid # None
            PROVE  Monitored(v.mirror[n].out, v.monitors[v.mirror[n].hid])
        <5>1. CASE n = m
          BY <2>1, <2>3, <2>4, <2>5, <2>6, <4>1, <5>1
        <5>2. CASE n # m
          <6>1. n \in DOMAIN w.mirror /\ v.mirror[n] = w.mirror[n]
            BY <2>3, <2>6, <5>2
          <6>2. w.mirror[n].hid \in DOMAIN w.monitors
            BY <2>7, <4>1, <6>1 DEF Agree, SessionsOwned
          <6>3. Monitored(w.mirror[n].out, w.monitors[w.mirror[n].hid])
            BY <2>7, <4>1, <6>1 DEF Agree, MonitorsRight
          <6> QED
            BY <2>4, <2>6, <6>1, <6>2, <6>3
        <5> QED
          BY <5>1, <5>2
      <4> QED
        BY <4>1 DEF MonitorsRight
    <3>5. OutputsThere(v, plain)
      <4>1. x \in Ports => x \in plain
        BY MirrorAssumption DEF Exists, ListedBy, IsLag
      <4> QED
        BY <2>3, <2>5, <2>6, <2>7, <4>1 DEF Agree, OutputsThere
    <3> QED
      BY <3>1, <3>3, <3>4, <3>5 DEF Agree
  <2>8. ASSUME NEW T, Agree(w), Right(w, T) PROVE Right(v, T)
    <3>1. ASSUME NEW d \in Directions, NEW p \in Ports \ T, v.attr[d][p] # None
          PROVE  \E y \in AllBundles : IsSource(v, d, p, y)
      <4>1. PICK y \in AllBundles : IsSource(w, d, p, y)
        BY <2>6, <2>8, <3>1 DEF Right
      <4>2. w.owner[d][y] \in DOMAIN w.mirror
        BY <2>8, <4>1 DEF Agree, OwnersLive, IsSource
      <4> QED
        BY <2>3, <2>6, <4>1, <4>2 DEF IsSource
    <3> QED
      BY <3>1 DEF Right
  <2> QED
    BY <2>3, <2>6, <2>7, <2>8 DEF Keeps
<1> QED
  BY <1>1, <1>2

\* Sources join: the ports they list mirror to the session, if there is one.
LEMMA SourcesJoinKeeps ==
  ASSUME NEW w \in Worlds, NEW m \in DOMAIN w.mirror, NEW d \in Directions,
         NEW X \in SUBSET AllBundles, \A x \in X : w.owner[d][x] = None,
         NEW v, v = SourcesJoin(w, m, d, X)
  PROVE  /\ Keeps(w, v) /\ v.mirror = w.mirror
         /\ \A e \in Directions \ {d} : v.owner[e] = w.owner[e]
<1> DEFINE P == UNION {PortsOf(x) : x \in X}
           h == w.mirror[m].hid
           ownD == [x \in AllBundles |-> IF x \in X THEN m ELSE w.owner[d][x]]
           attD == [p \in Ports |-> IF p \in P THEN h ELSE w.attr[d][p]]
           own == [w.owner EXCEPT ![d] = ownD]
           att == [w.attr EXCEPT ![d] = attD]
<1>1. m \in Mirrors /\ h \in Sessions \cup {None}
  <2>1. DOMAIN w.mirror \subseteq Mirrors /\ w.mirror \in [DOMAIN w.mirror -> Entries]
    BY WorldParts, PartialElim
  <2> QED
    BY <2>1 DEF Entries
<1>2. /\ w.owner \in [Directions -> [AllBundles -> Mirrors \cup {None}]]
      /\ w.attr \in [Directions -> [Ports -> Sessions \cup {None}]]
  BY WorldParts
<1>3. /\ ownD \in [AllBundles -> Mirrors \cup {None}]
      /\ \A x \in AllBundles : ownD[x] = IF x \in X THEN m ELSE w.owner[d][x]
  BY <1>1, <1>2
<1>4. /\ attD \in [Ports -> Sessions \cup {None}]
      /\ \A p \in Ports : attD[p] = IF p \in P THEN h ELSE w.attr[d][p]
  <2> HIDE DEF P, h
  <2> QED
    BY <1>1, <1>2
<1>5. CASE \E x \in X : ~HasObject(x)
  <2>1. v = [w EXCEPT !.stop = TRUE]
    BY <1>5 DEF SourcesJoin
  <2> QED
    BY <2>1 DEF Worlds, Keeps
<1>6. CASE ~\E x \in X : ~HasObject(x)
  <2>1. v = SourceAdded([w EXCEPT !.owner[d] = ownD], h, d, P)
    BY <1>6 DEF SourcesJoin
  <2> HIDE DEF ownD, P, h
  <2>2. [w EXCEPT !.owner[d] = ownD] = [w EXCEPT !.owner = own]
    BY DEF Worlds
  <2>3. PICK u : u = [w EXCEPT !.owner = own] /\ v = SourceAdded(u, h, d, P)
    BY <2>1, <2>2
  <2>4. own \in [Directions -> [AllBundles -> Mirrors \cup {None}]]
        /\ own[d] = ownD /\ \A e \in Directions \ {d} : own[e] = w.owner[e]
    BY <1>2, <1>3
  <2>5. att \in [Directions -> [Ports -> Sessions \cup {None}]]
        /\ att[d] = attD /\ \A e \in Directions \ {d} : att[e] = w.attr[e]
    BY <1>2, <1>4
  <2>6. /\ u \in Worlds /\ u.mirror = w.mirror /\ u.monitors = w.monitors /\ u.owner = own
        /\ u.attr = w.attr /\ u.stop = w.stop
    <3> HIDE DEF own
    <3> QED
      BY <2>3, <2>4 DEF Worlds
  <2>7. /\ v \in Worlds /\ v.mirror = w.mirror /\ v.monitors = w.monitors /\ v.owner = own
        /\ v.stop = w.stop
        /\ \A e \in Directions : \A p \in Ports :
             v.attr[e][p] = w.attr[e][p] \/ (e = d /\ p \in P /\ v.attr[e][p] = h)
    <3>1. CASE h \notin DOMAIN w.monitors
      <4>1. v = u
        BY <2>3, <2>6, <3>1 DEF SourceAdded
      <4> QED
        BY <2>6, <4>1
    <3>2. CASE h \in DOMAIN w.monitors
      <4>1. v = [u EXCEPT !.attr = att]
        BY <2>3, <2>6, <3>2 DEF SourceAdded, Worlds
      <4> HIDE DEF own, att, attD
      <4>2. /\ v \in Worlds /\ v.mirror = w.mirror /\ v.monitors = w.monitors /\ v.owner = own
            /\ v.stop = w.stop /\ v.attr = att
        BY <2>5, <2>6, <4>1 DEF Worlds
      <4> QED
        BY <1>4, <2>5, <4>2
    <3> QED
      BY <3>1, <3>2
  <2> HIDE DEF own, att, attD
  <2>8. \A e \in Directions : \A x \in AllBundles :
          \/ v.owner[e][x] = w.owner[e][x]
          \/ e = d /\ x \in X /\ v.owner[e][x] = m /\ w.owner[e][x] = None
    BY <1>3, <2>4, <2>7
  <2>9. \A x \in X : v.owner[d][x] = m
    BY <1>3, <2>4, <2>7
  <2>10. ASSUME Agree(w) PROVE Agree(v)
    <3>1. OwnersLive(v)
      BY <2>7, <2>8, <2>10 DEF Agree, OwnersLive
    <3>2. SessionsOwned(v) /\ MonitorsRight(v) /\ OutputsThere(v, plain)
      BY <2>7, <2>10 DEF Agree, SessionsOwned, MonitorsRight, OutputsThere
    <3> QED
      BY <3>1, <3>2 DEF Agree
  <2>11. ASSUME NEW T, Tidy, Right(w, T), NEW e \in Directions, NEW p \in Ports \ T,
                v.attr[e][p] # None
         PROVE  \E x \in AllBundles : IsSource(v, e, p, x)
    <3>1. CASE v.attr[e][p] = w.attr[e][p]
      <4>1. PICK x \in AllBundles : IsSource(w, e, p, x)
        BY <2>11, <3>1 DEF Right
      <4>2. v.owner[e][x] = w.owner[e][x]
        BY <2>8, <4>1 DEF IsSource
      <4> QED
        BY <2>7, <3>1, <4>1, <4>2 DEF IsSource
    <3>2. CASE e = d /\ p \in P /\ v.attr[e][p] = h
      <4>1. PICK x \in X : p \in PortsOf(x)
        BY <3>2 DEF P
      <4>2. p \in ListedBy(x)
        BY <2>11, <4>1 DEF Tidy
      <4>3. v.owner[d][x] = m /\ m # None
        BY <1>1, <2>9, <4>1, MirrorAssumption
      <4> QED
        BY <2>7, <3>2, <4>2, <4>3 DEF IsSource, h
    <3> QED
      BY <2>7, <2>11, <3>1, <3>2
  <2>12. \A e \in Directions \ {d} : v.owner[e] = w.owner[e]
    BY <2>4, <2>7
  <2> QED
    BY <2>7, <2>10, <2>11, <2>12 DEF Right, Keeps
<1> QED
  BY <1>5, <1>6

LEMMA KeepsOn ==
  ASSUME NEW u, NEW v, NEW w, Keeps(u, v), Keeps(v, w)
  PROVE  Keeps(u, w)
BY DEF Keeps

\* The walk over the sources of a mirror that has none yet in that direction.
LEMMA WalksKeep ==
  ASSUME NEW w \in Worlds, NEW m, NEW d, NEW sources \in Sources,
         NEW v \in Walks(w, m, d, sources),
         ~w.stop => m \in DOMAIN w.mirror,
         ~w.stop /\ d \in Directions => \A x \in AllBundles : w.owner[d][x] # m
  PROVE  /\ Keeps(w, v) /\ v.mirror = w.mirror
         /\ \A e \in Directions \ {d} : v.owner[e] = w.owner[e]
<1> DEFINE X == sources[d]
           busy == {x \in X : w.owner[d][x] \notin {None, m}}
<1>1. CASE w.stop \/ d \notin Directions
  BY <1>1 DEF Walks, Keeps
<1>2. CASE ~w.stop /\ d \in Directions
  <2>1. X \in SUBSET AllBundles
    BY <1>2 DEF Sources
  <2>2. \A x \in X \ busy : w.owner[d][x] = None
    BY <1>2, <2>1
  <2>0. PICK W \in SUBSET (X \ busy) :
          \E u : /\ u = SourcesJoin(w, m, d, W)
                 /\ v = u \/ v = [u EXCEPT !.busy = TRUE]
    <3>1. CASE busy = {}
      <4>1. v = SourcesJoin(w, m, d, X) /\ X \in SUBSET (X \ busy)
        BY <1>2, <3>1 DEF Walks
      <4> QED
        BY <4>1
    <3>2. CASE busy # {}
      <4>1. v \in {[SourcesJoin(w, m, d, W) EXCEPT !.busy = TRUE] : W \in SUBSET (X \ busy)}
        BY <1>2, <3>2 DEF Walks
      <4> QED
        BY <4>1
    <3> QED
      BY <3>1, <3>2
  <2>3. PICK u : /\ u = SourcesJoin(w, m, d, W)
                 /\ v = u \/ v = [u EXCEPT !.busy = TRUE]
    BY <2>0
  <2>4. W \in SUBSET AllBundles /\ \A x \in W : w.owner[d][x] = None
    BY <2>1, <2>2
  <2> HIDE DEF X, busy
  <2>5. /\ Keeps(w, u) /\ u.mirror = w.mirror
        /\ \A e \in Directions \ {d} : u.owner[e] = w.owner[e]
    BY <1>2, <2>3, <2>4, SourcesJoinKeeps
  <2>6. /\ v \in Worlds /\ v.mirror = u.mirror /\ v.owner = u.owner /\ v.attr = u.attr
        /\ v.monitors = u.monitors /\ v.stop = u.stop
    BY <2>3, <2>5 DEF Keeps, Worlds
  <2>7. Keeps(u, v)
    BY <2>6 DEF Keeps, Agree, OwnersLive, SessionsOwned, MonitorsRight, OutputsThere, Right, IsSource
  <2> QED
    BY <2>5, <2>6, <2>7, KeepsOn
<1> QED
  BY <1>1, <1>2

\* The mirrors that have a bundle as output are gone.
LEMMA OutputGoneKeeps ==
  ASSUME NEW w \in Worlds, NEW x \in AllBundles, NEW v \in OutputGone(w, x)
  PROVE  /\ Keeps(w, v)
         /\ \A m \in DOMAIN v.mirror : v.mirror[m].out # x
         /\ OwnersLeave(w, v)
<1> DEFINE M == {m \in DOMAIN w.mirror : w.mirror[m].out = x}
<1>1. M \in SUBSET DOMAIN w.mirror /\ M \in SUBSET Mirrors
  BY WorldParts, PartialElim
<1>2. v \in MirrorsGone(w, M)
  BY DEF OutputGone
<1>3. Drops(w, v, M)
  <2> HIDE DEF M
  <2> QED
    BY <1>1, <1>2, MirrorsGoneDrops
<1>4. \A m \in DOMAIN v.mirror : m \in DOMAIN w.mirror \ M /\ v.mirror[m] = w.mirror[m]
  BY <1>3 DEF Drops
<1>5. \A m \in DOMAIN v.mirror : v.mirror[m].out # x
  BY <1>4
<1> HIDE DEF M
<1>6. M \in SUBSET Mirrors
  BY <1>1
<1>7. Keeps(w, v)
  BY <1>3, <1>6, DropsKeep
<1>8. OwnersLeave(w, v)
  BY <1>3, <1>6, DropsKeep
<1> QED
  BY <1>5, <1>7, <1>8

\* The mirror half of the destruction of a bundle.
LEMMA BundleGoneKeeps ==
  ASSUME NEW w \in Worlds, NEW x \in AllBundles, NEW v \in BundleGone(w, x)
  PROVE  /\ Keeps(w, v)
         /\ \A m \in DOMAIN v.mirror : v.mirror[m].out # x
         /\ ~v.stop => \A d \in Directions : v.owner[d][x] = None
<1> DEFINE S == SourceIn(w, x)
<1>1. S \in SUBSET (Directions \X AllBundles)
  BY DEF SourceIn
<1>2. \A d \in Directions : w.owner[d][x] # None => <<d, x>> \in S
  BY DEF SourceIn
<1>3. PICK u : u = SourcesLeave(w, S) /\ v \in OutputGone(u, x)
  BY DEF BundleGone
<1> HIDE DEF S
<1>4. Keeps(w, u)
  <2>1. u \in Worlds /\ (w.stop => u.stop)
    BY <1>1, <1>3, SourcesLeaveIs
  <2>2. ASSUME ~u.stop, Agree(w) PROVE Agree(u)
    BY <1>1, <1>3, <2>2, SourcesLeaveAgree
  <2>3. ASSUME ~u.stop, NEW T, Tidy, Right(w, T) PROVE Right(u, T)
    BY <1>1, <1>3, <2>3, SourcesLeaveAgree
  <2> QED
    BY <2>1, <2>2, <2>3 DEF Keeps
<1>5. ~u.stop => \A d \in Directions : u.owner[d][x] = None
  <2>1. LostSources(w, u, S)
    BY <1>1, <1>3, SourcesLeaveIs
  <2> QED
    BY <1>2, <2>1 DEF LostSources
<1>6. /\ Keeps(u, v) /\ OwnersLeave(u, v)
      /\ \A m \in DOMAIN v.mirror : v.mirror[m].out # x
  BY <1>3, <1>4, OutputGoneKeeps DEF Keeps
<1>7. ~v.stop => ~u.stop
  BY <1>6 DEF Keeps
<1>8. ~v.stop => \A d \in Directions : v.owner[d][x] = None
  BY <1>5, <1>6, <1>7 DEF OwnersLeave
<1> QED
  BY <1>4, <1>6, <1>8, KeepsOn

\* The same of a bundle that lost its only port: that port mirrors no more where the
\* bundle had a mirror.
LEMMA EmptyBundleGoneKeeps ==
  ASSUME NEW w \in Worlds, NEW x \in AllBundles, NEW v \in EmptyBundleGone(w, x)
  PROVE  /\ v \in Worlds /\ (w.stop => v.stop)
         /\ ~v.stop /\ Agree(w) => Agree(v)
         /\ \A T : /\ ~v.stop /\ Tidy /\ Agree(w) /\ Right(w, T)
                   /\ \A d \in Directions : \A p \in ListedBy(x) \ T :
                        w.owner[d][x] = None \/ w.attr[d][p] = None
                   => Right(v, T)
         /\ \A m \in DOMAIN v.mirror : v.mirror[m].out # x
         /\ ~v.stop => \A d \in Directions : v.owner[d][x] = None
<1> DEFINE own == [d \in Directions |-> [w.owner[d] EXCEPT ![x] = None]]
           u == [w EXCEPT !.owner = own]
<1>1. w.owner \in [Directions -> [AllBundles -> Mirrors \cup {None}]]
  BY WorldParts
<1>2. /\ own \in [Directions -> [AllBundles -> Mirrors \cup {None}]]
      /\ \A d \in Directions : own[d][x] = None
      /\ \A d \in Directions : \A y \in AllBundles : y # x => own[d][y] = w.owner[d][y]
  BY <1>1
<1>3. v \in OutputGone(u, x)
  <2>1. u = [w EXCEPT !.owner = [d \in Directions |-> [@[d] EXCEPT ![x] = None]]]
    BY DEF Worlds
  <2> QED
    BY <2>1 DEF EmptyBundleGone
<1> HIDE DEF own
<1>4. /\ u \in Worlds /\ u.mirror = w.mirror /\ u.monitors = w.monitors /\ u.owner = own
      /\ u.attr = w.attr /\ u.stop = w.stop
  BY <1>2 DEF Worlds
<1> HIDE DEF u
<1>5. Agree(w) => Agree(u)
  BY <1>2, <1>4 DEF Agree, OwnersLive, SessionsOwned, MonitorsRight, OutputsThere
<1>6. ASSUME NEW T, Tidy, Right(w, T),
             \A d \in Directions : \A p \in ListedBy(x) \ T :
               w.owner[d][x] = None \/ w.attr[d][p] = None
      PROVE  Right(u, T)
  <2>1. ASSUME NEW d \in Directions, NEW p \in Ports \ T, u.attr[d][p] # None
        PROVE  \E y \in AllBundles : IsSource(u, d, p, y)
    <3>1. PICK y \in AllBundles : IsSource(w, d, p, y)
      BY <1>4, <1>6, <2>1 DEF Right
    <3>2. y # x
      BY <1>4, <1>6, <2>1, <3>1 DEF IsSource
    <3> QED
      BY <1>2, <1>4, <3>1, <3>2 DEF IsSource
  <2> QED
    BY <2>1 DEF Right
<1>7. /\ Keeps(u, v) /\ OwnersLeave(u, v)
      /\ \A m \in DOMAIN v.mirror : v.mirror[m].out # x
  BY <1>3, <1>4, OutputGoneKeeps
<1>8. \A d \in Directions : v.owner[d][x] = None
  BY <1>2, <1>4, <1>7 DEF OwnersLeave
<1> QED
  BY <1>4, <1>5, <1>6, <1>7, <1>8 DEF Keeps

\* The member of a LAG bundle that leaves it mirrors no more.
LEMMA MemberLeavesKeeps ==
  ASSUME NEW w \in Worlds, NEW b \in Bundles, NEW p \in linked[b], p \in Ports,
         NEW v, v = MemberLeaves(w, b, p)
  PROVE  /\ v \in Worlds /\ v.stop = w.stop /\ v.mirror = w.mirror /\ v.monitors = w.monitors
         /\ v.owner = w.owner
         /\ Agree(w) => Agree(v)
         /\ \A T : Right(w, T) => Right(v, T)
         /\ \A d \in Directions : isLag[b] => v.owner[d][b] = None \/ v.attr[d][p] = None
<1> DEFINE att == [d \in Directions |->
                     IF isLag[b] /\ w.owner[d][b] # None THEN [w.attr[d] EXCEPT ![p] = None]
                     ELSE w.attr[d]]
<1>1. w.attr \in [Directions -> [Ports -> Sessions \cup {None}]]
  BY WorldParts
<1>2. v = [w EXCEPT !.attr = att]
  BY DEF MemberLeaves, Worlds
<1>3. /\ att \in [Directions -> [Ports -> Sessions \cup {None}]]
      /\ \A d \in Directions : isLag[b] => w.owner[d][b] = None \/ att[d][p] = None
      /\ \A d \in Directions : \A q \in Ports : att[d][q] = None \/ att[d][q] = w.attr[d][q]
  BY <1>1
<1> HIDE DEF att
<1>4. /\ v \in Worlds /\ v.stop = w.stop /\ v.mirror = w.mirror /\ v.monitors = w.monitors
      /\ v.owner = w.owner /\ v.attr = att
  BY <1>2, <1>3 DEF Worlds
<1>5. Agree(w) => Agree(v)
  BY <1>4 DEF Agree, OwnersLive, SessionsOwned, MonitorsRight, OutputsThere
<1>6. \A T : Right(w, T) => Right(v, T)
  BY <1>3, <1>4 DEF Right, IsSource
<1> QED
  BY <1>3, <1>4, <1>5, <1>6

\* What mirror_set goes on with: the mirror, with no sources.
LEMMA MirrorReadyKeeps ==
  ASSUME LagInv, plain \subseteq Ports, NEW w \in Worlds, NEW m \in Mirrors, NEW x \in AllBundles,
         Exists(x), NEW s \in Sessions \cup {None}, s \notin DOMAIN w.monitors, Agree(w),
         NEW v, v = MirrorReady(w, m, x, s)
  PROVE  /\ Keeps(w, v)
         /\ ~v.stop => m \in DOMAIN v.mirror
         /\ ~v.stop => \A d \in Directions : \A y \in AllBundles : v.owner[d][y] # m
<1>0. None \notin Mirrors
  BY MirrorAssumption
<1>1. CASE m \notin DOMAIN w.mirror
  <2>1. m \in Mirrors \ DOMAIN w.mirror /\ v = MirrorMade(w, m, x, s)
    BY <1>1 DEF MirrorReady
  <2>2. Keeps(w, v) /\ v.owner = w.owner /\ (~v.stop => m \in DOMAIN v.mirror)
    BY <2>1, MirrorMadeKeeps
  <2> QED
    BY <1>0, <1>1, <2>2 DEF Agree, OwnersLive
<1>2. CASE m \in DOMAIN w.mirror /\ w.mirror[m].out # x
  <2>1. PICK u : u = MirrorGone(w, m) /\ v = MirrorMade(u, m, x, s)
    BY <1>2 DEF MirrorReady
  <2>2. Drops(w, u, {m})
    BY <1>2, <2>1, MirrorGoneDrops
  <2>3. {m} \in SUBSET Mirrors
    OBVIOUS
  <2>4. Keeps(w, u)
    BY <2>2, <2>3, DropsKeep
  <2>5. ~u.stop => \A d \in Directions : \A y \in AllBundles : u.owner[d][y] \notin {m}
    BY <2>2, <2>3, DropsKeep
  <2>6. u \in Worlds /\ m \notin DOMAIN u.mirror /\ s \notin DOMAIN u.monitors
    BY <2>2, <2>4 DEF Drops, Keeps
  <2>7. m \in Mirrors \ DOMAIN u.mirror
    BY <2>6
  <2>8. Keeps(u, v) /\ v.owner = u.owner /\ (~v.stop => m \in DOMAIN v.mirror)
    BY <2>1, <2>6, <2>7, MirrorMadeKeeps
  <2>9. ~v.stop => ~u.stop
    BY <2>8 DEF Keeps
  <2>10. Keeps(w, v)
    BY <2>4, <2>8, KeepsOn
  <2> QED
    BY <2>5, <2>8, <2>9, <2>10
<1>3. CASE m \in DOMAIN w.mirror /\ w.mirror[m].out = x
  <2> DEFINE S == SourcesOf(w, {m})
  <2>1. v = SourcesLeave(w, S)
    BY <1>3 DEF MirrorReady
  <2>2. /\ S \in SUBSET (Directions \X AllBundles)
        /\ \A d \in Directions : \A y \in AllBundles : <<d, y>> \in S <=> w.owner[d][y] = m
    BY SourcesOfAre
  <2> HIDE DEF S
  <2>3. v \in Worlds /\ v.mirror = w.mirror /\ (w.stop => v.stop) /\ LostSources(w, v, S)
    BY <2>1, <2>2, SourcesLeaveIs
  <2>4. ASSUME ~v.stop PROVE Agree(v)
    BY <2>1, <2>2, <2>4, SourcesLeaveAgree
  <2>5. ASSUME ~v.stop, NEW T, Tidy, Right(w, T) PROVE Right(v, T)
    BY <2>1, <2>2, <2>5, SourcesLeaveAgree
  <2>6. Keeps(w, v)
    BY <2>3, <2>4, <2>5 DEF Keeps
  <2>7. ASSUME ~v.stop, NEW d \in Directions, NEW y \in AllBundles
        PROVE  v.owner[d][y] # m
    <3>1. v.owner[d][y] = IF <<d, y>> \in S THEN None ELSE w.owner[d][y]
      BY <2>3, <2>7 DEF LostSources
    <3>2. <<d, y>> \in S <=> w.owner[d][y] = m
      BY <2>2
    <3> QED
      BY <1>0, <3>1, <3>2
  <2> QED
    BY <1>3, <2>3, <2>6, <2>7
<1> QED
  BY <1>1, <1>2, <1>3

-----------------------------------------------------------------------------
(* The LAGs meanwhile *)

\* The calls that do not destroy bundle b.
LagStep(b) ==
  \/ BundleGetsLag(b) \/ BundleGetsNoLag(b)
  \/ \E p \in Ports : LinkPort(b, p) \/ UnlinkPort(b, p)

\* A bundle that is not destroyed keeps its LAG.
LEMMA HandlesStay ==
  ASSUME LagInv, NEW b \in Bundles, NEW c \in Bundles, isLag[c],
         LagStep(b) \/ (DestroyBundle(b) /\ c # b)
  PROVE  isLag'[c] /\ HandleOf(c)' = HandleOf(c)
<1>1. TableInv /\ TypeOK /\ BundlesOwnTheirLag
  BY DEF LagInv, TableInv
<1>2. lagId[c] \in DOMAIN lag /\ lag[lagId[c]].handle \in DOMAIN hw
  BY <1>1 DEF BundlesOwnTheirLag
<1>3. CASE BundleGetsLag(b)
  <2>1. PICK i \in Ids, h \in Handles, P \in SUBSET linked[b] :
          /\ LagCreated(i, h, P)
          /\ lagId' = [lagId EXCEPT ![b] = i] /\ isLag' = [isLag EXCEPT ![b] = TRUE]
    BY <1>3 DEF BundleGetsLag
  <2>2. P \in SUBSET Ports
    BY <1>1 DEF TypeOK
  <2>3. \A j \in DOMAIN lag : lag'[j] = lag[j]
    BY <1>1, <2>1, <2>2, CreatedKeepsTable
  <2>4. c # b
    <3>1. lagId[b] = -1
      BY <1>3 DEF BundleGetsLag
    <3>2. lagId[c] \in Ids
      BY <1>1, <1>2 DEF TypeOK
    <3>3. -1 \notin Ids
      BY PoolAssumption DEF Ids
    <3> QED
      BY <3>1, <3>2, <3>3
  <2>5. isLag'[c] = isLag[c] /\ lagId'[c] = lagId[c]
    BY <1>1, <2>1, <2>4 DEF TypeOK
  <2> QED
    BY <1>2, <2>3, <2>5 DEF HandleOf
<1>4. CASE BundleGetsNoLag(b)
  <2>1. LagNotCreated /\ lagId' = lagId /\ isLag' = isLag
    BY <1>4 DEF BundleGetsNoLag
  <2>2. \A j \in DOMAIN lag : lag'[j] = lag[j]
    BY <1>1, <2>1, NotCreatedKeepsTable
  <2> QED
    BY <1>2, <2>1, <2>2 DEF HandleOf
<1>5. ASSUME NEW p \in Ports, LinkPort(b, p) \/ UnlinkPort(b, p)
      PROVE  isLag'[c] /\ HandleOf(c)' = HandleOf(c)
  <2>1. lagId' = lagId /\ isLag' = isLag
    BY <1>5 DEF LinkPort, UnlinkPort
  <2>2. CASE lag' = lag
    BY <2>1, <2>2 DEF HandleOf
  <2>3. CASE lag' # lag
    <3> DEFINE i == lagId[b]
    <3>1. PICK P \in SUBSET Ports : isLag[b] /\ MembersBecome(i, P)
      <4>1. i \in DOMAIN lag => lag[i].members \in SUBSET Ports
        BY <1>1 DEF TypeOK, Entry
      <4>2. isLag[b] => i \in DOMAIN lag
        BY <1>1 DEF BundlesOwnTheirLag
      <4>3. CASE LinkPort(b, p)
        <5>1. isLag[b] /\ MembersBecome(i, lag[i].members \cup {p})
          BY <2>3, <4>3 DEF LinkPort
        <5> QED
          BY <4>1, <4>2, <5>1
      <4>4. CASE UnlinkPort(b, p)
        <5>1. isLag[b] /\ MembersBecome(i, lag[i].members \ {p})
          BY <2>3, <4>4 DEF UnlinkPort
        <5> QED
          BY <4>1, <4>2, <5>1
      <4> QED
        BY <1>5, <4>3, <4>4
    <3>2. i \in DOMAIN lag /\ lag[i].handle \in DOMAIN hw
      BY <1>1, <3>1 DEF BundlesOwnTheirLag
    <3>3. \A j \in DOMAIN lag : lag'[j].handle = lag[j].handle
      BY <1>1, <3>1, <3>2, MembersKeepTable
    <3> QED
      BY <1>2, <2>1, <3>3 DEF HandleOf
  <2> QED
    BY <2>2, <2>3
<1>6. CASE DestroyBundle(b) /\ c # b
  <2>1. c # b
    BY <1>6
  <2>2. isLag'[c] = isLag[c] /\ lagId'[c] = lagId[c]
    BY <1>1, <1>6, <2>1 DEF DestroyBundle, TypeOK
  <2>3. CASE ~isLag[b]
    BY <1>6, <2>2, <2>3 DEF DestroyBundle, HandleOf
  <2>4. CASE isLag[b]
    <3> DEFINE i == lagId[b]
    <3>1. i \in DOMAIN lag /\ lag[i].handle \in DOMAIN hw /\ lagId[c] # i
      BY <1>1, <2>1, <2>4 DEF BundlesOwnTheirLag
    <3>2. lag[i].members \in SUBSET Ports
      BY <1>1, <3>1 DEF TypeOK, Entry
    <3>3. PICK P \in SUBSET Ports : LagRemoved(i, P)
      BY <1>6, <2>4, <3>2 DEF DestroyBundle
    <3>4. \A j \in DOMAIN lag \ {i} : lag'[j].handle = lag[j].handle
      BY <1>1, <3>1, <3>3, RemovedKeepsTable
    <3> QED
      BY <1>2, <2>2, <3>1, <3>4 DEF HandleOf
  <2> QED
    BY <2>3, <2>4
<1> QED
  BY <1>3, <1>4, <1>5, <1>6 DEF LagStep

\* What a step does to the lists.
LEMMA ListsChange ==
  ASSUME TypeOK, NEW b \in Bundles
  PROVE  /\ BundleGetsLag(b) \/ BundleGetsNoLag(b) => linked' = linked
         /\ DestroyBundle(b) => linked' = [linked EXCEPT ![b] = {}]
         /\ \A p \in Ports : LinkPort(b, p) => Unlinked(p) /\ linked' = [linked EXCEPT ![b] = @ \cup {p}]
         /\ \A p \in Ports : UnlinkPort(b, p) => linked' = [linked EXCEPT ![b] = @ \ {p}]
BY DEF BundleGetsLag, BundleGetsNoLag, DestroyBundle, LinkPort, UnlinkPort

\* Nothing that failed is undone.
LEMMA FailedStays ==
  ASSUME TypeOK, Next, failed
  PROVE  failed'
BY DEF TypeOK, Next, BundleGetsLag, BundleGetsNoLag, LagNotCreated, DestroyBundle, LagRemoved,
       LinkPort, UnlinkPort, Works, Fails

\* While nothing failed, the ports of a bundle are those it lists, and no other does.
LEMMA TidyHolds ==
  ASSUME LagInv, FollowInv, ~failed, Exclusive
  PROVE  Tidy
<1>1. \A x \in AllBundles : PortsOf(x) = ListedBy(x)
  <2> TAKE x \in AllBundles
  <2>1. CASE IsLag(x)
    <3>1. x \in Bundles /\ isLag[x] /\ x \notin Ports
      BY <2>1, MirrorAssumption DEF IsLag
    <3>2. hw[HandleOf(x)] = linked[x]
      BY <3>1 DEF FollowInv, LagsFollowBundles, HandleOf
    <3> QED
      BY <2>1, <3>1, <3>2 DEF PortsOf, ListedBy
  <2>2. CASE ~IsLag(x)
    BY <2>2 DEF PortsOf
  <2> QED
    BY <2>1, <2>2
<1>2. ASSUME NEW x \in AllBundles, NEW y \in AllBundles, NEW p \in ListedBy(x), p \in ListedBy(y)
      PROVE  x = y
  <2>1. CASE x \in Ports /\ y \in Ports
    BY <1>2, <2>1 DEF ListedBy
  <2>2. CASE x \notin Ports /\ y \notin Ports
    BY <1>2, <2>2 DEF ListedBy, AllBundles, FollowInv, LinkedOnce
  <2>3. CASE ~(x \in Ports <=> y \in Ports)
    BY <1>2, <2>3 DEF ListedBy, AllBundles, Exclusive
  <2> QED
    BY <2>1, <2>2, <2>3
<1> QED
  BY <1>1, <1>2 DEF Tidy

-----------------------------------------------------------------------------
(* The calls *)

\* The bundles that are outputs keep their LAGs.
HandlesOf(v) ==
  \A c \in Bundles : isLag[c] /\ (\E m \in DOMAIN v.mirror : v.mirror[m].out = c)
    => isLag'[c] /\ HandleOf(c)' = HandleOf(c)

\* The ports that mirror are listed where they were.
ListsOf(v, T) ==
  \A d \in Directions : \A p \in Ports \ T : \A x \in AllBundles :
    IsSource(v, d, p, x) /\ v.attr[d][p] # None => p \in ListedBy(x)'

LEMMA AgreeCarries ==
  ASSUME NEW v \in Worlds, MirrorDoes(v), Agree(v), OutputsThere(v, plain'), HandlesOf(v)
  PROVE  Agree(World)'
<1>1. /\ World'.mirror = v.mirror /\ World'.owner = v.owner /\ World'.monitors = v.monitors
  BY DEF MirrorDoes, World
<1>2. OwnersLive(World)'
  BY <1>1 DEF OwnersLive, Agree
<1>3. SessionsOwned(World)'
  BY <1>1 DEF SessionsOwned, Agree
<1>4. MonitorsRight(World)'
  <2>1. ASSUME NEW m \in DOMAIN v.mirror, v.mirror[m].hid # None
        PROVE  Monitored(v.mirror[m].out, v.monitors[v.mirror[m].hid])'
    <3>1. Monitored(v.mirror[m].out, v.monitors[v.mirror[m].hid])
      BY <2>1 DEF Agree, MonitorsRight
    <3>2. \A c \in Bundles : isLag[c] /\ v.mirror[m].out = c => isLag'[c] /\ HandleOf(c)' = HandleOf(c)
      BY DEF HandlesOf
    <3> QED
      BY <3>1, <3>2 DEF Monitored
  <2> QED
    BY <1>1, <2>1 DEF MonitorsRight
<1>5. OutputsThere(World, plain)'
  BY <1>1 DEF OutputsThere
<1> QED
  BY <1>2, <1>3, <1>4, <1>5 DEF Agree

LEMMA RightCarries ==
  ASSUME NEW v \in Worlds, NEW T, MirrorDoes(v), Right(v, T), Left(v, T) \subseteq stale',
         ListsOf(v, T)
  PROVE  Right(World, stale)'
<1>1. /\ World'.mirror = v.mirror /\ World'.owner = v.owner /\ World'.attr = v.attr
  BY DEF MirrorDoes, World
<1>2. ASSUME NEW d \in Directions, NEW p \in Ports \ stale', World'.attr[d][p] # None
      PROVE  \E x \in AllBundles : IsSource(World, d, p, x)'
  <2>1. p \notin T /\ v.attr[d][p] # None
    BY <1>1, <1>2 DEF Left
  <2>2. PICK x \in AllBundles : IsSource(v, d, p, x)
    BY <2>1 DEF Right
  <2>3. p \in ListedBy(x)'
    BY <2>1, <2>2 DEF ListsOf
  <2> QED
    BY <1>1, <2>2, <2>3 DEF IsSource
<1> QED
  BY <1>2 DEF Right

\* A step that leaves world v.
LEMMA StepKeeps ==
  ASSUME NEW v \in Worlds, NEW T, MirrorDoes(v), Left(v, T) \subseteq stale',
         plain' \subseteq Ports, stale' \subseteq Ports, Exclusive',
         ~v.stop => Agree(v) /\ OutputsThere(v, plain') /\ HandlesOf(v),
         ~v.stop /\ ~failed' => Right(v, T) /\ ListsOf(v, T)
  PROVE  MirrorInv'
<1>1. stopped' = v.stop
  BY DEF MirrorDoes
<1>2. World' \in Worlds
  BY DEF MirrorDoes, World, Worlds
<1>3. stopped' \in BOOLEAN
  BY <1>1 DEF Worlds
<1>4. ~stopped' => Agree(World)'
  BY <1>1, AgreeCarries
<1>5. ~stopped' /\ ~failed' => Right(World, stale)'
  BY <1>1, RightCarries
<1> QED
  BY <1>2, <1>3, <1>4, <1>5 DEF MirrorInv

\* What a step finds.
LEMMA WorldIs ==
  ASSUME LagInv, FollowInv, MirrorInv, ~stopped
  PROVE  /\ World \in Worlds /\ ~World.stop /\ Agree(World) /\ plain \subseteq Ports /\ stale \subseteq Ports
         /\ ~failed => Tidy /\ Right(World, stale)
BY TidyHolds DEF MirrorInv, World

\* Nothing happens to the LAGs and the lists.
LEMMA NothingElse ==
  ASSUME UNCHANGED <<vars, plain>>, MirrorInv
  PROVE  /\ Exclusive' /\ plain' \subseteq Ports
         /\ \A v : HandlesOf(v) /\ (Agree(v) => OutputsThere(v, plain'))
         /\ \A v, T : ListsOf(v, T)
BY DEF vars, MirrorInv, Exclusive, HandlesOf, HandleOf, Agree, OutputsThere, ListsOf, ListedBy, IsSource

LEMMA LeftIs ==
  ASSUME NEW v, NEW T \in SUBSET Ports, stale' = Left(v, T)
  PROVE  stale' \subseteq Ports /\ Left(v, T) \subseteq stale'
BY DEF Left

LEMMA MirrorSetKeeps ==
  ASSUME LagInv, FollowInv, MirrorInv, NEW m \in Mirrors, NEW out \in AllBundles,
         NEW sources \in Sources, MirrorSet(m, out, sources)
  PROVE  MirrorInv'
<1>1. PICK s \in (Sessions \ DOMAIN monitors) \cup {None} :
        \E w1 \in Walks(MirrorReady(World, m, out, s), m, "ingress", sources) :
        \E w2 \in IF w1.busy THEN {w1} ELSE Walks(w1, m, "egress", sources) :
          MirrorDoes(w2) /\ stale' = Left(w2, stale)
  BY DEF MirrorSet
<1>2. PICK w0, w1, w2 :
        /\ w0 = MirrorReady(World, m, out, s)
        /\ w1 \in Walks(w0, m, "ingress", sources)
        /\ w2 = w1 \/ w2 \in Walks(w1, m, "egress", sources)
        /\ MirrorDoes(w2) /\ stale' = Left(w2, stale)
  <2>1. PICK w1 \in Walks(MirrorReady(World, m, out, s), m, "ingress", sources) :
        \E w2 \in IF w1.busy THEN {w1} ELSE Walks(w1, m, "egress", sources) :
          MirrorDoes(w2) /\ stale' = Left(w2, stale)
    BY <1>1
  <2>2. PICK w2 \in IF w1.busy THEN {w1} ELSE Walks(w1, m, "egress", sources) :
          MirrorDoes(w2) /\ stale' = Left(w2, stale)
    BY <2>1
  <2>3. w2 = w1 \/ w2 \in Walks(w1, m, "egress", sources)
    BY <2>2
  <2> QED
    BY <2>1, <2>2, <2>3
<1>3. ~stopped /\ Exists(out) /\ UNCHANGED <<vars, plain>>
  BY DEF MirrorSet
<1>4. /\ World \in Worlds /\ ~World.stop /\ Agree(World) /\ plain \subseteq Ports /\ stale \subseteq Ports
      /\ ~failed => Tidy /\ Right(World, stale)
  BY <1>3, WorldIs
<1>5. s \in Sessions \cup {None} /\ s \notin DOMAIN World.monitors
  <2>1. DOMAIN World.monitors \subseteq Sessions
    BY <1>4, WorldParts, PartialElim
  <2>2. World.monitors = monitors
    BY DEF World
  <2> QED
    BY <2>1, <2>2, MirrorAssumption
<1>6. /\ Keeps(World, w0)
      /\ ~w0.stop => m \in DOMAIN w0.mirror
      /\ ~w0.stop => \A d \in Directions : \A y \in AllBundles : w0.owner[d][y] # m
  BY <1>2, <1>3, <1>4, <1>5, MirrorReadyKeeps
<1>7. w0 \in Worlds
  BY <1>6 DEF Keeps
<1>8. /\ Keeps(w0, w1) /\ w1.mirror = w0.mirror
      /\ \A e \in Directions \ {"ingress"} : w1.owner[e] = w0.owner[e]
  BY <1>2, <1>6, <1>7, WalksKeep
<1>9. w1 \in Worlds /\ (~w1.stop => ~w0.stop)
  BY <1>8 DEF Keeps
<1>10. Keeps(w1, w2) \/ w2 = w1
  <2>1. CASE w2 \in Walks(w1, m, "egress", sources)
    <3>1. ~w1.stop => m \in DOMAIN w1.mirror
      BY <1>6, <1>8, <1>9
    <3>2. ~w1.stop /\ "egress" \in Directions => \A y \in AllBundles : w1.owner["egress"][y] # m
      <4>1. "egress" \in Directions => w1.owner["egress"] = w0.owner["egress"]
        BY <1>8
      <4> QED
        BY <1>6, <1>9, <4>1
    <3> QED
      BY <1>9, <2>1, <3>1, <3>2, WalksKeep
  <2> QED
    BY <1>2, <2>1
<1>11. Keeps(World, w2)
  BY <1>6, <1>8, <1>10, KeepsOn
<1>12. /\ w2 \in Worlds
       /\ ~w2.stop => Agree(w2)
       /\ ~w2.stop /\ ~failed => Right(w2, stale)
  BY <1>4, <1>11 DEF Keeps
<1>13. stale' \subseteq Ports /\ Left(w2, stale) \subseteq stale' /\ failed' = failed
  BY <1>2, <1>3, <1>4, LeftIs DEF vars
<1>14. /\ Exclusive' /\ plain' \subseteq Ports
       /\ HandlesOf(w2) /\ (Agree(w2) => OutputsThere(w2, plain')) /\ ListsOf(w2, stale)
  BY <1>3, NothingElse
<1> QED
  BY <1>2, <1>12, <1>13, <1>14, StepKeeps

LEMMA MirrorDestroyKeeps ==
  ASSUME LagInv, FollowInv, MirrorInv, NEW m \in Mirrors, MirrorDestroy(m)
  PROVE  MirrorInv'
<1>1. PICK v : v = MirrorGone(World, m) /\ MirrorDoes(v) /\ stale' = Left(v, stale)
  BY DEF MirrorDestroy
<1>2. ~stopped /\ m \in DOMAIN World.mirror /\ UNCHANGED <<vars, plain>>
  BY DEF MirrorDestroy, World
<1>3. /\ World \in Worlds /\ ~World.stop /\ Agree(World) /\ plain \subseteq Ports /\ stale \subseteq Ports
      /\ ~failed => Tidy /\ Right(World, stale)
  BY <1>2, WorldIs
<1>4. {m} \in SUBSET Mirrors
  OBVIOUS
<1>5. Drops(World, v, {m})
  BY <1>1, <1>2, <1>3, MirrorGoneDrops
<1>6. Keeps(World, v)
  BY <1>3, <1>4, <1>5, DropsKeep
<1>7. /\ v \in Worlds
      /\ ~v.stop => Agree(v)
      /\ ~v.stop /\ ~failed => Right(v, stale)
  BY <1>3, <1>6 DEF Keeps
<1>8. stale' \subseteq Ports /\ Left(v, stale) \subseteq stale' /\ failed' = failed
  BY <1>1, <1>2, <1>3, LeftIs DEF vars
<1>9. /\ Exclusive' /\ plain' \subseteq Ports
      /\ HandlesOf(v) /\ (Agree(v) => OutputsThere(v, plain')) /\ ListsOf(v, stale)
  BY <1>2, NothingElse
<1> QED
  BY <1>1, <1>7, <1>8, <1>9, StepKeeps

LEMMA OutputsKeepLags ==
  ASSUME LagInv, NEW b \in Bundles, NEW v,
         \/ LagStep(b)
         \/ DestroyBundle(b) /\ \A m \in DOMAIN v.mirror : v.mirror[m].out # b
  PROVE  HandlesOf(v)
<1> SUFFICES ASSUME NEW c \in Bundles, isLag[c], NEW m \in DOMAIN v.mirror, v.mirror[m].out = c
             PROVE  isLag'[c] /\ HandleOf(c)' = HandleOf(c)
  BY DEF HandlesOf
<1>1. LagStep(b) \/ (DestroyBundle(b) /\ c # b)
  OBVIOUS
<1> QED
  BY <1>1, HandlesStay

LEMMA NothingFailedBefore ==
  ASSUME LagInv, NEW b \in Bundles, LagStep(b) \/ DestroyBundle(b), ~failed'
  PROVE  ~failed
<1>1. TypeOK
  BY DEF LagInv, TableInv
<1>2. Next
  BY DEF LagStep, Next
<1> QED
  BY <1>1, <1>2, FailedStays

\* The lists of ports and of LAG bundles.
LEMMA ListedByIs ==
  /\ \A x \in Ports : ListedBy(x) = plain \cap {x}
  /\ \A x \in Bundles : ListedBy(x) = linked[x] /\ x \notin Ports
BY MirrorAssumption DEF ListedBy

\* Nothing happens to the mirrors.
LEMMA MirrorsUntouched ==
  ASSUME MirrorInv, ~stopped, UNCHANGED <<mirror, owner, attr, monitors, stopped>>
  PROVE  MirrorDoes(World)
<1>1. stopped \in BOOLEAN
  BY DEF MirrorInv
<1>2. stopped' = FALSE
  BY <1>1
<1> QED
  BY <1>2 DEF MirrorDoes, World

LEMMA LagSetKeeps ==
  ASSUME LagInv, FollowInv, MirrorInv, NEW b \in Bundles, LagSet(b)
  PROVE  MirrorInv'
<1>1. ~stopped /\ LagStep(b) /\ UNCHANGED mirrorVars
  BY DEF LagSet, LagStep
<1>2. /\ World \in Worlds /\ ~World.stop /\ Agree(World) /\ plain \subseteq Ports /\ stale \subseteq Ports
      /\ ~failed => Tidy /\ Right(World, stale)
  BY <1>1, WorldIs
<1>3. TypeOK
  BY DEF LagInv, TableInv
<1>4. linked' = linked
  BY <1>3, ListsChange DEF LagSet
<1>5. MirrorDoes(World)
  BY <1>1, MirrorsUntouched DEF mirrorVars
<1>6. stale' = stale /\ plain' = plain
  BY <1>1 DEF mirrorVars
<1>7. Exclusive'
  BY <1>4, <1>6 DEF MirrorInv, Exclusive
<1>8. HandlesOf(World)
  BY <1>1, OutputsKeepLags
<1>9. ListsOf(World, stale) /\ OutputsThere(World, plain') /\ Left(World, stale) \subseteq stale'
  BY <1>2, <1>4, <1>6 DEF ListsOf, ListedBy, IsSource, OutputsThere, Agree, Left
<1>10. ~failed' => ~failed
  BY <1>1, NothingFailedBefore
<1> QED
  BY <1>2, <1>5, <1>6, <1>7, <1>8, <1>9, <1>10, StepKeeps

LEMMA PortJoinsKeeps ==
  ASSUME LagInv, FollowInv, MirrorInv, NEW b \in Bundles, NEW p \in Ports, PortJoins(b, p)
  PROVE  MirrorInv'
<1> DEFINE T == stale \cup {p}
<1>1. ~stopped /\ LinkPort(b, p) /\ plain' = plain \ {p}
  BY DEF PortJoins
<1>2. PICK v \in IF p \in plain THEN EmptyBundleGone(World, p) ELSE {World} :
        MirrorDoes(v) /\ stale' = Left(v, T)
  BY DEF PortJoins
<1>3. /\ World \in Worlds /\ ~World.stop /\ Agree(World) /\ plain \subseteq Ports /\ stale \subseteq Ports
      /\ ~failed => Tidy /\ Right(World, stale)
  BY <1>1, WorldIs
<1>4. TypeOK
  BY DEF LagInv, TableInv
<1>5. /\ linked' = [linked EXCEPT ![b] = @ \cup {p}] /\ Unlinked(p)
      /\ linked \in [Bundles -> SUBSET Ports]
  BY <1>1, <1>4, ListsChange DEF TypeOK
<1>6. LagStep(b)
  BY <1>1 DEF LagStep
<1>7. ~failed' => ~failed
  BY <1>6, NothingFailedBefore
<1>8. ~failed => Right(World, T)
  BY <1>3 DEF Right
<1>9. /\ v \in Worlds
      /\ ~v.stop => Agree(v) /\ \A m \in DOMAIN v.mirror : v.mirror[m].out # p
      /\ ~v.stop /\ ~failed => Right(v, T)
  <2>1. CASE p \in plain
    <3>1. v \in EmptyBundleGone(World, p) /\ p \in AllBundles
      BY <1>2, <2>1 DEF AllBundles
    <3>2. \A d \in Directions : \A q \in ListedBy(p) \ T : World.owner[d][p] = None \/ World.attr[d][q] = None
      BY ListedByIs
    <3> HIDE DEF T
    <3>3. v \in Worlds /\ \A m \in DOMAIN v.mirror : v.mirror[m].out # p
      BY <1>3, <3>1, EmptyBundleGoneKeeps
    <3>4. ~v.stop => Agree(v)
      BY <1>3, <3>1, EmptyBundleGoneKeeps
    <3>5. ~v.stop /\ ~failed => Right(v, T)
      BY <1>3, <1>8, <3>1, <3>2, EmptyBundleGoneKeeps
    <3> QED
      BY <3>3, <3>4, <3>5
  <2>2. CASE p \notin plain
    <3>1. v = World
      BY <1>2, <2>2
    <3>2. \A m \in DOMAIN World.mirror : World.mirror[m].out # p
      BY <1>3, <2>2 DEF Agree, OutputsThere
    <3> QED
      BY <1>3, <1>8, <3>1, <3>2
  <2> QED
    BY <2>1, <2>2
<1>10. T \in SUBSET Ports
  BY <1>3
<1>11. stale' \subseteq Ports /\ Left(v, T) \subseteq stale'
  BY <1>2, <1>10, LeftIs
<1>12. Exclusive' /\ plain' \subseteq Ports
  BY <1>1, <1>3, <1>5 DEF MirrorInv, Exclusive
<1>13. ~v.stop => OutputsThere(v, plain')
  BY <1>1, <1>9 DEF Agree, OutputsThere
<1>14. HandlesOf(v)
  BY <1>6, OutputsKeepLags
<1>15. ListsOf(v, T)
  <2> SUFFICES ASSUME NEW q \in Ports \ T, NEW x \in AllBundles, q \in ListedBy(x)
               PROVE  q \in ListedBy(x)'
    BY DEF ListsOf, IsSource
  <2>1. q # p
    OBVIOUS
  <2>2. CASE x \in Ports
    BY <1>1, <2>1, <2>2 DEF ListedBy
  <2>3. CASE x \notin Ports
    BY <1>5, <2>3 DEF ListedBy, AllBundles
  <2> QED
    BY <2>2, <2>3
<1> HIDE DEF T
<1> QED
  BY <1>2, <1>7, <1>9, <1>11, <1>12, <1>13, <1>14, <1>15, StepKeeps

\* A port leaves LAG bundle b, for good or for its own bundle.
LEMMA LeavingIs ==
  ASSUME LagInv, FollowInv, MirrorInv, ~stopped, NEW b \in Bundles, NEW p \in Ports, p \in linked[b],
         NEW v, v = MemberLeaves(World, b, p), NEW T, T = stale \cup Forgotten(b, p)
  PROVE  /\ v \in Worlds /\ ~v.stop /\ Agree(v) /\ T \in SUBSET Ports
         /\ ~failed => Right(v, T)
         /\ p \notin T => \A d \in Directions : v.owner[d][b] = None \/ v.attr[d][p] = None
<1>1. /\ World \in Worlds /\ ~World.stop /\ Agree(World) /\ plain \subseteq Ports /\ stale \subseteq Ports
      /\ ~failed => Tidy /\ Right(World, stale)
  BY WorldIs
<1>2. /\ v \in Worlds /\ v.stop = World.stop
      /\ Agree(World) => Agree(v)
      /\ \A X : Right(World, X) => Right(v, X)
      /\ \A d \in Directions : isLag[b] => v.owner[d][b] = None \/ v.attr[d][p] = None
  BY <1>1, MemberLeavesKeeps
<1>3. ~failed => Right(World, T)
  BY <1>1 DEF Right
<1>4. p \notin T => isLag[b]
  BY DEF Forgotten
<1>5. T \in SUBSET Ports
  BY <1>1 DEF Forgotten
<1> QED
  BY <1>1, <1>2, <1>3, <1>4, <1>5

\* The same where the bundle goes on without the port.
LEMMA UnlinkedIs ==
  ASSUME LagInv, FollowInv, MirrorInv, ~stopped, NEW b \in Bundles, NEW p \in Ports, UnlinkPort(b, p),
         NEW v, v = MemberLeaves(World, b, p), NEW T, T = stale \cup Forgotten(b, p),
         plain \subseteq plain'
  PROVE  /\ HandlesOf(v) /\ OutputsThere(v, plain')
         /\ ~failed' => ~failed /\ ListsOf(v, T)
<1>1. p \in linked[b]
  BY DEF UnlinkPort
<1>2. /\ v \in Worlds /\ ~v.stop /\ Agree(v) /\ T \in SUBSET Ports
      /\ ~failed => Right(v, T)
      /\ p \notin T => \A d \in Directions : v.owner[d][b] = None \/ v.attr[d][p] = None
  BY <1>1, LeavingIs
<1>3. LagStep(b)
  BY DEF LagStep
<1>4. ~failed' => ~failed
  BY <1>3, NothingFailedBefore
<1>5. HandlesOf(v)
  BY <1>3, OutputsKeepLags
<1>6. OutputsThere(v, plain')
  BY <1>2 DEF Agree, OutputsThere
<1>7. TypeOK
  BY DEF LagInv, TableInv
<1>8. linked' = [linked EXCEPT ![b] = @ \ {p}] /\ linked \in [Bundles -> SUBSET Ports]
  BY <1>7, ListsChange DEF TypeOK
<1>9. ASSUME ~failed, NEW d \in Directions, NEW q \in Ports \ T, NEW x \in AllBundles,
             IsSource(v, d, q, x), v.attr[d][q] # None
      PROVE  q \in ListedBy(x)'
  <2>1. q \in ListedBy(x) /\ v.owner[d][x] # None
    BY <1>9 DEF IsSource
  <2>2. CASE x \in Ports
    BY <2>1, <2>2 DEF ListedBy
  <2>3. CASE x \in Bundles /\ x # b
    BY <1>8, <2>1, <2>3, ListedByIs DEF ListedBy
  <2>4. CASE x = b
    <3>1. q # p
      BY <1>2, <1>9, <2>1, <2>4
    <3> QED
      BY <1>8, <2>1, <2>4, <3>1, ListedByIs DEF ListedBy
  <2> QED
    BY <2>2, <2>3, <2>4 DEF AllBundles
<1> QED
  BY <1>4, <1>5, <1>6, <1>9 DEF ListsOf

LEMMA PortLeavesKeeps ==
  ASSUME LagInv, FollowInv, MirrorInv, NEW b \in Bundles, NEW p \in Ports, PortLeaves(b, p)
  PROVE  MirrorInv'
<1>1. ~stopped /\ UnlinkPort(b, p) /\ plain' = plain /\ p \in linked[b]
  BY DEF PortLeaves, UnlinkPort
<1>2. /\ World \in Worlds /\ ~World.stop /\ Agree(World) /\ plain \subseteq Ports /\ stale \subseteq Ports
  BY <1>1, WorldIs
<1>3. TypeOK
  BY DEF LagInv, TableInv
<1>4. linked' = [linked EXCEPT ![b] = @ \ {p}] /\ linked \in [Bundles -> SUBSET Ports]
  BY <1>1, <1>3, ListsChange DEF TypeOK
<1>5. Exclusive' /\ plain' \subseteq Ports
  BY <1>1, <1>2, <1>4 DEF MirrorInv, Exclusive
<1>6. CASE \E v : /\ v = MemberLeaves(World, b, p) /\ MirrorDoes(v)
                  /\ stale' = Left(v, stale \cup Forgotten(b, p))
  <2>1. PICK v, T : /\ v = MemberLeaves(World, b, p) /\ MirrorDoes(v) /\ stale' = Left(v, T)
                    /\ T = stale \cup Forgotten(b, p)
    BY <1>6
  <2>2. /\ v \in Worlds /\ ~v.stop /\ Agree(v) /\ T \in SUBSET Ports
        /\ ~failed => Right(v, T)
    BY <1>1, <2>1, LeavingIs
  <2>3. plain \subseteq plain'
    BY <1>1
  <2>4. /\ HandlesOf(v) /\ OutputsThere(v, plain')
        /\ ~failed' => ~failed /\ ListsOf(v, T)
    BY <1>1, <2>1, <2>3, UnlinkedIs
  <2>5. stale' \subseteq Ports /\ Left(v, T) \subseteq stale'
    BY <2>1, <2>2, LeftIs
  <2> QED
    BY <1>5, <2>1, <2>2, <2>4, <2>5, StepKeeps
<1>7. CASE failed' /\ UNCHANGED <<mirror, owner, attr, monitors, stale, stopped>>
  <2>1. MirrorDoes(World)
    BY <1>1, <1>7, MirrorsUntouched
  <2>2. LagStep(b)
    BY <1>1 DEF LagStep
  <2>3. HandlesOf(World)
    BY <2>2, OutputsKeepLags
  <2>4. OutputsThere(World, plain') /\ Left(World, stale) \subseteq stale' /\ stale' \subseteq Ports
    BY <1>1, <1>2, <1>7 DEF Agree, OutputsThere, Left
  <2> QED
    BY <1>2, <1>5, <1>7, <2>1, <2>3, <2>4, StepKeeps
<1> QED
  BY <1>6, <1>7 DEF PortLeaves

\* The lists of the other bundles stay when bundle b goes.
LEMMA OthersStayListed ==
  ASSUME LagInv, NEW b \in Bundles, DestroyBundle(b), plain \subseteq plain',
         NEW v, NEW T, \A d \in Directions : v.owner[d][b] = None
  PROVE  ListsOf(v, T)
<1>1. TypeOK
  BY DEF LagInv, TableInv
<1>2. linked' = [linked EXCEPT ![b] = {}] /\ linked \in [Bundles -> SUBSET Ports]
  BY <1>1, ListsChange DEF TypeOK
<1> SUFFICES ASSUME NEW d \in Directions, NEW q \in Ports \ T, NEW x \in AllBundles,
                    IsSource(v, d, q, x)
             PROVE  q \in ListedBy(x)'
  BY DEF ListsOf
<1>3. q \in ListedBy(x) /\ x # b
  BY DEF IsSource
<1>4. CASE x \in Ports
  BY <1>3, <1>4 DEF ListedBy
<1>5. CASE x \in Bundles
  BY <1>2, <1>3, <1>5, ListedByIs DEF ListedBy
<1> QED
  BY <1>4, <1>5 DEF AllBundles

LEMMA BundleDestroyKeeps ==
  ASSUME LagInv, FollowInv, MirrorInv, NEW b \in Bundles, BundleDestroy(b)
  PROVE  MirrorInv'
<1>1. ~stopped /\ DestroyBundle(b) /\ plain' = plain /\ b \in AllBundles
  BY DEF BundleDestroy, AllBundles
<1>2. PICK v \in BundleGone(World, b) : MirrorDoes(v) /\ stale' = Left(v, stale)
  BY DEF BundleDestroy
<1>3. /\ World \in Worlds /\ ~World.stop /\ Agree(World) /\ plain \subseteq Ports /\ stale \subseteq Ports
      /\ ~failed => Tidy /\ Right(World, stale)
  BY <1>1, WorldIs
<1>4. /\ Keeps(World, v)
      /\ \A m \in DOMAIN v.mirror : v.mirror[m].out # b
      /\ ~v.stop => \A d \in Directions : v.owner[d][b] = None
  BY <1>1, <1>2, <1>3, BundleGoneKeeps
<1>5. /\ v \in Worlds
      /\ ~v.stop => Agree(v)
      /\ ~v.stop /\ ~failed => Right(v, stale)
  BY <1>3, <1>4 DEF Keeps
<1>6. HandlesOf(v)
  BY <1>1, <1>4, OutputsKeepLags
<1>7. ~v.stop => OutputsThere(v, plain')
  BY <1>1, <1>5 DEF Agree
<1>8. plain \subseteq plain'
  BY <1>1
<1>9. ~v.stop => ListsOf(v, stale)
  BY <1>1, <1>4, <1>8, OthersStayListed
<1>10. ~failed' => ~failed
  BY <1>1, NothingFailedBefore
<1>11. stale' \subseteq Ports /\ Left(v, stale) \subseteq stale'
  BY <1>2, <1>3, LeftIs
<1>12. Exclusive' /\ plain' \subseteq Ports
  <2>1. TypeOK
    BY DEF LagInv, TableInv
  <2>2. linked' = [linked EXCEPT ![b] = {}] /\ linked \in [Bundles -> SUBSET Ports]
    BY <1>1, <2>1, ListsChange DEF TypeOK
  <2> QED
    BY <1>1, <1>3, <2>2 DEF MirrorInv, Exclusive
<1> QED
  BY <1>2, <1>5, <1>6, <1>7, <1>9, <1>10, <1>11, <1>12, StepKeeps

LEMMA PlainDestroyKeeps ==
  ASSUME LagInv, FollowInv, MirrorInv, NEW p \in Ports, PlainDestroy(p)
  PROVE  MirrorInv'
<1>1. ~stopped /\ plain' = plain \ {p} /\ UNCHANGED vars /\ p \in AllBundles
  BY DEF PlainDestroy, AllBundles
<1>2. PICK v \in BundleGone(World, p) : MirrorDoes(v) /\ stale' = Left(v, stale)
  BY DEF PlainDestroy
<1>3. /\ World \in Worlds /\ ~World.stop /\ Agree(World) /\ plain \subseteq Ports /\ stale \subseteq Ports
      /\ ~failed => Tidy /\ Right(World, stale)
  BY <1>1, WorldIs
<1>4. /\ Keeps(World, v)
      /\ \A m \in DOMAIN v.mirror : v.mirror[m].out # p
      /\ ~v.stop => \A d \in Directions : v.owner[d][p] = None
  BY <1>1, <1>2, <1>3, BundleGoneKeeps
<1>5. /\ v \in Worlds
      /\ ~v.stop => Agree(v)
      /\ ~v.stop /\ ~failed => Right(v, stale)
  BY <1>3, <1>4 DEF Keeps
<1>6. HandlesOf(v)
  BY <1>1 DEF HandlesOf, HandleOf, vars
<1>7. ~v.stop => OutputsThere(v, plain')
  BY <1>1, <1>4, <1>5 DEF Agree, OutputsThere
<1>8. ASSUME ~v.stop PROVE ListsOf(v, stale)
  <2> SUFFICES ASSUME NEW d \in Directions, NEW q \in Ports \ stale, NEW x \in AllBundles,
                      IsSource(v, d, q, x)
               PROVE  q \in ListedBy(x)'
    BY DEF ListsOf
  <2>1. q \in ListedBy(x) /\ x # p
    BY <1>4, <1>8 DEF IsSource
  <2> QED
    BY <1>1, <2>1 DEF ListedBy, vars
<1>9. failed' = failed
  BY <1>1 DEF vars
<1>10. stale' \subseteq Ports /\ Left(v, stale) \subseteq stale'
  BY <1>2, <1>3, LeftIs
<1>11. Exclusive' /\ plain' \subseteq Ports
  BY <1>1, <1>3 DEF MirrorInv, Exclusive, vars
<1> QED
  BY <1>2, <1>5, <1>6, <1>7, <1>8, <1>9, <1>10, <1>11, StepKeeps

LEMMA PlainSetKeeps ==
  ASSUME LagInv, FollowInv, MirrorInv, NEW p \in Ports, PlainSet(p)
  PROVE  MirrorInv'
<1>1. ~stopped /\ plain' = plain \cup {p} /\ plain \subseteq plain'
  BY DEF PlainSet
<1>2. /\ World \in Worlds /\ ~World.stop /\ Agree(World) /\ plain \subseteq Ports /\ stale \subseteq Ports
      /\ ~failed => Tidy /\ Right(World, stale)
  BY <1>1, WorldIs
<1>3. plain' \subseteq Ports
  BY <1>1, <1>2
<1>4. CASE Unlinked(p) /\ UNCHANGED <<vars, mirror, owner, attr, monitors, stale, stopped>>
  <2>1. MirrorDoes(World)
    BY <1>1, <1>4, MirrorsUntouched
  <2>2. HandlesOf(World)
    BY <1>4 DEF HandlesOf, HandleOf, vars
  <2>3. OutputsThere(World, plain') /\ Left(World, stale) \subseteq stale' /\ stale' \subseteq Ports
    BY <1>1, <1>2, <1>4 DEF Agree, OutputsThere, Left
  <2>4. ListsOf(World, stale)
    BY <1>1, <1>4 DEF ListsOf, IsSource, ListedBy, vars
  <2>5. Exclusive'
    BY <1>1, <1>4 DEF MirrorInv, Exclusive, Unlinked, vars
  <2>6. failed' = failed
    BY <1>4 DEF vars
  <2> QED
    BY <1>2, <1>3, <2>1, <2>2, <2>3, <2>4, <2>5, <2>6, StepKeeps
<1>5. ASSUME NEW b \in Bundles, p \in linked[b],
             IF linked[b] = {p} THEN DestroyBundle(b) ELSE UnlinkPort(b, p),
             NEW u, u = MemberLeaves(World, b, p),
             NEW T, T = stale \cup Forgotten(b, p),
             NEW v, v \in IF linked[b] = {p} THEN EmptyBundleGone(u, b) ELSE {u},
             MirrorDoes(v), stale' = Left(v, T)
      PROVE  MirrorInv'
  <2>1. /\ u \in Worlds /\ ~u.stop /\ Agree(u) /\ T \in SUBSET Ports
        /\ ~failed => Right(u, T)
        /\ p \notin T => \A d \in Directions : u.owner[d][b] = None \/ u.attr[d][p] = None
    BY <1>1, <1>5, LeavingIs
  <2>2. TypeOK
    BY DEF LagInv, TableInv
  <2>3. /\ linked \in [Bundles -> SUBSET Ports]
        /\ linked' = [linked EXCEPT ![b] = {}] \/ linked' = [linked EXCEPT ![b] = @ \ {p}]
    BY <1>5, <2>2, ListsChange DEF TypeOK
  <2>4. Exclusive'
    <3>1. \A c \in Bundles : c # b => p \notin linked[c]
      BY <1>5 DEF FollowInv, LinkedOnce
    <3>2. \A c \in Bundles : linked'[c] \subseteq linked[c] /\ p \notin linked'[c]
      BY <2>3, <3>1
    <3> QED
      BY <1>1, <3>2 DEF MirrorInv, Exclusive
  <2>5. stale' \subseteq Ports /\ Left(v, T) \subseteq stale'
    BY <1>5, <2>1, LeftIs
  <2>6. CASE linked[b] # {p}
    <3>1. v = u /\ UnlinkPort(b, p)
      BY <1>5, <2>6
    <3>2. /\ HandlesOf(v) /\ OutputsThere(v, plain')
          /\ ~failed' => ~failed /\ ListsOf(v, T)
      BY <1>1, <1>5, <3>1, UnlinkedIs
    <3> QED
      BY <1>3, <1>5, <2>1, <2>4, <2>5, <3>1, <3>2, StepKeeps
  <2>7. CASE linked[b] = {p}
    <3>1. v \in EmptyBundleGone(u, b) /\ DestroyBundle(b) /\ b \in AllBundles
      BY <1>5, <2>7 DEF AllBundles
    <3>2. ListedBy(b) = {p}
      BY <2>7, ListedByIs
    <3>3. \A d \in Directions : \A q \in ListedBy(b) \ T : u.owner[d][b] = None \/ u.attr[d][q] = None
      BY <2>1, <3>2
    <3>4. v \in Worlds /\ \A m \in DOMAIN v.mirror : v.mirror[m].out # b
      BY <2>1, <3>1, EmptyBundleGoneKeeps
    <3>5. ~v.stop => Agree(v) /\ \A d \in Directions : v.owner[d][b] = None
      BY <2>1, <3>1, EmptyBundleGoneKeeps
    <3>6. ~v.stop /\ ~failed => Right(v, T)
      BY <1>2, <2>1, <3>1, <3>3, EmptyBundleGoneKeeps
    <3>7. HandlesOf(v)
      BY <3>1, <3>4, OutputsKeepLags
    <3>8. ~v.stop => OutputsThere(v, plain')
      BY <1>1, <3>5 DEF Agree, OutputsThere
    <3>9. ~v.stop => ListsOf(v, T)
      BY <1>1, <3>1, <3>5, OthersStayListed
    <3>10. ~failed' => ~failed
      BY <3>1, NothingFailedBefore
    <3> QED
      BY <1>3, <1>5, <2>4, <2>5, <3>4, <3>5, <3>6, <3>7, <3>8, <3>9, <3>10, StepKeeps
  <2> QED
    BY <2>6, <2>7
<1>6. CASE \E b \in Bundles :
             /\ p \in linked[b]
             /\ IF linked[b] = {p} THEN DestroyBundle(b) ELSE UnlinkPort(b, p)
             /\ \E w1 : /\ w1 = MemberLeaves(World, b, p)
                        /\ \E w \in IF linked[b] = {p} THEN EmptyBundleGone(w1, b) ELSE {w1} :
                             MirrorDoes(w) /\ stale' = Left(w, stale \cup Forgotten(b, p))
  BY <1>5, <1>6
<1> QED
  BY <1>4, <1>6 DEF PlainSet

-----------------------------------------------------------------------------
(* The theorems *)

LEMMA MirrorStepIsLagStep == [MirrorNext]_allVars => [Next]_vars
<1> SUFFICES ASSUME [MirrorNext]_allVars PROVE [Next]_vars
  OBVIOUS
<1>1. ASSUME NEW b \in Bundles, LagSet(b) \/ BundleDestroy(b) PROVE Next
  BY <1>1 DEF LagSet, BundleDestroy, Next
<1>2. ASSUME NEW b \in Bundles, NEW p \in Ports, PortJoins(b, p) \/ PortLeaves(b, p) PROVE Next
  BY <1>2 DEF PortJoins, PortLeaves, Next
<1>3. ASSUME NEW p \in Ports, PlainSet(p) PROVE Next \/ UNCHANGED vars
  BY <1>3 DEF PlainSet, Next
<1>4. ASSUME NEW p \in Ports, PlainDestroy(p) PROVE UNCHANGED vars
  BY <1>4 DEF PlainDestroy
<1>5. ASSUME NEW m \in Mirrors,
             MirrorDestroy(m) \/ \E out \in AllBundles, sources \in Sources : MirrorSet(m, out, sources)
      PROVE  UNCHANGED vars
  BY <1>5 DEF MirrorDestroy, MirrorSet
<1>6. CASE UNCHANGED allVars
  BY <1>6 DEF allVars
<1> QED
  BY <1>1, <1>2, <1>3, <1>4, <1>5, <1>6 DEF MirrorNext

\* Every behaviour of the bundles and their mirrors is one of the LAG class and its
\* bundles alone: the mirror class changes nothing of theirs, and what is proved of
\* LAGs holds here.
THEOREM MirrorsImplementLags == MirrorSpec => Spec
<1>1. MirrorInit => Init
  BY DEF MirrorInit
<1> QED
  BY <1>1, MirrorStepIsLagStep, PTL DEF MirrorSpec, Spec

LEMMA MirrorInvInit == MirrorInit => MirrorInv
<1> SUFFICES ASSUME MirrorInit PROVE MirrorInv
  OBVIOUS
<1>1. /\ plain = {} /\ stale = {} /\ stopped = FALSE
      /\ DOMAIN mirror = {} /\ DOMAIN monitors = {}
      /\ owner = [d \in Directions |-> [x \in AllBundles |-> None]]
      /\ attr = [d \in Directions |-> [p \in Ports |-> None]]
  BY DEF MirrorInit
<1>2. mirror \in Partial(Mirrors, Entries)
  <2>1. mirror \in [{} -> Entries]
    BY DEF MirrorInit
  <2> QED
    BY <2>1, PartialIntro
<1>3. monitors \in Partial(Sessions, Objects)
  <2>1. monitors \in [{} -> Objects]
    BY DEF MirrorInit
  <2> QED
    BY <2>1, PartialIntro
<1>4. World \in Worlds
  BY <1>1, <1>2, <1>3 DEF World, Worlds
<1>5. Agree(World)
  BY <1>1 DEF Agree, OwnersLive, SessionsOwned, MonitorsRight, OutputsThere, World
<1>6. Right(World, stale)
  BY <1>1 DEF Right, World
<1> QED
  BY <1>1, <1>4, <1>5, <1>6 DEF MirrorInv, Exclusive

LEMMA MirrorInvNext == LagInv /\ FollowInv /\ MirrorInv /\ [MirrorNext]_allVars => MirrorInv'
<1> SUFFICES ASSUME LagInv, FollowInv, MirrorInv, [MirrorNext]_allVars PROVE MirrorInv'
  OBVIOUS
<1>1. ASSUME NEW b \in Bundles, LagSet(b) PROVE MirrorInv'
  BY <1>1, LagSetKeeps
<1>2. ASSUME NEW b \in Bundles, NEW p \in Ports, PortJoins(b, p) PROVE MirrorInv'
  BY <1>2, PortJoinsKeeps
<1>3. ASSUME NEW b \in Bundles, NEW p \in Ports, PortLeaves(b, p) PROVE MirrorInv'
  BY <1>3, PortLeavesKeeps
<1>4. ASSUME NEW b \in Bundles, BundleDestroy(b) PROVE MirrorInv'
  BY <1>4, BundleDestroyKeeps
<1>5. ASSUME NEW p \in Ports, PlainSet(p) PROVE MirrorInv'
  BY <1>5, PlainSetKeeps
<1>6. ASSUME NEW p \in Ports, PlainDestroy(p) PROVE MirrorInv'
  BY <1>6, PlainDestroyKeeps
<1>7. ASSUME NEW m \in Mirrors, NEW out \in AllBundles, NEW sources \in Sources,
             MirrorSet(m, out, sources)
      PROVE  MirrorInv'
  BY <1>7, MirrorSetKeeps
<1>8. ASSUME NEW m \in Mirrors, MirrorDestroy(m) PROVE MirrorInv'
  BY <1>8, MirrorDestroyKeeps
<1>9. CASE UNCHANGED allVars
  <2>1. /\ World' = World /\ plain' = plain /\ stale' = stale /\ stopped' = stopped /\ failed' = failed
        /\ linked' = linked /\ isLag' = isLag /\ lag' = lag /\ lagId' = lagId
    BY <1>9 DEF allVars, mirrorVars, vars, World
  <2>2. Exclusive'
    BY <2>1 DEF MirrorInv, Exclusive
  <2>3. Agree(World) => Agree(World)'
    BY <2>1 DEF Agree, OwnersLive, SessionsOwned, MonitorsRight, OutputsThere, Monitored, HandleOf
  <2>4. Right(World, stale) => Right(World, stale)'
    BY <2>1 DEF Right, IsSource, ListedBy
  <2> QED
    BY <2>1, <2>2, <2>3, <2>4 DEF MirrorInv
<1> QED
  BY <1>1, <1>2, <1>3, <1>4, <1>5, <1>6, <1>7, <1>8, <1>9 DEF MirrorNext

LEMMA MirrorInvariant == MirrorSpec => [](LagInv /\ FollowInv /\ MirrorInv)
BY MirrorsImplementLags, LagInvariant, FollowInvariant, MirrorInvInit, MirrorInvNext, PTL
   DEF MirrorSpec

\* The variables always have their types.
THEOREM MirrorTypeCorrect == MirrorSpec => []MirrorTypeOK
<1>1. LagInv /\ MirrorInv => MirrorTypeOK
  <2> SUFFICES ASSUME LagInv, MirrorInv PROVE MirrorTypeOK
    OBVIOUS
  <2>1. /\ World \in Worlds /\ plain \subseteq Ports /\ stale \subseteq Ports /\ stopped \in BOOLEAN
    BY DEF MirrorInv
  <2>2. /\ mirror \in Partial(Mirrors, Entries) /\ monitors \in Partial(Sessions, Objects)
        /\ owner \in [Directions -> [AllBundles -> Mirrors \cup {None}]]
        /\ attr \in [Directions -> [Ports -> Sessions \cup {None}]]
    BY <2>1, WorldParts DEF World
  <2>3. /\ DOMAIN mirror \subseteq Mirrors /\ mirror \in [DOMAIN mirror -> Entries]
        /\ DOMAIN monitors \subseteq Sessions
    BY <2>2, PartialElim
  <2>4. TypeOK
    BY DEF LagInv, TableInv
  <2> QED
    BY <2>1, <2>2, <2>3, <2>4 DEF MirrorTypeOK, Entries
<1> QED
  BY <1>1, MirrorInvariant, PTL

\* Whichever goes first, a bundle or a mirror, and wherever a call gave up: no bundle
\* has a mirror that is gone, no mirror a session that is another's or is gone.
THEOREM MirrorsAndBundlesAgreeHolds == MirrorSpec => []MirrorsAndBundlesAgree
<1>1. LagInv /\ MirrorInv => MirrorsAndBundlesAgree
  <2> SUFFICES ASSUME LagInv, MirrorInv, ~stopped PROVE MirrorsAndBundlesAgree
    BY DEF MirrorsAndBundlesAgree
  <2>1. Agree(World) /\ World.mirror = mirror /\ World.owner = owner /\ World.monitors = monitors
    BY DEF MirrorInv, World
  <2>2. \A x \in Bundles : isLag[x] => HandleOf(x) \in DOMAIN hw
    BY DEF LagInv, BundlesOwnTheirLag, HandleOf
  <2>3. \A m \in DOMAIN mirror : mirror[m].hid # None => monitors[mirror[m].hid] \in Ports \cup DOMAIN hw
    BY <2>1, <2>2 DEF Agree, MonitorsRight, Monitored
  <2> QED
    BY <2>1, <2>3 DEF MirrorsAndBundlesAgree, Agree, OwnersLive, SessionsOwned, OutputsThere
<1> QED
  BY <1>1, MirrorInvariant, PTL

\* While nothing failed, a port mirrors only to the session of a mirror that has its
\* bundle as a source, unless it left a bundle without a LAG.
THEOREM OnlySourcesMirrorHolds == MirrorSpec => []OnlySourcesMirror
<1>1. LagInv /\ FollowInv /\ MirrorInv => OnlySourcesMirror
  <2> SUFFICES ASSUME LagInv, FollowInv, MirrorInv, ~stopped, ~failed PROVE OnlySourcesMirror
    BY DEF OnlySourcesMirror
  <2>1. Right(World, stale) /\ World.mirror = mirror /\ World.owner = owner /\ World.attr = attr
    BY DEF MirrorInv, World
  <2>2. \A x \in AllBundles : PortsOf(x) = ListedBy(x)
    BY TidyHolds DEF Tidy, MirrorInv
  <2> QED
    BY <2>1, <2>2 DEF OnlySourcesMirror, Right, IsSource
<1> QED
  BY <1>1, MirrorInvariant, PTL
=============================================================================
