------------------------------- MODULE SaiLag -------------------------------
(***************************************************************************)
(* The LAG class of the plugin (src/src/sai-lag.c): the pool of LAG ids,   *)
(* its table of LAGs and members, and how the provider's bundles           *)
(* (src/src/sai-ofproto-provider.c) create, fill, empty and remove LAGs.   *)
(*                                                                         *)
(* A call of the class fails when SAI refuses; the provider logs that and  *)
(* goes on.  SAI gives a new LAG a handle no other LAG has, lets a port be *)
(* in one LAG, and, when MayFail, may refuse anything.  When MayFail, the  *)
(* VLAN half of linking or unlinking a port (BundleVlan) may fail too: the *)
(* port is (un)linked all the same and its LAG membership is left alone.   *)
(***************************************************************************)
EXTENDS Integers

CONSTANTS
  Bundles,   \* the bundles whose settings ask for a LAG
  Ports,     \* hardware ids of the physical ports
  PoolSize,  \* SHRT_MAX, the number of LAG ids
  Handles,   \* SAI's handles of LAGs
  NoHandle,  \* the handle of an entry xzalloc made
  MayFail    \* may SAI refuse, and the VLAN programming of a port fail?

ASSUME PoolAssumption == PoolSize \in Nat
ASSUME HandleAssumption == NoHandle \notin Handles
ASSUME FailAssumption == MayFail \in BOOLEAN

VARIABLES
  idle,    \* bitmap_index: the ids not in use
  lag,     \* all_lag: its entries, a function on the ids that have one
  hw,      \* SAI's LAGs: the members of each, a function on their handles
  lagId,   \* lag_info.lag_id of each bundle
  isLag,   \* lag_info.is_lag of each bundle
  linked,  \* the ports each bundle lists; bundles that do not exist list none
  failed   \* history: SAI, or the VLAN programming of a port, failed once

vars == <<idle, lag, hw, lagId, isLag, linked, failed>>

Ids == 0..(PoolSize - 1)


\* struct hlag_entry.
Entry == [handle : Handles \cup {NoHandle}, members : SUBSET Ports]

FreshEntry == [handle |-> NoHandle, members |-> {}]

\* Function f with x mapped to y, and function f without x.
With(f, x, y) == [z \in DOMAIN f \cup {x} |-> IF z = x THEN y ELSE f[z]]
Without(f, x) == [z \in DOMAIN f \ {x} |-> f[z]]

\* Something goes wrong, or not.
Fails   == MayFail /\ failed' = TRUE
Works   == UNCHANGED failed

\* Some LAG of SAI has p as a member.
InSomeLag(p) == \E h \in DOMAIN hw : p \in hw[h]

-----------------------------------------------------------------------------
(* The methods of the class *)

\* __lag_idle_index_get
IsNextId(i) == i \in idle /\ \A j \in idle : i <= j

\* Faulty variant of LagCreated: the id stays idle.
LagCreatedIdStaysIdle(i, h, P) ==
  /\ IsNextId(i)
  /\ h \notin DOMAIN hw
  /\ lag' = With(lag, i, [handle |-> h, members |-> P])
  /\ hw' = With(hw, h, P)
  /\ UNCHANGED idle

\* __lag_create for an id no entry has, which the provider's -1 is: the entry
\* is made before SAI is asked, and stays if SAI refuses.
LagCreated(i, h, P) ==
  /\ IsNextId(i)
  /\ h \notin DOMAIN hw
  /\ idle' = idle \ {i}
  /\ lag' = With(lag, i, [handle |-> h, members |-> P])
  /\ hw' = With(hw, h, P)

LagNotCreated ==
  \/ /\ idle = {}
     /\ UNCHANGED <<idle, lag, hw>>
     /\ Works
  \/ /\ Fails
     /\ \E i \in idle : /\ IsNextId(i)
                       /\ idle' = idle \ {i}
                       /\ lag' = With(lag, i, FreshEntry)
     /\ UNCHANGED hw

\* The members of entry i, and SAI's, become P: __lag_member_port_add and
\* __lag_member_port_del, called for one port or several in a row.
MembersBecome(i, P) ==
  /\ lag' = [lag EXCEPT ![i].members = P]
  /\ hw' = [hw EXCEPT ![lag[i].handle] = P]
  /\ UNCHANGED idle

\* Faulty variant of LagRemoved: the entry goes although SAI refused.
LagRemovedAnyway(i, P) ==
  /\ idle' = idle \cup {i}
  /\ lag' = Without(lag, i)
  /\ \/ P = {} /\ Works /\ hw' = Without(hw, lag[i].handle)
     \/ Fails /\ hw' = [hw EXCEPT ![lag[i].handle] = P]

\* __lag_remove of an entry whose members are, by then, P.  SAI refuses to
\* remove a LAG that has members.
LagRemoved(i, P) ==
  \/ /\ P = {}
     /\ Works
     /\ idle' = idle \cup {i}
     /\ lag' = Without(lag, i)
     /\ hw' = Without(hw, lag[i].handle)
  \/ /\ Fails
     /\ MembersBecome(i, P)

-----------------------------------------------------------------------------
(* The provider *)

\* Faulty variant of BundleGetsLag: the ports that were there before do not join.
BundleGetsEmptyLag(b) ==
  /\ lagId[b] = -1
  /\ \E i \in Ids, h \in Handles :
       /\ LagCreated(i, h, {})
       /\ lagId' = [lagId EXCEPT ![b] = i]
       /\ isLag' = [isLag EXCEPT ![b] = TRUE]
  /\ Works
  /\ UNCHANGED linked

\* __ofbundle_lag_reconfigure, at each bundle_set: a bundle that has no LAG gets
\* one, and __ofproto_lag_create adds the ports the bundle lists, which are
\* there when an earlier attempt failed.  If SAI refuses one it goes on with the
\* next.
BundleGetsLag(b) ==
  /\ lagId[b] = -1
  /\ \E i \in Ids, h \in Handles, P \in SUBSET linked[b] :
       /\ LagCreated(i, h, P)
       /\ \A p \in P : ~InSomeLag(p)
       /\ IF \A p \in linked[b] : p \in P \/ InSomeLag(p) THEN Works ELSE Fails
       /\ lagId' = [lagId EXCEPT ![b] = i]
       /\ isLag' = [isLag EXCEPT ![b] = TRUE]
  /\ UNCHANGED linked

BundleGetsNoLag(b) ==
  /\ lagId[b] = -1
  /\ LagNotCreated
  /\ UNCHANGED <<lagId, isLag, linked>>

Unlinked(p) == \A b \in Bundles : p \notin linked[b]

\* __ofbundle_port_add
LinkPort(b, p) ==
  /\ Unlinked(p)
  /\ linked' = [linked EXCEPT ![b] = @ \cup {p}]
  /\ \/ /\ isLag[b]
        /\ ~InSomeLag(p)
        /\ MembersBecome(lagId[b], lag[lagId[b]].members \cup {p})
        /\ Works
     \/ /\ IF isLag[b] /\ ~InSomeLag(p) THEN Fails ELSE Works
        /\ UNCHANGED <<idle, lag, hw>>
  /\ UNCHANGED <<lagId, isLag>>

\* __ofbundle_port_del; a port that is not a member is not an error.
UnlinkPort(b, p) ==
  /\ p \in linked[b]
  /\ linked' = [linked EXCEPT ![b] = @ \ {p}]
  /\ \/ /\ isLag[b]
        /\ MembersBecome(lagId[b], lag[lagId[b]].members \ {p})
        /\ Works
     \/ /\ IF isLag[b] THEN Fails ELSE Works
        /\ UNCHANGED <<idle, lag, hw>>
  /\ UNCHANGED <<lagId, isLag>>

\* __ofbundle_destroy: every port is unlinked, then __ofproto_lag_destroy, which
\* finds no port listed any more; then the bundle is freed, and a bundle made
\* for the same settings starts at -1.
DestroyBundle(b) ==
  /\ \/ /\ isLag[b]
        /\ \E P \in SUBSET lag[lagId[b]].members :
             /\ lag[lagId[b]].members \ linked[b] \subseteq P
             /\ LagRemoved(lagId[b], P)
     \/ /\ ~isLag[b]
        /\ UNCHANGED <<idle, lag, hw>>
        /\ Works
  /\ linked' = [linked EXCEPT ![b] = {}]
  /\ lagId' = [lagId EXCEPT ![b] = -1]
  /\ isLag' = [isLag EXCEPT ![b] = FALSE]

Init ==
  /\ idle = Ids
  /\ lag = [i \in {} |-> FreshEntry]
  /\ hw = [h \in {} |-> {}]
  /\ lagId = [b \in Bundles |-> -1]
  /\ isLag = [b \in Bundles |-> FALSE]
  /\ linked = [b \in Bundles |-> {}]
  /\ failed = FALSE

Next ==
  \E b \in Bundles :
    \/ BundleGetsLag(b)
    \/ BundleGetsNoLag(b)
    \/ \E p \in Ports : LinkPort(b, p) \/ UnlinkPort(b, p)
    \/ DestroyBundle(b)

Spec == Init /\ [][Next]_vars

-----------------------------------------------------------------------------
(* Properties *)

\* The variables have the types of the C declarations.
TypeOK ==
  /\ idle \subseteq Ids
  /\ DOMAIN lag \subseteq Ids
  /\ lag \in [DOMAIN lag -> Entry]
  /\ DOMAIN hw \subseteq Handles
  /\ hw \in [DOMAIN hw -> SUBSET Ports]
  /\ lagId \in [Bundles -> Ids \cup {-1}]
  /\ isLag \in [Bundles -> BOOLEAN]
  /\ linked \in [Bundles -> SUBSET Ports]
  /\ failed \in BOOLEAN

\* The pool and the table agree: an id is idle or has an entry, never both,
\* whatever SAI refused in between.
PoolMatchesTable == idle \cap DOMAIN lag = {} /\ idle \cup DOMAIN lag = Ids

\* The table is a faithful copy of SAI's LAGs: every LAG of SAI has an entry,
\* one only, which lists exactly its members.
TableMatchesHw ==
  /\ \A h \in DOMAIN hw : \E i \in DOMAIN lag : lag[i].handle = h
  /\ \A i \in DOMAIN lag :
       \/ lag[i] = FreshEntry
       \/ lag[i].handle \in DOMAIN hw /\ lag[i].members = hw[lag[i].handle]
  /\ \A i, j \in DOMAIN lag : lag[i].handle = lag[j].handle /\ lag[i] # FreshEntry => i = j

\* The ids, the table and SAI's LAGs agree whatever SAI refused.
LagClassIsFaithful == PoolMatchesTable /\ TableMatchesHw

\* A bundle that is a LAG has an entry with a LAG of SAI, which no other bundle
\* has: no bundle adds its ports to another's LAG, or removes it.
BundlesOwnTheirLag ==
  \A b \in Bundles :
    /\ isLag[b] => lagId[b] \in DOMAIN lag /\ lag[lagId[b]].handle \in DOMAIN hw
    /\ \A c \in Bundles : isLag[b] /\ isLag[c] /\ lagId[b] = lagId[c] => b = c

\* While nothing failed, a LAG has exactly the ports of its bundle as members,
\* and an id or a LAG that no bundle has is not kept -- whatever bundles ran out
\* of ids, got their LAG later, or were destroyed meanwhile.
LagsFollowBundles ==
  ~failed =>
    /\ \A b \in Bundles : isLag[b] => hw[lag[lagId[b]].handle] = linked[b]
    /\ \A i \in DOMAIN lag : \E b \in Bundles : isLag[b] /\ lagId[b] = i
=============================================================================
