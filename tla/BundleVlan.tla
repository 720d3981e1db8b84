----------------------------- MODULE BundleVlan -----------------------------
(***************************************************************************)
(* How the ofproto provider (src/src/sai-ofproto-provider.c) turns bundle  *)
(* settings into VLAN programming of the bundle's ports: bundle_set,       *)
(* bundle_remove, the destruction of a bundle and set_vlan, over the VLAN  *)
(* class of SaiVlan.                                                       *)
(*                                                                         *)
(* All of these run in the main thread of switchd, one call at a time, so  *)
(* a call is one action.  Inside a call the provider walks lists of ports  *)
(* and stops at the first error; because a VLAN method touches one port    *)
(* only, a walk is described by the result it would have on each port and  *)
(* by the ports it reaches.                                                *)
(*                                                                         *)
(* Every bundle here holds physical ("system") ports and is not cached     *)
(* (config_cache.cache_config is false).  LAG membership is kept as the    *)
(* set of member ports; sai-lag.c itself is the module SaiLag.             *)
(***************************************************************************)
EXTENDS SaiVlan, Integers, SequencesExt

CONSTANTS
  Bundles,        \* the aux keys of bundles
  Lags,           \* those whose settings ask for a LAG (hw_bond_should_exist)
  Disciplined,    \* does the client use VLANs only while they exist?
  NativeInTrunks  \* may a native VLAN be listed among the trunks too?

ASSUME LagsAssumption == Lags \subseteq Bundles
ASSUME ClientAssumption == Disciplined \in BOOLEAN /\ NativeInTrunks \in BOOLEAN

VARIABLES
  live,    \* the bundles that exist
  bundle,  \* their VLAN settings and list of ports
  hwLag,   \* the members SAI has in each bundle's LAG
  ret      \* what the last bundle_set on a bundle returned

bundleVars == <<live, bundle, hwLag, ret>>
vars == <<vlanVars, bundleVars>>

NoVlan == -1
VlanMode == {"access", "trunk", "native_untagged", "native_tagged"}

\* The VLAN part of struct ofbundle_sai.  trunks is NULL exactly in access mode,
\* and {} stands for NULL there.
BundleState ==
  [vlan   : Vlans \cup {NoVlan, 0},
   mode   : VlanMode,
   trunks : SUBSET Vlans,
   ports  : Seq(Ports),
   lag    : BOOLEAN]

IsNative(r)  == r.mode \in {"native_untagged", "native_tagged"}
HasTrunks(r) == r.mode # "access"

\* __ofbundle_create: xzalloc leaves vlan 0 and mode PORT_VLAN_ACCESS.
FreshBundle(T) ==
  [vlan |-> 0, mode |-> "access", trunks |-> T, ports |-> <<>>, lag |-> FALSE]

\* What a client may ask for, struct ofproto_bundle_settings.
Settings ==
  {s \in [vlan : Vlans \cup {NoVlan}, mode : VlanMode, trunks : SUBSET Vlans] :
     /\ s.mode = "access" => s.trunks = {}
     /\ s.vlan = NoVlan <=> s.mode = "trunk"
     /\ IsNative(s) => NativeInTrunks \/ s.vlan \notin s.trunks}

\* The VLANs that settings name.
Named(s) == s.trunks \cup ({s.vlan} \cap Vlans)

\* A list of ports to give a bundle: a LAG may have several, others one.
Slaves(b) ==
  {q \in UNION {[1..n -> Ports] : n \in 0..(IF b \in Lags THEN 2 ELSE 1)} : IsInjective(q)}

-----------------------------------------------------------------------------
(* Walking a list of ports *)

\* The ports of seq up to and including the first whose result is an error.
ReachedPorts(seq, res) ==
  {seq[i] : i \in {k \in DOMAIN seq : \A j \in 1..(k - 1) : res[seq[j]].ok}}

\* The ports of seq that are in S, in the order of seq.
Kept(seq, S) ==
  LET Count(k) == Cardinality({j \in 1..k : seq[j] \in S})
  IN  [i \in 1..Count(Len(seq)) |-> seq[CHOOSE k \in DOMAIN seq : seq[k] \in S /\ Count(k) = i]]

AllOk(seq, res) == \A i \in DOMAIN seq : res[seq[i]].ok

Walked(hw, seq, res) ==
  [p \in Ports |-> IF p \in ReachedPorts(seq, res) THEN res[p].port ELSE hw[p]]

-----------------------------------------------------------------------------
(* One port *)

\* Faulty variants of the two operators below: the PVID moves although the VLAN
\* was refused; it is zeroed.
NativeTaggedAddUnchecked(st, v) == [TrunksPortAdd(st, {v}) EXCEPT !.port.pvid = v]

NativeTaggedDelZeroesPvid(st, v) ==
  LET r == TrunksPortDel(st, {v})
  IN  IF r.ok THEN [r EXCEPT !.port.pvid = 0] ELSE r

\* __native_tagged_vlan_set
NativeTaggedAdd(st, v) ==
  LET r == TrunksPortAdd(st, {v})
  IN  IF r.ok THEN [r EXCEPT !.port.pvid = v] ELSE r

NativeTaggedDel(st, v) ==
  LET r == TrunksPortDel(st, {v})
  IN  IF r.ok THEN [r EXCEPT !.port.pvid = DefaultPvid] ELSE r

\* The VLAN half of __ofbundle_port_add, for a bundle b and a port record.  The
\* status of a native tagged VLAN is overwritten by that of the trunks.
PortAdd(b, st) ==
  LET access == AccessPortAdd(st, b.vlan)
      native == IF b.vlan = NoVlan THEN Done(st)
                ELSE IF b.mode = "native_tagged"
                  THEN Done([NativeTaggedAdd(st, b.vlan).port EXCEPT !.untagEnable = FALSE])
                  ELSE [access EXCEPT !.port.untagEnable = @ \/ access.ok]
  IN  IF native.ok /\ HasTrunks(b) THEN TrunksPortAdd(native.port, b.trunks) ELSE native

\* Faulty variant of PortDel: the trunks stay when there is a native VLAN.
PortDelNativeOnly(b, st) ==
  IF b.vlan = NoVlan THEN TrunksPortDel(st, b.trunks) ELSE AccessPortDel(st, b.vlan)

\* The VLAN half of __ofbundle_port_del: the native VLAN goes first, as access.
PortDel(b, st) ==
  LET native == IF b.vlan = NoVlan THEN Done(st) ELSE AccessPortDel(st, b.vlan)
  IN  IF native.ok /\ HasTrunks(b) THEN TrunksPortDel(native.port, b.trunks) ELSE native

-----------------------------------------------------------------------------
(* __vlan_reconfigure, from the settings in b to the settings in s *)

\* Faulty variant of Changed: a new mode for the same VLAN is missed.
ChangedVlan(b, s) == b.vlan # s.vlan

Changed(b, s) == b.vlan # s.vlan \/ b.mode # s.mode

RemovedTrunks(b, s) ==
  (b.trunks \ s.trunks) \ (IF IsNative(b) THEN {b.vlan} ELSE {})

AddedTrunks(b, s) ==
  ((s.trunks \ b.trunks) \cup (IF IsNative(b) THEN {b.vlan} \cap s.trunks ELSE {}))
    \ (IF IsNative(s) THEN {s.vlan} ELSE {})

\* "Remove all ports from deleted vlans."
LeaveOld(b, s, st) ==
  LET native == IF ~Changed(b, s) \/ b.mode = "trunk" THEN Done(st)
                ELSE IF b.mode = "native_tagged" THEN NativeTaggedDel(st, b.vlan)
                ELSE AccessPortDel(st, b.vlan)
  IN  IF native.ok /\ HasTrunks(b)
        THEN TrunksPortDel(native.port, RemovedTrunks(b, s)) ELSE native

\* "Add all ports to new vlans."
JoinNew(b, s, st) ==
  LET tagged == NativeTaggedAdd(st, s.vlan)
      native == IF ~Changed(b, s) \/ s.mode = "trunk" THEN Done(st)
                ELSE IF s.mode = "native_tagged"
                  THEN [tagged EXCEPT !.port.untagEnable = @ /\ ~tagged.ok]
                  ELSE AccessPortAdd(st, s.vlan)
  IN  IF native.ok /\ HasTrunks(s)
        THEN TrunksPortAdd(native.port, AddedTrunks(b, s)) ELSE native

-----------------------------------------------------------------------------
(* Bundles and their ports *)

\* port->bundle: the bundle that lists p, if any.
HasBundle(p) == \E c \in live : p \in Range(bundle[c].ports)
BundleOf(p)  == CHOOSE c \in live : p \in Range(bundle[c].ports)

\* What unlinking p from its bundle does to its record; nothing if it has none.
Unlinked(p) == IF HasBundle(p) THEN PortDel(bundle[BundleOf(p)], port[p]) ELSE Done(port[p])

\* The list of bundle c without the ports of P.
ListWithout(c, P) == Kept(bundle[c].ports, Ports \ P)

\* Removing the ports of P empties and so destroys c (__bundle_remove).
Emptied(c, P) == /\ Range(bundle[c].ports) \cap P # {}
                 /\ Range(bundle[c].ports) \subseteq P

\* Faulty variants of AfterLeaving: the old bundle goes on listing the ports; the
\* old LAG goes on having them as members.
AfterLeavingStillListed(P) == [live |-> live, bundle |-> bundle, hwLag |-> hwLag]

AfterLeavingStillInLag(P) ==
  [live   |-> {c \in live : ~Emptied(c, P)},
   bundle |-> [c \in Bundles |-> IF Emptied(c, P) THEN FreshBundle({})
                                 ELSE [bundle[c] EXCEPT !.ports = ListWithout(c, P)]],
   hwLag  |-> hwLag]

\* The bundles after the ports of P left them, a LAG keeping in hardware the
\* ports whose removal exited early.
AfterLeaving(P) ==
  [live   |-> {c \in live : ~Emptied(c, P)},
   bundle |-> [c \in Bundles |-> IF Emptied(c, P) THEN FreshBundle({})
                                 ELSE [bundle[c] EXCEPT !.ports = ListWithout(c, P)]],
   hwLag  |-> [c \in Bundles |-> IF Emptied(c, P) THEN {}
                                 ELSE hwLag[c] \ {p \in P \cap Range(bundle[c].ports) : Unlinked(p).ok}]]

-----------------------------------------------------------------------------
(* bundle_set(b, s, slaves): __bundle_set *)

\* The bundle the call works on: found, or made by __ofbundle_create; then
\* __ofbundle_lag_reconfigure makes the LAG.
Target(b, s) ==
  [(IF b \in live THEN bundle[b] ELSE FreshBundle(s.trunks)) EXCEPT !.lag = b \in Lags]

\* __ofbundle_ports_reconfigure, "Figure out which ports were removed."
Leaving(b, s, slaves) == Kept(Target(b, s).ports, Ports \ Range(slaves))
LeaveResults(b)       == [p \in Ports |-> PortDel(bundle[b], port[p])]
AfterLeave(b, s, slaves) == Walked(port, Leaving(b, s, slaves), LeaveResults(b))

\* ... then __vlan_reconfigure on the ports that stay, first all the removals,
Staying(b, s, slaves) == Kept(Target(b, s).ports, Range(slaves))
OldResults(b, s, slaves) ==
  [p \in Ports |-> LeaveOld(Target(b, s), s, AfterLeave(b, s, slaves)[p])]
AfterOld(b, s, slaves) ==
  Walked(AfterLeave(b, s, slaves), Staying(b, s, slaves), OldResults(b, s, slaves))

\* then all the additions,
NewResults(b, s, slaves) ==
  [p \in Ports |-> JoinNew(Target(b, s), s, AfterOld(b, s, slaves)[p])]
AfterNew(b, s, slaves) ==
  Walked(AfterOld(b, s, slaves), Staying(b, s, slaves), NewResults(b, s, slaves))

\* and last "Figure out which ports were added."
Reconfigured(b, s) == [Target(b, s) EXCEPT !.vlan = s.vlan, !.mode = s.mode, !.trunks = s.trunks]
Joining(b, s, slaves) == Kept(slaves, Ports \ Range(Staying(b, s, slaves)))
JoinResults(b, s) == [p \in Ports |-> PortAdd(Reconfigured(b, s), Unlinked(p).port)]

\* The walk over the leaving ports stops at an error: that port is unlinked all
\* the same, and stays in the hardware LAG.
SetStopsLeaving(b, s, slaves) ==
  LET seq  == Leaving(b, s, slaves)
      res  == LeaveResults(b)
      gone == ReachedPorts(seq, res)
  IN  /\ ~AllOk(seq, res)
      /\ port' = AfterLeave(b, s, slaves)
      /\ bundle' = [bundle EXCEPT ![b] = [@ EXCEPT !.ports = ListWithout(b, gone)]]
      /\ hwLag' = [hwLag EXCEPT ![b] = @ \ {p \in gone : res[p].ok}]
      /\ ret' = [ret EXCEPT ![b] = "failed"]
      /\ UNCHANGED live

\* __vlan_reconfigure stops at an error: the settings are not recorded.
SetStopsReconfiguring(b, s, slaves) ==
  LET stay == Staying(b, s, slaves)
      old  == OldResults(b, s, slaves)
  IN  /\ AllOk(Leaving(b, s, slaves), LeaveResults(b))
      /\ \/ /\ ~AllOk(stay, old)
            /\ port' = AfterOld(b, s, slaves)
         \/ /\ AllOk(stay, old)
            /\ ~AllOk(stay, NewResults(b, s, slaves))
            /\ port' = AfterNew(b, s, slaves)
      /\ bundle' = [bundle EXCEPT ![b] = [Target(b, s) EXCEPT !.ports = stay]]
      /\ hwLag' = [hwLag EXCEPT ![b] = @ \cap Range(stay)]
      /\ ret' = [ret EXCEPT ![b] = "failed"]
      /\ UNCHANGED live

\* The settings are recorded and the new slaves join one by one, each taken
\* from the bundle it was in.  A port that fails is linked but not in the LAG.
SetJoins(b, s, slaves) ==
  LET stay   == Staying(b, s, slaves)
      seq    == Joining(b, s, slaves)
      res    == JoinResults(b, s)
      joined == ReachedPorts(seq, res)
      rest   == AfterLeaving(joined)
      list   == stay \o Kept(seq, joined)
  IN  /\ AllOk(Leaving(b, s, slaves), LeaveResults(b))
      /\ AllOk(stay, OldResults(b, s, slaves))
      /\ AllOk(stay, NewResults(b, s, slaves))
      /\ port' = Walked(AfterNew(b, s, slaves), seq, res)
      /\ live' = rest.live \cup {b}
      /\ bundle' = [rest.bundle EXCEPT ![b] = [Reconfigured(b, s) EXCEPT !.ports = list]]
      /\ hwLag' = [rest.hwLag EXCEPT
                     ![b] = IF b \in Lags
                              THEN (hwLag[b] \cap Range(stay)) \cup {p \in joined : res[p].ok}
                              ELSE {}]
      /\ ret' = [c \in Bundles |-> CASE c = b -> IF AllOk(seq, res) THEN "ok" ELSE "failed"
                                      [] c # b /\ Emptied(c, joined) -> "none"
                                      [] OTHER -> ret[c]]

BundleSet(b, s, slaves) ==
  /\ Disciplined => Named(s) \subseteq vlans
  /\ \/ SetStopsLeaving(b, s, slaves)
     \/ SetStopsReconfiguring(b, s, slaves)
     \/ SetJoins(b, s, slaves)
  /\ UNCHANGED <<vlans, refused>>

-----------------------------------------------------------------------------
(* The other entry points *)

\* bundle_set(b, NULL): __ofbundle_destroy unlinks every port, whatever each
\* removal returns, and frees the bundle with its LAG.
BundleDestroy(b) ==
  /\ b \in live
  /\ port' = [p \in Ports |-> IF p \in Range(bundle[b].ports) THEN Unlinked(p).port ELSE port[p]]
  /\ live' = live \ {b}
  /\ bundle' = [bundle EXCEPT ![b] = FreshBundle({})]
  /\ hwLag' = [hwLag EXCEPT ![b] = {}]
  /\ ret' = [ret EXCEPT ![b] = "none"]
  /\ UNCHANGED <<vlans, refused>>

\* bundle_remove(p), when the port leaves the datapath: __bundle_remove.
BundleRemove(p) ==
  /\ HasBundle(p)
  /\ port' = [port EXCEPT ![p] = Unlinked(p).port]
  /\ live' = AfterLeaving({p}).live
  /\ bundle' = AfterLeaving({p}).bundle
  /\ hwLag' = AfterLeaving({p}).hwLag
  /\ ret' = [c \in Bundles |-> IF Emptied(c, {p}) THEN "none" ELSE ret[c]]
  /\ UNCHANGED <<vlans, refused>>

\* The VLANs some bundle has recorded.
InUse == UNION {Named(bundle[b]) : b \in live}

\* set_vlan and the VLAN host interfaces.
VlanStep ==
  /\ \E v \in Vlans : \/ VlanCreate(v)
                      \/ VlanDestroy(v) /\ (Disciplined => v \notin InUse)
                      \/ VlanIntfUpdate(v)
  /\ UNCHANGED bundleVars

Init ==
  /\ VlanInit
  /\ live = {}
  /\ bundle = [b \in Bundles |-> FreshBundle({})]
  /\ hwLag = [b \in Bundles |-> {}]
  /\ ret = [b \in Bundles |-> "none"]

Next ==
  \/ \E b \in Bundles, s \in Settings : \E slaves \in Slaves(b) : BundleSet(b, s, slaves)
  \/ \E b \in Bundles : BundleDestroy(b)
  \/ \E p \in Ports : BundleRemove(p)
  \/ VlanStep
  \/ SaiRefuses /\ UNCHANGED bundleVars

Spec == Init /\ [][Next]_vars

-----------------------------------------------------------------------------
(* Properties *)

\* The variables have the types of the C declarations.
TypeOK ==
  /\ VlanTypeOK
  /\ live \subseteq Bundles
  /\ bundle \in [Bundles -> BundleState]
  /\ hwLag \in [Bundles -> SUBSET Ports]
  /\ ret \in [Bundles -> {"none", "ok", "failed"}]

\* A port is listed at most once, by at most one bundle, and only by a bundle
\* that exists, though __ofbundle_port_add takes ports from other bundles and
\* may destroy those on the way.
OneBundlePerPort ==
  /\ \A b \in Bundles : IsInjective(bundle[b].ports)
  /\ \A b \in Bundles \ live : bundle[b].ports = <<>>
  /\ \A b, c \in live : Range(bundle[b].ports) \cap Range(bundle[c].ports) # {} => b = c

\* The tagging mode that settings r ask for on VLAN v.
WantedMode(r, v) ==
  CASE v = r.vlan /\ r.mode \in {"access", "native_untagged"} -> "untagged"
    [] v = r.vlan /\ r.mode = "native_tagged"                 -> "tagged"
    [] v # r.vlan /\ v \in r.trunks                           -> "tagged"
    [] OTHER                                                  -> "none"

\* The PVID of an access port is its VLAN, that of a trunk port the default.
PvidOfAccessAndTrunk ==
  \A b \in live : \A p \in Range(bundle[b].ports) :
    /\ bundle[b].mode = "access" => port[p].pvid = bundle[b].vlan
    /\ bundle[b].mode = "trunk"  => port[p].pvid = DefaultPvid

\* "Reconfigure port to vlan settings. Remove ports from vlans that were in
\* bundle and add ports to vlan in new settings": once bundle_set has succeeded,
\* a linked port is in hardware a member of the VLANs the bundle has recorded
\* and of no other, with the tagging modes of its VLAN mode, and filters its
\* ingress accordingly -- by whatever sequence of settings, moves between
\* bundles and list changes it got there; its PVID is that of its VLAN mode even
\* after a bundle_set that failed.
LinkedPortsConverge ==
  /\ PvidOfAccessAndTrunk
  /\ \A b \in live : ret[b] = "ok" =>
       \A p \in Range(bundle[b].ports) :
         /\ \A v \in vlans : port[p].member[v] = WantedMode(bundle[b], v)
         /\ port[p].ingressFilter /\ ~port[p].dropUntagged
         /\ port[p].dropTagged = (bundle[b].mode = "access")

\* A port no bundle lists is as if no bundle had ever listed it: no VLAN has it
\* as a member, nor will one that is created later, and its attributes are
\* back at their defaults.
UnlinkedPortsAreFresh ==
  \A p \in Ports : ~HasBundle(p) => port[p] = FreshPort

\* The hardware LAG of a bundle has as members exactly the ports it lists.
LagMembersAreLinked ==
  \A b \in Bundles : hwLag[b] = IF b \in Lags THEN Range(bundle[b].ports) ELSE {}

\* Lists and LAGs agree, whichever bundles a port was taken from.
ListsAndLagsAgree == OneBundlePerPort /\ LagMembersAreLinked

\* "Native vlan resembles trunks behavior, but takes higher priority. If native
\* vlan is the same as one of trunks, then we should handle native vlan and not
\* this trunk" (the comment in __vlan_reconfigure): a linked port of a native
\* untagged bundle carries the native VLAN untagged.
NativeTakesPriority ==
  \A b \in live : (ret[b] = "ok" /\ bundle[b].mode = "native_untagged") =>
    \A p \in Range(bundle[b].ports) :
      bundle[b].vlan \in vlans => port[p].member[bundle[b].vlan] = "untagged"

\* "Set native tagged vlan and corresponding pvid" (the comment above
\* __native_tagged_vlan_set): the PVID of a linked port of a native tagged
\* bundle is the native VLAN.
NativeTaggedPvid ==
  \A b \in live : (ret[b] = "ok" /\ bundle[b].mode = "native_tagged") =>
    \A p \in Range(bundle[b].ports) : port[p].pvid = bundle[b].vlan
=============================================================================
