------------------------------ MODULE SaiVlan ------------------------------
(***************************************************************************)
(* The VLAN class of the plugin (src/src/sai-vlan.c) and the port          *)
(* attributes it writes (src/src/sai-port.c), over the SAI VLAN table.     *)
(*                                                                         *)
(* Everything sai-vlan.c does to a port touches that port alone, so the    *)
(* module is organised around one record per port: what SAI holds for it   *)
(* and what the plugin remembers about it.  A method of the class is an    *)
(* operator from such a record to a result: the status the method returns  *)
(* and the record it leaves behind, early exits included.                  *)
(*                                                                         *)
(* The SAI implementation is outside the repository.  It is modelled from  *)
(* how sai-vlan.c calls it: an operation on a VLAN that does not exist is  *)
(* refused; destroying a VLAN drops its members (why else would            *)
(* all_vlan_member be replayed); adding a member again overwrites its      *)
(* tagging mode (the replay after ITEM_ALREADY_EXISTS does that).          *)
(***************************************************************************)
EXTENDS Naturals

CONSTANTS
  Ports,        \* hardware ids of the physical ports
  Vlans,        \* VLAN ids, numbers: a bitmap is walked in ascending order
  DefaultPvid,  \* OPS_SAI_PORT_DEFAULT_PVID
  StrictRemove, \* does SAI refuse to remove a port that is not a member?
  MayRefuse     \* may SAI refuse work on an existing VLAN (table full, SDK error)?

ASSUME VlansAssumption == Vlans \subseteq Nat
ASSUME PvidAssumption == DefaultPvid \in Nat
ASSUME SwitchesAssumption == StrictRemove \in BOOLEAN /\ MayRefuse \in BOOLEAN

VARIABLES
  vlans,    \* the VLANs that exist in SAI
  refused,  \* the VLANs SAI refuses to operate on at the moment
  port      \* one record per port, see PortState

vlanVars == <<vlans, refused, port>>

\* A tagging mode; "none" is the absence of an entry.
TagMode == {"none", "untagged", "tagged"}

(***************************************************************************)
(* member and the attributes pvid .. dropTagged are SAI's; remembered is   *)
(* the port's entry in all_vlan_member[vid], for each vid.                 *)
(***************************************************************************)
PortState ==
  [member       : [Vlans -> TagMode],
   remembered   : [Vlans -> TagMode],
   pvid         : Vlans \cup {DefaultPvid},
   untagEnable  : BOOLEAN,
   ingressFilter: BOOLEAN,
   dropUntagged : BOOLEAN,
   dropTagged   : BOOLEAN]

\* A port no method has touched: in no VLAN, every attribute at its default.
FreshPort ==
  [member       |-> [v \in Vlans |-> "none"],
   remembered   |-> [v \in Vlans |-> "none"],
   pvid         |-> DefaultPvid,
   untagEnable  |-> TRUE,
   ingressFilter|-> FALSE,
   dropUntagged |-> FALSE,
   dropTagged   |-> FALSE]

Result == [ok : BOOLEAN, port : PortState]

Done(st)   == [ok |-> TRUE,  port |-> st]
Failed(st) == [ok |-> FALSE, port |-> st]

-----------------------------------------------------------------------------
(* __vlan_port_set and __trunks_port_set *)

\* SAI's answer to add_ports_to_vlan and remove_ports_from_vlan.
Addable(v)       == v \in vlans \ refused
Removable(st, v) == /\ v \in vlans \ refused
                    /\ StrictRemove => st.member[v] # "none"

\* __vlan_port_set(v, hw_id, mode, true): a tagged entry leaves the PVID alone.
VlanPortAdd(st, v, mode) ==
  IF Addable(v)
    THEN Done([st EXCEPT !.member[v]     = mode,
                         !.remembered[v] = mode,
                         !.pvid = IF mode = "untagged" THEN v ELSE @])
    ELSE Failed(st)

\* __vlan_port_set(v, hw_id, mode, false): every removal resets the PVID.
VlanPortDel(st, v) ==
  IF Removable(st, v)
    THEN Done([st EXCEPT !.member[v]     = "none",
                         !.remembered[v] = "none",
                         !.pvid = DefaultPvid])
    ELSE Failed(st)

\* The VLANs of T that the ascending walk completes before the first one in
\* bad; all of T when bad is empty.
WalkedBefore(T, bad) == {v \in T : \A x \in bad : v < x}

\* __trunks_port_set(trunks, hw_id, true)
TrunksAdded(st, T) ==
  LET bad  == {v \in T : ~Addable(v)}
      done == WalkedBefore(T, bad)
      new  == [st EXCEPT
                !.member     = [v \in Vlans |-> IF v \in done THEN "tagged" ELSE @[v]],
                !.remembered = [v \in Vlans |-> IF v \in done THEN "tagged" ELSE @[v]]]
  IN  [ok |-> bad = {}, port |-> new]

\* __trunks_port_set(trunks, hw_id, false)
TrunksRemoved(st, T) ==
  LET bad  == {v \in T : ~Removable(st, v)}
      done == WalkedBefore(T, bad)
      new  == [st EXCEPT
                !.member      = [v \in Vlans |-> IF v \in done THEN "none" ELSE @[v]],
                !.remembered  = [v \in Vlans |-> IF v \in done THEN "none" ELSE @[v]],
                !.pvid        = IF done = {} THEN @ ELSE DefaultPvid,
                !.untagEnable = @ \/ done # {}]
  IN  [ok |-> bad = {}, port |-> new]

-----------------------------------------------------------------------------
(* The methods of the class *)

\* The three filter attributes each method writes last, when nothing failed.
Filters(r, filter, tagged) ==
  IF r.ok
    THEN Done([r.port EXCEPT !.ingressFilter = filter,
                             !.dropUntagged  = FALSE,
                             !.dropTagged    = tagged])
    ELSE r

AccessPortAdd(st, v) == Filters(VlanPortAdd(st, v, "untagged"), TRUE, TRUE)

AccessPortDel(st, v) ==
  LET r == VlanPortDel(st, v)
  IN  Filters([r EXCEPT !.port.untagEnable = @ \/ r.ok], FALSE, FALSE)

TrunksPortAdd(st, T) == Filters(TrunksAdded(st, T), TRUE, FALSE)

TrunksPortDel(st, T) == Filters(TrunksRemoved(st, T), FALSE, FALSE)

\* __vlan_port_set(v, hw_id, entry->tag_mode, true) for one remembered entry.
Replayed(st, v) ==
  IF st.remembered[v] = "none" THEN st
  ELSE [st EXCEPT !.member[v] = st.remembered[v],
                  !.pvid = IF st.remembered[v] = "untagged" THEN v ELSE @]

-----------------------------------------------------------------------------
(* Actions *)

VlanInit ==
  /\ vlans = {}
  /\ refused = {}
  /\ port = [p \in Ports |-> FreshPort]

\* __vlan_set(v, true): an existing VLAN is not an error, and in either case
\* the remembered members are replayed.
VlanCreate(v) ==
  /\ \/ /\ v \in vlans \ refused
        /\ UNCHANGED vlans
     \/ /\ v \notin vlans \cup refused
        /\ vlans' = vlans \cup {v}
  /\ port' = [p \in Ports |-> Replayed(port[p], v)]
  /\ UNCHANGED refused

\* Faulty variant of VlanDestroy: the members are forgotten with the VLAN.
VlanDestroyForgets(v) ==
  /\ v \in vlans \ refused
  /\ vlans' = vlans \ {v}
  /\ port' = [p \in Ports |-> [port[p] EXCEPT !.member[v] = "none", !.remembered[v] = "none"]]
  /\ UNCHANGED refused

\* __vlan_set(v, false): all_vlan_member[v] is left as it was.
VlanDestroy(v) ==
  /\ v \in vlans \ refused
  /\ vlans' = vlans \ {v}
  /\ port' = [p \in Ports |-> [port[p] EXCEPT !.member[v] = "none"]]
  /\ UNCHANGED refused

\* Faulty variant of VlanIntfUpdate: the new VLAN has no members.
VlanIntfUpdateForgets(v) ==
  /\ v \notin vlans \cup refused
  /\ vlans' = vlans \cup {v}
  /\ UNCHANGED <<refused, port>>

\* ops_sai_vlan_intf_update(v, true), called when a "vlanN" host interface is
\* created: an existing VLAN returns at once, without a replay.
VlanIntfUpdate(v) ==
  /\ v \notin vlans \cup refused
  /\ vlans' = vlans \cup {v}
  /\ port' = [p \in Ports |-> Replayed(port[p], v)]
  /\ UNCHANGED refused

\* SAI starts or stops refusing work on one VLAN.
SaiRefuses ==
  /\ MayRefuse
  /\ \E R \in {{}} \cup {{v} : v \in Vlans} : refused # R /\ refused' = R
  /\ UNCHANGED <<vlans, port>>

\* One call of a port method on p, whatever it returns.
Call(p, r) == /\ port' = [port EXCEPT ![p] = r.port]
              /\ UNCHANGED <<vlans, refused>>

VlanNext ==
  \/ \E v \in Vlans : VlanCreate(v) \/ VlanDestroy(v) \/ VlanIntfUpdate(v)
  \/ \E p \in Ports, v \in Vlans : Call(p, AccessPortAdd(port[p], v))
  \/ \E p \in Ports, v \in Vlans : Call(p, AccessPortDel(port[p], v))
  \/ \E p \in Ports, T \in SUBSET Vlans : Call(p, TrunksPortAdd(port[p], T))
  \/ \E p \in Ports, T \in SUBSET Vlans : Call(p, TrunksPortDel(port[p], T))
  \/ SaiRefuses

VlanSpec == VlanInit /\ [][VlanNext]_vlanVars

-----------------------------------------------------------------------------
(* Properties *)

\* The variables have the types the declarations of sai-vlan.c give them.
VlanTypeOK ==
  /\ vlans \subseteq Vlans
  /\ refused \subseteq Vlans
  /\ port \in [Ports -> PortState]

\* all_vlan_member is a faithful copy of the hardware: for a VLAN that exists
\* it names exactly SAI's members, with SAI's tagging modes, whatever calls
\* failed, and whichever VLANs were destroyed and created again meanwhile.
RememberedIsHw ==
  \A p \in Ports, v \in Vlans :
    port[p].member[v] = IF v \in vlans THEN port[p].remembered[v] ELSE "none"

\* A VLAN's remembered members survive its absence: neither destroying it nor
\* any call while it does not exist adds to or drops from all_vlan_member, so
\* that creating it again brings back exactly the members it had (the replay in
\* __vlan_set).
FrozenWhileAbsent ==
  [][\A p \in Ports, v \in Vlans \ (vlans \cap vlans') :
       port'[p].remembered[v] = port[p].remembered[v]]_vlanVars

\* A port whose PVID is not the default one is an untagged member of the VLAN
\* of that PVID, or was when the VLAN was destroyed: __vlan_port_set moves the
\* PVID and the membership together.
PvidIsRemembered ==
  \A p \in Ports :
    port[p].pvid # DefaultPvid => port[p].remembered[port[p].pvid] # "none"

\* Wherever a call stopped, hardware, member table and PVID agree.
VlanClassIsFaithful == RememberedIsHw /\ PvidIsRemembered
=============================================================================
