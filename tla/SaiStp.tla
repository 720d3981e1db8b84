------------------------------- MODULE SaiStp -------------------------------
(***************************************************************************)
(* The spanning tree class of the plugin (src/src/sai-stp.c): its table of *)
(* groups, the ids it gives them, the VLANs and the port states it sets in *)
(* SAI's spanning tree instances; called by switchd's spanning tree plugin *)
(* through the provider's __sai_interface (src/src/sai-ofproto-provider.c). *)
(*                                                                         *)
(* The id create is called with is compared with the ids of the groups;    *)
(* what it is, is up to the caller.  SAI may refuse anything.  It refuses  *)
(* an instance or a VLAN it does not have, to remove the default instance  *)
(* and to remove one that has VLANs.  A VLAN is in the default instance    *)
(* when SAI makes it.                                                      *)
(***************************************************************************)
EXTENDS Integers

CONSTANTS
  Vlans, Ports,
  PoolSize,  \* SHRT_MAX: ids are smaller
  Instances, \* SAI's ids of spanning tree instances
  Default,   \* the one that is always there
  None,      \* the handle of an entry xzalloc made
  Requests   \* the ids create and show are called with

ASSUME PoolAssumption == PoolSize \in Nat /\ PoolSize > 1 /\ Requests \subseteq Int
ASSUME InstancesAssumption == Default \in Instances /\ None \notin Instances

VARIABLES
  idle,     \* bitmap_index: the ids not in use
  all_stp,  \* the handle of each entry, a function on their ids
  default_stp_ins_id,
  hw,       \* SAI's instances: the state of each port in each
  vlanOf,   \* SAI's VLANs: the instance of each
  groups,   \* what the caller knows: its groups, their VLANs and port states
  adrift,   \* history: VLANs that changed group in no orderly way
  over,     \* history: create was called with the id of an entry
  crashed   \* the handle of an entry that is not there was read

vars == <<idle, all_stp, default_stp_ins_id, hw, vlanOf, groups, adrift, over, crashed>>

Ids == 1..(PoolSize - 1)

\* mstp_instance_port_state_t, and the states SAI knows.
States   == {"disabled", "blocked", "learning", "forwarding"}
HwStates == {"blocking", "learning", "forwarding", "unknown"}

\* What the caller knows of a group: its VLANs, and the state it set each port to.
Group == [vlans : SUBSET Vlans, states : [Ports -> States \cup {"unknown"}]]
NewGroup == [vlans |-> {}, states |-> [p \in Ports |-> "unknown"]]

With(f, x, y) == [z \in DOMAIN f \cup {x} |-> IF z = x THEN y ELSE f[z]]
Without(f, x) == [z \in DOMAIN f \ {x} |-> f[z]]

\* __stp_get_port_state_2_hw_port_state, __stp_hw_port_state_2_port_state
HwState(s) == CASE s = "blocked"  -> "blocking"
                [] s = "learning" -> "learning"
                [] OTHER          -> "forwarding"
StateOf(h) == CASE h = "blocking" -> "blocked"
                [] OTHER          -> h

\* Faulty variant of IsFound: the id that was asked for is taken.
IsFoundAsAsked(req, i) == i = req

\* __stp_entry_hmap_find_create, __stp_idle_index_get: the entry of req, or a new
\* one with the smallest id there is.
IsFound(req, i) ==
  IF req \in DOMAIN all_stp THEN i = req
  ELSE i \in idle /\ \A j \in idle : i <= j

\* The table with an entry i, made if there is none.
Found(i) == IF i \in DOMAIN all_stp THEN all_stp ELSE With(all_stp, i, None)

-----------------------------------------------------------------------------
(* The methods of the class *)

\* __stp_create: a refusal leaves the entry.
Create(req) ==
  /\ ~crashed
  /\ \E i \in Ids \cup Requests :
       /\ IsFound(req, i)
       /\ idle' = idle \ {i}
       /\ over' = (over \/ i \in DOMAIN all_stp)
       /\ \/ \E h \in Instances \ DOMAIN hw :
               /\ hw' = With(hw, h, [p \in Ports |-> "unknown"])
               /\ all_stp' = With(all_stp, i, h)
               /\ groups' = With(groups, i, NewGroup)
          \/ /\ all_stp' = Found(i)
             /\ UNCHANGED <<hw, groups>>
  /\ UNCHANGED <<default_stp_ins_id, vlanOf, adrift, crashed>>

\* The entry of id i goes, and its id is idle again.
EntryRemoved(i) ==
  /\ all_stp' = Without(all_stp, i)
  /\ idle' = idle \cup {i}

\* Faulty variant of Remove: the entry goes before SAI is asked.
RemoveFirst(i) ==
  /\ ~crashed
  /\ i \in DOMAIN all_stp
  /\ EntryRemoved(i)
  /\ \/ /\ all_stp[i] \in DOMAIN hw \ ({Default} \cup {vlanOf[v] : v \in DOMAIN vlanOf})
        /\ hw' = Without(hw, all_stp[i])
        /\ groups' = Without(groups, i)
     \/ UNCHANGED <<hw, groups>>
  /\ UNCHANGED <<default_stp_ins_id, vlanOf, adrift, over, crashed>>

\* __stp_remove
Remove(i) ==
  /\ ~crashed
  /\ i \in DOMAIN all_stp
  /\ all_stp[i] \in DOMAIN hw \ ({Default} \cup {vlanOf[v] : v \in DOMAIN vlanOf})
  /\ hw' = Without(hw, all_stp[i])
  /\ EntryRemoved(i)
  /\ groups' = Without(groups, i)
  /\ UNCHANGED <<default_stp_ins_id, vlanOf, adrift, over, crashed>>

\* The caller has VLAN v in no group but i.
OnlyIn(v, i) == \A j \in DOMAIN groups \ {i} : v \notin groups[j].vlans

\* __stp_add_vlan.  A VLAN that has not left its group before is adrift.
AddVlan(i, v) ==
  /\ ~crashed
  /\ i \in DOMAIN all_stp
  /\ v \in DOMAIN vlanOf /\ all_stp[i] \in DOMAIN hw
  /\ vlanOf' = [vlanOf EXCEPT ![v] = all_stp[i]]
  /\ groups' = IF i \in DOMAIN groups
               THEN [groups EXCEPT ![i].vlans = @ \cup {v}] ELSE groups
  /\ adrift' = IF OnlyIn(v, i) THEN adrift \ {v} ELSE adrift \cup {v}
  /\ UNCHANGED <<idle, all_stp, default_stp_ins_id, hw, over, crashed>>

\* Faulty variant of RemoveVlan: the group's own instance is written, as in AddVlan.
RemoveVlanLikeAdd(i, v) ==
  /\ ~crashed
  /\ i \in DOMAIN all_stp
  /\ v \in DOMAIN vlanOf /\ all_stp[i] \in DOMAIN hw
  /\ vlanOf' = [vlanOf EXCEPT ![v] = all_stp[i]]
  /\ groups' = IF i \in DOMAIN groups
               THEN [groups EXCEPT ![i].vlans = @ \ {v}] ELSE groups
  /\ UNCHANGED <<idle, all_stp, default_stp_ins_id, hw, adrift, over, crashed>>

\* __stp_remove_vlan: from whichever group, to the default one, whose entry is not
\* compared with NULL.
RemoveVlan(i, v) ==
  /\ ~crashed
  /\ i \in DOMAIN all_stp
  /\ \/ /\ default_stp_ins_id \notin DOMAIN all_stp
        /\ crashed' = TRUE
        /\ UNCHANGED <<vlanOf, groups, adrift>>
     \/ /\ default_stp_ins_id \in DOMAIN all_stp
        /\ v \in DOMAIN vlanOf /\ all_stp[default_stp_ins_id] \in DOMAIN hw
        /\ vlanOf' = [vlanOf EXCEPT ![v] = all_stp[default_stp_ins_id]]
        /\ groups' = IF i \in DOMAIN groups
                     THEN [groups EXCEPT ![i].vlans = @ \ {v}] ELSE groups
        /\ adrift' = IF OnlyIn(v, i) THEN adrift ELSE adrift \cup {v}
        /\ UNCHANGED crashed
  /\ UNCHANGED <<idle, all_stp, default_stp_ins_id, hw, over>>

\* __stp_set_port_state
SetPortState(i, p, s) ==
  /\ ~crashed
  /\ i \in DOMAIN all_stp
  /\ all_stp[i] \in DOMAIN hw
  /\ hw' = [hw EXCEPT ![all_stp[i]][p] = HwState(s)]
  /\ groups' = IF i \in DOMAIN groups
               THEN [groups EXCEPT ![i].states[p] = s] ELSE groups
  /\ UNCHANGED <<idle, all_stp, default_stp_ins_id, vlanOf, adrift, over, crashed>>

\* What __stp_get_port_state reads.
PortState(i, p) == StateOf(hw[all_stp[i]][p])

\* __stp_unixctl_show of one id, which makes an entry.
Show(req) ==
  /\ ~crashed
  /\ \E i \in Ids \cup Requests :
       /\ IsFound(req, i)
       /\ all_stp' = Found(i)
       /\ idle' = idle \ {i}
  /\ UNCHANGED <<default_stp_ins_id, hw, vlanOf, groups, adrift, over, crashed>>

\* The VLAN class makes and removes SAI's VLANs; the spanning tree class is not told.
VlanCreate(v) ==
  /\ ~crashed
  /\ v \notin DOMAIN vlanOf
  /\ vlanOf' = With(vlanOf, v, Default)
  /\ UNCHANGED <<idle, all_stp, default_stp_ins_id, hw, groups, adrift, over, crashed>>

VlanDestroy(v) ==
  /\ ~crashed
  /\ v \in DOMAIN vlanOf
  /\ vlanOf' = Without(vlanOf, v)
  /\ adrift' = IF \A i \in DOMAIN groups : v \notin groups[i].vlans
               THEN adrift ELSE adrift \cup {v}
  /\ UNCHANGED <<idle, all_stp, default_stp_ins_id, hw, groups, over, crashed>>

\* __stp_init: the first entry is that of the default instance, if SAI names it.
Init ==
  /\ idle = Ids \ {1}
  /\ \/ all_stp = [i \in {1} |-> Default] /\ default_stp_ins_id = 1
        /\ groups = [i \in {1} |-> NewGroup]
     \/ all_stp = [i \in {1} |-> None] /\ default_stp_ins_id = 0
        /\ groups = [i \in {} |-> NewGroup]
  /\ hw = [h \in {Default} |-> [p \in Ports |-> "unknown"]]
  /\ vlanOf = [v \in {} |-> Default]
  /\ adrift = {}
  /\ over = FALSE /\ crashed = FALSE

Next ==
  \/ \E req \in Requests : Create(req) \/ Show(req)
  \/ \E i \in DOMAIN all_stp :
       \/ Remove(i)
       \/ \E v \in Vlans : AddVlan(i, v) \/ RemoveVlan(i, v)
       \/ \E p \in Ports, s \in States : SetPortState(i, p, s)
  \/ \E v \in Vlans : VlanCreate(v) \/ VlanDestroy(v)

Spec == Init /\ [][Next]_vars

-----------------------------------------------------------------------------
(* Properties *)

\* The variables have the types of the C declarations, and an id is idle or has
\* an entry, never both.
TypeOK ==
  /\ idle \subseteq Ids /\ DOMAIN all_stp = Ids \ idle
  /\ all_stp \in [DOMAIN all_stp -> Instances \cup {None}]
  /\ default_stp_ins_id \in {0, 1}
  /\ DOMAIN hw \subseteq Instances /\ hw \in [DOMAIN hw -> [Ports -> HwStates]]
  /\ DOMAIN vlanOf \subseteq Vlans /\ vlanOf \in [DOMAIN vlanOf -> Instances]
  /\ DOMAIN groups \subseteq Ids /\ groups \in [DOMAIN groups -> Group]
  /\ adrift \subseteq Vlans /\ over \in BOOLEAN /\ crashed \in BOOLEAN

\* Each group the caller has is one instance of SAI and each instance is one group
\* of the caller, whatever SAI refused and whatever entries that show or a refusal
\* made, until create is called with the id of an entry.
GroupsAreInstances ==
  /\ \A i \in DOMAIN groups : i \in DOMAIN all_stp /\ all_stp[i] \in DOMAIN hw
  /\ ~over =>
       /\ \A i, j \in DOMAIN groups : all_stp[i] = all_stp[j] => i = j
       /\ \A h \in DOMAIN hw \ {Default} : \E i \in DOMAIN groups : all_stp[i] = h

\* A VLAN the caller has in a group is in the instance of that group, and one it
\* has in none is in the default instance, whatever groups came and went, unless
\* it was added to a second group before it left the first, was taken out of one it
\* was not in, or was made again; and taking a VLAN out of a group never stops the
\* plugin, once the default instance was read.
VlansFollowGroups ==
  ~over =>
    /\ \A v \in DOMAIN vlanOf \ adrift :
         IF \E i \in DOMAIN groups : v \in groups[i].vlans
         THEN \E i \in DOMAIN groups : v \in groups[i].vlans /\ vlanOf[v] = all_stp[i]
         ELSE vlanOf[v] = Default
    /\ crashed => default_stp_ins_id = 0

\* A port state that is read is the one the caller set in that group, also when its
\* id was that of a group before; a disabled port reads as forwarding.
StatesFollowGroups ==
  \A i \in DOMAIN groups, p \in Ports :
    ~over =>
      PortState(i, p) = IF groups[i].states[p] = "disabled" THEN "forwarding"
                        ELSE groups[i].states[p]

\* What was asked of a group holds of its instance: its VLANs and its port states.
GroupsFollowCalls == VlansFollowGroups /\ StatesFollowGroups
=============================================================================
