---------------------------- MODULE SaiStpProofs ----------------------------
(***************************************************************************)
(* Proofs about SaiStp for any number of VLANs, ports, ids and instances,  *)
(* whatever the caller asks for and SAI refuses: types, that groups and    *)
(* instances are one to one, and that the VLANs and port states of a group *)
(* are those that were asked for.                                          *)
(*                                                                         *)
(* StpInv is inductive.  It adds what the three properties do not say:     *)
(* what is in the entries that are not groups (EntriesAreGroups), where    *)
(* the default instance is (DefaultIsFirst) and that a VLAN SAI does not   *)
(* have is in no group (AbsentInNone).                                     *)
(***************************************************************************)
EXTENDS SaiStp, TLAPS

\* An entry with a handle is a group, and a group is an entry with a handle of
\* its own; also after create was called with the id of an entry.
EntriesAreGroups ==
  /\ DOMAIN groups \subseteq DOMAIN all_stp
  /\ \A i \in DOMAIN groups : all_stp[i] \in DOMAIN hw
  /\ \A i \in DOMAIN all_stp \ DOMAIN groups : all_stp[i] = None
  /\ \A i, j \in DOMAIN groups : all_stp[i] = all_stp[j] => i = j

\* SAI never loses the default instance, and the default entry, if init made one,
\* is a group that stays on it.
DefaultIsFirst ==
  /\ Default \in DOMAIN hw
  /\ ~over /\ default_stp_ins_id = 1 => 1 \in DOMAIN groups /\ all_stp[1] = Default

\* A VLAN that SAI does not have is in no group, or it is adrift.
AbsentInNone ==
  \A v \in Vlans \ (DOMAIN vlanOf \cup adrift) :
    \A i \in DOMAIN groups : v \notin groups[i].vlans

StpInv ==
  /\ TypeOK /\ EntriesAreGroups /\ DefaultIsFirst /\ AbsentInNone
  /\ GroupsAreInstances /\ VlansFollowGroups /\ StatesFollowGroups

-----------------------------------------------------------------------------
(* The first state, and one lemma for each step *)

\* An id that is found is one of the class's, and one that has no entry yet was idle.
LEMMA FoundIsAnId ==
  ASSUME TypeOK, NEW req, NEW i, IsFound(req, i)
  PROVE  /\ i \in Ids
         /\ i \notin DOMAIN all_stp => i \in idle
         /\ idle \ {i} \subseteq Ids /\ DOMAIN all_stp \cup {i} = Ids \ (idle \ {i})
  BY DEF IsFound, TypeOK

LEMMA StpInvInit == Init => StpInv
<1> SUFFICES ASSUME Init PROVE StpInv
  OBVIOUS
<1> USE PoolAssumption, InstancesAssumption
<1>1. 1 \in Ids
  BY DEF Ids
<1>2. NewGroup \in Group
  BY DEF NewGroup, Group
<1>3. TypeOK
  BY <1>1, <1>2 DEF TypeOK, Init, HwStates
<1>4. /\ DOMAIN hw = {Default} /\ DOMAIN vlanOf = {} /\ ~crashed
      /\ \A p \in Ports : hw[Default][p] = "unknown"
      /\ DOMAIN all_stp = {1} /\ DOMAIN groups \subseteq {1}
      /\ all_stp[1] = IF 1 \in DOMAIN groups THEN Default ELSE None
      /\ default_stp_ins_id = 1 => 1 \in DOMAIN groups
      /\ 1 \in DOMAIN groups => groups[1] = NewGroup
  BY DEF Init
<1>5. EntriesAreGroups /\ DefaultIsFirst /\ AbsentInNone
  BY <1>4 DEF EntriesAreGroups, DefaultIsFirst, AbsentInNone, NewGroup
<1>6. GroupsAreInstances /\ VlansFollowGroups
  BY <1>4 DEF GroupsAreInstances, VlansFollowGroups
<1>7. StatesFollowGroups
  BY <1>4 DEF StatesFollowGroups, PortState, StateOf, NewGroup
<1> QED
  BY <1>3, <1>5, <1>6, <1>7 DEF StpInv

\* An entry that has no handle changes nothing but the table.
LEMMA FoundStep ==
  ASSUME StpInv, NEW req \in Requests, NEW i, IsFound(req, i),
         all_stp' = Found(i), idle' = idle \ {i}, over' \in BOOLEAN, ~over' => ~over,
         UNCHANGED <<default_stp_ins_id, hw, vlanOf, groups, adrift, crashed>>
  PROVE  StpInv'
<1> USE PoolAssumption, InstancesAssumption DEF StpInv
<1>1. /\ i \in Ids
      /\ i \notin DOMAIN all_stp => i \in idle
      /\ idle \ {i} \subseteq Ids /\ DOMAIN all_stp \cup {i} = Ids \ (idle \ {i})
  BY FoundIsAnId
<1>2. /\ DOMAIN all_stp' = DOMAIN all_stp \cup {i}
      /\ \A j \in DOMAIN all_stp : all_stp'[j] = all_stp[j]
      /\ i \notin DOMAIN all_stp => all_stp'[i] = None
      /\ all_stp' \in [DOMAIN all_stp' -> Instances \cup {None}]
  BY DEF Found, With, TypeOK
<1>3. TypeOK'
  BY <1>1, <1>2 DEF TypeOK
<1>4. EntriesAreGroups'
  BY <1>2 DEF EntriesAreGroups
<1>5. DefaultIsFirst' /\ AbsentInNone'
  BY <1>2 DEF DefaultIsFirst, AbsentInNone, EntriesAreGroups
<1>6. GroupsAreInstances' /\ VlansFollowGroups'
  BY <1>2, <1>4 DEF GroupsAreInstances, VlansFollowGroups, EntriesAreGroups
<1>7. StatesFollowGroups'
  BY <1>2 DEF StatesFollowGroups, PortState, EntriesAreGroups
<1> QED
  BY <1>3, <1>4, <1>5, <1>6, <1>7

\* create: the new group has an instance nobody else has, no VLAN and no port state.
LEMMA CreateStep ==
  ASSUME StpInv, NEW req \in Requests, Create(req)
  PROVE  StpInv'
<1> USE PoolAssumption, InstancesAssumption DEF StpInv
<1>1. PICK i \in Ids \cup Requests :
        /\ IsFound(req, i)
        /\ idle' = idle \ {i}
        /\ over' = (over \/ i \in DOMAIN all_stp)
        /\ \/ \E h \in Instances \ DOMAIN hw :
                /\ hw' = With(hw, h, [p \in Ports |-> "unknown"])
                /\ all_stp' = With(all_stp, i, h)
                /\ groups' = With(groups, i, NewGroup)
           \/ /\ all_stp' = Found(i)
              /\ UNCHANGED <<hw, groups>>
  BY DEF Create
<1>2. /\ i \in Ids
      /\ i \notin DOMAIN all_stp => i \in idle
      /\ idle \ {i} \subseteq Ids /\ DOMAIN all_stp \cup {i} = Ids \ (idle \ {i})
  BY <1>1, FoundIsAnId
<1>3. /\ UNCHANGED <<default_stp_ins_id, vlanOf, adrift, crashed>>
      /\ over' \in BOOLEAN /\ (~over' => ~over /\ i \notin DOMAIN all_stp)
  BY <1>1 DEF Create, TypeOK
<1> DEFINE blank == [p \in Ports |-> "unknown"]
<1>4. CASE \E h \in Instances \ DOMAIN hw :
             /\ hw' = With(hw, h, blank)
             /\ all_stp' = With(all_stp, i, h)
             /\ groups' = With(groups, i, NewGroup)
  <2>1. PICK h \in Instances \ DOMAIN hw :
             /\ hw' = With(hw, h, blank)
             /\ all_stp' = With(all_stp, i, h)
             /\ groups' = With(groups, i, NewGroup)
    BY <1>4
  <2>2. /\ NewGroup \in Group /\ \A p \in Ports : NewGroup.states[p] = "unknown"
        /\ NewGroup.vlans = {}
    BY DEF NewGroup, Group
  <2>3. blank \in [Ports -> HwStates] /\ \A p \in Ports : blank[p] = "unknown"
    BY DEF HwStates
  <2> HIDE DEF blank
  <2>4. /\ DOMAIN hw' = DOMAIN hw \cup {h} /\ hw' \in [DOMAIN hw' -> [Ports -> HwStates]]
        /\ hw'[h] = blank
        /\ \A g \in DOMAIN hw : hw'[g] = hw[g]
    <3>1. hw \in [DOMAIN hw -> [Ports -> HwStates]]
      BY DEF TypeOK
    <3> QED
      BY <2>1, <2>3, <3>1 DEF With
  <2>5. /\ DOMAIN all_stp' = DOMAIN all_stp \cup {i}
        /\ all_stp' \in [DOMAIN all_stp' -> Instances \cup {None}]
        /\ all_stp'[i] = h
        /\ \A j \in DOMAIN all_stp \ {i} : all_stp'[j] = all_stp[j]
    <3>1. all_stp \in [DOMAIN all_stp -> Instances \cup {None}]
      BY DEF TypeOK
    <3> QED
      BY <2>1, <3>1 DEF With
  <2>6. /\ DOMAIN groups' = DOMAIN groups \cup {i} /\ groups' \in [DOMAIN groups' -> Group]
        /\ groups'[i] = NewGroup
        /\ \A j \in DOMAIN groups \ {i} : groups'[j] = groups[j]
    <3>1. groups \in [DOMAIN groups -> Group]
      BY DEF TypeOK
    <3> QED
      BY <2>1, <2>2, <3>1 DEF With
  <2>7. TypeOK'
    BY <1>1, <1>2, <1>3, <2>4, <2>5, <2>6 DEF TypeOK
  <2>8. EntriesAreGroups'
    BY <2>4, <2>5, <2>6 DEF EntriesAreGroups
  <2>9. DefaultIsFirst' /\ AbsentInNone'
    BY <1>3, <2>2, <2>4, <2>5, <2>6 DEF DefaultIsFirst, AbsentInNone, EntriesAreGroups
  <2>10. GroupsAreInstances'
    BY <1>3, <2>4, <2>5, <2>6, <2>8 DEF GroupsAreInstances, EntriesAreGroups
  <2>11. VlansFollowGroups'
    <3> SUFFICES ASSUME ~over' PROVE VlansFollowGroups'
      BY DEF VlansFollowGroups
    <3>1. ~over /\ i \notin DOMAIN groups
      BY <1>3 DEF EntriesAreGroups
    <3>2. \A j \in DOMAIN groups : groups'[j] = groups[j] /\ all_stp'[j] = all_stp[j]
      BY <2>5, <2>6, <3>1 DEF EntriesAreGroups
    <3> QED
      BY <1>3, <2>2, <2>6, <3>1, <3>2 DEF VlansFollowGroups
  <2>12. StatesFollowGroups'
    <3> SUFFICES ASSUME ~over', NEW j \in DOMAIN groups', NEW p \in Ports
                 PROVE  PortState(j, p)' = IF groups'[j].states[p] = "disabled" THEN "forwarding"
                                           ELSE groups'[j].states[p]
      BY DEF StatesFollowGroups
    <3>1. CASE j = i
      BY <2>2, <2>3, <2>4, <2>5, <2>6, <3>1 DEF PortState, StateOf
    <3>2. CASE j # i
      BY <1>3, <2>4, <2>5, <2>6, <3>2 DEF PortState, StatesFollowGroups, EntriesAreGroups
    <3> QED
      BY <3>1, <3>2
  <2> QED
    BY <2>7, <2>8, <2>9, <2>10, <2>11, <2>12
<1>5. CASE all_stp' = Found(i) /\ UNCHANGED <<hw, groups>>
  BY <1>1, <1>3, <1>5, FoundStep
<1> QED
  BY <1>1, <1>4, <1>5

LEMMA ShowStep ==
  ASSUME StpInv, NEW req \in Requests, Show(req)
  PROVE  StpInv'
<1>1. PICK i \in Ids \cup Requests :
        IsFound(req, i) /\ all_stp' = Found(i) /\ idle' = idle \ {i}
  BY DEF Show
<1>2. over' \in BOOLEAN /\ (~over' => ~over)
  BY DEF Show, StpInv, TypeOK
<1> QED
  BY <1>1, <1>2, FoundStep DEF Show

\* remove: no VLAN is in the instance that goes, so the groups of VLANs stay.
LEMMA RemoveStep ==
  ASSUME StpInv, NEW i \in DOMAIN all_stp, Remove(i)
  PROVE  StpInv'
<1> USE PoolAssumption, InstancesAssumption DEF StpInv
<1>1. /\ all_stp[i] \in DOMAIN hw \ {Default}
      /\ \A v \in DOMAIN vlanOf : vlanOf[v] # all_stp[i]
      /\ idle' = idle \cup {i}
      /\ UNCHANGED <<default_stp_ins_id, vlanOf, adrift, over, crashed>>
  BY DEF Remove, EntryRemoved
<1>2. /\ DOMAIN hw' = DOMAIN hw \ {all_stp[i]} /\ hw' \in [DOMAIN hw' -> [Ports -> HwStates]]
      /\ \A g \in DOMAIN hw' : hw'[g] = hw[g]
  BY DEF Remove, Without, TypeOK
<1>3. /\ DOMAIN all_stp' = DOMAIN all_stp \ {i}
      /\ all_stp' \in [DOMAIN all_stp' -> Instances \cup {None}]
      /\ \A j \in DOMAIN all_stp' : all_stp'[j] = all_stp[j]
  BY DEF Remove, EntryRemoved, Without, TypeOK
<1>4. /\ DOMAIN groups' = DOMAIN groups \ {i} /\ groups' \in [DOMAIN groups' -> Group]
      /\ \A j \in DOMAIN groups' : groups'[j] = groups[j]
  BY DEF Remove, Without, TypeOK
<1>5. i \in DOMAIN groups
  BY <1>1 DEF EntriesAreGroups, TypeOK
<1>6. TypeOK'
  BY <1>1, <1>2, <1>3, <1>4 DEF TypeOK
<1>7. EntriesAreGroups'
  BY <1>2, <1>3, <1>4, <1>5 DEF EntriesAreGroups
<1>8. DefaultIsFirst' /\ AbsentInNone'
  BY <1>1, <1>2, <1>3, <1>4 DEF DefaultIsFirst, AbsentInNone, EntriesAreGroups
<1>9. GroupsAreInstances'
  BY <1>1, <1>2, <1>3, <1>4, <1>5, <1>7 DEF GroupsAreInstances, EntriesAreGroups
<1>10. VlansFollowGroups'
  <2> SUFFICES ASSUME ~over
               PROVE  VlansFollowGroups'
    BY <1>1 DEF VlansFollowGroups
  <2>1. ASSUME NEW v \in DOMAIN vlanOf \ adrift, NEW j \in DOMAIN groups,
               v \in groups[j].vlans, vlanOf[v] = all_stp[j]
        PROVE  j \in DOMAIN groups' /\ v \in groups'[j].vlans /\ vlanOf'[v] = all_stp'[j]
    BY <1>1, <1>3, <1>4, <2>1 DEF EntriesAreGroups
  <2>2. ASSUME NEW v \in DOMAIN vlanOf \ adrift,
               \A j \in DOMAIN groups : v \notin groups[j].vlans
        PROVE  \A j \in DOMAIN groups' : v \notin groups'[j].vlans
    BY <1>4, <2>2
  <2> QED
    BY <1>1, <2>1, <2>2 DEF VlansFollowGroups
<1>11. StatesFollowGroups'
  BY <1>1, <1>2, <1>3, <1>4, <1>7 DEF StatesFollowGroups, PortState, EntriesAreGroups
<1> QED
  BY <1>6, <1>7, <1>8, <1>9, <1>10, <1>11

\* What AddVlan and RemoveVlan have in common: only VLAN v and its membership in
\* group i change, and v is adrift unless it is where its groups say.
LEMMA VlanMoves ==
  ASSUME StpInv, NEW i \in DOMAIN all_stp, NEW v \in DOMAIN vlanOf,
         NEW h \in DOMAIN hw, NEW W \in SUBSET Vlans,
         \A w \in Vlans \ {v} : i \in DOMAIN groups => (w \in W <=> w \in groups[i].vlans),
         vlanOf' = [vlanOf EXCEPT ![v] = h],
         groups' = IF i \in DOMAIN groups THEN [groups EXCEPT ![i].vlans = W] ELSE groups,
         adrift' \subseteq Vlans, \A w \in Vlans \ {v} : w \in adrift' <=> w \in adrift,
         ~over /\ v \notin adrift' =>
           \/ i \in DOMAIN groups /\ v \in W /\ h = all_stp[i]
           \/ h = Default /\ \A j \in DOMAIN groups' : v \notin groups'[j].vlans,
         UNCHANGED <<idle, all_stp, default_stp_ins_id, hw, over, crashed>>
  PROVE  StpInv'
<1> USE PoolAssumption, InstancesAssumption DEF StpInv
<1>1. /\ DOMAIN groups' = DOMAIN groups /\ groups' \in [DOMAIN groups -> Group]
      /\ \A j \in DOMAIN groups : groups'[j].states = groups[j].states
      /\ \A j \in DOMAIN groups \ {i} : groups'[j] = groups[j]
      /\ i \in DOMAIN groups => groups'[i].vlans = W
  BY DEF TypeOK, Group
<1>2. /\ DOMAIN vlanOf' = DOMAIN vlanOf /\ vlanOf' \in [DOMAIN vlanOf -> Instances]
      /\ vlanOf'[v] = h /\ \A w \in DOMAIN vlanOf \ {v} : vlanOf'[w] = vlanOf[w]
  BY DEF TypeOK
<1>3. \A w \in Vlans \ {v}, j \in DOMAIN groups :
        w \in groups'[j].vlans <=> w \in groups[j].vlans
  BY <1>1
<1>4. TypeOK'
  BY <1>1, <1>2 DEF TypeOK
<1>5. EntriesAreGroups' /\ DefaultIsFirst' /\ GroupsAreInstances'
  BY <1>1 DEF EntriesAreGroups, DefaultIsFirst, GroupsAreInstances
<1>6. AbsentInNone'
  BY <1>1, <1>2, <1>3 DEF AbsentInNone
<1>7. VlansFollowGroups'
  <2> SUFFICES ASSUME ~over PROVE VlansFollowGroups'
    BY DEF VlansFollowGroups
  <2>1. ASSUME NEW w \in DOMAIN vlanOf \ adrift', w # v
        PROVE  IF \E j \in DOMAIN groups' : w \in groups'[j].vlans
               THEN \E j \in DOMAIN groups' : w \in groups'[j].vlans /\ vlanOf'[w] = all_stp'[j]
               ELSE vlanOf'[w] = Default
    BY <1>1, <1>2, <1>3, <2>1 DEF VlansFollowGroups, TypeOK
  <2>2. v \notin adrift' =>
          IF \E j \in DOMAIN groups' : v \in groups'[j].vlans
          THEN \E j \in DOMAIN groups' : v \in groups'[j].vlans /\ vlanOf'[v] = all_stp'[j]
          ELSE vlanOf'[v] = Default
    BY <1>1, <1>2
  <2> QED
    BY <1>2, <2>1, <2>2 DEF VlansFollowGroups
<1>8. StatesFollowGroups'
  BY <1>1 DEF StatesFollowGroups, PortState
<1> QED
  BY <1>4, <1>5, <1>6, <1>7, <1>8

\* add_vlan: the VLAN is in the instance of its new group, or adrift.
LEMMA AddVlanStep ==
  ASSUME StpInv, NEW i \in DOMAIN all_stp, NEW v \in Vlans, AddVlan(i, v)
  PROVE  StpInv'
<1> DEFINE W == IF i \in DOMAIN groups THEN groups[i].vlans \cup {v} ELSE {}
<1>1. i \in DOMAIN groups
  BY InstancesAssumption DEF AddVlan, StpInv, EntriesAreGroups, TypeOK
<1>2. W \in SUBSET Vlans
  BY DEF StpInv, TypeOK, Group
<1>3. /\ v \in DOMAIN vlanOf /\ all_stp[i] \in DOMAIN hw
      /\ vlanOf' = [vlanOf EXCEPT ![v] = all_stp[i]]
      /\ groups' = [groups EXCEPT ![i].vlans = W]
      /\ adrift' \subseteq Vlans /\ \A w \in Vlans \ {v} : w \in adrift' <=> w \in adrift
      /\ UNCHANGED <<idle, all_stp, default_stp_ins_id, hw, over, crashed>>
  BY <1>1 DEF AddVlan, StpInv, TypeOK
<1>4. v \in W /\ \A w \in Vlans \ {v} : w \in W <=> w \in groups[i].vlans
  BY <1>1
<1> HIDE DEF W
<1> QED
  BY <1>1, <1>2, <1>3, <1>4, VlanMoves

\* remove_vlan: the VLAN is in the default instance and in no group, or adrift; and
\* the entry that is read is there.
LEMMA RemoveVlanStep ==
  ASSUME StpInv, NEW i \in DOMAIN all_stp, NEW v \in Vlans, RemoveVlan(i, v)
  PROVE  StpInv'
<1>1. CASE default_stp_ins_id \notin DOMAIN all_stp
  <2>1. /\ crashed' = TRUE
        /\ UNCHANGED <<vlanOf, groups, adrift, idle, all_stp, default_stp_ins_id, hw, over>>
    BY <1>1 DEF RemoveVlan
  <2>2. ~over => default_stp_ins_id = 0
    BY <1>1 DEF StpInv, TypeOK, DefaultIsFirst, EntriesAreGroups
  <2> QED
    BY <2>1, <2>2 DEF StpInv, TypeOK, EntriesAreGroups, DefaultIsFirst, AbsentInNone,
       GroupsAreInstances, VlansFollowGroups, StatesFollowGroups, PortState
<1>2. CASE default_stp_ins_id \in DOMAIN all_stp
  <2> DEFINE W == IF i \in DOMAIN groups THEN groups[i].vlans \ {v} ELSE {}
             h == all_stp[default_stp_ins_id]
  <2>1. W \in SUBSET Vlans
    BY DEF StpInv, TypeOK, Group
  <2>2. /\ v \in DOMAIN vlanOf /\ h \in DOMAIN hw
        /\ vlanOf' = [vlanOf EXCEPT ![v] = h]
        /\ groups' = IF i \in DOMAIN groups THEN [groups EXCEPT ![i].vlans = W] ELSE groups
        /\ adrift' = IF OnlyIn(v, i) THEN adrift ELSE adrift \cup {v}
        /\ UNCHANGED <<idle, all_stp, default_stp_ins_id, hw, over, crashed>>
    BY <1>2 DEF RemoveVlan, StpInv, TypeOK
  <2>3. adrift' \subseteq Vlans /\ \A w \in Vlans \ {v} : w \in adrift' <=> w \in adrift
    BY <2>2 DEF StpInv, TypeOK
  <2>4. ~over => h = Default
    <3>1. 0 \notin Ids
      BY PoolAssumption DEF Ids
    <3> QED
      BY <1>2, <3>1 DEF StpInv, TypeOK, DefaultIsFirst
  <2>5. v \notin adrift' => \A j \in DOMAIN groups' : v \notin groups'[j].vlans
    <3> SUFFICES ASSUME v \notin adrift', NEW j \in DOMAIN groups'
                 PROVE  v \notin groups'[j].vlans
      OBVIOUS
    <3>1. OnlyIn(v, i)
      BY <2>2
    <3>2. CASE j = i
      BY <2>2, <3>2 DEF StpInv, TypeOK, Group
    <3>3. CASE j # i
      BY <2>2, <3>1, <3>3 DEF OnlyIn, StpInv, TypeOK
    <3> QED
      BY <3>2, <3>3
  <2>6. \A w \in Vlans \ {v} : i \in DOMAIN groups => (w \in W <=> w \in groups[i].vlans)
    OBVIOUS
  <2> HIDE DEF W, h
  <2> QED
    BY <2>1, <2>2, <2>3, <2>4, <2>5, <2>6, VlanMoves
<1> QED
  BY <1>1, <1>2

\* set_port_state: one port of one instance, and that instance is one group's.
LEMMA SetPortStateStep ==
  ASSUME StpInv, NEW i \in DOMAIN all_stp, NEW p \in Ports, NEW s \in States,
         SetPortState(i, p, s)
  PROVE  StpInv'
<1> USE PoolAssumption, InstancesAssumption DEF StpInv
<1>1. /\ i \in DOMAIN groups /\ all_stp[i] \in DOMAIN hw
      /\ UNCHANGED <<idle, all_stp, default_stp_ins_id, vlanOf, adrift, over, crashed>>
  BY DEF SetPortState, EntriesAreGroups, TypeOK
<1>2. HwState(s) \in HwStates
  BY DEF HwState, HwStates, States
<1>3. /\ DOMAIN hw' = DOMAIN hw /\ hw' \in [DOMAIN hw -> [Ports -> HwStates]]
      /\ \A h \in DOMAIN hw \ {all_stp[i]} : hw'[h] = hw[h]
      /\ hw'[all_stp[i]][p] = HwState(s)
      /\ \A q \in Ports \ {p} : hw'[all_stp[i]][q] = hw[all_stp[i]][q]
  BY <1>1, <1>2 DEF SetPortState, TypeOK
<1>4. /\ DOMAIN groups' = DOMAIN groups /\ groups' \in [DOMAIN groups -> Group]
      /\ \A j \in DOMAIN groups \ {i} : groups'[j] = groups[j]
      /\ groups'[i].vlans = groups[i].vlans
      /\ groups'[i].states[p] = s
      /\ \A q \in Ports \ {p} : groups'[i].states[q] = groups[i].states[q]
  BY <1>1 DEF SetPortState, TypeOK, Group
<1>5. TypeOK'
  BY <1>1, <1>3, <1>4 DEF TypeOK
<1>6. EntriesAreGroups' /\ DefaultIsFirst' /\ AbsentInNone'
  BY <1>1, <1>3, <1>4 DEF EntriesAreGroups, DefaultIsFirst, AbsentInNone
<1>7. GroupsAreInstances' /\ VlansFollowGroups'
  <2>1. \A j \in DOMAIN groups : groups'[j].vlans = groups[j].vlans
    BY <1>4
  <2>2. GroupsAreInstances'
    BY <1>1, <1>3, <1>4 DEF GroupsAreInstances
  <2>3. VlansFollowGroups'
    BY <1>1, <1>4, <2>1 DEF VlansFollowGroups
  <2> QED
    BY <2>2, <2>3
<1>8. StatesFollowGroups'
  <2> SUFFICES ASSUME ~over, NEW j \in DOMAIN groups, NEW q \in Ports
               PROVE  PortState(j, q)' = IF groups'[j].states[q] = "disabled" THEN "forwarding"
                                         ELSE groups'[j].states[q]
    BY <1>1, <1>4 DEF StatesFollowGroups
  <2>1. CASE j = i /\ q = p
    BY <1>1, <1>3, <1>4, <2>1 DEF PortState, StateOf, HwState, States
  <2>2. CASE j # i \/ q # p
    <3>1. /\ hw'[all_stp'[j]][q] = hw[all_stp[j]][q]
          /\ groups'[j].states[q] = groups[j].states[q]
      BY <1>1, <1>3, <1>4, <2>2 DEF EntriesAreGroups
    <3> QED
      BY <3>1 DEF PortState, StatesFollowGroups
  <2> QED
    BY <2>1, <2>2
<1> QED
  BY <1>5, <1>6, <1>7, <1>8

\* A VLAN that SAI makes is in the default instance and in no group.
LEMMA VlanCreateStep ==
  ASSUME StpInv, NEW v \in Vlans, VlanCreate(v)
  PROVE  StpInv'
<1> USE PoolAssumption, InstancesAssumption DEF StpInv
<1>1. UNCHANGED <<idle, all_stp, default_stp_ins_id, hw, groups, adrift, over, crashed>>
  BY DEF VlanCreate
<1>2. /\ v \notin DOMAIN vlanOf
      /\ DOMAIN vlanOf' = DOMAIN vlanOf \cup {v} /\ vlanOf' \in [DOMAIN vlanOf' -> Instances]
      /\ vlanOf'[v] = Default /\ \A w \in DOMAIN vlanOf : vlanOf'[w] = vlanOf[w]
  BY DEF VlanCreate, With, TypeOK
<1>3. TypeOK'
  BY <1>1, <1>2 DEF TypeOK
<1>4. EntriesAreGroups' /\ DefaultIsFirst' /\ AbsentInNone' /\ GroupsAreInstances'
  BY <1>1, <1>2 DEF EntriesAreGroups, DefaultIsFirst, AbsentInNone, GroupsAreInstances
<1>5. VlansFollowGroups'
  BY <1>1, <1>2 DEF VlansFollowGroups, AbsentInNone
<1>6. StatesFollowGroups'
  BY <1>1 DEF StatesFollowGroups, PortState
<1> QED
  BY <1>3, <1>4, <1>5, <1>6

\* A VLAN that SAI removes is in no group, or adrift.
LEMMA VlanDestroyStep ==
  ASSUME StpInv, NEW v \in Vlans, VlanDestroy(v)
  PROVE  StpInv'
<1> USE PoolAssumption, InstancesAssumption DEF StpInv
<1>1. /\ UNCHANGED <<idle, all_stp, default_stp_ins_id, hw, groups, over, crashed>>
      /\ adrift' = IF \A i \in DOMAIN groups : v \notin groups[i].vlans
                   THEN adrift ELSE adrift \cup {v}
  BY DEF VlanDestroy
<1>2. /\ DOMAIN vlanOf' = DOMAIN vlanOf \ {v} /\ vlanOf' \in [DOMAIN vlanOf' -> Instances]
      /\ \A w \in DOMAIN vlanOf' : vlanOf'[w] = vlanOf[w]
  BY DEF VlanDestroy, Without, TypeOK
<1>3. TypeOK'
  BY <1>1, <1>2 DEF TypeOK
<1>4. EntriesAreGroups' /\ DefaultIsFirst' /\ AbsentInNone' /\ GroupsAreInstances'
  BY <1>1, <1>2 DEF EntriesAreGroups, DefaultIsFirst, AbsentInNone, GroupsAreInstances
<1>5. VlansFollowGroups'
  BY <1>1, <1>2 DEF VlansFollowGroups
<1>6. StatesFollowGroups'
  BY <1>1 DEF StatesFollowGroups, PortState
<1> QED
  BY <1>3, <1>4, <1>5, <1>6

LEMMA StpInvNext == StpInv /\ [Next]_vars => StpInv'
<1> SUFFICES ASSUME StpInv, [Next]_vars PROVE StpInv'
  OBVIOUS
<1>1. CASE UNCHANGED vars
  BY <1>1 DEF vars, StpInv, TypeOK, EntriesAreGroups, DefaultIsFirst, AbsentInNone,
     GroupsAreInstances, VlansFollowGroups, StatesFollowGroups, PortState
<1>2. CASE Next
  BY <1>2, CreateStep, ShowStep, RemoveStep, AddVlanStep, RemoveVlanStep, SetPortStateStep,
     VlanCreateStep, VlanDestroyStep DEF Next
<1> QED
  BY <1>1, <1>2

-----------------------------------------------------------------------------
(* Theorems *)

THEOREM StpInvariant == Spec => []StpInv
  BY StpInvInit, StpInvNext, PTL DEF Spec

\* The variables keep their types, and an id is idle or has an entry: __stp_idle_index_get
\* and __stp_entry_hmap_delete keep the bitmap and the table complementary.
THEOREM StpTypeCorrect == Spec => []TypeOK
<1>1. StpInv => TypeOK
  BY DEF StpInv
<1> QED
  BY <1>1, StpInvariant, PTL

\* Groups and instances stay one to one for every number of either, whatever SAI
\* refuses in __stp_create and __stp_remove.
THEOREM GroupsAreInstancesHolds == Spec => []GroupsAreInstances
<1>1. StpInv => GroupsAreInstances
  BY DEF StpInv
<1> QED
  BY <1>1, StpInvariant, PTL

\* The VLANs and port states of SAI's instances are those the caller set in the groups,
\* through __stp_add_vlan, __stp_remove_vlan and __stp_set_port_state, in any order.
THEOREM GroupsFollowCallsHolds == Spec => []GroupsFollowCalls
<1>1. StpInv => GroupsFollowCalls
  BY DEF StpInv, GroupsFollowCalls
<1> QED
  BY <1>1, StpInvariant, PTL
=============================================================================
