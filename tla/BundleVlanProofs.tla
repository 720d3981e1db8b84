-------------------------- MODULE BundleVlanProofs --------------------------
(***************************************************************************)
(* Proofs about SaiVlan and BundleVlan for any number of ports, VLANs and  *)
(* bundles.                                                                *)
(*                                                                         *)
(* First comes the VLAN class on its own: the types, that all_vlan_member  *)
(* mirrors the hardware, and where a non-default PVID comes from.  The     *)
(* three form one inductive invariant, and every method of the class       *)
(* preserves the port-local part of it.  Then come the lists of ports: no  *)
(* port is ever listed twice; and the VLAN class under the calls bundles   *)
(* make of it: whatever is refused, the facts about one call hold of all   *)
(* the calls a bundle_set makes.  Last comes what those calls are for:     *)
(* with a client that uses VLANs only while they exist, and a SAI that     *)
(* refuses nothing, a port is in the hardware what its bundle says, and a  *)
(* port that leaves its bundle is as new.                                  *)
(***************************************************************************)
EXTENDS BundleVlan, FiniteSetTheorems, SequenceTheorems, WellFoundedInduction, TLAPS

-----------------------------------------------------------------------------
(* The VLAN class *)

\* RememberedIsHw and PvidIsRemembered as facts about one port record, for a
\* given set of existing VLANs.
Mirrors(st, existing) ==
  \A v \in Vlans :
    st.member[v] = IF v \in existing THEN st.remembered[v] ELSE "none"
PvidKnown(st) == st.pvid # DefaultPvid => st.remembered[st.pvid] # "none"

Coherent(st, existing) ==
  st \in PortState /\ Mirrors(st, existing) /\ PvidKnown(st)

\* A port no method has touched is coherent.
LEMMA FreshCoherent == FreshPort \in PortState /\ PvidKnown(FreshPort)
                       /\ \A S : Mirrors(FreshPort, S)
  BY DEF FreshPort, PortState, PvidKnown, Mirrors, TagMode

\* Adding one VLAN, accepted or refused, keeps a record coherent.
LEMMA VlanPortAddCoherent ==
  ASSUME NEW st, Coherent(st, vlans), NEW v \in Vlans, NEW mode \in {"untagged", "tagged"}
  PROVE  VlanPortAdd(st, v, mode).ok \in BOOLEAN
         /\ Coherent(VlanPortAdd(st, v, mode).port, vlans)
  BY DEF VlanPortAdd, Addable, Done, Failed, Coherent, Mirrors, PvidKnown, PortState, TagMode

\* Removing one VLAN, accepted or refused, keeps a record coherent.
LEMMA VlanPortDelCoherent ==
  ASSUME NEW st, Coherent(st, vlans), NEW v \in Vlans
  PROVE  VlanPortDel(st, v).ok \in BOOLEAN
         /\ Coherent(VlanPortDel(st, v).port, vlans)
  BY DEF VlanPortDel, Removable, Done, Failed, Coherent, Mirrors, PvidKnown, PortState, TagMode

\* The ascending walk never passes a VLAN SAI refuses.
LEMMA WalkedAccepted ==
  ASSUME NEW T \in SUBSET Vlans, NEW bad \in SUBSET T
  PROVE  WalkedBefore(T, bad) \subseteq T \ bad
<1> SUFFICES ASSUME NEW v \in WalkedBefore(T, bad) PROVE v \notin bad
  BY DEF WalkedBefore
<1>1. v \in Nat /\ \A x \in bad : v < x
  BY VlansAssumption DEF WalkedBefore
<1> QED
  BY <1>1

\* Adding a set of VLANs as tagged keeps a record coherent, however far the
\* walk over the bitmap gets.
LEMMA TrunksAddedCoherent ==
  ASSUME NEW st, Coherent(st, vlans), NEW T \in SUBSET Vlans
  PROVE  TrunksAdded(st, T).ok \in BOOLEAN
         /\ Coherent(TrunksAdded(st, T).port, vlans)
<1> DEFINE bad  == {v \in T : ~Addable(v)}
           done == WalkedBefore(T, bad)
           tag  == [v \in Vlans |-> IF v \in done THEN "tagged" ELSE st.member[v]]
           rem  == [v \in Vlans |-> IF v \in done THEN "tagged" ELSE st.remembered[v]]
           new  == [st EXCEPT !.member = tag, !.remembered = rem]
<1>1. TrunksAdded(st, T) = [ok |-> bad = {}, port |-> new]
  BY DEF TrunksAdded, Coherent, PortState
<1>2. done \subseteq vlans
  BY WalkedAccepted DEF Addable
<1>3. new \in PortState
  BY DEF Coherent, PortState, TagMode
<1>4. new.member = tag /\ new.remembered = rem /\ new.pvid = st.pvid
  BY DEF Coherent, PortState
<1>5. Mirrors(new, vlans)
  BY <1>2, <1>4 DEF Coherent, Mirrors
<1>6. PvidKnown(new)
  BY <1>4 DEF Coherent, PvidKnown, PortState
<1> QED
  BY <1>1, <1>3, <1>5, <1>6 DEF Coherent

\* Removing a set of VLANs keeps a record coherent, however far the walk gets:
\* the first removal already resets the PVID.
LEMMA TrunksRemovedCoherent ==
  ASSUME NEW st, Coherent(st, vlans), NEW T \in SUBSET Vlans
  PROVE  TrunksRemoved(st, T).ok \in BOOLEAN
         /\ Coherent(TrunksRemoved(st, T).port, vlans)
<1> DEFINE bad  == {v \in T : ~Removable(st, v)}
           done == WalkedBefore(T, bad)
           mem  == [v \in Vlans |-> IF v \in done THEN "none" ELSE st.member[v]]
           rem  == [v \in Vlans |-> IF v \in done THEN "none" ELSE st.remembered[v]]
           pv   == IF done = {} THEN st.pvid ELSE DefaultPvid
           new  == [st EXCEPT !.member = mem, !.remembered = rem, !.pvid = pv,
                              !.untagEnable = st.untagEnable \/ done # {}]
<1>1. TrunksRemoved(st, T) = [ok |-> bad = {}, port |-> new]
  BY DEF TrunksRemoved, Coherent, PortState
<1>2. new \in PortState
  BY DEF Coherent, PortState, TagMode
<1>3. new.member = mem /\ new.remembered = rem /\ new.pvid = pv
  BY DEF Coherent, PortState
<1>4. Mirrors(new, vlans)
  BY <1>3 DEF Coherent, Mirrors
<1>5. PvidKnown(new)
  BY <1>3 DEF Coherent, PvidKnown, PortState
<1> QED
  BY <1>1, <1>2, <1>4, <1>5 DEF Coherent

\* The filter attributes are no part of coherence.
LEMMA FiltersCoherent ==
  ASSUME NEW r, Coherent(r.port, vlans), NEW filter \in BOOLEAN, NEW tagged \in BOOLEAN
  PROVE  Coherent(Filters(r, filter, tagged).port, vlans)
<1>1. CASE r.ok
  <2> DEFINE new == [r.port EXCEPT !.ingressFilter = filter, !.dropUntagged = FALSE,
                                   !.dropTagged = tagged]
  <2>1. Filters(r, filter, tagged).port = new
    BY <1>1 DEF Filters, Done
  <2>2. new \in PortState /\ new.member = r.port.member
        /\ new.remembered = r.port.remembered /\ new.pvid = r.port.pvid
    BY DEF Coherent, PortState
  <2> QED
    BY <2>1, <2>2 DEF Coherent, Mirrors, PvidKnown
<1>2. CASE ~r.ok
  BY <1>2 DEF Filters
<1> QED
  BY <1>1, <1>2

\* The four port methods of the class keep a record coherent.
LEMMA MethodsCoherent ==
  ASSUME NEW st, Coherent(st, vlans), NEW v \in Vlans, NEW T \in SUBSET Vlans
  PROVE  /\ Coherent(AccessPortAdd(st, v).port, vlans)
         /\ Coherent(AccessPortDel(st, v).port, vlans)
         /\ Coherent(TrunksPortAdd(st, T).port, vlans)
         /\ Coherent(TrunksPortDel(st, T).port, vlans)
<1>1. Coherent(AccessPortAdd(st, v).port, vlans)
  BY VlanPortAddCoherent, FiltersCoherent DEF AccessPortAdd
<1>2. Coherent(AccessPortDel(st, v).port, vlans)
  <2> DEFINE r == VlanPortDel(st, v)
             s == [r EXCEPT !.port.untagEnable = @ \/ r.ok]
  <2>1. r.ok \in BOOLEAN /\ Coherent(r.port, vlans)
    BY VlanPortDelCoherent
  <2>2. s.port = [r.port EXCEPT !.untagEnable = @ \/ r.ok]
    BY DEF VlanPortDel, Done, Failed
  <2>3. s.port \in PortState /\ s.port.member = r.port.member
        /\ s.port.remembered = r.port.remembered /\ s.port.pvid = r.port.pvid
    BY <2>1, <2>2 DEF Coherent, PortState
  <2>4. Coherent(s.port, vlans)
    BY <2>1, <2>3 DEF Coherent, Mirrors, PvidKnown
  <2> QED
    BY <2>4, FiltersCoherent DEF AccessPortDel
<1>3. Coherent(TrunksPortAdd(st, T).port, vlans)
  BY TrunksAddedCoherent, FiltersCoherent DEF TrunksPortAdd
<1>4. Coherent(TrunksPortDel(st, T).port, vlans)
  BY TrunksRemovedCoherent, FiltersCoherent DEF TrunksPortDel
<1> QED
  BY <1>1, <1>2, <1>3, <1>4

\* Replaying the remembered entry of a VLAN that exists again, or still does,
\* makes the record coherent with the VLANs that then exist.
LEMMA ReplayedCoherent ==
  ASSUME NEW st, Coherent(st, vlans), NEW v \in Vlans
  PROVE  Coherent(Replayed(st, v), vlans \cup {v})
<1>1. Replayed(st, v) \in PortState /\ Replayed(st, v).remembered = st.remembered
  BY DEF Replayed, Coherent, PortState, TagMode
<1>2. PvidKnown(Replayed(st, v))
  BY <1>1 DEF Replayed, Coherent, PvidKnown, PortState
<1>3. ASSUME NEW w \in Vlans
      PROVE  Replayed(st, v).member[w]
               = IF w \in vlans \cup {v} THEN st.remembered[w] ELSE "none"
  BY DEF Replayed, Coherent, Mirrors, PortState
<1> QED
  BY <1>1, <1>2, <1>3 DEF Coherent, Mirrors

\* Destroying a VLAN takes its members from the hardware only.
LEMMA DestroyedCoherent ==
  ASSUME NEW st, Coherent(st, vlans), NEW v \in Vlans
  PROVE  Coherent([st EXCEPT !.member[v] = "none"], vlans \ {v})
  BY DEF Coherent, Mirrors, PvidKnown, PortState, TagMode

-----------------------------------------------------------------------------
\* The inductive invariant: every port record is coherent.
VlanInv ==
  /\ vlans \subseteq Vlans
  /\ refused \subseteq Vlans
  /\ port = [p \in Ports |-> port[p]]
  /\ \A p \in Ports : Coherent(port[p], vlans)

\* The invariant holds before any VLAN is configured.
LEMMA VlanInvInit == VlanInit => VlanInv
  BY FreshCoherent DEF VlanInit, VlanInv, Coherent

\* The invariant implies the three properties the runs check.
LEMMA VlanInvImplies == VlanInv => VlanTypeOK /\ RememberedIsHw /\ PvidIsRemembered
  BY DEF VlanInv, VlanTypeOK, RememberedIsHw, PvidIsRemembered, Coherent, Mirrors, PvidKnown

\* A call of a port method that leaves a coherent record preserves it.
LEMMA CallPreserves ==
  ASSUME VlanInv, NEW p \in Ports, NEW r, Coherent(r.port, vlans), Call(p, r)
  PROVE  VlanInv'
  BY DEF VlanInv, Call

\* Every step preserves the invariant.
LEMMA VlanInvNext == VlanInv /\ [VlanNext]_vlanVars => VlanInv'
<1> SUFFICES ASSUME VlanInv, [VlanNext]_vlanVars PROVE VlanInv'
  OBVIOUS
<1>1. ASSUME NEW v \in Vlans, VlanCreate(v) PROVE VlanInv'
  <2>1. \A p \in Ports : Coherent(Replayed(port[p], v), vlans \cup {v})
    BY ReplayedCoherent DEF VlanInv
  <2>2. vlans' = vlans \cup {v}
    BY <1>1 DEF VlanCreate
  <2> QED
    BY <1>1, <2>1, <2>2 DEF VlanInv, VlanCreate
<1>2. ASSUME NEW v \in Vlans, VlanDestroy(v) PROVE VlanInv'
  <2>1. \A p \in Ports : Coherent([port[p] EXCEPT !.member[v] = "none"], vlans \ {v})
    BY DestroyedCoherent DEF VlanInv
  <2> QED
    BY <1>2, <2>1 DEF VlanInv, VlanDestroy
<1>3. ASSUME NEW v \in Vlans, VlanIntfUpdate(v) PROVE VlanInv'
  <2>1. \A p \in Ports : Coherent(Replayed(port[p], v), vlans \cup {v})
    BY ReplayedCoherent DEF VlanInv
  <2> QED
    BY <1>3, <2>1 DEF VlanInv, VlanIntfUpdate
<1>4. ASSUME NEW p \in Ports, NEW v \in Vlans, Call(p, AccessPortAdd(port[p], v))
      PROVE  VlanInv'
  BY <1>4, MethodsCoherent, CallPreserves DEF VlanInv
<1>5. ASSUME NEW p \in Ports, NEW v \in Vlans, Call(p, AccessPortDel(port[p], v))
      PROVE  VlanInv'
  BY <1>5, MethodsCoherent, CallPreserves DEF VlanInv
<1>6. ASSUME NEW p \in Ports, NEW T \in SUBSET Vlans, Call(p, TrunksPortAdd(port[p], T))
      PROVE  VlanInv'
  <2>1. Coherent(TrunksPortAdd(port[p], T).port, vlans)
    BY TrunksAddedCoherent, FiltersCoherent DEF TrunksPortAdd, VlanInv
  <2> QED
    BY <1>6, <2>1, CallPreserves
<1>7. ASSUME NEW p \in Ports, NEW T \in SUBSET Vlans, Call(p, TrunksPortDel(port[p], T))
      PROVE  VlanInv'
  <2>1. Coherent(TrunksPortDel(port[p], T).port, vlans)
    BY TrunksRemovedCoherent, FiltersCoherent DEF TrunksPortDel, VlanInv
  <2> QED
    BY <1>7, <2>1, CallPreserves
<1>8. CASE SaiRefuses
  BY <1>8 DEF SaiRefuses, VlanInv
<1>9. CASE UNCHANGED vlanVars
  BY <1>9 DEF vlanVars, VlanInv
<1> QED
  BY <1>1, <1>2, <1>3, <1>4, <1>5, <1>6, <1>7, <1>8, <1>9 DEF VlanNext

-----------------------------------------------------------------------------
\* For every set of ports and VLANs, whoever calls the class and whatever SAI
\* refuses: the variables keep their types.
THEOREM VlanTypeCorrect == VlanSpec => []VlanTypeOK
  BY VlanInvInit, VlanInvNext, VlanInvImplies, PTL DEF VlanSpec

\* all_vlan_member mirrors the hardware in every reachable state.
THEOREM RememberedIsHwHolds == VlanSpec => []RememberedIsHw
  BY VlanInvInit, VlanInvNext, VlanInvImplies, PTL DEF VlanSpec

\* A non-default PVID always belongs to a remembered membership.
THEOREM PvidIsRememberedHolds == VlanSpec => []PvidIsRemembered
  BY VlanInvInit, VlanInvNext, VlanInvImplies, PTL DEF VlanSpec

\* Hardware, member table and PVID agree in every reachable state.
THEOREM VlanClassIsFaithfulHolds == VlanSpec => []VlanClassIsFaithful
<1>1. RememberedIsHw /\ PvidIsRemembered => VlanClassIsFaithful
  BY DEF VlanClassIsFaithful
<1> QED
  BY <1>1, RememberedIsHwHolds, PvidIsRememberedHolds, PTL

-----------------------------------------------------------------------------
\* new remembers what st does of the VLANs that do not exist.
SameWhereAbsent(st, new) ==
  \A w \in Vlans \ vlans : new.remembered[w] = st.remembered[w]

\* Writing the filters changes no membership.
LEMMA FiltersFrozen ==
  ASSUME NEW st, NEW r, r.port \in PortState, SameWhereAbsent(st, r.port),
         NEW filter, NEW tagged
  PROVE  SameWhereAbsent(st, Filters(r, filter, tagged).port)
<1>1. CASE r.ok
  <2>1. Filters(r, filter, tagged).port
          = [r.port EXCEPT !.ingressFilter = filter, !.dropUntagged = FALSE,
                           !.dropTagged = tagged]
    BY <1>1 DEF Filters, Done
  <2>2. Filters(r, filter, tagged).port.remembered = r.port.remembered
    BY <2>1 DEF PortState
  <2> QED
    BY <2>2 DEF SameWhereAbsent
<1>2. CASE ~r.ok
  BY <1>2 DEF Filters
<1> QED
  BY <1>1, <1>2

\* No access method changes what is remembered of a VLAN that does not exist.
LEMMA AccessFrozen ==
  ASSUME NEW st, Coherent(st, vlans), NEW v \in Vlans
  PROVE  /\ SameWhereAbsent(st, AccessPortAdd(st, v).port)
         /\ SameWhereAbsent(st, AccessPortDel(st, v).port)
<1>1. SameWhereAbsent(st, AccessPortAdd(st, v).port)
  <2>1. VlanPortAdd(st, v, "untagged").port \in PortState
    BY VlanPortAddCoherent DEF Coherent
  <2>2. SameWhereAbsent(st, VlanPortAdd(st, v, "untagged").port)
    BY DEF SameWhereAbsent, VlanPortAdd, Addable, Done, Failed, Coherent, PortState
  <2> QED
    BY <2>1, <2>2, FiltersFrozen DEF AccessPortAdd
<1>2. SameWhereAbsent(st, AccessPortDel(st, v).port)
  <2> DEFINE r == VlanPortDel(st, v)
             s == [r EXCEPT !.port.untagEnable = @ \/ r.ok]
  <2>1. r.ok \in BOOLEAN /\ r.port \in PortState
    BY VlanPortDelCoherent DEF Coherent
  <2>2. SameWhereAbsent(st, r.port)
    BY DEF SameWhereAbsent, VlanPortDel, Removable, Done, Failed, Coherent, PortState
  <2>3. s.port = [r.port EXCEPT !.untagEnable = @ \/ r.ok]
    BY DEF VlanPortDel, Done, Failed
  <2>4. s.port \in PortState /\ s.port.remembered = r.port.remembered
    BY <2>1, <2>3 DEF PortState
  <2>5. SameWhereAbsent(st, s.port)
    BY <2>2, <2>4 DEF SameWhereAbsent
  <2> QED
    BY <2>4, <2>5, FiltersFrozen DEF AccessPortDel
<1> QED
  BY <1>1, <1>2

\* Nor does a trunk method.
LEMMA TrunksFrozen ==
  ASSUME NEW st, Coherent(st, vlans), NEW T \in SUBSET Vlans
  PROVE  /\ SameWhereAbsent(st, TrunksPortAdd(st, T).port)
         /\ SameWhereAbsent(st, TrunksPortDel(st, T).port)
<1>1. SameWhereAbsent(st, TrunksPortAdd(st, T).port)
  <2> DEFINE bad  == {x \in T : ~Addable(x)}
             done == WalkedBefore(T, bad)
  <2>1. TrunksAdded(st, T).port \in PortState
    BY TrunksAddedCoherent DEF Coherent
  <2>2. done \subseteq vlans
    BY WalkedAccepted DEF Addable
  <2>3. TrunksAdded(st, T).port.remembered
          = [w \in Vlans |-> IF w \in done THEN "tagged" ELSE st.remembered[w]]
    BY DEF TrunksAdded, Coherent, PortState
  <2>4. SameWhereAbsent(st, TrunksAdded(st, T).port)
    BY <2>2, <2>3 DEF SameWhereAbsent
  <2> QED
    BY <2>1, <2>4, FiltersFrozen DEF TrunksPortAdd
<1>2. SameWhereAbsent(st, TrunksPortDel(st, T).port)
  <2> DEFINE bad  == {x \in T : ~Removable(st, x)}
             done == WalkedBefore(T, bad)
  <2>1. TrunksRemoved(st, T).port \in PortState
    BY TrunksRemovedCoherent DEF Coherent
  <2>2. done \subseteq vlans
    BY WalkedAccepted DEF Removable
  <2>3. TrunksRemoved(st, T).port.remembered
          = [w \in Vlans |-> IF w \in done THEN "none" ELSE st.remembered[w]]
    BY DEF TrunksRemoved, Coherent, PortState
  <2>4. SameWhereAbsent(st, TrunksRemoved(st, T).port)
    BY <2>2, <2>3 DEF SameWhereAbsent
  <2> QED
    BY <2>1, <2>4, FiltersFrozen DEF TrunksPortDel
<1> QED
  BY <1>1, <1>2

\* Neither does a replay.
LEMMA ReplayedFrozen ==
  ASSUME NEW st, Coherent(st, vlans), NEW v \in Vlans
  PROVE  SameWhereAbsent(st, Replayed(st, v))
  BY DEF SameWhereAbsent, Replayed, Coherent, PortState

\* No step changes what all_vlan_member holds for a VLAN that is absent before it or
\* after it.
LEMMA VlanStepFreezes ==
  ASSUME VlanInv, VlanNext, NEW p \in Ports, NEW v \in Vlans \ (vlans \cap vlans')
  PROVE  port'[p].remembered[v] = port[p].remembered[v]
<1>1. SameWhereAbsent(port[p], port'[p])
  <2>1. Coherent(port[p], vlans)
    BY DEF VlanInv
  <2>2. ASSUME NEW w \in Vlans, VlanCreate(w) \/ VlanIntfUpdate(w)
        PROVE  SameWhereAbsent(port[p], port'[p])
    BY <2>1, <2>2, ReplayedFrozen DEF VlanCreate, VlanIntfUpdate
  <2>3. ASSUME NEW w \in Vlans, VlanDestroy(w) PROVE SameWhereAbsent(port[p], port'[p])
    BY <2>1, <2>3 DEF VlanDestroy, SameWhereAbsent, Coherent, PortState
  <2>4. ASSUME NEW q \in Ports, NEW r, Call(q, r), SameWhereAbsent(port[q], r.port)
        PROVE  SameWhereAbsent(port[p], port'[p])
    BY <2>4 DEF Call, SameWhereAbsent, VlanInv
  <2>5. ASSUME NEW q \in Ports, NEW w \in Vlans, Call(q, AccessPortAdd(port[q], w))
        PROVE  SameWhereAbsent(port[p], port'[p])
    BY <2>4, <2>5, AccessFrozen DEF VlanInv
  <2>6. ASSUME NEW q \in Ports, NEW w \in Vlans, Call(q, AccessPortDel(port[q], w))
        PROVE  SameWhereAbsent(port[p], port'[p])
    BY <2>4, <2>6, AccessFrozen DEF VlanInv
  <2>7. ASSUME NEW q \in Ports, NEW T \in SUBSET Vlans, Call(q, TrunksPortAdd(port[q], T))
        PROVE  SameWhereAbsent(port[p], port'[p])
    BY <2>4, <2>7, TrunksFrozen DEF VlanInv
  <2>8. ASSUME NEW q \in Ports, NEW T \in SUBSET Vlans, Call(q, TrunksPortDel(port[q], T))
        PROVE  SameWhereAbsent(port[p], port'[p])
    BY <2>4, <2>8, TrunksFrozen DEF VlanInv
  <2>9. CASE SaiRefuses
    BY <2>9 DEF SaiRefuses, SameWhereAbsent
  <2> QED
    BY <2>2, <2>3, <2>5, <2>6, <2>7, <2>8, <2>9 DEF VlanNext
<1>2. CASE v \notin vlans
  BY <1>1, <1>2 DEF SameWhereAbsent
<1>3. CASE v \in vlans \ vlans'
  <2>1. VlanDestroy(v)
    BY <1>3 DEF VlanNext, VlanCreate, VlanIntfUpdate, VlanDestroy, Call, SaiRefuses
  <2> QED
    BY <2>1 DEF VlanDestroy, VlanInv, Coherent, PortState
<1> QED
  BY <1>2, <1>3

\* What all_vlan_member holds for a VLAN changes neither when it is destroyed nor
\* while it is absent.
THEOREM FrozenWhileAbsentHolds == VlanSpec => FrozenWhileAbsent
<1> DEFINE Frozen == \A p \in Ports, v \in Vlans \ (vlans \cap vlans') :
                       port'[p].remembered[v] = port[p].remembered[v]
<1>1. VlanInv /\ [VlanNext]_vlanVars => [Frozen]_vlanVars
  BY VlanStepFreezes
<1> QED
  BY <1>1, VlanInvInit, VlanInvNext, PTL DEF VlanSpec, FrozenWhileAbsent

-----------------------------------------------------------------------------
(* Kept *)

\* A set of numbers of an interval that is not empty has a least one.
LEMMA LeastIsIn ==
  ASSUME NEW n \in Nat, NEW S \in SUBSET (0..n), S # {}
  PROVE  \E x \in S : \A y \in S : x <= y
<1> DEFINE Below(x) == {y \in S : y < x}
           T == {Below(x) : x \in S}
<1>1. S \subseteq Int
  OBVIOUS
<1>2. IsFiniteSet(S)
  <2>1. IsFiniteSet(0..n)
    BY FS_Interval
  <2> QED
    BY <2>1, FS_Subset
<1>3. T \subseteq FiniteSubsetsOf(S) /\ T # {}
  <2>1. FiniteSubsetsOf(S) = SUBSET S
    BY <1>2, FS_FiniteSubsetsOfFinite
  <2>2. T \subseteq SUBSET S /\ T # {}
    OBVIOUS
  <2> HIDE DEF T
  <2> QED
    BY <2>1, <2>2
<1>4. PICK U \in T : \A V \in T : <<V, U>> \notin StrictSubsetOrdering(S)
  BY <1>3, WFMin, FS_StrictSubsetOrderingWellFounded
<1>5. PICK x \in S : U = Below(x)
  BY <1>4
<1>6. ASSUME NEW y \in S, y < x PROVE FALSE
  <2>1. Below(y) \in T
    OBVIOUS
  <2>2. Below(y) \subseteq Below(x)
    <3>1. \A z \in S : z < y => z < x
      BY <1>1, <1>6
    <3> QED
      BY <3>1
  <2>3. y \in Below(x) /\ y \notin Below(y)
    BY <1>1, <1>6
  <2> QED
    BY <1>4, <1>5, <2>1, <2>2, <2>3 DEF StrictSubsetOrdering
<1> QED
  BY <1>1, <1>6

\* How many of the first k elements of seq are in S.
CountIn(seq, S, k) == Cardinality({j \in 1..k : seq[j] \in S})

\* The count goes up by one at each element in S and stays at the others.
LEMMA CountSteps ==
  ASSUME NEW seq, NEW S, NEW k \in Nat \ {0}
  PROVE  /\ CountIn(seq, S, 0) = 0 /\ CountIn(seq, S, k) \in Nat
         /\ CountIn(seq, S, k) = IF seq[k] \in S THEN CountIn(seq, S, k - 1) + 1
                                 ELSE CountIn(seq, S, k - 1)
<1> DEFINE In(n) == {j \in 1..n : seq[j] \in S}
<1>1. \A n \in Nat : IsFiniteSet(In(n)) /\ Cardinality(In(n)) \in Nat
  <2> TAKE n \in Nat
  <2>1. IsFiniteSet(1..n)
    BY FS_Interval
  <2> QED
    BY <2>1, FS_Subset, FS_CardinalityType
<1>2. In(0) = {}
  OBVIOUS
<1>3. k - 1 \in Nat /\ k \notin In(k - 1)
  OBVIOUS
<1>4. In(k) = IF seq[k] \in S THEN In(k - 1) \cup {k} ELSE In(k - 1)
  <2>1. \A j : j \in 1..k <=> j \in 1..(k - 1) \/ j = k
    OBVIOUS
  <2> QED
    BY <2>1
<1>5. Cardinality(In(k)) = IF seq[k] \in S THEN Cardinality(In(k - 1)) + 1 ELSE Cardinality(In(k - 1))
  <2> HIDE DEF In
  <2> QED
    BY <1>1, <1>3, <1>4, FS_AddElement
<1> QED
  BY <1>1, <1>2, <1>5, FS_EmptySet DEF CountIn

\* It goes up strictly from one element in S to a later one.
LEMMA CountGrows ==
  ASSUME NEW seq, NEW S, NEW k \in Nat, NEW m \in Nat, k < m, seq[m] \in S
  PROVE  CountIn(seq, S, k) < CountIn(seq, S, m)
<1> DEFINE In(n) == {j \in 1..n : seq[j] \in S}
<1>1. IsFiniteSet(In(m))
  <2>1. IsFiniteSet(1..m)
    BY FS_Interval
  <2> QED
    BY <2>1, FS_Subset
<1>2. In(k) \subseteq In(m) /\ m \in In(m) /\ m \notin In(k)
  OBVIOUS
<1> HIDE DEF In
<1>3. /\ IsFiniteSet(In(k)) /\ Cardinality(In(k)) <= Cardinality(In(m))
      /\ Cardinality(In(k)) # Cardinality(In(m))
  BY <1>1, <1>2, FS_Subset
<1>4. Cardinality(In(k)) \in Nat /\ Cardinality(In(m)) \in Nat
  BY <1>1, <1>3, FS_CardinalityType
<1>5. Cardinality(In(k)) < Cardinality(In(m))
  BY <1>3, <1>4
<1> QED
  BY <1>5 DEF In, CountIn

\* Every count up to the last is that of an element in S.
LEMMA CountReaches ==
  ASSUME NEW P, NEW seq \in Seq(P), NEW S, NEW i \in 1..CountIn(seq, S, Len(seq))
  PROVE  \E k \in DOMAIN seq : seq[k] \in S /\ CountIn(seq, S, k) = i
<1> DEFINE R == {k \in 0..Len(seq) : CountIn(seq, S, k) >= i}
<1>1. Len(seq) \in Nat /\ DOMAIN seq = 1..Len(seq)
  BY LenProperties
<1>2. CountIn(seq, S, 0) = 0 /\ \A k \in Nat : CountIn(seq, S, k) \in Nat
  <2>1. 1 \in Nat \ {0}
    OBVIOUS
  <2>2. CountIn(seq, S, 0) = 0
    BY <2>1, CountSteps
  <2>3. \A k \in Nat \ {0} : CountIn(seq, S, k) \in Nat
    BY CountSteps
  <2> QED
    BY <2>2, <2>3
<1>3. i \in Nat \ {0} /\ CountIn(seq, S, Len(seq)) >= i
  BY <1>1, <1>2
<1>4. Len(seq) \in R
  BY <1>1, <1>3
<1>5. R \subseteq 0..Len(seq) /\ R # {}
  BY <1>4
<1>6. PICK k \in R : \A m \in R : k <= m
  <2> HIDE DEF R
  <2> QED
    BY <1>1, <1>5, LeastIsIn
<1>7. k \in 1..Len(seq) /\ CountIn(seq, S, k) >= i
  BY <1>1, <1>2, <1>3, <1>6
<1>8. k - 1 \notin R /\ k - 1 \in 0..Len(seq)
  BY <1>1, <1>6, <1>7
<1>9. ~(CountIn(seq, S, k - 1) >= i) /\ CountIn(seq, S, k - 1) \in Nat
  BY <1>2, <1>7, <1>8
<1>10. CountIn(seq, S, k) = IF seq[k] \in S THEN CountIn(seq, S, k - 1) + 1
                            ELSE CountIn(seq, S, k - 1)
  BY <1>1, <1>7, CountSteps
<1>11. seq[k] \in S /\ CountIn(seq, S, k) = i
  BY <1>3, <1>7, <1>9, <1>10
<1> QED
  BY <1>1, <1>7, <1>11

\* Kept is a sequence of the elements of seq in S, and repeats none that seq does not.
LEMMA KeptIs ==
  ASSUME NEW P, NEW seq \in Seq(P), NEW S
  PROVE  /\ Kept(seq, S) \in Seq(P)
         /\ Range(Kept(seq, S)) = Range(seq) \cap S
         /\ IsInjective(seq) => IsInjective(Kept(seq, S))
<1> DEFINE n == CountIn(seq, S, Len(seq))
           At(i) == CHOOSE k \in DOMAIN seq : seq[k] \in S /\ CountIn(seq, S, k) = i
<1>1. Len(seq) \in Nat /\ DOMAIN seq = 1..Len(seq) /\ \A k \in 1..Len(seq) : seq[k] \in P
  BY LenProperties
<1>2. n \in Nat /\ \A k \in Nat : CountIn(seq, S, k) \in Nat
  <2>1. CountIn(seq, S, 0) = 0
    BY CountSteps, 1 \in Nat \ {0}
  <2>2. \A k \in Nat \ {0} : CountIn(seq, S, k) \in Nat
    BY CountSteps
  <2> QED
    BY <1>1, <2>1, <2>2
<1>3. Kept(seq, S) = [i \in 1..n |-> seq[At(i)]]
  BY DEF Kept, CountIn
<1>4. \A i \in 1..n : /\ At(i) \in DOMAIN seq /\ seq[At(i)] \in S
                      /\ CountIn(seq, S, At(i)) = i
  BY CountReaches
<1>5. \A i \in 1..n : seq[At(i)] \in P
  BY <1>1, <1>4
<1>6. Kept(seq, S) \in [1..n -> P]
  BY <1>3, <1>5
<1>7. Kept(seq, S) \in Seq(P)
  BY <1>2, <1>6, SeqDef
<1>8. ASSUME NEW k \in DOMAIN seq, seq[k] \in S
      PROVE  CountIn(seq, S, k) \in 1..n /\ At(CountIn(seq, S, k)) = k
  <2>1. CountIn(seq, S, 0) < CountIn(seq, S, k)
    BY <1>1, <1>8, CountGrows
  <2>2. CountIn(seq, S, k) <= n
    <3>1. CASE k = Len(seq)
      BY <1>1, <1>2, <3>1
    <3>2. CASE k # Len(seq)
      <4>1. {j \in 1..k : seq[j] \in S} \subseteq {j \in 1..Len(seq) : seq[j] \in S}
        BY <1>1
      <4>2. IsFiniteSet(1..Len(seq))
        BY <1>1, FS_Interval
      <4>3. IsFiniteSet({j \in 1..Len(seq) : seq[j] \in S})
        BY <4>2, FS_Subset
      <4> QED
        BY <4>1, <4>3, FS_Subset DEF CountIn
    <3> QED
      BY <3>1, <3>2
  <2>3. CountIn(seq, S, 0) \in Nat /\ CountIn(seq, S, k) \in Nat
    BY <1>1, <1>2
  <2>4. CountIn(seq, S, k) \in 1..n
    BY <1>2, <2>1, <2>2, <2>3
  <2>5. ASSUME NEW m \in DOMAIN seq, seq[m] \in S, CountIn(seq, S, m) = CountIn(seq, S, k)
        PROVE  m = k
    <3>1. m \in Nat /\ k \in Nat
      BY <1>1
    <3>2. ~(m < k) /\ ~(k < m)
      BY <1>2, <1>8, <2>5, <3>1, CountGrows
    <3> QED
      BY <3>1, <3>2
  <2> QED
    BY <1>8, <2>4, <2>5
<1> HIDE DEF At, n
<1>9. Range(Kept(seq, S)) = Range(seq) \cap S
  <2>1. ASSUME NEW p \in Range(Kept(seq, S)) PROVE p \in Range(seq) \cap S
    BY <1>3, <1>4 DEF Range
  <2>2. ASSUME NEW p \in Range(seq) \cap S PROVE p \in Range(Kept(seq, S))
    <3>1. PICK k \in DOMAIN seq : seq[k] = p
      BY DEF Range
    <3> QED
      BY <1>3, <1>8, <3>1 DEF Range
  <2> QED
    BY <2>1, <2>2
<1>10. ASSUME IsInjective(seq) PROVE IsInjective(Kept(seq, S))
  <2> SUFFICES ASSUME NEW i \in 1..n, NEW j \in 1..n, seq[At(i)] = seq[At(j)] PROVE i = j
    BY <1>3 DEF IsInjective
  <2>1. At(i) = At(j)
    BY <1>4, <1>10 DEF IsInjective
  <2> QED
    BY <1>4, <2>1
<1> QED
  BY <1>7, <1>9, <1>10

-----------------------------------------------------------------------------
(* The lists of ports *)

\* The settings r come from a bundle_set that went through, not from the xzalloc
\* of __ofbundle_create.
Recorded(r) ==
  /\ r.vlan \in Vlans \cup {NoVlan}
  /\ r.mode = "access" => r.trunks = {}
  /\ r.vlan = NoVlan <=> r.mode = "trunk"
  /\ IsNative(r) => NativeInTrunks \/ r.vlan \notin r.trunks

\* OneBundlePerPort of the bundles lv with the settings bu, whose settings are
\* recorded ones.
Lists(lv, bu) ==
  /\ lv \subseteq Bundles /\ bu \in [Bundles -> BundleState]
  /\ \A c \in Bundles : IsInjective(bu[c].ports)
  /\ \A c \in Bundles \ lv : bu[c].ports = <<>>
  /\ \A c, d \in lv : Range(bu[c].ports) \cap Range(bu[d].ports) # {} => c = d
  /\ \A c \in lv : Recorded(bu[c])

LEMMA NothingListed ==
  /\ <<>> \in Seq(Ports) /\ Range(<<>>) = {} /\ IsInjective(<<>>)
  /\ \A T \in SUBSET Vlans : FreshBundle(T) \in BundleState /\ FreshBundle(T).ports = <<>>
<1>1. <<>> \in Seq(Ports) /\ Range(<<>>) = {} /\ IsInjective(<<>>)
  BY EmptySeq DEF Range, IsInjective
<1> QED
  BY <1>1 DEF FreshBundle, BundleState, VlanMode

LEMMA SlavesAre ==
  ASSUME NEW b \in Bundles, NEW slaves \in Slaves(b)
  PROVE  slaves \in Seq(Ports) /\ IsInjective(slaves)
<1>1. PICK n \in Nat : slaves \in [1..n -> Ports]
  BY DEF Slaves
<1>2. slaves \in Seq(Ports)
  BY <1>1, SeqDef
<1> QED
  BY <1>2 DEF Slaves

LEMMA SettingsAre ==
  ASSUME NEW s \in Settings
  PROVE  /\ s.vlan \in Vlans \cup {NoVlan} /\ s.mode \in VlanMode /\ s.trunks \in SUBSET Vlans
         /\ Recorded(s)
  BY DEF Settings, Recorded, IsNative

\* When bundles lose ports, or go, nothing is listed twice that was not.
LEMMA ListsShrink ==
  ASSUME Lists(live, bundle), NEW lv \in SUBSET live, NEW bu \in [Bundles -> BundleState],
         \A c \in Bundles : /\ IsInjective(bu[c].ports)
                            /\ Range(bu[c].ports) \subseteq Range(bundle[c].ports),
         \A c \in Bundles \ lv : bu[c].ports = <<>>,
         \A c \in lv : Recorded(bu[c])
  PROVE  Lists(lv, bu)
<1>1. ASSUME NEW c \in lv, NEW d \in lv, Range(bu[c].ports) \cap Range(bu[d].ports) # {}
      PROVE  c = d
  <2>1. c \in live /\ d \in live /\ c \in Bundles /\ d \in Bundles
    BY DEF Lists
  <2>2. Range(bundle[c].ports) \cap Range(bundle[d].ports) # {}
    BY <1>1, <2>1
  <2> QED
    BY <2>1, <2>2 DEF Lists
<1> QED
  BY <1>1 DEF Lists

\* The list of a bundle without some ports.
LEMMA ShorterList ==
  ASSUME NEW r \in BundleState, IsInjective(r.ports),
         NEW S, NEW q, q = Kept(r.ports, S), NEW t, t = [r EXCEPT !.ports = q]
  PROVE  /\ q \in Seq(Ports) /\ IsInjective(q) /\ Range(q) = Range(r.ports) \cap S
         /\ t \in BundleState /\ t.ports = q
         /\ t.vlan = r.vlan /\ t.mode = r.mode /\ t.trunks = r.trunks /\ t.lag = r.lag
         /\ Recorded(r) => Recorded(t)
<1>1. r.ports \in Seq(Ports)
  BY DEF BundleState
<1>2. q \in Seq(Ports) /\ IsInjective(q) /\ Range(q) = Range(r.ports) \cap S
  BY <1>1, KeptIs
<1>3. /\ t \in BundleState /\ t.ports = q
      /\ t.vlan = r.vlan /\ t.mode = r.mode /\ t.trunks = r.trunks /\ t.lag = r.lag
  BY <1>2 DEF BundleState
<1>4. Recorded(r) => Recorded(t)
  BY <1>3 DEF Recorded, IsNative
<1> QED
  BY <1>2, <1>3, <1>4

\* Ports leave all bundles that list them, and bundles they leave empty go.
LEMMA AfterLeavingIs ==
  ASSUME Lists(live, bundle), NEW Q \in SUBSET Ports
  PROVE  LET r == AfterLeaving(Q)
         IN  /\ r.live \subseteq live /\ Lists(r.live, r.bundle)
             /\ \A c \in Bundles : Range(r.bundle[c].ports) = Range(bundle[c].ports) \ Q
             /\ \A c \in r.live : r.bundle[c] = [bundle[c] EXCEPT !.ports = ListWithout(c, Q)]
             /\ \A c \in live : c \notin r.live => Range(bundle[c].ports) \subseteq Q
<1> DEFINE r == AfterLeaving(Q)
           lv == {c \in live : ~Emptied(c, Q)}
           bu == [c \in Bundles |-> IF Emptied(c, Q) THEN FreshBundle({})
                                    ELSE [bundle[c] EXCEPT !.ports = ListWithout(c, Q)]]
<1>1. r.live = lv /\ r.bundle = bu
  BY DEF AfterLeaving
<1>2. ASSUME NEW c \in Bundles
      PROVE  /\ bu[c] \in BundleState /\ IsInjective(bu[c].ports)
             /\ Range(bu[c].ports) = Range(bundle[c].ports) \ Q
             /\ c \in lv => Recorded(bu[c])
             /\ c \notin lv => bu[c].ports = <<>>
  <2>1. bundle[c] \in BundleState /\ IsInjective(bundle[c].ports)
    BY DEF Lists
  <2>2. Range(bundle[c].ports) \subseteq Ports
    <3>1. bundle[c].ports \in Seq(Ports)
      BY <2>1 DEF BundleState
    <3> QED
      BY <3>1, RangeOfSeq
  <2>3. CASE Emptied(c, Q)
    <3>1. bu[c] = FreshBundle({}) /\ c \notin lv
      BY <2>3
    <3>2. Range(bundle[c].ports) \ Q = {}
      BY <2>3 DEF Emptied
    <3>3. FreshBundle({}) \in BundleState /\ FreshBundle({}).ports = <<>>
      BY NothingListed
    <3> HIDE DEF bu, lv
    <3>4. bu[c].ports = <<>> /\ bu[c] \in BundleState /\ c \notin lv
      BY <3>1, <3>3
    <3>5. Range(bu[c].ports) = Range(bundle[c].ports) \ Q /\ IsInjective(bu[c].ports)
      BY <3>2, <3>4, NothingListed, Zenon
    <3> QED
      BY <3>4, <3>5
  <2>4. CASE ~Emptied(c, Q)
    <3> DEFINE others == Ports \ Q
               q == Kept(bundle[c].ports, others)
               t == [bundle[c] EXCEPT !.ports = q]
    <3>1. bu[c] = t
      BY <2>4 DEF ListWithout
    <3>2. q = Kept(bundle[c].ports, others) /\ t = [bundle[c] EXCEPT !.ports = q]
      OBVIOUS
    <3> HIDE DEF bu, t, q, others
    <3>3. /\ IsInjective(q) /\ Range(q) = Range(bundle[c].ports) \cap others
          /\ t \in BundleState /\ t.ports = q /\ (Recorded(bundle[c]) => Recorded(t))
      BY <2>1, <3>2, ShorterList
    <3>4. /\ t \in BundleState /\ IsInjective(t.ports)
          /\ Range(t.ports) = Range(bundle[c].ports) \cap (Ports \ Q)
          /\ Recorded(bundle[c]) => Recorded(t)
      BY <3>3 DEF others
    <3>5. ASSUME c \notin lv PROVE t.ports = <<>>
      <4>1. bundle[c].ports = <<>>
        BY <2>4, <3>5 DEF Lists
      <4>2. Range(t.ports) = {}
        BY <3>4, <4>1, NothingListed
      <4> HIDE DEF t
      <4>3. t.ports \in Seq(Ports)
        BY <3>4 DEF BundleState
      <4>4. ASSUME NEW i \in DOMAIN t.ports PROVE FALSE
        BY <4>2 DEF Range
      <4>5. ASSUME Len(t.ports) \in Nat \ {0} PROVE FALSE
        <5>1. DOMAIN t.ports = 1..Len(t.ports)
          BY <4>3, LenProperties
        <5>2. 1 \in DOMAIN t.ports
          BY <4>5, <5>1
        <5> QED
          BY <4>4, <5>2
      <4>6. \A list \in Seq(Ports) : list # <<>> => Len(list) \in Nat \ {0}
        BY EmptySeq
      <4> QED
        BY <4>3, <4>5, <4>6
    <3>6. c \in lv => Recorded(bundle[c])
      BY DEF Lists
    <3> HIDE DEF t, bu, lv
    <3> QED
      BY <2>2, <3>1, <3>4, <3>5, <3>6
  <2> QED
    BY <2>3, <2>4
<1>3. Lists(lv, bu)
  <2>1. lv \in SUBSET live /\ live \subseteq Bundles
    BY DEF Lists
  <2>2. bu \in [Bundles -> BundleState]
    BY <1>2
  <2> HIDE DEF bu, lv
  <2> QED
    BY <1>2, <2>1, <2>2, ListsShrink
<1>4. \A c \in lv : bu[c] = [bundle[c] EXCEPT !.ports = ListWithout(c, Q)]
  BY DEF Lists
<1>5. \A c \in live : c \notin lv => Range(bundle[c].ports) \subseteq Q
  BY DEF Emptied
<1> HIDE DEF lv, bu
<1>6. \A c \in Bundles : Range(bu[c].ports) = Range(bundle[c].ports) \ Q
  BY <1>2
<1>7. lv \subseteq live
  BY DEF lv
<1> QED
  BY <1>1, <1>3, <1>4, <1>5, <1>6, <1>7

-----------------------------------------------------------------------------
(* What the calls do to the lists *)

\* Bundles, LAGs and results, whatever the ports are.
BundlesInv ==
  /\ Lists(live, bundle)
  /\ hwLag \in [Bundles -> SUBSET Ports]
  /\ ret \in [Bundles -> {"none", "ok", "failed"}]

\* The bundle a call works on has the list of ports it had, which is empty if the
\* call makes it.
LEMMA TargetIs ==
  ASSUME Lists(live, bundle), NEW b \in Bundles, NEW s \in Settings
  PROVE  /\ Target(b, s) \in BundleState /\ Target(b, s).ports = bundle[b].ports
         /\ b \in live => /\ Target(b, s).vlan = bundle[b].vlan
                          /\ Target(b, s).mode = bundle[b].mode
                          /\ Target(b, s).trunks = bundle[b].trunks
                          /\ Recorded(Target(b, s))
<1> DEFINE r == IF b \in live THEN bundle[b] ELSE FreshBundle(s.trunks)
           t == [r EXCEPT !.lag = b \in Lags]
<1>1. bundle[b] \in BundleState /\ b \notin live => bundle[b].ports = <<>>
  BY DEF Lists
<1>2. r \in BundleState /\ r.ports = bundle[b].ports
  BY <1>1, SettingsAre, NothingListed DEF Lists
<1>3. b \in live => r = bundle[b] /\ Recorded(bundle[b])
  BY DEF Lists
<1>4. Target(b, s) = t
  BY DEF Target
<1> HIDE DEF r
<1>5. /\ t \in BundleState /\ t.ports = r.ports
      /\ t.vlan = r.vlan /\ t.mode = r.mode /\ t.trunks = r.trunks
  <2> DEFINE lag == b \in Lags
  <2>1. lag \in BOOLEAN
    OBVIOUS
  <2> HIDE DEF lag
  <2>2. [r EXCEPT !.lag = lag] \in BundleState
    BY <1>2, <2>1 DEF BundleState
  <2> QED
    BY <1>2, <2>2 DEF BundleState, lag
<1> HIDE DEF t
<1>6. b \in live => Recorded(t)
  BY <1>3, <1>5 DEF Recorded, IsNative
<1> QED
  BY <1>2, <1>3, <1>4, <1>5, <1>6

\* The leaving, staying and joining ports of a call.
LEMMA WalksAre ==
  ASSUME Lists(live, bundle), NEW b \in Bundles, NEW s \in Settings, NEW slaves \in Slaves(b)
  PROVE  LET list == bundle[b].ports
             stay == Staying(b, s, slaves)
             join == Joining(b, s, slaves)
         IN  /\ Leaving(b, s, slaves) \in Seq(Ports) /\ stay \in Seq(Ports) /\ join \in Seq(Ports)
             /\ IsInjective(stay) /\ IsInjective(join)
             /\ Range(Leaving(b, s, slaves)) = Range(list) \ Range(slaves)
             /\ Range(stay) = Range(list) \cap Range(slaves)
             /\ Range(join) = Range(slaves) \ Range(list)
<1> DEFINE list == Target(b, s).ports
<1>1. list = bundle[b].ports /\ list \in Seq(Ports) /\ IsInjective(list)
  <2>1. Target(b, s) \in BundleState /\ list = bundle[b].ports
    BY TargetIs
  <2> HIDE DEF list
  <2> QED
    BY <2>1 DEF BundleState, Lists
<1>2. slaves \in Seq(Ports) /\ IsInjective(slaves)
  BY SlavesAre
<1>3. Range(list) \subseteq Ports /\ Range(slaves) \subseteq Ports
  BY <1>1, <1>2, RangeOfSeq
<1>4. /\ Leaving(b, s, slaves) = Kept(list, Ports \ Range(slaves))
      /\ Staying(b, s, slaves) = Kept(list, Range(slaves))
      /\ Joining(b, s, slaves) = Kept(slaves, Ports \ Range(Staying(b, s, slaves)))
  BY DEF Leaving, Staying, Joining
<1> HIDE DEF list
<1>5. /\ Leaving(b, s, slaves) \in Seq(Ports)
      /\ Range(Leaving(b, s, slaves)) = Range(list) \cap (Ports \ Range(slaves))
  BY <1>1, <1>4, KeptIs
<1>6. /\ Staying(b, s, slaves) \in Seq(Ports) /\ IsInjective(Staying(b, s, slaves))
      /\ Range(Staying(b, s, slaves)) = Range(list) \cap Range(slaves)
  BY <1>1, <1>4, KeptIs
<1>7. /\ Joining(b, s, slaves) \in Seq(Ports) /\ IsInjective(Joining(b, s, slaves))
      /\ Range(Joining(b, s, slaves))
           = Range(slaves) \cap (Ports \ Range(Staying(b, s, slaves)))
  BY <1>2, <1>4, KeptIs
<1> QED
  BY <1>1, <1>3, <1>5, <1>6, <1>7

\* A walk reaches ports of its list only, and those before the first error.
LEMMA ReachedAre ==
  ASSUME NEW seq \in Seq(Ports), NEW res
  PROVE  /\ ReachedPorts(seq, res) \subseteq Range(seq)
         /\ AllOk(seq, res) => /\ ReachedPorts(seq, res) = Range(seq)
                               /\ \A p \in Range(seq) : res[p].ok
         /\ seq = <<>> => AllOk(seq, res)
<1>1. Len(seq) \in Nat /\ DOMAIN seq = 1..Len(seq)
  BY LenProperties
<1>2. ReachedPorts(seq, res) \subseteq Range(seq)
  BY DEF ReachedPorts, Range
<1>3. ASSUME AllOk(seq, res), NEW p \in Range(seq)
      PROVE  p \in ReachedPorts(seq, res) /\ res[p].ok
  <2>1. PICK i \in DOMAIN seq : seq[i] = p
    BY DEF Range
  <2>2. \A j \in 1..(i - 1) : j \in DOMAIN seq
    BY <1>1
  <2> QED
    BY <1>3, <2>1, <2>2 DEF AllOk, ReachedPorts
<1>4. ASSUME seq = <<>> PROVE AllOk(seq, res)
  BY <1>4 DEF AllOk
<1> QED
  BY <1>2, <1>3, <1>4

\* A bundle the call makes has no port to fail on.
LEMMA NewHasNoWalk ==
  ASSUME Lists(live, bundle), NEW b \in Bundles, b \notin live, NEW s \in Settings,
         NEW slaves \in Slaves(b), NEW res
  PROVE  AllOk(Leaving(b, s, slaves), res) /\ AllOk(Staying(b, s, slaves), res)
<1>1. bundle[b].ports = <<>>
  BY DEF Lists
<1>2. /\ Range(Leaving(b, s, slaves)) = {} /\ Range(Staying(b, s, slaves)) = {}
  BY <1>1, WalksAre, NothingListed
<1> QED
  BY <1>2 DEF AllOk, Range

\* Giving one bundle another record keeps the lists apart if its list is part of
\* the one it had.
LEMMA OneListShrinks ==
  ASSUME Lists(live, bundle), NEW b \in live, NEW r \in BundleState, IsInjective(r.ports),
         Range(r.ports) \subseteq Range(bundle[b].ports), Recorded(r)
  PROVE  Lists(live, [bundle EXCEPT ![b] = r])
<1> DEFINE bu == [bundle EXCEPT ![b] = r]
<1>1. bundle \in [Bundles -> BundleState] /\ b \in Bundles
  BY DEF Lists
<1>2. bu \in [Bundles -> BundleState] /\ bu[b] = r /\ \A c \in Bundles \ {b} : bu[c] = bundle[c]
  BY <1>1
<1> HIDE DEF bu
<1>3. \A c \in Bundles : /\ IsInjective(bu[c].ports)
                         /\ Range(bu[c].ports) \subseteq Range(bundle[c].ports)
  BY <1>2 DEF Lists
<1>4. \A c \in Bundles \ live : bu[c].ports = <<>>
  BY <1>2 DEF Lists
<1>5. \A c \in live : Recorded(bu[c])
  BY <1>1, <1>2 DEF Lists
<1>6. Lists(live, bu)
  BY <1>2, <1>3, <1>4, <1>5, ListsShrink
<1> QED
  BY <1>6 DEF bu

LEMMA SetStopsLeavingLists ==
  ASSUME BundlesInv, NEW b \in Bundles, NEW s \in Settings, NEW slaves \in Slaves(b),
         SetStopsLeaving(b, s, slaves)
  PROVE  BundlesInv'
<1> DEFINE gone == ReachedPorts(Leaving(b, s, slaves), LeaveResults(b))
           others == Ports \ gone
           r == [bundle[b] EXCEPT !.ports = ListWithout(b, gone)]
<1>1. b \in live
  BY NewHasNoWalk DEF SetStopsLeaving, BundlesInv
<1>2. bundle[b] \in BundleState /\ IsInjective(bundle[b].ports) /\ Recorded(bundle[b])
  BY <1>1 DEF BundlesInv, Lists
<1>3. ListWithout(b, gone) = Kept(bundle[b].ports, others)
  BY DEF ListWithout
<1>4. r = [bundle[b] EXCEPT !.ports = ListWithout(b, gone)]
  OBVIOUS
<1> HIDE DEF gone, r, others
<1>5. /\ r \in BundleState /\ r.ports = ListWithout(b, gone)
      /\ IsInjective(ListWithout(b, gone)) /\ Recorded(r)
      /\ Range(ListWithout(b, gone)) = Range(bundle[b].ports) \cap others
  BY <1>2, <1>3, <1>4, ShorterList
<1>6. Lists(live, [bundle EXCEPT ![b] = r])
  BY <1>1, <1>5, OneListShrinks DEF BundlesInv
<1>7. live' = live /\ bundle' = [bundle EXCEPT ![b] = r]
  BY DEF SetStopsLeaving, gone, r
<1>8. hwLag' \in [Bundles -> SUBSET Ports] /\ ret' \in [Bundles -> {"none", "ok", "failed"}]
  BY DEF SetStopsLeaving, BundlesInv
<1> QED
  BY <1>6, <1>7, <1>8 DEF BundlesInv, Lists

LEMMA SetStopsReconfiguringLists ==
  ASSUME BundlesInv, NEW b \in Bundles, NEW s \in Settings, NEW slaves \in Slaves(b),
         SetStopsReconfiguring(b, s, slaves)
  PROVE  BundlesInv'
<1> DEFINE stay == Staying(b, s, slaves)
           r == [Target(b, s) EXCEPT !.ports = stay]
<1>1. b \in live
  BY NewHasNoWalk DEF SetStopsReconfiguring, BundlesInv
<1>2. /\ Target(b, s) \in BundleState /\ Target(b, s).ports = bundle[b].ports
      /\ Recorded(Target(b, s)) /\ IsInjective(bundle[b].ports)
  BY <1>1, TargetIs DEF BundlesInv, Lists
<1>3. stay = Kept(Target(b, s).ports, Range(slaves))
  BY DEF Staying
<1>4. r = [Target(b, s) EXCEPT !.ports = stay]
  OBVIOUS
<1> HIDE DEF stay, r
<1>5. /\ r \in BundleState /\ r.ports = stay /\ IsInjective(stay) /\ Recorded(r)
      /\ Range(stay) = Range(bundle[b].ports) \cap Range(slaves)
  BY <1>2, <1>3, <1>4, ShorterList
<1>6. Lists(live, [bundle EXCEPT ![b] = r])
  BY <1>1, <1>5, OneListShrinks DEF BundlesInv
<1>7. live' = live /\ bundle' = [bundle EXCEPT ![b] = r]
  BY DEF SetStopsReconfiguring, stay, r
<1>8. hwLag' \in [Bundles -> SUBSET Ports] /\ ret' \in [Bundles -> {"none", "ok", "failed"}]
  BY DEF SetStopsReconfiguring, BundlesInv
<1> QED
  BY <1>6, <1>7, <1>8 DEF BundlesInv, Lists

\* The list of a bundle whose call went through: the ports that stayed, and then
\* those that came.
LEMMA NewListIs ==
  ASSUME Lists(live, bundle), NEW b \in Bundles, NEW s \in Settings, NEW slaves \in Slaves(b),
         NEW joined \in SUBSET Range(Joining(b, s, slaves))
  PROVE  LET list == Staying(b, s, slaves) \o Kept(Joining(b, s, slaves), joined)
         IN  /\ list \in Seq(Ports) /\ IsInjective(list)
             /\ Range(list) = (Range(bundle[b].ports) \cap Range(slaves)) \cup joined
<1> DEFINE stay == Staying(b, s, slaves)
           new == Kept(Joining(b, s, slaves), joined)
<1>1. /\ stay \in Seq(Ports) /\ IsInjective(stay) /\ Joining(b, s, slaves) \in Seq(Ports)
      /\ IsInjective(Joining(b, s, slaves))
      /\ Range(stay) = Range(bundle[b].ports) \cap Range(slaves)
      /\ Range(Joining(b, s, slaves)) = Range(slaves) \ Range(bundle[b].ports)
  BY WalksAre
<1>2. new \in Seq(Ports) /\ IsInjective(new) /\ Range(new) = Range(Joining(b, s, slaves)) \cap joined
  BY <1>1, KeptIs
<1>3. Range(new) = joined /\ Range(stay) \cap Range(new) = {}
  BY <1>1, <1>2
<1> HIDE DEF stay, new
<1>4. /\ stay \o new \in Seq(Ports) /\ Len(stay \o new) = Len(stay) + Len(new)
      /\ \A i \in 1..(Len(stay) + Len(new)) :
           (stay \o new)[i] = IF i <= Len(stay) THEN stay[i] ELSE new[i - Len(stay)]
  BY <1>1, <1>2, ConcatProperties
<1>5. Range(stay \o new) = Range(stay) \cup Range(new)
  BY <1>1, <1>2, RangeConcatenation
<1>6. /\ Len(stay) \in Nat /\ DOMAIN stay = 1..Len(stay)
      /\ Len(new) \in Nat /\ DOMAIN new = 1..Len(new)
      /\ DOMAIN (stay \o new) = 1..Len(stay \o new)
  BY <1>1, <1>2, <1>4, LenProperties
<1>7. ASSUME NEW i \in DOMAIN (stay \o new), NEW j \in DOMAIN (stay \o new),
             (stay \o new)[i] = (stay \o new)[j]
      PROVE  i = j
  <2>1. /\ i \in 1..(Len(stay) + Len(new)) /\ j \in 1..(Len(stay) + Len(new))
        /\ i \in Int /\ j \in Int
    BY <1>4, <1>6
  <2>2. CASE i <= Len(stay) /\ j <= Len(stay)
    <3>1. i \in DOMAIN stay /\ j \in DOMAIN stay /\ stay[i] = stay[j]
      BY <1>4, <1>6, <1>7, <2>1, <2>2
    <3> QED
      BY <1>1, <3>1 DEF IsInjective, stay
  <2>3. CASE ~(i <= Len(stay)) /\ ~(j <= Len(stay))
    <3>1. /\ i - Len(stay) \in DOMAIN new /\ j - Len(stay) \in DOMAIN new
          /\ new[i - Len(stay)] = new[j - Len(stay)]
      BY <1>4, <1>6, <1>7, <2>1, <2>3
    <3>2. i - Len(stay) = j - Len(stay)
      BY <1>2, <3>1 DEF IsInjective
    <3> QED
      BY <1>6, <2>1, <3>2
  <2>4. ASSUME NEW k \in 1..Len(stay), NEW m \in 1..Len(new) PROVE stay[k] # new[m]
    <3>1. stay[k] \in Range(stay) /\ new[m] \in Range(new)
      BY <1>6 DEF Range
    <3> QED
      BY <1>3, <3>1
  <2>5. CASE i <= Len(stay) /\ ~(j <= Len(stay))
    <3>1. i \in 1..Len(stay) /\ j - Len(stay) \in 1..Len(new) /\ stay[i] = new[j - Len(stay)]
      BY <1>4, <1>6, <1>7, <2>1, <2>5
    <3> QED
      BY <2>4, <3>1
  <2>6. CASE ~(i <= Len(stay)) /\ j <= Len(stay)
    <3>1. j \in 1..Len(stay) /\ i - Len(stay) \in 1..Len(new) /\ stay[j] = new[i - Len(stay)]
      BY <1>4, <1>6, <1>7, <2>1, <2>6
    <3> QED
      BY <2>4, <3>1
  <2> QED
    BY <2>2, <2>3, <2>5, <2>6
<1>8. IsInjective(stay \o new)
  BY <1>7 DEF IsInjective
<1> QED
  BY <1>1, <1>3, <1>4, <1>5, <1>8 DEF stay, new

\* The settings a record of type BundleState has.
SameSettings(r, t) == r.vlan = t.vlan /\ r.mode = t.mode /\ r.trunks = t.trunks

LEMMA SetJoinsLists ==
  ASSUME BundlesInv, NEW b \in Bundles, NEW s \in Settings, NEW slaves \in Slaves(b),
         SetJoins(b, s, slaves)
  PROVE  LET joined == ReachedPorts(Joining(b, s, slaves), JoinResults(b, s))
             rest == AfterLeaving(joined)
         IN  /\ BundlesInv' /\ joined \subseteq Range(slaves) \ Range(bundle[b].ports)
             /\ live' = rest.live \cup {b} /\ SameSettings(bundle'[b], s)
             /\ Range(bundle'[b].ports) = (Range(bundle[b].ports) \cap Range(slaves)) \cup joined
             /\ \A c \in live' \ {b} :
                  /\ c \in live /\ SameSettings(bundle'[c], bundle[c])
                  /\ Range(bundle'[c].ports) = Range(bundle[c].ports) \ joined
             /\ \A c \in live : c \notin live' => Range(bundle[c].ports) \subseteq joined
<1> DEFINE seq == Joining(b, s, slaves)
           joined == ReachedPorts(seq, JoinResults(b, s))
           rest == AfterLeaving(joined)
           list == Staying(b, s, slaves) \o Kept(seq, joined)
           base == Reconfigured(b, s)
           r == [base EXCEPT !.ports = list]
           lv == rest.live \cup {b}
           bu == [rest.bundle EXCEPT ![b] = r]
<1>1. /\ live' = lv /\ bundle' = bu
      /\ hwLag' = [rest.hwLag EXCEPT
                     ![b] = IF b \in Lags
                              THEN (hwLag[b] \cap Range(Staying(b, s, slaves)))
                                     \cup {p \in joined : JoinResults(b, s)[p].ok}
                              ELSE {}]
      /\ ret' = [c \in Bundles |-> CASE c = b -> IF AllOk(seq, JoinResults(b, s))
                                                 THEN "ok" ELSE "failed"
                                      [] c # b /\ Emptied(c, joined) -> "none"
                                      [] OTHER -> ret[c]]
  BY DEF SetJoins
<1>2. Lists(live, bundle) /\ live \subseteq Bundles
  BY DEF BundlesInv, Lists
<1>3. /\ seq \in Seq(Ports) /\ Range(seq) = Range(slaves) \ Range(bundle[b].ports)
      /\ Range(seq) \subseteq Ports
  BY <1>2, WalksAre, RangeOfSeq
<1>4. joined \subseteq Range(seq)
  <2> HIDE DEF seq
  <2> QED
    BY <1>3, ReachedAre
<1>5. list \in Seq(Ports) /\ IsInjective(list)
      /\ Range(list) = (Range(bundle[b].ports) \cap Range(slaves)) \cup joined
  <2> HIDE DEF joined
  <2> QED
    BY <1>2, <1>4, NewListIs
<1>6. /\ base \in BundleState
      /\ base.vlan = s.vlan /\ base.mode = s.mode /\ base.trunks = s.trunks
  <2>1. Target(b, s) \in BundleState
    BY <1>2, TargetIs
  <2>2. base = [Target(b, s) EXCEPT !.vlan = s.vlan, !.mode = s.mode, !.trunks = s.trunks]
    BY DEF Reconfigured
  <2> HIDE DEF base
  <2> QED
    BY <2>1, <2>2, SettingsAre DEF BundleState
<1> HIDE DEF base, list
<1>7. r \in BundleState /\ r.ports = list /\ SameSettings(r, s)
  BY <1>5, <1>6 DEF BundleState, SameSettings
<1>8. Recorded(r)
  <2> HIDE DEF r
  <2> QED
    BY <1>7, SettingsAre DEF SameSettings, Recorded, IsNative
<1> HIDE DEF r
<1>9. /\ rest.live \subseteq live /\ Lists(rest.live, rest.bundle)
      /\ \A c \in Bundles : Range(rest.bundle[c].ports) = Range(bundle[c].ports) \ joined
      /\ \A c \in rest.live : rest.bundle[c] = [bundle[c] EXCEPT !.ports = ListWithout(c, joined)]
      /\ \A c \in live : c \notin rest.live => Range(bundle[c].ports) \subseteq joined
  <2>1. joined \in SUBSET Ports
    BY <1>3, <1>4
  <2> HIDE DEF joined
  <2> QED
    BY <1>2, <2>1, AfterLeavingIs
<1>10. /\ rest.hwLag \in [Bundles -> SUBSET Ports] /\ DOMAIN rest.hwLag = Bundles
       /\ \A p \in joined : p \in Ports
  <2>1. \A c \in Bundles : hwLag[c] \subseteq Ports
    BY DEF BundlesInv
  <2>2. \A p \in joined : p \in Ports
    BY <1>3, <1>4
  <2> HIDE DEF joined
  <2>3. \A c \in Bundles : (IF Emptied(c, joined) THEN {} ELSE
          hwLag[c] \ {p \in joined \cap Range(bundle[c].ports) : Unlinked(p).ok}) \subseteq Ports
    BY <2>1
  <2> QED
    BY <2>2, <2>3 DEF AfterLeaving
<1> HIDE DEF rest, joined, seq
<1>11. /\ bu \in [Bundles -> BundleState] /\ bu[b] = r
       /\ \A c \in Bundles \ {b} : bu[c] = rest.bundle[c]
  BY <1>7, <1>9 DEF Lists
<1> HIDE DEF bu
<1>12. ASSUME NEW c \in lv, NEW d \in lv, Range(bu[c].ports) \cap Range(bu[d].ports) # {}
       PROVE  c = d
  <2>1. ASSUME NEW e \in rest.live \ {b} PROVE Range(bu[e].ports) \cap Range(r.ports) = {}
    <3>1. e \in live /\ e \in Bundles
      BY <1>2, <1>9, <2>1
    <3>2. Range(bu[e].ports) = Range(bundle[e].ports) \ joined
      BY <1>9, <1>11, <2>1, <3>1
    <3>3. Range(bundle[e].ports) \cap Range(bundle[b].ports) = {}
      <4>1. CASE b \in live
        BY <1>2, <2>1, <3>1, <4>1 DEF Lists
      <4>2. CASE b \notin live
        <5>1. bundle[b].ports = <<>>
          BY <1>2, <4>2 DEF Lists
        <5> QED
          BY <5>1, NothingListed
      <4> QED
        BY <4>1, <4>2
    <3> QED
      BY <1>5, <1>7, <3>2, <3>3
  <2>2. CASE c # b /\ d # b
    <3>1. c \in rest.live /\ d \in rest.live /\ c \in Bundles /\ d \in Bundles
      BY <1>2, <1>9, <2>2
    <3>2. bu[c] = rest.bundle[c] /\ bu[d] = rest.bundle[d]
      BY <1>11, <2>2, <3>1
    <3> QED
      BY <1>9, <1>12, <3>1, <3>2 DEF Lists
  <2>3. CASE c = b
    BY <1>11, <1>12, <2>1, <2>3
  <2>4. CASE d = b
    BY <1>11, <1>12, <2>1, <2>4
  <2> QED
    BY <2>2, <2>3, <2>4
<1>13. Lists(lv, bu)
  <2>1. lv \subseteq Bundles
    BY <1>2, <1>9
  <2>2. \A c \in Bundles : IsInjective(bu[c].ports)
    BY <1>5, <1>7, <1>9, <1>11 DEF Lists
  <2>3. \A c \in Bundles \ lv : bu[c].ports = <<>>
    BY <1>9, <1>11 DEF Lists
  <2>4. \A c \in lv : Recorded(bu[c])
    BY <1>8, <1>9, <1>11, <2>1 DEF Lists
  <2> QED
    BY <1>11, <1>12, <2>1, <2>2, <2>3, <2>4 DEF Lists
<1>14. hwLag' \in [Bundles -> SUBSET Ports]
  <2>1. hwLag[b] \cap Range(Staying(b, s, slaves)) \subseteq Ports
    BY DEF BundlesInv
  <2> QED
    BY <1>1, <1>10, <2>1
<1>15. ret' \in [Bundles -> {"none", "ok", "failed"}]
  <2>1. \A c \in Bundles : ret[c] \in {"none", "ok", "failed"}
    BY DEF BundlesInv
  <2> QED
    BY <1>1, <2>1
<1>16. ASSUME NEW c \in lv \ {b}
       PROVE  /\ c \in live /\ SameSettings(bu[c], bundle[c])
              /\ Range(bu[c].ports) = Range(bundle[c].ports) \ joined
  <2>1. c \in rest.live /\ c \in live /\ c \in Bundles
    BY <1>2, <1>9
  <2>2. bu[c] = [bundle[c] EXCEPT !.ports = ListWithout(c, joined)]
    BY <1>9, <1>11, <2>1
  <2>3. bundle[c] \in BundleState
    BY <1>2, <2>1 DEF Lists
  <2> QED
    BY <1>9, <1>11, <2>1, <2>2, <2>3 DEF BundleState, SameSettings
<1>17. \A c \in live : c \notin lv => Range(bundle[c].ports) \subseteq joined
  BY <1>9
<1>18. BundlesInv'
  BY <1>1, <1>13, <1>14, <1>15 DEF BundlesInv, Lists
<1> QED
  BY <1>1, <1>3, <1>4, <1>5, <1>7, <1>11, <1>16, <1>17, <1>18 DEF rest, joined, seq

LEMMA BundleDestroyLists ==
  ASSUME BundlesInv, NEW b \in Bundles, BundleDestroy(b)
  PROVE  /\ BundlesInv' /\ live' = live \ {b}
         /\ \A c \in live' : bundle'[c] = bundle[c]
<1> DEFINE bu == [bundle EXCEPT ![b] = FreshBundle({})]
<1>1. bundle \in [Bundles -> BundleState] /\ live \subseteq Bundles
  BY DEF BundlesInv, Lists
<1>2. FreshBundle({}) \in BundleState /\ FreshBundle({}).ports = <<>>
  BY NothingListed
<1>3. /\ bu \in [Bundles -> BundleState] /\ bu[b].ports = <<>>
      /\ \A c \in Bundles \ {b} : bu[c] = bundle[c]
  BY <1>1, <1>2
<1>4. live' = live \ {b} /\ bundle' = bu
  BY DEF BundleDestroy
<1> HIDE DEF bu
<1>5. \A c \in Bundles : /\ IsInjective(bu[c].ports)
                         /\ Range(bu[c].ports) \subseteq Range(bundle[c].ports)
  BY <1>3, NothingListed DEF BundlesInv, Lists
<1>6. \A c \in Bundles \ (live \ {b}) : bu[c].ports = <<>>
  BY <1>3 DEF BundlesInv, Lists
<1>7. \A c \in live \ {b} : Recorded(bu[c])
  BY <1>1, <1>3 DEF BundlesInv, Lists
<1>8. Lists(live \ {b}, bu)
  BY <1>3, <1>5, <1>6, <1>7, ListsShrink DEF BundlesInv
<1>9. hwLag' \in [Bundles -> SUBSET Ports] /\ ret' \in [Bundles -> {"none", "ok", "failed"}]
  BY DEF BundleDestroy, BundlesInv
<1> QED
  BY <1>1, <1>3, <1>4, <1>8, <1>9 DEF BundlesInv, Lists

LEMMA BundleRemoveLists ==
  ASSUME BundlesInv, NEW p \in Ports, BundleRemove(p)
  PROVE  /\ BundlesInv' /\ live' \subseteq live
         /\ \A c \in live' : /\ SameSettings(bundle'[c], bundle[c])
                             /\ Range(bundle'[c].ports) = Range(bundle[c].ports) \ {p}
         /\ \A c \in live : c \notin live' => Range(bundle[c].ports) \subseteq {p}
<1> DEFINE Q == {p}
           rest == AfterLeaving(Q)
<1>1. /\ rest.live \subseteq live /\ Lists(rest.live, rest.bundle)
      /\ \A c \in Bundles : Range(rest.bundle[c].ports) = Range(bundle[c].ports) \ Q
      /\ \A c \in rest.live : rest.bundle[c] = [bundle[c] EXCEPT !.ports = ListWithout(c, Q)]
      /\ \A c \in live : c \notin rest.live => Range(bundle[c].ports) \subseteq Q
  <2>1. Q \in SUBSET Ports
    OBVIOUS
  <2> HIDE DEF Q
  <2> QED
    BY <2>1, AfterLeavingIs DEF BundlesInv
<1>2. live' = rest.live /\ bundle' = rest.bundle /\ hwLag' = rest.hwLag
  BY DEF BundleRemove
<1>3. ret' \in [Bundles -> {"none", "ok", "failed"}]
  BY DEF BundleRemove, BundlesInv
<1>4. rest.hwLag \in [Bundles -> SUBSET Ports]
  <2>1. \A c \in Bundles : hwLag[c] \subseteq Ports
    BY DEF BundlesInv
  <2> HIDE DEF Q
  <2>2. \A c \in Bundles : (IF Emptied(c, Q) THEN {} ELSE
          hwLag[c] \ {q \in Q \cap Range(bundle[c].ports) : Unlinked(q).ok}) \subseteq Ports
    BY <2>1
  <2> QED
    BY <2>2 DEF AfterLeaving
<1> HIDE DEF rest, Q
<1>5. ASSUME NEW c \in rest.live PROVE SameSettings(rest.bundle[c], bundle[c])
  <2>1. bundle[c] \in BundleState
    BY <1>1 DEF BundlesInv, Lists
  <2> QED
    BY <1>1, <2>1 DEF BundleState, SameSettings
<1>6. BundlesInv'
  BY <1>1, <1>2, <1>3, <1>4 DEF BundlesInv, Lists
<1>7. \A c \in rest.live : Range(rest.bundle[c].ports) = Range(bundle[c].ports) \ Q
  BY <1>1 DEF Lists
<1> QED
  BY <1>1, <1>2, <1>5, <1>6, <1>7 DEF Q

-----------------------------------------------------------------------------
(* The calls of the VLAN class that bundles make *)

\* A record that calls of the class make of st: coherent, and remembering what st
\* does of the VLANs that do not exist.
Tame(st, new) == Coherent(new, vlans) /\ SameWhereAbsent(st, new)

LEMMA TameTwice ==
  ASSUME NEW st, NEW mid, NEW new, Tame(st, mid), Tame(mid, new)
  PROVE  Tame(st, new)
  BY DEF Tame, SameWhereAbsent

LEMMA TameNothing ==
  ASSUME NEW st, Coherent(st, vlans)
  PROVE  Tame(st, st)
  BY DEF Tame, SameWhereAbsent

\* The attributes that are no part of a membership.
LEMMA TameAttributes ==
  ASSUME NEW st, NEW mid, Tame(st, mid), NEW enable \in BOOLEAN
  PROVE  /\ Tame(st, [mid EXCEPT !.untagEnable = enable])
         /\ Tame(st, [mid EXCEPT !.pvid = DefaultPvid])
         /\ \A v \in Vlans : mid.remembered[v] # "none" => Tame(st, [mid EXCEPT !.pvid = v])
  BY DEF Tame, SameWhereAbsent, Coherent, Mirrors, PvidKnown, PortState

LEMMA TameEnable ==
  ASSUME NEW st, NEW mid, Tame(st, mid), NEW enable \in BOOLEAN,
         NEW new, new = [mid EXCEPT !.untagEnable = enable]
  PROVE  Tame(st, new)
  BY TameAttributes

\* What the methods do to a record when they succeed, and when they do.
LEMMA AccessAdded ==
  ASSUME NEW st \in PortState, NEW v \in Vlans
  PROVE  LET r == AccessPortAdd(st, v)
         IN  /\ r.ok \in BOOLEAN /\ (Addable(v) => r.ok)
             /\ r.ok => /\ r.port \in PortState
                        /\ \A w \in Vlans :
                             /\ r.port.member[w] = IF w = v THEN "untagged" ELSE st.member[w]
                             /\ r.port.remembered[w] = IF w = v THEN "untagged" ELSE st.remembered[w]
                        /\ r.port.pvid = v /\ r.port.untagEnable = st.untagEnable
                        /\ r.port.ingressFilter = TRUE /\ r.port.dropUntagged = FALSE
                        /\ r.port.dropTagged = TRUE
<1> DEFINE a == VlanPortAdd(st, v, "untagged")
<1>1. /\ a.ok \in BOOLEAN /\ a.port \in PortState /\ (Addable(v) => a.ok)
      /\ a.ok => /\ \A w \in Vlans :
                      /\ a.port.member[w] = IF w = v THEN "untagged" ELSE st.member[w]
                      /\ a.port.remembered[w] = IF w = v THEN "untagged" ELSE st.remembered[w]
                 /\ a.port.pvid = v /\ a.port.untagEnable = st.untagEnable
  BY DEF VlanPortAdd, Done, Failed, PortState, TagMode
<1>2. AccessPortAdd(st, v) = Filters(a, TRUE, TRUE)
  BY DEF AccessPortAdd
<1> HIDE DEF a
<1>3. CASE a.ok
  <2> DEFINE new == [a.port EXCEPT !.ingressFilter = TRUE, !.dropUntagged = FALSE,
                                 !.dropTagged = TRUE]
  <2>1. AccessPortAdd(st, v).ok /\ AccessPortAdd(st, v).port = new /\ AccessPortAdd(st, v).ok \in BOOLEAN
    BY <1>2, <1>3 DEF Filters, Done
  <2>2. /\ new \in PortState
        /\ new.member = a.port.member /\ new.remembered = a.port.remembered
        /\ new.pvid = a.port.pvid /\ new.untagEnable = a.port.untagEnable
        /\ new.ingressFilter = TRUE /\ new.dropUntagged = FALSE /\ new.dropTagged = TRUE
    BY <1>1 DEF PortState
  <2> HIDE DEF new
  <2> QED
    BY <1>1, <1>3, <2>1, <2>2
<1>4. CASE ~a.ok
  BY <1>1, <1>2, <1>4 DEF Filters
<1> QED
  BY <1>3, <1>4

LEMMA AccessDeleted ==
  ASSUME NEW st \in PortState, NEW v \in Vlans
  PROVE  LET r == AccessPortDel(st, v)
         IN  /\ r.ok \in BOOLEAN /\ (Removable(st, v) => r.ok)
             /\ r.ok => /\ r.port \in PortState
                        /\ \A w \in Vlans :
                             /\ r.port.member[w] = IF w = v THEN "none" ELSE st.member[w]
                             /\ r.port.remembered[w] = IF w = v THEN "none" ELSE st.remembered[w]
                        /\ r.port.pvid = DefaultPvid /\ r.port.untagEnable = TRUE
                        /\ r.port.ingressFilter = FALSE /\ r.port.dropUntagged = FALSE
                        /\ r.port.dropTagged = FALSE
<1> DEFINE a == VlanPortDel(st, v)
           e == [a EXCEPT !.port.untagEnable = @ \/ a.ok]
<1>1. /\ a.ok \in BOOLEAN /\ a.port \in PortState /\ (Removable(st, v) => a.ok)
      /\ a.ok => /\ \A w \in Vlans :
                      /\ a.port.member[w] = IF w = v THEN "none" ELSE st.member[w]
                      /\ a.port.remembered[w] = IF w = v THEN "none" ELSE st.remembered[w]
                 /\ a.port.pvid = DefaultPvid
      /\ DOMAIN a = {"ok", "port"}
  BY DEF VlanPortDel, Done, Failed, PortState, TagMode
<1>2. AccessPortDel(st, v) = Filters(e, FALSE, FALSE)
  BY DEF AccessPortDel
<1> HIDE DEF a
<1>3. e.ok = a.ok /\ e.port = [a.port EXCEPT !.untagEnable = @ \/ a.ok]
  BY <1>1
<1> HIDE DEF e
<1>4. /\ e.port \in PortState /\ e.port.member = a.port.member
      /\ e.port.remembered = a.port.remembered /\ e.port.pvid = a.port.pvid
      /\ (a.ok => e.port.untagEnable = TRUE)
  BY <1>1, <1>3 DEF PortState
<1>5. CASE e.ok
  <2> DEFINE new == [e.port EXCEPT !.ingressFilter = FALSE, !.dropUntagged = FALSE,
                                 !.dropTagged = FALSE]
  <2>1. AccessPortDel(st, v).ok /\ AccessPortDel(st, v).port = new /\ AccessPortDel(st, v).ok \in BOOLEAN
    BY <1>2, <1>5 DEF Filters, Done
  <2>2. /\ new \in PortState
        /\ new.member = e.port.member /\ new.remembered = e.port.remembered
        /\ new.pvid = e.port.pvid /\ new.untagEnable = e.port.untagEnable
        /\ new.ingressFilter = FALSE /\ new.dropUntagged = FALSE /\ new.dropTagged = FALSE
    BY <1>1, <1>3, <1>4 DEF PortState
  <2>3. a.ok
    BY <1>3, <1>5
  <2> HIDE DEF new
  <2>4. \A w \in Vlans : /\ new.member[w] = IF w = v THEN "none" ELSE st.member[w]
                         /\ new.remembered[w] = IF w = v THEN "none" ELSE st.remembered[w]
    BY <1>1, <1>4, <2>2, <2>3
  <2>5. new.pvid = DefaultPvid /\ new.untagEnable = TRUE
    BY <1>1, <1>4, <2>2, <2>3
  <2> QED
    BY <2>1, <2>2, <2>4, <2>5
<1>6. CASE ~e.ok
  BY <1>1, <1>3, <1>4, <1>2, <1>6 DEF Filters
<1> QED
  BY <1>5, <1>6

LEMMA TrunksAddedWhole ==
  ASSUME NEW st \in PortState, NEW T \in SUBSET Vlans
  PROVE  LET r == TrunksPortAdd(st, T)
         IN  /\ r.ok \in BOOLEAN /\ ((\A v \in T : Addable(v)) => r.ok)
             /\ r.ok => /\ r.port \in PortState
                        /\ \A w \in Vlans :
                             /\ r.port.member[w] = IF w \in T THEN "tagged" ELSE st.member[w]
                             /\ r.port.remembered[w] = IF w \in T THEN "tagged" ELSE st.remembered[w]
                        /\ r.port.pvid = st.pvid /\ r.port.untagEnable = st.untagEnable
                        /\ r.port.ingressFilter = TRUE /\ r.port.dropUntagged = FALSE
                        /\ r.port.dropTagged = FALSE
<1> DEFINE bad  == {v \in T : ~Addable(v)}
           done == WalkedBefore(T, bad)
           mem  == [v \in Vlans |-> IF v \in done THEN "tagged" ELSE st.member[v]]
           rem  == [v \in Vlans |-> IF v \in done THEN "tagged" ELSE st.remembered[v]]
           new  == [st EXCEPT !.member = mem, !.remembered = rem]
           a    == TrunksAdded(st, T)
<1>1. a = [ok |-> bad = {}, port |-> new]
  BY DEF TrunksAdded, PortState
<1>2. mem \in [Vlans -> TagMode] /\ rem \in [Vlans -> TagMode]
  BY DEF PortState, TagMode
<1>3. bad = {} => done = T
  BY DEF WalkedBefore
<1>4. bad = {} => \A w \in Vlans : /\ mem[w] = IF w \in T THEN "tagged" ELSE st.member[w]
                                   /\ rem[w] = IF w \in T THEN "tagged" ELSE st.remembered[w]
  BY <1>3
<1> HIDE DEF mem, rem
<1>5. /\ new \in PortState /\ new.member = mem /\ new.remembered = rem
      /\ new.pvid = st.pvid /\ new.untagEnable = st.untagEnable
  BY <1>2 DEF PortState
<1>6. a.ok = (bad = {}) /\ a.port = new /\ a.ok \in BOOLEAN
  BY <1>1
<1>7. (\A v \in T : Addable(v)) => bad = {}
  OBVIOUS
<1>8. TrunksPortAdd(st, T) = Filters(a, TRUE, FALSE)
  BY DEF TrunksPortAdd
<1> HIDE DEF a, new, bad
<1>9. CASE a.ok
  <2> DEFINE end == [a.port EXCEPT !.ingressFilter = TRUE, !.dropUntagged = FALSE,
                                 !.dropTagged = FALSE]
  <2>1. TrunksPortAdd(st, T).ok /\ TrunksPortAdd(st, T).port = end /\ TrunksPortAdd(st, T).ok \in BOOLEAN
    BY <1>8, <1>9 DEF Filters, Done
  <2>2. /\ end \in PortState
        /\ end.member = a.port.member /\ end.remembered = a.port.remembered
        /\ end.pvid = a.port.pvid /\ end.untagEnable = a.port.untagEnable
        /\ end.ingressFilter = TRUE /\ end.dropUntagged = FALSE /\ end.dropTagged = FALSE
    BY <1>4, <1>5, <1>6, <1>7 DEF PortState
  <2> HIDE DEF end
  <2>3. bad = {} /\ a.port.member = mem /\ a.port.remembered = rem
        /\ a.port.pvid = st.pvid /\ a.port.untagEnable = st.untagEnable
    BY <1>5, <1>6, <1>9
  <2> QED
    BY <1>4, <2>1, <2>2, <2>3
<1>10. CASE ~a.ok
  BY <1>4, <1>5, <1>6, <1>7, <1>8, <1>10 DEF Filters
<1> QED
  BY <1>9, <1>10

LEMMA TrunksDeletedWhole ==
  ASSUME NEW st \in PortState, NEW T \in SUBSET Vlans
  PROVE  LET r == TrunksPortDel(st, T)
         IN  /\ r.ok \in BOOLEAN /\ ((\A v \in T : Removable(st, v)) => r.ok)
             /\ r.ok => /\ r.port \in PortState
                        /\ \A w \in Vlans :
                             /\ r.port.member[w] = IF w \in T THEN "none" ELSE st.member[w]
                             /\ r.port.remembered[w] = IF w \in T THEN "none" ELSE st.remembered[w]
                        /\ r.port.pvid = IF T = {} THEN st.pvid ELSE DefaultPvid
                        /\ r.port.untagEnable = (st.untagEnable \/ T # {})
                        /\ r.port.ingressFilter = FALSE /\ r.port.dropUntagged = FALSE
                        /\ r.port.dropTagged = FALSE
<1> DEFINE bad  == {v \in T : ~Removable(st, v)}
           done == WalkedBefore(T, bad)
           mem  == [v \in Vlans |-> IF v \in done THEN "none" ELSE st.member[v]]
           rem  == [v \in Vlans |-> IF v \in done THEN "none" ELSE st.remembered[v]]
           pv   == IF done = {} THEN st.pvid ELSE DefaultPvid
           un   == st.untagEnable \/ done # {}
           new  == [st EXCEPT !.member = mem, !.remembered = rem, !.pvid = pv, !.untagEnable = un]
           a    == TrunksRemoved(st, T)
<1>1. a = [ok |-> bad = {}, port |-> new]
  BY DEF TrunksRemoved, PortState
<1>2. /\ mem \in [Vlans -> TagMode] /\ rem \in [Vlans -> TagMode]
      /\ pv \in Vlans \cup {DefaultPvid} /\ un \in BOOLEAN
  BY DEF PortState, TagMode
<1>3. bad = {} => done = T
  BY DEF WalkedBefore
<1>4. bad = {} => /\ \A w \in Vlans : /\ mem[w] = IF w \in T THEN "none" ELSE st.member[w]
                                      /\ rem[w] = IF w \in T THEN "none" ELSE st.remembered[w]
                  /\ pv = IF T = {} THEN st.pvid ELSE DefaultPvid
                  /\ un = (st.untagEnable \/ T # {})
  BY <1>3
<1> HIDE DEF mem, rem, pv, un
<1>5. /\ new \in PortState /\ new.member = mem /\ new.remembered = rem
      /\ new.pvid = pv /\ new.untagEnable = un
  BY <1>2 DEF PortState
<1>6. a.ok = (bad = {}) /\ a.port = new /\ a.ok \in BOOLEAN
  BY <1>1
<1>7. (\A v \in T : Removable(st, v)) => bad = {}
  OBVIOUS
<1>8. TrunksPortDel(st, T) = Filters(a, FALSE, FALSE)
  BY DEF TrunksPortDel
<1> HIDE DEF a, new, bad
<1>9. CASE a.ok
  <2> DEFINE end == [a.port EXCEPT !.ingressFilter = FALSE, !.dropUntagged = FALSE,
                                 !.dropTagged = FALSE]
  <2>1. TrunksPortDel(st, T).ok /\ TrunksPortDel(st, T).port = end /\ TrunksPortDel(st, T).ok \in BOOLEAN
    BY <1>8, <1>9 DEF Filters, Done
  <2>2. /\ end \in PortState
        /\ end.member = a.port.member /\ end.remembered = a.port.remembered
        /\ end.pvid = a.port.pvid /\ end.untagEnable = a.port.untagEnable
        /\ end.ingressFilter = FALSE /\ end.dropUntagged = FALSE /\ end.dropTagged = FALSE
    BY <1>4, <1>5, <1>6, <1>7 DEF PortState
  <2> HIDE DEF end
  <2>3. bad = {} /\ a.port.member = mem /\ a.port.remembered = rem
        /\ a.port.pvid = pv /\ a.port.untagEnable = un
    BY <1>5, <1>6, <1>9
  <2> QED
    BY <1>4, <2>1, <2>2, <2>3
<1>10. CASE ~a.ok
  BY <1>4, <1>5, <1>6, <1>7, <1>8, <1>10 DEF Filters
<1> QED
  BY <1>9, <1>10

\* The methods keep records coherent, and leave what is remembered of a VLAN that
\* does not exist.
LEMMA AccessTame ==
  ASSUME NEW st, Coherent(st, vlans), NEW v \in Vlans
  PROVE  /\ Tame(st, AccessPortAdd(st, v).port) /\ AccessPortAdd(st, v).ok \in BOOLEAN
         /\ Tame(st, AccessPortDel(st, v).port) /\ AccessPortDel(st, v).ok \in BOOLEAN
<1>1. Coherent(AccessPortAdd(st, v).port, vlans) /\ Coherent(AccessPortDel(st, v).port, vlans)
  BY MethodsCoherent, {} \in SUBSET Vlans
<1>2. AccessPortAdd(st, v).ok \in BOOLEAN /\ AccessPortDel(st, v).ok \in BOOLEAN
  BY AccessAdded, AccessDeleted DEF Coherent
<1> QED
  BY <1>1, <1>2, AccessFrozen DEF Tame

LEMMA TrunksTame ==
  ASSUME NEW st, Coherent(st, vlans), NEW T \in SUBSET Vlans
  PROVE  /\ Tame(st, TrunksPortAdd(st, T).port) /\ TrunksPortAdd(st, T).ok \in BOOLEAN
         /\ Tame(st, TrunksPortDel(st, T).port) /\ TrunksPortDel(st, T).ok \in BOOLEAN
<1>1. Coherent(TrunksPortAdd(st, T).port, vlans) /\ Coherent(TrunksPortDel(st, T).port, vlans)
  BY TrunksAddedCoherent, TrunksRemovedCoherent, FiltersCoherent DEF TrunksPortAdd, TrunksPortDel
<1>2. TrunksPortAdd(st, T).ok \in BOOLEAN /\ TrunksPortDel(st, T).ok \in BOOLEAN
  BY TrunksAddedWhole, TrunksDeletedWhole DEF Coherent
<1> QED
  BY <1>1, <1>2, TrunksFrozen DEF Tame

\* A native tagged VLAN goes through the trunks of the class, and moves the PVID if
\* that succeeds.
LEMMA NativeTaggedIs ==
  ASSUME NEW st, NEW v
  PROVE  LET a == TrunksPortAdd(st, {v})
             d == TrunksPortDel(st, {v})
         IN  /\ NativeTaggedAdd(st, v).ok = a.ok /\ NativeTaggedDel(st, v).ok = d.ok
             /\ NativeTaggedAdd(st, v).port = IF a.ok THEN [a.port EXCEPT !.pvid = v] ELSE a.port
             /\ NativeTaggedDel(st, v).port = IF d.ok THEN [d.port EXCEPT !.pvid = DefaultPvid]
                                              ELSE d.port
<1> DEFINE a == TrunksPortAdd(st, {v})
           d == TrunksPortDel(st, {v})
<1>1. DOMAIN a = {"ok", "port"} /\ DOMAIN d = {"ok", "port"}
  BY DEF TrunksPortAdd, TrunksPortDel, Filters, Done, TrunksAdded, TrunksRemoved
<1>2. /\ NativeTaggedAdd(st, v) = IF a.ok THEN [a EXCEPT !.port.pvid = v] ELSE a
      /\ NativeTaggedDel(st, v) = IF d.ok THEN [d EXCEPT !.port.pvid = DefaultPvid] ELSE d
  BY DEF NativeTaggedAdd, NativeTaggedDel
<1> HIDE DEF a, d
<1>3. /\ [a EXCEPT !.port.pvid = v].ok = a.ok
      /\ [a EXCEPT !.port.pvid = v].port = [a.port EXCEPT !.pvid = v]
      /\ [d EXCEPT !.port.pvid = DefaultPvid].ok = d.ok
      /\ [d EXCEPT !.port.pvid = DefaultPvid].port = [d.port EXCEPT !.pvid = DefaultPvid]
  BY <1>1
<1> QED
  BY <1>2, <1>3 DEF a, d

LEMMA NativeTaggedTame ==
  ASSUME NEW st, Coherent(st, vlans), NEW v \in Vlans
  PROVE  /\ Tame(st, NativeTaggedAdd(st, v).port) /\ NativeTaggedAdd(st, v).ok \in BOOLEAN
         /\ Tame(st, NativeTaggedDel(st, v).port) /\ NativeTaggedDel(st, v).ok \in BOOLEAN
<1> DEFINE a == TrunksPortAdd(st, {v})
           d == TrunksPortDel(st, {v})
<1>1. /\ Tame(st, a.port) /\ a.ok \in BOOLEAN /\ Tame(st, d.port) /\ d.ok \in BOOLEAN
  BY TrunksTame
<1>2. a.ok => a.port.remembered[v] # "none"
  BY TrunksAddedWhole DEF Coherent
<1>3. a.ok => Tame(st, [a.port EXCEPT !.pvid = v])
  BY <1>1, <1>2, TameAttributes
<1>4. Tame(st, [d.port EXCEPT !.pvid = DefaultPvid])
  BY <1>1, TameAttributes
<1>5. /\ NativeTaggedAdd(st, v).ok = a.ok /\ NativeTaggedDel(st, v).ok = d.ok
      /\ NativeTaggedAdd(st, v).port = IF a.ok THEN [a.port EXCEPT !.pvid = v] ELSE a.port
      /\ NativeTaggedDel(st, v).port = IF d.ok THEN [d.port EXCEPT !.pvid = DefaultPvid]
                                       ELSE d.port
  BY NativeTaggedIs
<1> HIDE DEF a, d
<1> QED
  BY <1>1, <1>3, <1>4, <1>5

LEMMA DoneIs ==
  ASSUME NEW st
  PROVE  Done(st).ok = TRUE /\ Done(st).port = st
  BY DEF Done

\* The trunks of a bundle, after its native VLAN.
LEMMA ThenTrunksTame ==
  ASSUME NEW st, NEW n, Tame(st, n.port), n.ok \in BOOLEAN, NEW T \in SUBSET Vlans,
         NEW trunks \in BOOLEAN,
         NEW a, a = IF n.ok /\ trunks THEN TrunksPortAdd(n.port, T) ELSE n,
         NEW d, d = IF n.ok /\ trunks THEN TrunksPortDel(n.port, T) ELSE n
  PROVE  /\ Tame(st, a.port) /\ a.ok \in BOOLEAN
         /\ Tame(st, d.port) /\ d.ok \in BOOLEAN
<1>1. Coherent(n.port, vlans)
  BY DEF Tame
<1>2. /\ Tame(n.port, TrunksPortAdd(n.port, T).port) /\ TrunksPortAdd(n.port, T).ok \in BOOLEAN
      /\ Tame(n.port, TrunksPortDel(n.port, T).port) /\ TrunksPortDel(n.port, T).ok \in BOOLEAN
  BY <1>1, TrunksTame
<1>3. /\ Tame(st, TrunksPortAdd(n.port, T).port)
      /\ Tame(st, TrunksPortDel(n.port, T).port)
  BY <1>2, TameTwice
<1> QED
  BY <1>2, <1>3

\* An access or native untagged VLAN that joins with its untagged packets.
LEMMA EnabledIs ==
  ASSUME NEW st, NEW v, NEW r, r = AccessPortAdd(st, v),
         NEW e, e = [r EXCEPT !.port.untagEnable = @ \/ r.ok]
  PROVE  e.ok = r.ok /\ e.port = [r.port EXCEPT !.untagEnable = @ \/ r.ok]
<1>1. DOMAIN AccessPortAdd(st, v) = {"ok", "port"}
  BY DEF AccessPortAdd, VlanPortAdd, Filters, Done, Failed
<1>2. DOMAIN r = {"ok", "port"}
  BY <1>1
<1> QED
  BY <1>2

\* A native tagged VLAN that a port joins stops its untagged packets.
LEMMA DisabledIs ==
  ASSUME NEW st, NEW v, NEW r, r = NativeTaggedAdd(st, v),
         NEW e, e = [r EXCEPT !.port.untagEnable = @ /\ ~r.ok]
  PROVE  e.ok = r.ok /\ e.port = [r.port EXCEPT !.untagEnable = @ /\ ~r.ok]
<1>1. DOMAIN NativeTaggedAdd(st, v) = {"ok", "port"}
  BY DEF NativeTaggedAdd, TrunksPortAdd, TrunksAdded, Filters, Done
<1>2. DOMAIN r = {"ok", "port"}
  BY <1>1
<1> QED
  BY <1>2

\* The settings r name VLANs.
NamesVlans(r) ==
  /\ r.vlan \in Vlans \cup {NoVlan} /\ r.trunks \in SUBSET Vlans
  /\ r.mode # "trunk" => r.vlan \in Vlans

LEMMA RecordedNames ==
  ASSUME NEW r, Recorded(r), r.trunks \in SUBSET Vlans
  PROVE  NamesVlans(r)
  BY DEF Recorded, NamesVlans

LEMMA PortAddTame ==
  ASSUME NEW st, Coherent(st, vlans), NEW b, NamesVlans(b)
  PROVE  Tame(st, PortAdd(b, st).port) /\ PortAdd(b, st).ok \in BOOLEAN
<1> DEFINE r == AccessPortAdd(st, b.vlan)
           e == [r EXCEPT !.port.untagEnable = @ \/ r.ok]
           t == NativeTaggedAdd(st, b.vlan).port
           native == IF b.vlan = NoVlan THEN Done(st)
                     ELSE IF b.mode = "native_tagged" THEN Done([t EXCEPT !.untagEnable = FALSE])
                     ELSE e
           whole == IF native.ok /\ HasTrunks(b) THEN TrunksPortAdd(native.port, b.trunks)
                    ELSE native
<1>1. PortAdd(b, st) = whole
  BY DEF PortAdd
<1>2. ASSUME b.vlan = NoVlan
      PROVE  Tame(st, native.port) /\ native.ok \in BOOLEAN
  <2>1. native = Done(st)
    BY <1>2
  <2> HIDE DEF native
  <2> QED
    BY <2>1, DoneIs, TameNothing
<1>3. ASSUME b.vlan # NoVlan /\ b.mode = "native_tagged"
      PROVE  Tame(st, native.port) /\ native.ok \in BOOLEAN
  <2>1. native = Done([t EXCEPT !.untagEnable = FALSE])
    BY <1>3
  <2>2. Tame(st, t)
    BY <1>3, NativeTaggedTame DEF NamesVlans
  <2> HIDE DEF native, t
  <2>3. Tame(st, [t EXCEPT !.untagEnable = FALSE])
    BY <2>2, TameAttributes
  <2> QED
    BY <2>1, <2>3, DoneIs
<1>4. ASSUME b.vlan # NoVlan /\ b.mode # "native_tagged"
      PROVE  Tame(st, native.port) /\ native.ok \in BOOLEAN
  <2>1. native = e
    BY <1>4
  <2>2. Tame(st, r.port) /\ r.ok \in BOOLEAN
    BY <1>4, AccessTame DEF NamesVlans
  <2>3. e.ok = r.ok /\ e.port = [r.port EXCEPT !.untagEnable = @ \/ r.ok]
    BY EnabledIs
  <2> HIDE DEF r, e, native
  <2> DEFINE enable == r.port.untagEnable \/ r.ok
  <2>4. e.port = [r.port EXCEPT !.untagEnable = enable]
    BY <2>3
  <2>5. enable \in BOOLEAN
    OBVIOUS
  <2> HIDE DEF enable
  <2>6. Tame(st, e.port)
    BY <2>2, <2>4, <2>5, TameEnable
  <2> QED
    BY <2>1, <2>2, <2>3, <2>6
<1>5. Tame(st, native.port) /\ native.ok \in BOOLEAN
  <2> HIDE DEF native
  <2> QED
    BY <1>2, <1>3, <1>4
<1>6. b.trunks \in SUBSET Vlans /\ HasTrunks(b) \in BOOLEAN
  BY DEF NamesVlans, HasTrunks
<1> HIDE DEF native
<1>7. Tame(st, whole.port) /\ whole.ok \in BOOLEAN
  BY <1>5, <1>6, ThenTrunksTame
<1> QED
  BY <1>1, <1>7

LEMMA PortDelTame ==
  ASSUME NEW st, Coherent(st, vlans), NEW b, NamesVlans(b)
  PROVE  Tame(st, PortDel(b, st).port) /\ PortDel(b, st).ok \in BOOLEAN
<1> DEFINE native == IF b.vlan = NoVlan THEN Done(st) ELSE AccessPortDel(st, b.vlan)
           whole == IF native.ok /\ HasTrunks(b) THEN TrunksPortDel(native.port, b.trunks)
                    ELSE native
<1>1. PortDel(b, st) = whole
  BY DEF PortDel
<1>2. ASSUME b.vlan = NoVlan
      PROVE  Tame(st, native.port) /\ native.ok \in BOOLEAN
  <2>1. native = Done(st)
    BY <1>2
  <2> HIDE DEF native
  <2> QED
    BY <2>1, DoneIs, TameNothing
<1>3. ASSUME b.vlan # NoVlan
      PROVE  Tame(st, native.port) /\ native.ok \in BOOLEAN
  <2>1. native = AccessPortDel(st, b.vlan)
    BY <1>3
  <2> HIDE DEF native
  <2> QED
    BY <1>3, <2>1, AccessTame DEF NamesVlans
<1>4. Tame(st, native.port) /\ native.ok \in BOOLEAN
  <2> HIDE DEF native
  <2> QED
    BY <1>2, <1>3
<1>5. b.trunks \in SUBSET Vlans /\ HasTrunks(b) \in BOOLEAN
  BY DEF NamesVlans, HasTrunks
<1> HIDE DEF native
<1>6. Tame(st, whole.port) /\ whole.ok \in BOOLEAN
  BY <1>4, <1>5, ThenTrunksTame
<1> QED
  BY <1>1, <1>6

LEMMA LeaveOldTame ==
  ASSUME NEW st, Coherent(st, vlans), NEW b, NamesVlans(b), NEW s, NamesVlans(s)
  PROVE  Tame(st, LeaveOld(b, s, st).port) /\ LeaveOld(b, s, st).ok \in BOOLEAN
<1> DEFINE native == IF ~Changed(b, s) \/ b.mode = "trunk" THEN Done(st)
                     ELSE IF b.mode = "native_tagged" THEN NativeTaggedDel(st, b.vlan)
                     ELSE AccessPortDel(st, b.vlan)
           whole == IF native.ok /\ HasTrunks(b)
                      THEN TrunksPortDel(native.port, RemovedTrunks(b, s)) ELSE native
<1>1. LeaveOld(b, s, st) = whole
  BY DEF LeaveOld
<1>2. ASSUME ~Changed(b, s) \/ b.mode = "trunk"
      PROVE  Tame(st, native.port) /\ native.ok \in BOOLEAN
  <2>1. native = Done(st)
    BY <1>2
  <2> HIDE DEF native
  <2> QED
    BY <2>1, DoneIs, TameNothing
<1>3. ASSUME ~(~Changed(b, s) \/ b.mode = "trunk") /\ b.mode = "native_tagged"
      PROVE  Tame(st, native.port) /\ native.ok \in BOOLEAN
  <2>1. native = NativeTaggedDel(st, b.vlan)
    BY <1>3
  <2> HIDE DEF native
  <2> QED
    BY <1>3, <2>1, NativeTaggedTame DEF NamesVlans
<1>4. ASSUME ~(~Changed(b, s) \/ b.mode = "trunk") /\ b.mode # "native_tagged"
      PROVE  Tame(st, native.port) /\ native.ok \in BOOLEAN
  <2>1. native = AccessPortDel(st, b.vlan)
    BY <1>4
  <2> HIDE DEF native
  <2> QED
    BY <1>4, <2>1, AccessTame DEF NamesVlans
<1>5. Tame(st, native.port) /\ native.ok \in BOOLEAN
  <2> HIDE DEF native
  <2> QED
    BY <1>2, <1>3, <1>4
<1>6. RemovedTrunks(b, s) \in SUBSET Vlans /\ HasTrunks(b) \in BOOLEAN
  BY DEF NamesVlans, HasTrunks, RemovedTrunks
<1> HIDE DEF native
<1>7. Tame(st, whole.port) /\ whole.ok \in BOOLEAN
  BY <1>5, <1>6, ThenTrunksTame
<1> QED
  BY <1>1, <1>7

LEMMA JoinNewTame ==
  ASSUME NEW st, Coherent(st, vlans), NEW b, NamesVlans(b), NEW s, NamesVlans(s)
  PROVE  Tame(st, JoinNew(b, s, st).port) /\ JoinNew(b, s, st).ok \in BOOLEAN
<1> DEFINE r == NativeTaggedAdd(st, s.vlan)
           e == [r EXCEPT !.port.untagEnable = @ /\ ~r.ok]
           native == IF ~Changed(b, s) \/ s.mode = "trunk" THEN Done(st)
                     ELSE IF s.mode = "native_tagged" THEN e
                     ELSE AccessPortAdd(st, s.vlan)
           whole == IF native.ok /\ HasTrunks(s)
                      THEN TrunksPortAdd(native.port, AddedTrunks(b, s)) ELSE native
<1>1. JoinNew(b, s, st) = whole
  BY DEF JoinNew
<1>2. ASSUME ~Changed(b, s) \/ s.mode = "trunk"
      PROVE  Tame(st, native.port) /\ native.ok \in BOOLEAN
  <2>1. native = Done(st)
    BY <1>2
  <2> HIDE DEF native
  <2> QED
    BY <2>1, DoneIs, TameNothing
<1>3. ASSUME ~(~Changed(b, s) \/ s.mode = "trunk") /\ s.mode = "native_tagged"
      PROVE  Tame(st, native.port) /\ native.ok \in BOOLEAN
  <2>1. native = e
    BY <1>3
  <2>2. Tame(st, r.port) /\ r.ok \in BOOLEAN
    BY <1>3, NativeTaggedTame DEF NamesVlans
  <2>3. e.ok = r.ok /\ e.port = [r.port EXCEPT !.untagEnable = @ /\ ~r.ok]
    BY DisabledIs
  <2> HIDE DEF r, e, native
  <2> DEFINE enable == r.port.untagEnable /\ ~r.ok
  <2>4. e.port = [r.port EXCEPT !.untagEnable = enable]
    BY <2>3
  <2>5. enable \in BOOLEAN
    OBVIOUS
  <2> HIDE DEF enable
  <2>6. Tame(st, e.port)
    BY <2>2, <2>4, <2>5, TameEnable
  <2> QED
    BY <2>1, <2>2, <2>3, <2>6
<1>4. ASSUME ~(~Changed(b, s) \/ s.mode = "trunk") /\ s.mode # "native_tagged"
      PROVE  Tame(st, native.port) /\ native.ok \in BOOLEAN
  <2>1. native = AccessPortAdd(st, s.vlan)
    BY <1>4
  <2> HIDE DEF native
  <2> QED
    BY <1>4, <2>1, AccessTame DEF NamesVlans
<1>5. Tame(st, native.port) /\ native.ok \in BOOLEAN
  <2> HIDE DEF native
  <2> QED
    BY <1>2, <1>3, <1>4
<1>6. AddedTrunks(b, s) \in SUBSET Vlans /\ HasTrunks(s) \in BOOLEAN
  BY DEF NamesVlans, HasTrunks, AddedTrunks
<1> HIDE DEF native
<1>7. Tame(st, whole.port) /\ whole.ok \in BOOLEAN
  BY <1>5, <1>6, ThenTrunksTame
<1> QED
  BY <1>1, <1>7

-----------------------------------------------------------------------------
(* The calls bundles make, as steps of the VLAN class *)

\* Where a walk has got to when it stops, whatever it does on the ports it reaches.
LEMMA WalkedTame ==
  ASSUME NEW from, NEW hw, \A p \in Ports : Tame(from[p], hw[p]),
         NEW seq \in Seq(Ports), NEW res, \A p \in Range(seq) : Tame(from[p], res[p].port)
  PROVE  \A p \in Ports : Tame(from[p], Walked(hw, seq, res)[p])
<1>1. ReachedPorts(seq, res) \subseteq Range(seq)
  BY ReachedAre
<1> QED
  BY <1>1 DEF Walked

\* Unlinking a port from the bundle it is in, if any.
LEMMA UnlinkedTame ==
  ASSUME VlanInv, Lists(live, bundle), NEW p \in Ports
  PROVE  Tame(port[p], Unlinked(p).port)
<1>1. Coherent(port[p], vlans)
  BY DEF VlanInv
<1>2. CASE HasBundle(p)
  <2>1. BundleOf(p) \in live
    BY <1>2 DEF HasBundle, BundleOf
  <2>2. NamesVlans(bundle[BundleOf(p)])
    BY <2>1, RecordedNames DEF Lists, BundleState
  <2> QED
    BY <1>1, <1>2, <2>2, PortDelTame DEF Unlinked
<1>3. CASE ~HasBundle(p)
  BY <1>1, <1>3, DoneIs, TameNothing DEF Unlinked
<1> QED
  BY <1>2, <1>3

\* A bundle_set, at each place where it may stop.
LEMMA BundleSetTame ==
  ASSUME VlanInv, Lists(live, bundle), NEW b \in Bundles, NEW s \in Settings,
         NEW slaves \in Slaves(b), NEW p \in Ports
  PROVE  /\ Tame(port[p], AfterLeave(b, s, slaves)[p])
         /\ Tame(port[p], AfterOld(b, s, slaves)[p])
         /\ Tame(port[p], AfterNew(b, s, slaves)[p])
         /\ Tame(port[p], Walked(AfterNew(b, s, slaves), Joining(b, s, slaves),
                                 JoinResults(b, s))[p])
<1> DEFINE leave == Leaving(b, s, slaves)
           stay == Staying(b, s, slaves)
           join == Joining(b, s, slaves)
           afterLeave == AfterLeave(b, s, slaves)
           afterOld == AfterOld(b, s, slaves)
           afterNew == AfterNew(b, s, slaves)
           old == OldResults(b, s, slaves)
           new == NewResults(b, s, slaves)
           t == Target(b, s)
<1>1. \A q \in Ports : Coherent(port[q], vlans) /\ Tame(port[q], port[q])
  BY TameNothing DEF VlanInv
<1>2. /\ leave \in Seq(Ports) /\ Range(leave) \subseteq Ports
      /\ stay \in Seq(Ports) /\ Range(stay) \subseteq Ports
      /\ join \in Seq(Ports) /\ Range(join) \subseteq Ports
  BY WalksAre, RangeOfSeq
<1>3. b \notin live => Range(leave) = {} /\ Range(stay) = {}
  BY WalksAre, NothingListed DEF Lists
<1>4. b \in live => NamesVlans(bundle[b]) /\ NamesVlans(t)
  BY RecordedNames, TargetIs DEF Lists, BundleState
<1>5. NamesVlans(s)
  BY SettingsAre, RecordedNames
<1>6. /\ afterLeave = Walked(port, leave, LeaveResults(b))
      /\ afterOld = Walked(afterLeave, stay, old)
      /\ afterNew = Walked(afterOld, stay, new)
      /\ \A q \in Ports : /\ LeaveResults(b)[q] = PortDel(bundle[b], port[q])
                          /\ old[q] = LeaveOld(t, s, afterLeave[q])
                          /\ new[q] = JoinNew(t, s, afterOld[q])
  BY DEF AfterLeave, AfterOld, AfterNew, LeaveResults, OldResults, NewResults
<1> HIDE DEF leave, stay, join, afterLeave, afterOld, afterNew, old, new, t
<1>7. \A q \in Range(leave) : Tame(port[q], LeaveResults(b)[q].port)
  <2> TAKE q \in Range(leave)
  <2>1. q \in Ports /\ b \in live
    BY <1>2, <1>3
  <2>2. Coherent(port[q], vlans) /\ NamesVlans(bundle[b])
    BY <1>1, <1>4, <2>1
  <2>3. Tame(port[q], PortDel(bundle[b], port[q]).port)
    BY <2>2, PortDelTame
  <2> QED
    BY <1>6, <2>1, <2>3
<1>8. \A q \in Ports : Tame(port[q], afterLeave[q])
  BY <1>1, <1>2, <1>6, <1>7, WalkedTame
<1>9. \A q \in Range(stay) : Tame(port[q], old[q].port)
  <2> TAKE q \in Range(stay)
  <2>1. Coherent(afterLeave[q], vlans)
    BY <1>2, <1>8 DEF Tame
  <2>2. Tame(afterLeave[q], old[q].port)
    BY <1>2, <1>3, <1>4, <1>5, <1>6, <2>1, LeaveOldTame
  <2> QED
    BY <1>2, <1>8, <2>2, TameTwice
<1>10. \A q \in Ports : Tame(port[q], afterOld[q])
  BY <1>2, <1>6, <1>8, <1>9, WalkedTame
<1>11. \A q \in Range(stay) : Tame(port[q], new[q].port)
  <2> TAKE q \in Range(stay)
  <2>1. Coherent(afterOld[q], vlans)
    BY <1>2, <1>10 DEF Tame
  <2>2. Tame(afterOld[q], new[q].port)
    BY <1>2, <1>3, <1>4, <1>5, <1>6, <2>1, JoinNewTame
  <2> QED
    BY <1>2, <1>10, <2>2, TameTwice
<1>12. \A q \in Ports : Tame(port[q], afterNew[q])
  BY <1>2, <1>6, <1>10, <1>11, WalkedTame
<1>13. \A q \in Range(join) : Tame(port[q], JoinResults(b, s)[q].port)
  <2> TAKE q \in Range(join)
  <2> DEFINE r == Reconfigured(b, s)
             st == Unlinked(q).port
  <2>1. q \in Ports /\ Tame(port[q], st)
    BY <1>2, UnlinkedTame
  <2>2. NamesVlans(r)
    <3>1. Target(b, s) \in BundleState
      BY TargetIs
    <3>2. r.vlan = s.vlan /\ r.mode = s.mode /\ r.trunks = s.trunks
      BY <3>1 DEF Reconfigured, BundleState
    <3> HIDE DEF r
    <3> QED
      BY <1>5, <3>2 DEF NamesVlans
  <2>3. JoinResults(b, s)[q] = PortAdd(r, st)
    BY <2>1 DEF JoinResults
  <2> HIDE DEF r, st
  <2>4. Tame(st, PortAdd(r, st).port)
    BY <2>1, <2>2, PortAddTame DEF Tame
  <2> QED
    BY <2>1, <2>3, <2>4, TameTwice
<1>14. \A q \in Ports : Tame(port[q], Walked(afterNew, join, JoinResults(b, s))[q])
  BY <1>2, <1>12, <1>13, WalkedTame
<1> QED
  BY <1>8, <1>10, <1>12, <1>14 DEF afterLeave, afterOld, afterNew, join

\* Every call of a bundle changes port records as calls of the class do.
LEMMA BundleCallsTame ==
  ASSUME VlanInv, BundlesInv,
         \/ \E b \in Bundles, s \in Settings : \E slaves \in Slaves(b) : BundleSet(b, s, slaves)
         \/ \E b \in Bundles : BundleDestroy(b)
         \/ \E p \in Ports : BundleRemove(p)
  PROVE  /\ UNCHANGED <<vlans, refused>>
         /\ port' = [p \in Ports |-> port'[p]] /\ \A p \in Ports : Tame(port[p], port'[p])
<1>1. Lists(live, bundle) /\ \A p \in Ports : Tame(port[p], port[p])
  BY TameNothing DEF BundlesInv, VlanInv
<1>2. ASSUME NEW b \in Bundles, NEW s \in Settings, NEW slaves \in Slaves(b),
             BundleSet(b, s, slaves)
      PROVE  /\ UNCHANGED <<vlans, refused>>
             /\ port' = [p \in Ports |-> port'[p]] /\ \A p \in Ports : Tame(port[p], port'[p])
  <2>1. UNCHANGED <<vlans, refused>>
    BY <1>2 DEF BundleSet
  <2>2. \/ port' = AfterLeave(b, s, slaves)
        \/ port' = AfterOld(b, s, slaves)
        \/ port' = AfterNew(b, s, slaves)
        \/ port' = Walked(AfterNew(b, s, slaves), Joining(b, s, slaves), JoinResults(b, s))
    BY <1>2 DEF BundleSet, SetStopsLeaving, SetStopsReconfiguring, SetJoins
  <2>3. port' = [p \in Ports |-> port'[p]]
    BY <2>2 DEF AfterLeave, AfterOld, AfterNew, Walked
  <2> QED
    BY <1>1, <2>1, <2>2, <2>3, BundleSetTame
<1>3. ASSUME NEW b \in Bundles, BundleDestroy(b)
      PROVE  /\ UNCHANGED <<vlans, refused>>
             /\ port' = [p \in Ports |-> port'[p]] /\ \A p \in Ports : Tame(port[p], port'[p])
  BY <1>1, <1>3, UnlinkedTame DEF BundleDestroy
<1>4. ASSUME NEW q \in Ports, BundleRemove(q)
      PROVE  /\ UNCHANGED <<vlans, refused>>
             /\ port' = [p \in Ports |-> port'[p]] /\ \A p \in Ports : Tame(port[p], port'[p])
  BY <1>1, <1>4, UnlinkedTame DEF BundleRemove, VlanInv
<1> QED
  BY <1>2, <1>3, <1>4

-----------------------------------------------------------------------------
(* What holds whatever SAI refuses *)

BundleInv == VlanInv /\ BundlesInv

LEMMA BundleInvInit == Init => BundleInv
<1> SUFFICES ASSUME Init PROVE BundleInv
  OBVIOUS
<1>1. VlanInv
  BY VlanInvInit DEF Init
<1>2. /\ live = {} /\ bundle = [b \in Bundles |-> FreshBundle({})]
      /\ hwLag = [b \in Bundles |-> {}] /\ ret = [b \in Bundles |-> "none"]
  BY DEF Init
<1>3. FreshBundle({}) \in BundleState /\ FreshBundle({}).ports = <<>> /\ IsInjective(<<>>)
  BY NothingListed
<1>4. bundle \in [Bundles -> BundleState] /\ \A c \in Bundles : bundle[c].ports = <<>>
  BY <1>2, <1>3
<1>5. Lists(live, bundle)
  BY <1>2, <1>3, <1>4 DEF Lists
<1>6. hwLag \in [Bundles -> SUBSET Ports] /\ ret \in [Bundles -> {"none", "ok", "failed"}]
  BY <1>2
<1> QED
  BY <1>1, <1>5, <1>6 DEF BundleInv, BundlesInv

\* The steps that are not calls of a bundle are steps of the class.
LEMMA ClassSteps ==
  ASSUME VlanStep \/ (SaiRefuses /\ UNCHANGED bundleVars)
  PROVE  VlanNext /\ UNCHANGED bundleVars
  BY DEF VlanStep, VlanNext

LEMMA BundleInvNext == BundleInv /\ [Next]_vars => BundleInv'
<1> SUFFICES ASSUME BundleInv, [Next]_vars PROVE BundleInv'
  OBVIOUS
<1>1. BundlesInv'
  <2>1. ASSUME NEW b \in Bundles, NEW s \in Settings, NEW slaves \in Slaves(b),
               BundleSet(b, s, slaves)
        PROVE  BundlesInv'
    <3>1. CASE SetStopsLeaving(b, s, slaves)
      BY <3>1, SetStopsLeavingLists DEF BundleInv
    <3>2. CASE SetStopsReconfiguring(b, s, slaves)
      BY <3>2, SetStopsReconfiguringLists DEF BundleInv
    <3>3. CASE SetJoins(b, s, slaves)
      BY <3>3, SetJoinsLists DEF BundleInv
    <3> QED
      BY <2>1, <3>1, <3>2, <3>3 DEF BundleSet
  <2>2. ASSUME NEW b \in Bundles, BundleDestroy(b) PROVE BundlesInv'
    BY <2>2, BundleDestroyLists DEF BundleInv
  <2>3. ASSUME NEW p \in Ports, BundleRemove(p) PROVE BundlesInv'
    BY <2>3, BundleRemoveLists DEF BundleInv
  <2>4. ASSUME UNCHANGED bundleVars PROVE BundlesInv'
    BY <2>4 DEF BundleInv, BundlesInv, Lists, bundleVars
  <2> QED
    BY <2>1, <2>2, <2>3, <2>4, ClassSteps DEF Next, vars
<1>2. VlanInv'
  <2>1. ASSUME \/ \E b \in Bundles, s \in Settings :
                    \E slaves \in Slaves(b) : BundleSet(b, s, slaves)
               \/ \E b \in Bundles : BundleDestroy(b)
               \/ \E p \in Ports : BundleRemove(p)
        PROVE  VlanInv'
    <3>1. /\ UNCHANGED <<vlans, refused>> /\ port' = [p \in Ports |-> port'[p]]
          /\ \A p \in Ports : Tame(port[p], port'[p])
      BY <2>1, BundleCallsTame DEF BundleInv
    <3> QED
      BY <3>1 DEF BundleInv, VlanInv, Tame
  <2>2. ASSUME [VlanNext]_vlanVars PROVE VlanInv'
    BY <2>2, VlanInvNext DEF BundleInv
  <2>3. UNCHANGED vars => UNCHANGED vlanVars
    BY DEF vars
  <2> QED
    BY <2>1, <2>2, <2>3, ClassSteps DEF Next
<1> QED
  BY <1>1, <1>2 DEF BundleInv

\* The variables of the provider keep their types, for any number of ports, VLANs and
\* bundles and whatever SAI refuses.
THEOREM BundleTypeCorrect == Spec => []TypeOK
<1>1. BundleInv => TypeOK
  BY VlanInvImplies DEF BundleInv, BundlesInv, Lists, TypeOK
<1> QED
  BY <1>1, BundleInvInit, BundleInvNext, PTL DEF Spec

\* Wherever bundle_set stops, and though it takes ports from other bundles and
\* may destroy those, no port is listed twice nor by a bundle that is gone.
THEOREM OneBundlePerPortHolds == Spec => []OneBundlePerPort
<1>1. BundleInv => OneBundlePerPort
  BY DEF BundleInv, BundlesInv, Lists, OneBundlePerPort
<1> QED
  BY <1>1, BundleInvInit, BundleInvNext, PTL DEF Spec

\* Hardware, member table and PVID agree at whatever call of the VLAN class a
\* bundle_set stops.
THEOREM BundlesKeepVlanClassFaithful == Spec => []VlanClassIsFaithful
<1>1. BundleInv => VlanClassIsFaithful
  BY VlanInvImplies DEF BundleInv, VlanClassIsFaithful
<1> QED
  BY <1>1, BundleInvInit, BundleInvNext, PTL DEF Spec

\* No call of a bundle adds to or drops from the members remembered of a VLAN that
\* does not exist, nor does creating or destroying it.
THEOREM BundlesLeaveAbsentVlans == Spec => FrozenWhileAbsent
<1> DEFINE Frozen == \A p \in Ports, v \in Vlans \ (vlans \cap vlans') :
                       port'[p].remembered[v] = port[p].remembered[v]
<1>1. BundleInv /\ [Next]_vars => [Frozen]_vlanVars
  <2> SUFFICES ASSUME BundleInv, [Next]_vars PROVE [Frozen]_vlanVars
    OBVIOUS
  <2>1. ASSUME \/ \E b \in Bundles, s \in Settings :
                    \E slaves \in Slaves(b) : BundleSet(b, s, slaves)
               \/ \E b \in Bundles : BundleDestroy(b)
               \/ \E p \in Ports : BundleRemove(p)
        PROVE  Frozen
    <3>1. UNCHANGED vlans /\ \A p \in Ports : Tame(port[p], port'[p])
      BY <2>1, BundleCallsTame DEF BundleInv
    <3> QED
      BY <3>1 DEF Tame, SameWhereAbsent
  <2>2. ASSUME VlanNext PROVE Frozen
    BY <2>2, VlanStepFreezes DEF BundleInv
  <2>3. UNCHANGED vars => UNCHANGED vlanVars
    BY DEF vars
  <2> HIDE DEF Frozen
  <2> QED
    BY <2>1, <2>2, <2>3, ClassSteps DEF Next
<1> QED
  BY <1>1, BundleInvInit, BundleInvNext, PTL DEF Spec, FrozenWhileAbsent

-----------------------------------------------------------------------------
(* One port, when nothing is refused *)

\* Settings r as a bundle_set records them, in the types of struct ofbundle_sai.
Asked(r) == Recorded(r) /\ r.mode \in VlanMode /\ r.trunks \in SUBSET Vlans

\* The record of a port that is in hardware what the settings r ask for.  The PVID
\* and the egress filter of a native VLAN are left out: LeaveOld resets them when
\* trunks go, and JoinNew does not write them again.
Serves(st, r) ==
  /\ st \in PortState
  /\ \A v \in Vlans : st.member[v] = WantedMode(r, v) /\ st.remembered[v] = WantedMode(r, v)
  /\ st.ingressFilter = TRUE /\ st.dropUntagged = FALSE
  /\ st.dropTagged = (r.mode = "access")
  /\ r.mode = "access" => st.pvid = r.vlan
  /\ r.mode = "trunk" => st.pvid = DefaultPvid
  /\ r.mode # "native_tagged" => st.untagEnable = TRUE

\* A record that is a tagged member of the VLANs of T and nothing else.
Stripped(st, T) ==
  /\ st \in PortState
  /\ \A v \in Vlans : /\ st.member[v] = IF v \in T THEN "tagged" ELSE "none"
                      /\ st.remembered[v] = IF v \in T THEN "tagged" ELSE "none"
  /\ st.pvid = DefaultPvid /\ st.untagEnable = TRUE

LEMMA IsFresh ==
  ASSUME NEW st \in PortState,
         \A v \in Vlans : st.member[v] = "none" /\ st.remembered[v] = "none",
         st.pvid = DefaultPvid, st.untagEnable = TRUE, st.ingressFilter = FALSE,
         st.dropUntagged = FALSE, st.dropTagged = FALSE
  PROVE  st = FreshPort
<1>1. st.member = [v \in Vlans |-> "none"] /\ st.remembered = [v \in Vlans |-> "none"]
  BY DEF PortState
<1>2. st = [member |-> st.member, remembered |-> st.remembered, pvid |-> st.pvid,
            untagEnable |-> st.untagEnable, ingressFilter |-> st.ingressFilter,
            dropUntagged |-> st.dropUntagged, dropTagged |-> st.dropTagged]
  BY DEF PortState
<1> QED
  BY <1>1, <1>2 DEF FreshPort

\* The modes that settings ask for, VLAN by VLAN.
LEMMA WantedIs ==
  ASSUME NEW r, Asked(r), ~NativeInTrunks, NEW v \in Vlans
  PROVE  /\ v = r.vlan /\ r.mode = "native_tagged" => WantedMode(r, v) = "tagged"
         /\ v = r.vlan /\ r.mode # "native_tagged" => WantedMode(r, v) = "untagged"
         /\ v # r.vlan /\ v \in r.trunks => WantedMode(r, v) = "tagged"
         /\ v # r.vlan /\ v \notin r.trunks => WantedMode(r, v) = "none"
         /\ v = r.vlan => v \notin r.trunks
<1>1. v # NoVlan
  BY VlansAssumption DEF NoVlan
<1>2. v = r.vlan => r.mode \in {"access", "native_untagged", "native_tagged"}
  BY <1>1 DEF Asked, Recorded, VlanMode
<1>3. v = r.vlan => v \notin r.trunks
  BY <1>2 DEF Asked, Recorded, IsNative
<1> QED
  BY <1>2, <1>3 DEF WantedMode

\* The trunks that go and come when the native VLAN is never one of them.
LEMMA TrunksMoved ==
  ASSUME NEW b, Asked(b), NEW s, Asked(s), ~NativeInTrunks
  PROVE  /\ RemovedTrunks(b, s) = b.trunks \ s.trunks
         /\ AddedTrunks(b, s) = s.trunks \ b.trunks
<1>1. IsNative(b) => b.vlan \notin b.trunks
  BY DEF Asked, Recorded
<1>2. IsNative(s) => s.vlan \notin s.trunks
  BY DEF Asked, Recorded
<1> QED
  BY <1>1, <1>2 DEF RemovedTrunks, AddedTrunks

\* Which VLANs settings name, by mode.
LEMMA ModesAre ==
  ASSUME NEW r, Asked(r), ~NativeInTrunks
  PROVE  /\ r.trunks \subseteq Vlans /\ r.trunks \subseteq Named(r)
         /\ r.mode \in {"access", "trunk", "native_untagged", "native_tagged"}
         /\ r.mode = "access" => r.trunks = {}
         /\ r.mode = "trunk" <=> r.vlan = NoVlan
         /\ r.mode = "trunk" => \A v \in Vlans : v # r.vlan
         /\ r.mode # "trunk" => /\ r.vlan \in Vlans /\ r.vlan \in Named(r)
                                /\ r.vlan \notin r.trunks
         /\ HasTrunks(r) = (r.mode # "access")
<1>1. NoVlan \notin Vlans
  BY VlansAssumption DEF NoVlan
<1> QED
  BY <1>1 DEF Asked, Recorded, VlanMode, Named, IsNative, HasTrunks

\* A port that serves its bundle is unlinked without an error, and is as new.
LEMMA DelServes ==
  ASSUME refused = {}, ~NativeInTrunks, NEW b, Asked(b), Named(b) \subseteq vlans,
         NEW st, Serves(st, b)
  PROVE  PortDel(b, st).ok /\ PortDel(b, st).port = FreshPort
<1> DEFINE n == AccessPortDel(st, b.vlan)
           T == b.trunks
<1>1. st \in PortState
  BY DEF Serves
<1>2. CASE b.mode = "access"
  <2>1. PortDel(b, st) = n
    BY <1>2, ModesAre DEF PortDel
  <2>2. b.vlan \in Vlans /\ Removable(st, b.vlan)
    BY <1>2, ModesAre, WantedIs DEF Serves, Removable
  <2>3. /\ n.ok /\ n.port \in PortState
        /\ \A w \in Vlans : /\ n.port.member[w] = IF w = b.vlan THEN "none" ELSE st.member[w]
                            /\ n.port.remembered[w] = IF w = b.vlan THEN "none" ELSE st.remembered[w]
        /\ n.port.pvid = DefaultPvid /\ n.port.untagEnable = TRUE
        /\ n.port.ingressFilter = FALSE /\ n.port.dropUntagged = FALSE
        /\ n.port.dropTagged = FALSE
    BY <1>1, <2>2, AccessDeleted
  <2> HIDE DEF n
  <2>4. \A w \in Vlans : n.port.member[w] = "none" /\ n.port.remembered[w] = "none"
    BY <1>2, <2>3, ModesAre, WantedIs DEF Serves
  <2> QED
    BY <2>1, <2>3, <2>4, IsFresh
<1>3. CASE b.mode = "trunk"
  <2> DEFINE d == TrunksPortDel(st, T)
  <2>1. PortDel(b, st) = d
    BY <1>3, ModesAre, DoneIs DEF PortDel
  <2>2. T \in SUBSET Vlans /\ \A v \in T : Removable(st, v)
    BY <1>3, ModesAre, WantedIs DEF Serves, Removable
  <2>3. /\ d.ok /\ d.port \in PortState
        /\ \A w \in Vlans : /\ d.port.member[w] = IF w \in T THEN "none" ELSE st.member[w]
                            /\ d.port.remembered[w] = IF w \in T THEN "none" ELSE st.remembered[w]
        /\ d.port.pvid = IF T = {} THEN st.pvid ELSE DefaultPvid
        /\ d.port.untagEnable = (st.untagEnable \/ T # {})
        /\ d.port.ingressFilter = FALSE /\ d.port.dropUntagged = FALSE
        /\ d.port.dropTagged = FALSE
    BY <1>1, <2>2, TrunksDeletedWhole
  <2> HIDE DEF d, T
  <2>4. d.port.pvid = DefaultPvid /\ d.port.untagEnable = TRUE
    BY <1>3, <2>3 DEF Serves
  <2>5. \A w \in Vlans : d.port.member[w] = "none" /\ d.port.remembered[w] = "none"
    BY <1>3, <2>3, ModesAre, WantedIs DEF Serves, T
  <2> QED
    BY <2>1, <2>3, <2>4, <2>5, IsFresh
<1>4. CASE b.mode \notin {"access", "trunk"}
  <2>1. b.vlan \in Vlans /\ Removable(st, b.vlan) /\ b.vlan \notin T /\ T \in SUBSET Vlans
    BY <1>4, ModesAre, WantedIs DEF Serves, Removable
  <2>2. /\ n.ok /\ n.port \in PortState
        /\ \A w \in Vlans : /\ n.port.member[w] = IF w = b.vlan THEN "none" ELSE st.member[w]
                            /\ n.port.remembered[w] = IF w = b.vlan THEN "none" ELSE st.remembered[w]
        /\ n.port.pvid = DefaultPvid /\ n.port.untagEnable = TRUE
    BY <1>1, <2>1, AccessDeleted
  <2> DEFINE d == TrunksPortDel(n.port, T)
  <2>3. PortDel(b, st) = d
    BY <1>4, <2>2, ModesAre DEF PortDel
  <2> HIDE DEF n
  <2>4. \A v \in T : Removable(n.port, v)
    BY <2>1, <2>2, ModesAre, WantedIs DEF Serves, Removable
  <2>5. /\ d.ok /\ d.port \in PortState
        /\ \A w \in Vlans : /\ d.port.member[w] = IF w \in T THEN "none" ELSE n.port.member[w]
                            /\ d.port.remembered[w] = IF w \in T THEN "none" ELSE n.port.remembered[w]
        /\ d.port.pvid = IF T = {} THEN n.port.pvid ELSE DefaultPvid
        /\ d.port.untagEnable = (n.port.untagEnable \/ T # {})
        /\ d.port.ingressFilter = FALSE /\ d.port.dropUntagged = FALSE
        /\ d.port.dropTagged = FALSE
    BY <2>1, <2>2, <2>4, TrunksDeletedWhole
  <2> HIDE DEF d, T
  <2>6. d.port.pvid = DefaultPvid /\ d.port.untagEnable = TRUE
    BY <2>2, <2>5
  <2>7. \A w \in Vlans : d.port.member[w] = "none" /\ d.port.remembered[w] = "none"
    BY <2>1, <2>2, <2>5, WantedIs DEF Serves, T
  <2> QED
    BY <2>3, <2>5, <2>6, <2>7, IsFresh
<1> QED
  BY <1>2, <1>3, <1>4

\* A fresh port joins a bundle whose VLANs exist without an error, and serves it.
LEMMA AddServes ==
  ASSUME refused = {}, ~NativeInTrunks, NEW b, Asked(b), Named(b) \subseteq vlans
  PROVE  PortAdd(b, FreshPort).ok /\ Serves(PortAdd(b, FreshPort).port, b)
<1> DEFINE st == FreshPort
           T == b.trunks
<1>1. /\ st \in PortState /\ st.pvid = DefaultPvid /\ st.untagEnable = TRUE
      /\ \A w \in Vlans : st.member[w] = "none" /\ st.remembered[w] = "none"
  BY FreshCoherent DEF FreshPort
<1>2. T \in SUBSET Vlans /\ (\A v \in T : Addable(v))
      /\ (b.mode # "trunk" => b.vlan \in Vlans /\ Addable(b.vlan) /\ b.vlan \notin T)
  BY ModesAre DEF Addable
<1> HIDE DEF st, T
<1> DEFINE r == AccessPortAdd(st, b.vlan)
           e == [r EXCEPT !.port.untagEnable = @ \/ r.ok]
           g == NativeTaggedAdd(st, b.vlan).port
           t == [g EXCEPT !.untagEnable = FALSE]
<1>3. ASSUME b.mode \in {"access", "native_untagged"}
      PROVE  /\ e.ok /\ e.port \in PortState
             /\ \A w \in Vlans : /\ e.port.member[w] = IF w = b.vlan THEN "untagged" ELSE "none"
                                 /\ e.port.remembered[w] = IF w = b.vlan THEN "untagged" ELSE "none"
             /\ e.port.pvid = b.vlan /\ e.port.untagEnable = TRUE
             /\ e.port.ingressFilter = TRUE /\ e.port.dropUntagged = FALSE
             /\ e.port.dropTagged = TRUE
  <2>1. /\ r.ok /\ r.port \in PortState
        /\ \A w \in Vlans : /\ r.port.member[w] = IF w = b.vlan THEN "untagged" ELSE st.member[w]
                            /\ r.port.remembered[w] = IF w = b.vlan THEN "untagged" ELSE st.remembered[w]
        /\ r.port.pvid = b.vlan /\ r.port.untagEnable = st.untagEnable
        /\ r.port.ingressFilter = TRUE /\ r.port.dropUntagged = FALSE
        /\ r.port.dropTagged = TRUE
    BY <1>1, <1>2, <1>3, AccessAdded
  <2>2. e.ok = r.ok /\ e.port = [r.port EXCEPT !.untagEnable = @ \/ r.ok]
    BY EnabledIs
  <2> HIDE DEF r, e
  <2>3. /\ e.port \in PortState /\ e.port.member = r.port.member
        /\ e.port.remembered = r.port.remembered /\ e.port.pvid = r.port.pvid
        /\ e.port.untagEnable = TRUE /\ e.port.ingressFilter = r.port.ingressFilter
        /\ e.port.dropUntagged = r.port.dropUntagged /\ e.port.dropTagged = r.port.dropTagged
    BY <2>1, <2>2 DEF PortState
  <2> QED
    BY <1>1, <2>1, <2>2, <2>3
<1>4. ASSUME b.mode = "native_tagged"
      PROVE  /\ t \in PortState /\ t.pvid = b.vlan
             /\ \A w \in Vlans : /\ t.member[w] = IF w = b.vlan THEN "tagged" ELSE "none"
                                 /\ t.remembered[w] = IF w = b.vlan THEN "tagged" ELSE "none"
  <2> DEFINE a == TrunksPortAdd(st, {b.vlan})
  <2>1. b.vlan \in Vlans /\ {b.vlan} \in SUBSET Vlans /\ \A v \in {b.vlan} : Addable(v)
    BY <1>2, <1>4
  <2>2. /\ a.ok /\ a.port \in PortState
        /\ \A w \in Vlans :
             /\ a.port.member[w] = IF w \in {b.vlan} THEN "tagged" ELSE st.member[w]
             /\ a.port.remembered[w] = IF w \in {b.vlan} THEN "tagged" ELSE st.remembered[w]
    BY <1>1, <2>1, TrunksAddedWhole
  <2>3. g = [a.port EXCEPT !.pvid = b.vlan]
    BY <2>2, NativeTaggedIs
  <2> HIDE DEF a, g
  <2>4. /\ t \in PortState /\ t.member = a.port.member /\ t.remembered = a.port.remembered
        /\ t.pvid = b.vlan
    BY <2>1, <2>2, <2>3 DEF PortState
  <2> QED
    BY <1>1, <2>2, <2>4
<1>5. CASE b.mode = "access"
  <2>1. PortAdd(b, st) = e
    BY <1>5, ModesAre DEF PortAdd
  <2> HIDE DEF e
  <2>2. \A w \in Vlans : /\ e.port.member[w] = WantedMode(b, w)
                         /\ e.port.remembered[w] = WantedMode(b, w)
    BY <1>3, <1>5, ModesAre, WantedIs
  <2>3. Serves(e.port, b)
    BY <1>3, <1>5, <2>2 DEF Serves
  <2> QED
    BY <1>3, <1>5, <2>1, <2>3 DEF st
<1>6. ASSUME NEW n \in PortState,
             b.mode # "access", PortAdd(b, st) = TrunksPortAdd(n, T),
             \A w \in Vlans : w \notin T => /\ n.member[w] = WantedMode(b, w)
                                            /\ n.remembered[w] = WantedMode(b, w),
             b.mode = "trunk" => n.pvid = DefaultPvid,
             b.mode # "native_tagged" => n.untagEnable = TRUE
      PROVE  PortAdd(b, st).ok /\ Serves(PortAdd(b, st).port, b)
  <2> DEFINE a == TrunksPortAdd(n, T)
  <2>1. /\ a.ok /\ a.port \in PortState
        /\ \A w \in Vlans :
             /\ a.port.member[w] = IF w \in T THEN "tagged" ELSE n.member[w]
             /\ a.port.remembered[w] = IF w \in T THEN "tagged" ELSE n.remembered[w]
        /\ a.port.pvid = n.pvid /\ a.port.untagEnable = n.untagEnable
        /\ a.port.ingressFilter = TRUE /\ a.port.dropUntagged = FALSE
        /\ a.port.dropTagged = FALSE
    BY <1>2, TrunksAddedWhole
  <2>2. \A w \in T : WantedMode(b, w) = "tagged"
    BY <1>2, WantedIs DEF T
  <2>3. PortAdd(b, st) = a
    BY <1>6
  <2> HIDE DEF a
  <2>4. \A w \in Vlans : /\ a.port.member[w] = WantedMode(b, w)
                         /\ a.port.remembered[w] = WantedMode(b, w)
    BY <1>6, <2>1, <2>2
  <2>5. Serves(a.port, b)
    BY <1>6, <2>1, <2>4 DEF Serves
  <2> QED
    BY <2>1, <2>3, <2>5
<1>7. CASE b.mode = "trunk"
  <2>1. PortAdd(b, st) = TrunksPortAdd(st, T)
    BY <1>7, ModesAre, DoneIs DEF PortAdd, T
  <2>2. \A w \in Vlans : w \notin T => WantedMode(b, w) = "none"
    BY <1>7, ModesAre, WantedIs DEF T
  <2> QED
    BY <1>1, <1>6, <1>7, <2>1, <2>2 DEF st
<1>8. CASE b.mode = "native_untagged"
  <2>1. PortAdd(b, st) = TrunksPortAdd(e.port, T)
    BY <1>3, <1>8, ModesAre DEF PortAdd, T
  <2> HIDE DEF e
  <2>2. \A w \in Vlans : w \notin T => /\ e.port.member[w] = WantedMode(b, w)
                                       /\ e.port.remembered[w] = WantedMode(b, w)
    BY <1>3, <1>8, WantedIs DEF T
  <2> QED
    BY <1>3, <1>6, <1>8, <2>1, <2>2 DEF st
<1>9. CASE b.mode = "native_tagged"
  <2>1. PortAdd(b, st) = TrunksPortAdd(t, T)
    BY <1>9, ModesAre, DoneIs DEF PortAdd, T
  <2> HIDE DEF t
  <2>2. \A w \in Vlans : w \notin T => /\ t.member[w] = WantedMode(b, w)
                                       /\ t.remembered[w] = WantedMode(b, w)
    BY <1>4, <1>9, WantedIs DEF T
  <2> QED
    BY <1>4, <1>6, <1>9, <2>1, <2>2 DEF st
<1> QED
  BY <1>5, <1>7, <1>8, <1>9, ModesAre

\* New settings with another VLAN or mode strip a port down to the trunks that stay,
LEMMA LeaveStrips ==
  ASSUME refused = {}, ~NativeInTrunks, NEW b, Asked(b), Named(b) \subseteq vlans,
         NEW s, Asked(s), Changed(b, s), NEW st, Serves(st, b)
  PROVE  LeaveOld(b, s, st).ok /\ Stripped(LeaveOld(b, s, st).port, b.trunks \cap s.trunks)
<1> DEFINE l == LeaveOld(b, s, st)
           T == RemovedTrunks(b, s)
<1>1. st \in PortState
  BY DEF Serves
<1>2. T = b.trunks \ s.trunks /\ b.trunks \subseteq Vlans /\ b.trunks \subseteq vlans
  BY TrunksMoved, ModesAre
<1> HIDE DEF T
<1>3. ASSUME NEW n \in PortState, b.mode # "access", l = TrunksPortDel(n, T),
             \A w \in Vlans : /\ n.member[w] = IF w \in b.trunks THEN "tagged" ELSE "none"
                              /\ n.remembered[w] = IF w \in b.trunks THEN "tagged" ELSE "none",
             n.pvid = DefaultPvid, n.untagEnable = TRUE
      PROVE  l.ok /\ Stripped(l.port, b.trunks \cap s.trunks)
  <2> DEFINE d == TrunksPortDel(n, T)
  <2>1. T \in SUBSET Vlans /\ \A v \in T : Removable(n, v)
    BY <1>2, <1>3 DEF Removable
  <2>2. /\ d.ok /\ d.port \in PortState
        /\ \A w \in Vlans : /\ d.port.member[w] = IF w \in T THEN "none" ELSE n.member[w]
                            /\ d.port.remembered[w] = IF w \in T THEN "none" ELSE n.remembered[w]
        /\ d.port.pvid = IF T = {} THEN n.pvid ELSE DefaultPvid
        /\ d.port.untagEnable = (n.untagEnable \/ T # {})
    BY <2>1, TrunksDeletedWhole
  <2>3. l = d
    BY <1>3
  <2> HIDE DEF d, l
  <2>4. Stripped(d.port, b.trunks \cap s.trunks)
    BY <1>2, <1>3, <2>2 DEF Stripped
  <2> QED
    BY <2>2, <2>3, <2>4
<1>4. CASE b.mode = "trunk"
  <2>1. l = TrunksPortDel(st, T)
    BY <1>4, ModesAre, DoneIs DEF LeaveOld, T
  <2>2. \A w \in Vlans : /\ st.member[w] = IF w \in b.trunks THEN "tagged" ELSE "none"
                         /\ st.remembered[w] = IF w \in b.trunks THEN "tagged" ELSE "none"
    BY <1>4, ModesAre, WantedIs DEF Serves
  <2>3. st.pvid = DefaultPvid /\ st.untagEnable = TRUE
    BY <1>4 DEF Serves
  <2> QED
    BY <1>1, <1>3, <1>4, <2>1, <2>2, <2>3
<1>5. ASSUME b.mode # "trunk"
      PROVE  /\ b.vlan \in Vlans /\ b.vlan \notin b.trunks /\ Removable(st, b.vlan)
             /\ \A w \in Vlans \ {b.vlan} :
                  /\ st.member[w] = IF w \in b.trunks THEN "tagged" ELSE "none"
                  /\ st.remembered[w] = IF w \in b.trunks THEN "tagged" ELSE "none"
  BY <1>5, ModesAre, WantedIs DEF Serves, Removable
<1> DEFINE n == AccessPortDel(st, b.vlan)
<1>6. ASSUME b.mode # "trunk"
      PROVE  /\ n.ok /\ n.port \in PortState
             /\ \A w \in Vlans :
                  /\ n.port.member[w] = IF w \in b.trunks THEN "tagged" ELSE "none"
                  /\ n.port.remembered[w] = IF w \in b.trunks THEN "tagged" ELSE "none"
             /\ n.port.pvid = DefaultPvid /\ n.port.untagEnable = TRUE
  <2>1. /\ n.ok /\ n.port \in PortState
        /\ \A w \in Vlans : /\ n.port.member[w] = IF w = b.vlan THEN "none" ELSE st.member[w]
                            /\ n.port.remembered[w] = IF w = b.vlan THEN "none" ELSE st.remembered[w]
        /\ n.port.pvid = DefaultPvid /\ n.port.untagEnable = TRUE
    BY <1>1, <1>5, <1>6, AccessDeleted
  <2> HIDE DEF n
  <2> QED
    BY <1>5, <1>6, <2>1
<1>7. CASE b.mode = "access"
  <2>1. l = n
    BY <1>7, ModesAre DEF LeaveOld
  <2>2. b.trunks = {}
    BY <1>7, ModesAre
  <2> HIDE DEF n, l
  <2>3. Stripped(n.port, b.trunks \cap s.trunks)
    BY <1>6, <1>7, <2>2 DEF Stripped
  <2> QED
    BY <1>6, <1>7, <2>1, <2>3 DEF l
<1>8. CASE b.mode = "native_untagged"
  <2>1. l = TrunksPortDel(n.port, T)
    BY <1>6, <1>8, ModesAre DEF LeaveOld, T
  <2> HIDE DEF n
  <2> QED
    BY <1>3, <1>6, <1>8, <2>1
<1>9. CASE b.mode = "native_tagged"
  <2> DEFINE d == TrunksPortDel(st, {b.vlan})
             g == NativeTaggedDel(st, b.vlan)
  <2>1. {b.vlan} \in SUBSET Vlans /\ \A v \in {b.vlan} : Removable(st, v)
    BY <1>5, <1>9
  <2>2. /\ d.ok /\ d.port \in PortState
        /\ \A w \in Vlans :
             /\ d.port.member[w] = IF w \in {b.vlan} THEN "none" ELSE st.member[w]
             /\ d.port.remembered[w] = IF w \in {b.vlan} THEN "none" ELSE st.remembered[w]
        /\ d.port.untagEnable = (st.untagEnable \/ {b.vlan} # {})
    BY <1>1, <2>1, TrunksDeletedWhole
  <2>3. g.ok /\ g.port = [d.port EXCEPT !.pvid = DefaultPvid]
    BY <2>2, NativeTaggedIs
  <2>4. l = TrunksPortDel(g.port, T)
    BY <1>9, <2>3, ModesAre DEF LeaveOld, T
  <2> HIDE DEF d, g
  <2>5. /\ g.port \in PortState /\ g.port.member = d.port.member
        /\ g.port.remembered = d.port.remembered /\ g.port.pvid = DefaultPvid
        /\ g.port.untagEnable = TRUE
    BY <2>2, <2>3 DEF PortState
  <2>6. \A w \in Vlans : /\ g.port.member[w] = IF w \in b.trunks THEN "tagged" ELSE "none"
                         /\ g.port.remembered[w] = IF w \in b.trunks THEN "tagged" ELSE "none"
    BY <1>5, <1>9, <2>2, <2>5
  <2> QED
    BY <1>3, <1>9, <2>4, <2>5, <2>6
<1> QED
  BY <1>4, <1>7, <1>8, <1>9, ModesAre

\* and then build it up to what they ask for.
LEMMA JoinBuilds ==
  ASSUME refused = {}, ~NativeInTrunks, NEW b, Asked(b),
         NEW s, Asked(s), Named(s) \subseteq vlans, Changed(b, s),
         NEW st, Stripped(st, b.trunks \cap s.trunks)
  PROVE  JoinNew(b, s, st).ok /\ Serves(JoinNew(b, s, st).port, s)
<1> DEFINE j == JoinNew(b, s, st)
           T == AddedTrunks(b, s)
           left == b.trunks \cap s.trunks
<1>1. /\ st \in PortState /\ st.pvid = DefaultPvid /\ st.untagEnable = TRUE
      /\ \A w \in Vlans : /\ st.member[w] = IF w \in left THEN "tagged" ELSE "none"
                          /\ st.remembered[w] = IF w \in left THEN "tagged" ELSE "none"
  BY DEF Stripped
<1>2. /\ T \in SUBSET Vlans /\ T \cup left = s.trunks /\ \A v \in T : Addable(v)
      /\ s.mode # "trunk" => /\ s.vlan \in Vlans /\ Addable(s.vlan) /\ s.vlan \notin s.trunks
  BY TrunksMoved, ModesAre DEF Addable
<1>3. s.mode = "access" => left = {}
  BY ModesAre
<1> HIDE DEF T, left
<1>4. ASSUME NEW n \in PortState, s.mode # "access", j = TrunksPortAdd(n, T),
             \A w \in Vlans : w \notin T => /\ n.member[w] = WantedMode(s, w)
                                            /\ n.remembered[w] = WantedMode(s, w),
             s.mode = "trunk" => n.pvid = DefaultPvid,
             s.mode # "native_tagged" => n.untagEnable = TRUE
      PROVE  j.ok /\ Serves(j.port, s)
  <2> DEFINE a == TrunksPortAdd(n, T)
  <2>1. /\ a.ok /\ a.port \in PortState
        /\ \A w \in Vlans :
             /\ a.port.member[w] = IF w \in T THEN "tagged" ELSE n.member[w]
             /\ a.port.remembered[w] = IF w \in T THEN "tagged" ELSE n.remembered[w]
        /\ a.port.pvid = n.pvid /\ a.port.untagEnable = n.untagEnable
        /\ a.port.ingressFilter = TRUE /\ a.port.dropUntagged = FALSE
        /\ a.port.dropTagged = FALSE
    BY <1>2, TrunksAddedWhole
  <2>2. \A w \in T : WantedMode(s, w) = "tagged"
    <3> TAKE w \in T
    <3>1. w \in Vlans /\ w \in s.trunks
      BY <1>2
    <3> QED
      BY <3>1, WantedIs
  <2>3. j = a
    BY <1>4
  <2> HIDE DEF a, j
  <2>4. \A w \in Vlans : /\ a.port.member[w] = WantedMode(s, w)
                         /\ a.port.remembered[w] = WantedMode(s, w)
    BY <1>4, <2>1, <2>2
  <2>5. Serves(a.port, s)
    BY <1>4, <2>1, <2>4 DEF Serves
  <2> QED
    BY <2>1, <2>3, <2>5
<1> DEFINE r == AccessPortAdd(st, s.vlan)
<1>5. ASSUME s.mode \in {"access", "native_untagged"}
      PROVE  /\ r.ok /\ r.port \in PortState
             /\ \A w \in Vlans \ T : /\ r.port.member[w] = WantedMode(s, w)
                                     /\ r.port.remembered[w] = WantedMode(s, w)
             /\ r.port.pvid = s.vlan /\ r.port.untagEnable = TRUE
             /\ r.port.ingressFilter = TRUE /\ r.port.dropUntagged = FALSE
             /\ r.port.dropTagged = TRUE
  <2>1. /\ r.ok /\ r.port \in PortState
        /\ \A w \in Vlans : /\ r.port.member[w] = IF w = s.vlan THEN "untagged" ELSE st.member[w]
                            /\ r.port.remembered[w] = IF w = s.vlan THEN "untagged" ELSE st.remembered[w]
        /\ r.port.pvid = s.vlan /\ r.port.untagEnable = st.untagEnable
        /\ r.port.ingressFilter = TRUE /\ r.port.dropUntagged = FALSE
        /\ r.port.dropTagged = TRUE
    <3>1. st \in PortState /\ s.vlan \in Vlans /\ Addable(s.vlan)
      BY <1>1, <1>2, <1>5
    <3> QED
      BY <3>1, AccessAdded
  <2> HIDE DEF r
  <2>2. ASSUME NEW w \in Vlans \ T
        PROVE  /\ r.port.member[w] = WantedMode(s, w) /\ r.port.remembered[w] = WantedMode(s, w)
    BY <1>1, <1>2, <1>5, <2>1, WantedIs
  <2> QED
    BY <1>1, <2>1, <2>2
<1>6. CASE s.mode = "access"
  <2>1. j = r
    BY <1>6, ModesAre DEF JoinNew
  <2>2. T = {}
    BY <1>2, <1>6, ModesAre
  <2> HIDE DEF r, j
  <2>3. Serves(r.port, s)
    BY <1>5, <1>6, <2>2 DEF Serves
  <2> QED
    BY <1>5, <1>6, <2>1, <2>3 DEF j
<1>7. CASE s.mode = "trunk"
  <2>1. j = TrunksPortAdd(st, T)
    BY <1>7, ModesAre, DoneIs DEF JoinNew, T
  <2>2. ASSUME NEW w \in Vlans, w \notin T
        PROVE  st.member[w] = WantedMode(s, w) /\ st.remembered[w] = WantedMode(s, w)
    BY <1>1, <1>2, <1>7, <2>2, ModesAre, WantedIs
  <2> QED
    BY <1>1, <1>4, <1>7, <2>1, <2>2
<1>8. CASE s.mode = "native_untagged"
  <2>1. j = TrunksPortAdd(r.port, T)
    BY <1>5, <1>8, ModesAre DEF JoinNew, T
  <2> HIDE DEF r
  <2> QED
    BY <1>4, <1>5, <1>8, <2>1
<1>9. CASE s.mode = "native_tagged"
  <2> DEFINE a == TrunksPortAdd(st, {s.vlan})
             g == NativeTaggedAdd(st, s.vlan)
             e == [g EXCEPT !.port.untagEnable = @ /\ ~g.ok]
  <2>1. {s.vlan} \in SUBSET Vlans /\ \A v \in {s.vlan} : Addable(v)
    BY <1>2, <1>9
  <2>2. /\ a.ok /\ a.port \in PortState
        /\ \A w \in Vlans :
             /\ a.port.member[w] = IF w \in {s.vlan} THEN "tagged" ELSE st.member[w]
             /\ a.port.remembered[w] = IF w \in {s.vlan} THEN "tagged" ELSE st.remembered[w]
    BY <1>1, <2>1, TrunksAddedWhole
  <2>3. g.ok /\ g.port = [a.port EXCEPT !.pvid = s.vlan]
    BY <2>2, NativeTaggedIs
  <2>4. e.ok = g.ok /\ e.port = [g.port EXCEPT !.untagEnable = @ /\ ~g.ok]
    BY DisabledIs
  <2>5. j = TrunksPortAdd(e.port, T)
    BY <1>9, <2>3, <2>4, ModesAre DEF JoinNew, T
  <2> HIDE DEF a, g, e
  <2>6. /\ g.port \in PortState /\ g.port.member = a.port.member
        /\ g.port.remembered = a.port.remembered
    BY <1>2, <1>9, <2>2, <2>3 DEF PortState
  <2>7. /\ e.port \in PortState /\ e.port.member = a.port.member
        /\ e.port.remembered = a.port.remembered
    BY <2>4, <2>6 DEF PortState
  <2>8. ASSUME NEW w \in Vlans, w \notin T
        PROVE  e.port.member[w] = WantedMode(s, w) /\ e.port.remembered[w] = WantedMode(s, w)
    BY <1>1, <1>2, <1>9, <2>2, <2>7, <2>8, WantedIs
  <2> QED
    BY <1>4, <1>9, <2>5, <2>7, <2>8
<1> QED
  BY <1>6, <1>7, <1>8, <1>9, ModesAre

\* With the VLAN and the mode as they were, only trunks come and go.
LEMMA SameModeServes ==
  ASSUME refused = {}, ~NativeInTrunks, NEW b, Asked(b), Named(b) \subseteq vlans,
         NEW s, Asked(s), Named(s) \subseteq vlans, ~Changed(b, s), NEW st, Serves(st, b),
         NEW l, l = LeaveOld(b, s, st)
  PROVE  l.ok /\ JoinNew(b, s, l.port).ok /\ Serves(JoinNew(b, s, l.port).port, s)
<1> DEFINE gone == RemovedTrunks(b, s)
           come == AddedTrunks(b, s)
<1>1. st \in PortState /\ b.vlan = s.vlan /\ b.mode = s.mode
  BY DEF Serves, Changed
<1>2. CASE b.mode = "access"
  <2>1. l = Done(st)
    BY <1>1, <1>2, ModesAre DEF LeaveOld
  <2>2. JoinNew(b, s, st) = Done(st)
    BY <1>1, <1>2, ModesAre DEF JoinNew
  <2>3. \A w \in Vlans : WantedMode(b, w) = WantedMode(s, w)
    <3>1. b.trunks = {} /\ s.trunks = {} /\ s.mode = b.mode /\ s.vlan = b.vlan
      BY <1>1, <1>2, ModesAre
    <3> QED
      BY <3>1 DEF WantedMode
  <2>4. Serves(st, s)
    BY <1>1, <2>3 DEF Serves
  <2> QED
    BY <2>1, <2>2, <2>4, DoneIs
<1>3. CASE b.mode # "access"
  <2>1. /\ gone = b.trunks \ s.trunks /\ come = s.trunks \ b.trunks
        /\ gone \in SUBSET Vlans /\ come \in SUBSET Vlans
    BY TrunksMoved, ModesAre
  <2>2. (\A v \in gone : Removable(st, v)) /\ (\A v \in come : Addable(v))
    BY <2>1, ModesAre, WantedIs DEF Serves, Removable, Addable
  <2>3. l = TrunksPortDel(st, gone)
    BY <1>3, ModesAre, DoneIs DEF LeaveOld
  <2> DEFINE d == TrunksPortDel(st, gone)
  <2>4. /\ d.ok /\ d.port \in PortState
        /\ \A w \in Vlans : /\ d.port.member[w] = IF w \in gone THEN "none" ELSE st.member[w]
                            /\ d.port.remembered[w] = IF w \in gone THEN "none" ELSE st.remembered[w]
        /\ d.port.pvid = IF gone = {} THEN st.pvid ELSE DefaultPvid
        /\ d.port.untagEnable = (st.untagEnable \/ gone # {})
    BY <1>1, <2>1, <2>2, TrunksDeletedWhole
  <2>5. l = d /\ l.port \in PortState
    BY <2>3, <2>4
  <2> HIDE DEF d
  <2>6. JoinNew(b, s, l.port) = TrunksPortAdd(l.port, come)
    BY <1>1, <1>3, ModesAre, DoneIs DEF JoinNew
  <2> DEFINE a == TrunksPortAdd(l.port, come)
  <2>7. /\ a.ok /\ a.port \in PortState
        /\ \A w \in Vlans :
             /\ a.port.member[w] = IF w \in come THEN "tagged" ELSE l.port.member[w]
             /\ a.port.remembered[w] = IF w \in come THEN "tagged" ELSE l.port.remembered[w]
        /\ a.port.pvid = l.port.pvid /\ a.port.untagEnable = l.port.untagEnable
        /\ a.port.ingressFilter = TRUE /\ a.port.dropUntagged = FALSE
        /\ a.port.dropTagged = FALSE
    BY <2>1, <2>2, <2>5, TrunksAddedWhole
  <2>8. JoinNew(b, s, l.port) = a
    BY <2>6
  <2> HIDE DEF a, gone, come
  <2>9. ASSUME NEW w \in Vlans
        PROVE  a.port.member[w] = WantedMode(s, w) /\ a.port.remembered[w] = WantedMode(s, w)
    <3>1. CASE w \in come
      <4>1. WantedMode(s, w) = "tagged"
        BY <2>1, <3>1, WantedIs
      <4> QED
        BY <2>7, <3>1, <4>1
    <3>2. CASE w \in gone
      <4>1. WantedMode(s, w) = "none"
        BY <1>1, <2>1, <3>2, WantedIs
      <4> QED
        BY <2>1, <2>4, <2>5, <2>7, <3>2, <4>1
    <3>3. CASE w \notin come /\ w \notin gone
      <4>1. w \in b.trunks <=> w \in s.trunks
        BY <2>1, <3>3
      <4>2. WantedMode(s, w) = WantedMode(b, w)
        BY <1>1, <4>1 DEF WantedMode
      <4> QED
        BY <2>4, <2>5, <2>7, <3>3, <4>2 DEF Serves
    <3> QED
      BY <3>1, <3>2, <3>3
  <2>10. s.mode = "trunk" => a.port.pvid = DefaultPvid
    BY <1>1, <2>4, <2>5, <2>7 DEF Serves
  <2>11. s.mode # "native_tagged" => a.port.untagEnable = TRUE
    BY <1>1, <2>4, <2>5, <2>7 DEF Serves
  <2>12. Serves(a.port, s)
    BY <1>1, <1>3, <2>7, <2>9, <2>10, <2>11 DEF Serves
  <2> QED
    BY <2>4, <2>5, <2>7, <2>8, <2>12
<1> QED
  BY <1>2, <1>3

\* Whatever the settings were and are, __vlan_reconfigure does not fail, and the port
\* serves the new ones.
LEMMA ReconfigureServes ==
  ASSUME refused = {}, ~NativeInTrunks, NEW b, Asked(b), Named(b) \subseteq vlans,
         NEW s, Asked(s), Named(s) \subseteq vlans, NEW st, Serves(st, b),
         NEW l, l = LeaveOld(b, s, st)
  PROVE  l.ok /\ JoinNew(b, s, l.port).ok /\ Serves(JoinNew(b, s, l.port).port, s)
<1>1. CASE Changed(b, s)
  <2>1. l.ok /\ Stripped(l.port, b.trunks \cap s.trunks)
    BY <1>1, LeaveStrips
  <2> QED
    BY <1>1, <2>1, JoinBuilds
<1>2. CASE ~Changed(b, s)
  BY <1>2, SameModeServes
<1> QED
  BY <1>1, <1>2

-----------------------------------------------------------------------------
(* All ports, when nothing is refused *)

\* The inductive invariant of convergence: every VLAN in use exists, linked ports
\* serve their bundles and the others are as new, and LAGs have the listed ports.
Converged ==
  /\ refused = {}
  /\ \A b \in live : /\ Named(bundle[b]) \subseteq vlans
                     /\ \A p \in Range(bundle[b].ports) : Serves(port[p], bundle[b])
  /\ \A p \in Ports : ~HasBundle(p) => port[p] = FreshPort
  /\ LagMembersAreLinked

LEMMA ServesSame ==
  ASSUME NEW r, NEW t, SameSettings(r, t)
  PROVE  /\ Named(r) = Named(t) /\ \A st : Serves(st, r) <=> Serves(st, t)
  BY DEF SameSettings, Named, Serves, WantedMode

LEMMA LiveAsked ==
  ASSUME Lists(live, bundle), NEW b \in live
  PROVE  b \in Bundles /\ Asked(bundle[b])
  BY DEF Lists, BundleState, Asked

LEMMA AllOkFrom ==
  ASSUME NEW seq, NEW res, \A p \in Range(seq) : res[p].ok
  PROVE  AllOk(seq, res)
  BY DEF AllOk, Range

\* A port leaves its bundle without an error and is as new.
LEMMA UnlinkedServes ==
  ASSUME ~NativeInTrunks, Lists(live, bundle), Converged, NEW p \in Ports
  PROVE  Unlinked(p).ok /\ Unlinked(p).port = FreshPort
<1>1. CASE HasBundle(p)
  <2>1. BundleOf(p) \in live /\ p \in Range(bundle[BundleOf(p)].ports)
    BY <1>1 DEF HasBundle, BundleOf
  <2>2. Unlinked(p) = PortDel(bundle[BundleOf(p)], port[p])
    BY <1>1 DEF Unlinked
  <2> QED
    BY <2>1, <2>2, LiveAsked, DelServes DEF Converged
<1>2. CASE ~HasBundle(p)
  BY <1>2, DoneIs DEF Converged, Unlinked
<1> QED
  BY <1>1, <1>2

\* No call of a disciplined bundle_set fails: the ports that leave are as new, those
\* that stay and those that come serve the new settings, and the others are left.
LEMMA SetServes ==
  ASSUME ~NativeInTrunks, Lists(live, bundle), Converged, NEW b \in Bundles,
         NEW s \in Settings, Named(s) \subseteq vlans, NEW slaves \in Slaves(b)
  PROVE  /\ AllOk(Leaving(b, s, slaves), LeaveResults(b))
         /\ AllOk(Staying(b, s, slaves), OldResults(b, s, slaves))
         /\ AllOk(Staying(b, s, slaves), NewResults(b, s, slaves))
         /\ \A p \in Range(Joining(b, s, slaves)) : JoinResults(b, s)[p].ok
         /\ \A p \in Ports :
              LET new == Walked(AfterNew(b, s, slaves), Joining(b, s, slaves),
                                JoinResults(b, s))[p]
              IN  /\ p \in Range(bundle[b].ports) \ Range(slaves) => new = FreshPort
                  /\ p \in Range(slaves) => Serves(new, s)
                  /\ p \notin Range(bundle[b].ports) \cup Range(slaves) => new = port[p]
<1> DEFINE leave == Leaving(b, s, slaves)
           stay == Staying(b, s, slaves)
           join == Joining(b, s, slaves)
           afterLeave == AfterLeave(b, s, slaves)
           afterOld == AfterOld(b, s, slaves)
           afterNew == AfterNew(b, s, slaves)
           old == OldResults(b, s, slaves)
           new == NewResults(b, s, slaves)
           list == Range(bundle[b].ports)
           final == Walked(afterNew, join, JoinResults(b, s))
           t == Target(b, s)
<1>1. /\ leave \in Seq(Ports) /\ stay \in Seq(Ports) /\ join \in Seq(Ports)
      /\ Range(leave) = list \ Range(slaves) /\ Range(stay) = list \cap Range(slaves)
      /\ Range(join) = Range(slaves) \ list
  BY WalksAre
<1>2. Range(leave) \subseteq Ports /\ Range(stay) \subseteq Ports /\ Range(join) \subseteq Ports
  <2> HIDE DEF leave, stay, join
  <2> QED
    BY <1>1, RangeOfSeq
<1>3. b \notin live => list = {}
  BY NothingListed DEF Lists
<1>4. b \in live => /\ Asked(bundle[b]) /\ Named(bundle[b]) \subseteq vlans
                    /\ SameSettings(t, bundle[b])
                    /\ \A p \in list : Serves(port[p], bundle[b])
  BY LiveAsked, TargetIs DEF Converged, SameSettings
<1>5. /\ afterLeave = Walked(port, leave, LeaveResults(b))
      /\ afterOld = Walked(afterLeave, stay, old)
      /\ afterNew = Walked(afterOld, stay, new)
      /\ \A q \in Ports : /\ LeaveResults(b)[q] = PortDel(bundle[b], port[q])
                          /\ old[q] = LeaveOld(t, s, afterLeave[q])
                          /\ new[q] = JoinNew(t, s, afterOld[q])
                          /\ JoinResults(b, s)[q] = PortAdd(Reconfigured(b, s), Unlinked(q).port)
  BY DEF AfterLeave, AfterOld, AfterNew, LeaveResults, OldResults, NewResults, JoinResults
<1>6. /\ Asked(s) /\ Asked(Reconfigured(b, s)) /\ SameSettings(Reconfigured(b, s), s)
      /\ Asked(t) \/ b \notin live
  <2>1. Asked(s)
    BY SettingsAre DEF Asked
  <2>2. t \in BundleState /\ (b \in live => Recorded(t))
    BY TargetIs
  <2>3. SameSettings(Reconfigured(b, s), s)
    BY <2>2 DEF Reconfigured, BundleState, SameSettings
  <2>4. Asked(Reconfigured(b, s))
    BY <2>1, <2>3 DEF SameSettings, Asked, Recorded, IsNative
  <2> QED
    BY <2>1, <2>2, <2>3, <2>4 DEF Asked, BundleState
<1> HIDE DEF leave, stay, join, afterLeave, afterOld, afterNew, old, new, t, list
<1>7. \A q \in Range(leave) : LeaveResults(b)[q].ok /\ LeaveResults(b)[q].port = FreshPort
  <2> TAKE q \in Range(leave)
  <2>1. b \in live /\ q \in Ports /\ q \in list
    BY <1>1, <1>2, <1>3
  <2>2. LeaveResults(b)[q] = PortDel(bundle[b], port[q])
    BY <1>5, <2>1
  <2> QED
    BY <1>4, <2>1, <2>2, DelServes DEF Converged
<1>8. \A q \in Ports : afterLeave[q] = IF q \in Range(leave) THEN FreshPort ELSE port[q]
  <2>1. leave \in Seq(Ports)
    BY <1>1
  <2>2. AllOk(leave, LeaveResults(b))
    BY <1>7, AllOkFrom
  <2>3. afterLeave = Walked(port, leave, LeaveResults(b))
    BY <1>5
  <2>4. ReachedPorts(leave, LeaveResults(b)) = Range(leave)
    BY <2>1, <2>2, ReachedAre
  <2>5. \A q \in Ports : afterLeave[q] = IF q \in Range(leave) THEN LeaveResults(b)[q].port ELSE port[q]
    BY <2>3, <2>4 DEF Walked
  <2> QED
    BY <1>7, <2>5
<1>9. \A q \in Range(stay) : /\ q \in Ports /\ afterLeave[q] = port[q]
                             /\ b \in live /\ Asked(t) /\ Named(t) \subseteq vlans
                             /\ Serves(port[q], t)
  <2> TAKE q \in Range(stay)
  <2>1. b \in live /\ q \in Ports /\ q \in list /\ q \notin Range(leave)
    BY <1>1, <1>2, <1>3
  <2>2. Serves(port[q], bundle[b])
    BY <1>4, <2>1
  <2>3. Serves(port[q], t) /\ Named(t) = Named(bundle[b])
    BY <1>4, <2>1, <2>2, ServesSame
  <2> QED
    BY <1>4, <1>6, <1>8, <2>1, <2>3
<1>10. \A q \in Range(stay) :
         old[q].ok /\ JoinNew(t, s, old[q].port).ok /\ Serves(JoinNew(t, s, old[q].port).port, s)
  <2> TAKE q \in Range(stay)
  <2>1. old[q] = LeaveOld(t, s, port[q])
    BY <1>5, <1>9
  <2> QED
    BY <1>6, <1>9, <2>1, ReconfigureServes DEF Converged
<1>11. \A q \in Ports : afterOld[q] = IF q \in Range(stay) THEN old[q].port ELSE afterLeave[q]
  <2>1. stay \in Seq(Ports)
    BY <1>1
  <2>2. AllOk(stay, old)
    BY <1>10, AllOkFrom
  <2>3. afterOld = Walked(afterLeave, stay, old)
    BY <1>5
  <2>4. ReachedPorts(stay, old) = Range(stay)
    BY <2>1, <2>2, ReachedAre
  <2> QED
    BY <2>3, <2>4 DEF Walked
<1>12. \A q \in Range(stay) : new[q].ok /\ Serves(new[q].port, s)
  <2> TAKE q \in Range(stay)
  <2>1. q \in Ports
    BY <1>2
  <2>2. new[q] = JoinNew(t, s, afterOld[q]) /\ afterOld[q] = old[q].port
    BY <1>5, <1>11, <2>1
  <2> QED
    BY <1>10, <2>2
<1>13. \A q \in Ports : afterNew[q] = IF q \in Range(stay) THEN new[q].port ELSE afterOld[q]
  <2>1. stay \in Seq(Ports)
    BY <1>1
  <2>2. AllOk(stay, new)
    BY <1>12, AllOkFrom
  <2>3. afterNew = Walked(afterOld, stay, new)
    BY <1>5
  <2>4. ReachedPorts(stay, new) = Range(stay)
    BY <2>1, <2>2, ReachedAre
  <2> QED
    BY <2>3, <2>4 DEF Walked
<1>14. \A q \in Range(join) : JoinResults(b, s)[q].ok /\ Serves(JoinResults(b, s)[q].port, s)
  <2> TAKE q \in Range(join)
  <2> DEFINE r == Reconfigured(b, s)
  <2>1. q \in Ports /\ Unlinked(q).port = FreshPort
    BY <1>2, UnlinkedServes
  <2>2. JoinResults(b, s)[q] = PortAdd(r, FreshPort)
    BY <1>5, <2>1
  <2>3. Asked(r) /\ Named(r) \subseteq vlans /\ \A st : Serves(st, r) <=> Serves(st, s)
    BY <1>6, ServesSame
  <2> HIDE DEF r
  <2>4. PortAdd(r, FreshPort).ok /\ Serves(PortAdd(r, FreshPort).port, r)
    BY <2>3, AddServes DEF Converged
  <2> QED
    BY <2>2, <2>3, <2>4
<1>15. \A q \in Ports :
         final[q] = IF q \in Range(join) THEN JoinResults(b, s)[q].port ELSE afterNew[q]
  <2>1. join \in Seq(Ports)
    BY <1>1
  <2>2. AllOk(join, JoinResults(b, s))
    BY <1>14, AllOkFrom
  <2>3. final = Walked(afterNew, join, JoinResults(b, s))
    OBVIOUS
  <2> HIDE DEF final
  <2>4. ReachedPorts(join, JoinResults(b, s)) = Range(join)
    BY <2>1, <2>2, ReachedAre
  <2> QED
    BY <2>3, <2>4 DEF Walked
<1> HIDE DEF final
<1>16. AllOk(leave, LeaveResults(b)) /\ AllOk(stay, old) /\ AllOk(stay, new)
  BY <1>7, <1>10, <1>12, AllOkFrom
<1>17. ASSUME NEW p \in Ports
       PROVE  /\ p \in list \ Range(slaves) => final[p] = FreshPort
              /\ p \in Range(slaves) => Serves(final[p], s)
              /\ p \notin list \cup Range(slaves) => final[p] = port[p]
  BY <1>1, <1>8, <1>11, <1>12, <1>13, <1>14, <1>15
<1> QED
  BY <1>14, <1>16, <1>17 DEF leave, stay, join, afterNew, old, new, final, list

LEMMA ConvergedInit == Init => Converged
<1> SUFFICES ASSUME Init PROVE Converged
  OBVIOUS
<1>1. /\ live = {} /\ refused = {} /\ port = [p \in Ports |-> FreshPort]
      /\ \A b \in Bundles : bundle[b] = FreshBundle({}) /\ hwLag[b] = {}
  BY DEF Init, VlanInit
<1>2. \A b \in Bundles : Range(bundle[b].ports) = {}
  BY <1>1, NothingListed
<1> QED
  BY <1>1, <1>2 DEF Converged, LagMembersAreLinked

LEMMA SetConverges ==
  ASSUME ~NativeInTrunks, Disciplined, BundleInv, Converged, NEW b \in Bundles,
         NEW s \in Settings, NEW slaves \in Slaves(b), BundleSet(b, s, slaves)
  PROVE  Converged'
<1> DEFINE join == Joining(b, s, slaves)
           joined == ReachedPorts(join, JoinResults(b, s))
           rest == AfterLeaving(joined)
           list == Range(bundle[b].ports)
           final == Walked(AfterNew(b, s, slaves), join, JoinResults(b, s))
<1>1. Lists(live, bundle) /\ BundlesInv
  BY DEF BundleInv, BundlesInv
<1>2. Named(s) \subseteq vlans /\ vlans' = vlans /\ refused' = {}
  BY DEF BundleSet, Converged
<1>3. /\ AllOk(Leaving(b, s, slaves), LeaveResults(b))
      /\ AllOk(Staying(b, s, slaves), OldResults(b, s, slaves))
      /\ AllOk(Staying(b, s, slaves), NewResults(b, s, slaves))
      /\ \A p \in Range(join) : JoinResults(b, s)[p].ok
      /\ \A p \in Ports : /\ p \in list \ Range(slaves) => final[p] = FreshPort
                          /\ p \in Range(slaves) => Serves(final[p], s)
                          /\ p \notin list \cup Range(slaves) => final[p] = port[p]
  BY <1>1, <1>2, SetServes
<1>4. SetJoins(b, s, slaves)
  BY <1>3 DEF BundleSet, SetStopsLeaving, SetStopsReconfiguring
<1>5. port' = final
  BY <1>4 DEF SetJoins
<1>6. /\ BundlesInv'
      /\ live' = rest.live \cup {b} /\ SameSettings(bundle'[b], s)
      /\ Range(bundle'[b].ports) = (list \cap Range(slaves)) \cup joined
      /\ \A c \in live' \ {b} :
           /\ c \in live /\ SameSettings(bundle'[c], bundle[c])
           /\ Range(bundle'[c].ports) = Range(bundle[c].ports) \ joined
      /\ \A c \in live : c \notin live' => Range(bundle[c].ports) \subseteq joined
  BY <1>1, <1>4, SetJoinsLists
<1>7. /\ joined = Range(slaves) \ list
      /\ Range(Staying(b, s, slaves)) = list \cap Range(slaves)
      /\ list \subseteq Ports /\ Range(slaves) \subseteq Ports
  <2>1. join \in Seq(Ports) /\ Range(join) = Range(slaves) \ list
        /\ Range(Staying(b, s, slaves)) = list \cap Range(slaves)
    BY <1>1, WalksAre
  <2>2. joined = Range(join)
    <3> HIDE DEF join
    <3> QED
      BY <1>3, <2>1, AllOkFrom, ReachedAre
  <2>3. bundle[b].ports \in Seq(Ports) /\ slaves \in Seq(Ports)
    BY <1>1, SlavesAre DEF Lists, BundleState
  <2> QED
    BY <2>1, <2>2, <2>3, RangeOfSeq
<1>8. hwLag' = [rest.hwLag EXCEPT
                  ![b] = IF b \in Lags
                           THEN (hwLag[b] \cap Range(Staying(b, s, slaves)))
                                  \cup {p \in joined : JoinResults(b, s)[p].ok}
                           ELSE {}]
  BY <1>4 DEF SetJoins
<1>9. rest.hwLag = [c \in Bundles |->
                      IF Emptied(c, joined) THEN {}
                      ELSE hwLag[c] \ {p \in joined \cap Range(bundle[c].ports) : Unlinked(p).ok}]
  BY DEF AfterLeaving
<1>10. \A p \in joined : JoinResults(b, s)[p].ok /\ Unlinked(p).ok
  <2>1. \A p \in joined : p \in Ports
    BY <1>7
  <2>2. \A p \in joined : Unlinked(p).ok
    BY <1>1, <2>1, UnlinkedServes
  <2>3. join \in Seq(Ports)
    BY <1>1, WalksAre
  <2>4. joined \subseteq Range(join)
    <3> HIDE DEF join
    <3> QED
      BY <2>3, ReachedAre
  <2> QED
    BY <1>3, <2>2, <2>4
<1> HIDE DEF join, joined, rest, list, final
<1>11. ASSUME NEW c \in live, c # b PROVE Range(bundle[c].ports) \cap list = {}
  <2>1. CASE b \in live
    BY <1>1, <1>11, <2>1 DEF Lists, list
  <2>2. CASE b \notin live
    BY <1>1, <2>2, NothingListed DEF Lists, list
  <2> QED
    BY <2>1, <2>2
<1>12. ASSUME NEW c \in live'
       PROVE  /\ Named(bundle'[c]) \subseteq vlans'
              /\ \A p \in Range(bundle'[c].ports) : Serves(port'[p], bundle'[c])
  <2>1. CASE c = b
    <3>1. \A p \in Range(bundle'[b].ports) : p \in Ports /\ p \in Range(slaves)
      BY <1>6, <1>7
    <3>2. \A p \in Range(bundle'[b].ports) : Serves(port'[p], s)
      BY <1>3, <1>5, <3>1
    <3> QED
      BY <1>2, <1>6, <2>1, <3>2, ServesSame
  <2>2. CASE c # b
    <3>1. /\ c \in live /\ SameSettings(bundle'[c], bundle[c])
          /\ Range(bundle'[c].ports) = Range(bundle[c].ports) \ joined
      BY <1>6, <2>2
    <3>2. Range(bundle[c].ports) \subseteq Ports
      <4>1. bundle[c].ports \in Seq(Ports)
        BY <1>1, <3>1 DEF Lists, BundleState
      <4> QED
        BY <4>1, RangeOfSeq
    <3>3. \A p \in Range(bundle'[c].ports) : port'[p] = port[p]
      BY <1>3, <1>5, <1>7, <1>11, <2>2, <3>1, <3>2
    <3>4. Named(bundle[c]) \subseteq vlans
          /\ \A p \in Range(bundle[c].ports) : Serves(port[p], bundle[c])
      BY <3>1 DEF Converged
    <3> QED
      BY <1>2, <3>1, <3>3, <3>4, ServesSame
  <2> QED
    BY <2>1, <2>2
<1>13. ASSUME NEW p \in Ports, ~HasBundle(p)' PROVE port'[p] = FreshPort
  <2>1. \A c \in live' : p \notin Range(bundle'[c].ports)
    BY <1>13 DEF HasBundle
  <2>2. b \in live' /\ p \notin Range(slaves)
    BY <1>6, <1>7, <2>1
  <2>3. CASE p \in list
    BY <1>3, <1>5, <2>2, <2>3
  <2>4. CASE p \notin list
    <3>1. ASSUME NEW c \in live, p \in Range(bundle[c].ports) PROVE FALSE
      <4>1. c # b /\ p \notin joined
        BY <1>7, <2>2, <2>4, <3>1 DEF list
      <4>2. c \in live'
        BY <1>6, <3>1, <4>1
      <4> QED
        BY <1>6, <2>1, <3>1, <4>1, <4>2
    <3>2. port[p] = FreshPort
      BY <3>1 DEF HasBundle, Converged
    <3> QED
      BY <1>3, <1>5, <2>2, <2>4, <3>2
  <2> QED
    BY <2>3, <2>4
<1>14. ASSUME NEW c \in Bundles
       PROVE  hwLag'[c] = IF c \in Lags THEN Range(bundle'[c].ports) ELSE {}
  <2>1. hwLag[c] = IF c \in Lags THEN Range(bundle[c].ports) ELSE {}
    BY DEF Converged, LagMembersAreLinked
  <2>2. CASE c = b
    <3>1. hwLag'[b] = IF b \in Lags THEN (hwLag[b] \cap Range(Staying(b, s, slaves))) \cup joined
                      ELSE {}
      BY <1>8, <1>9, <1>10
    <3>2. b \in Lags => hwLag[b] = list
      BY <2>1, <2>2 DEF list
    <3>3. hwLag'[b] = IF b \in Lags THEN (list \cap Range(slaves)) \cup joined ELSE {}
      BY <1>7, <3>1, <3>2
    <3> QED
      BY <1>6, <2>2, <3>3
  <2>3. CASE c # b
    <3>1. hwLag'[c] = IF Emptied(c, joined) THEN {}
                      ELSE hwLag[c] \ (joined \cap Range(bundle[c].ports))
      BY <1>8, <1>9, <1>10, <2>3
    <3>2. Range(bundle'[c].ports) = Range(bundle[c].ports) \ joined
      <4>1. CASE c \in live'
        BY <1>6, <2>3, <4>1
      <4>2. CASE c \notin live'
        <5>1. bundle'[c].ports = <<>>
          BY <1>6, <4>2 DEF BundlesInv, Lists
        <5>2. c \in live => Range(bundle[c].ports) \subseteq joined
          BY <1>6, <4>2
        <5>3. c \notin live => bundle[c].ports = <<>>
          BY <1>1 DEF Lists
        <5> QED
          BY <5>1, <5>2, <5>3, NothingListed
      <4> QED
        BY <4>1, <4>2
    <3>3. Emptied(c, joined) => Range(bundle[c].ports) \subseteq joined
      BY DEF Emptied
    <3> QED
      BY <2>1, <3>1, <3>2, <3>3
  <2> QED
    BY <2>2, <2>3
<1> QED
  BY <1>2, <1>12, <1>13, <1>14 DEF Converged, LagMembersAreLinked

LEMMA DestroyConverges ==
  ASSUME ~NativeInTrunks, BundleInv, Converged, NEW b \in Bundles, BundleDestroy(b)
  PROVE  Converged'
<1>1. Lists(live, bundle) /\ BundlesInv
  BY DEF BundleInv, BundlesInv
<1>2. BundlesInv' /\ live' = live \ {b} /\ \A c \in live' : bundle'[c] = bundle[c]
  BY <1>1, BundleDestroyLists
<1>3. /\ refused' = {} /\ vlans' = vlans
      /\ \A p \in Ports : port'[p] = IF p \in Range(bundle[b].ports) THEN FreshPort ELSE port[p]
  BY <1>1, UnlinkedServes DEF BundleDestroy, Converged
<1>4. ASSUME NEW c \in live'
      PROVE  /\ Named(bundle'[c]) \subseteq vlans'
             /\ \A p \in Range(bundle'[c].ports) : Serves(port'[p], bundle'[c])
  <2>1. c \in live /\ bundle'[c] = bundle[c] /\ b \in live /\ c # b
    BY <1>2, <1>4 DEF BundleDestroy
  <2>2. Range(bundle[c].ports) \cap Range(bundle[b].ports) = {}
    BY <1>1, <2>1 DEF Lists
  <2>3. Range(bundle[c].ports) \subseteq Ports
    <3>1. bundle[c].ports \in Seq(Ports)
      BY <1>1, <2>1 DEF Lists, BundleState
    <3> QED
      BY <3>1, RangeOfSeq
  <2>4. \A p \in Range(bundle[c].ports) : port'[p] = port[p]
    BY <1>3, <2>2, <2>3
  <2> QED
    BY <1>3, <2>1, <2>4 DEF Converged
<1>5. ASSUME NEW p \in Ports, ~HasBundle(p)' PROVE port'[p] = FreshPort
  <2>1. CASE p \in Range(bundle[b].ports)
    BY <1>3, <2>1
  <2>2. CASE p \notin Range(bundle[b].ports)
    <3>1. ~HasBundle(p)
      BY <1>2, <1>5, <2>2 DEF HasBundle
    <3> QED
      BY <1>3, <2>2, <3>1 DEF Converged
  <2> QED
    BY <2>1, <2>2
<1>6. ASSUME NEW c \in Bundles
      PROVE  hwLag'[c] = IF c \in Lags THEN Range(bundle'[c].ports) ELSE {}
  <2>1. hwLag[c] = IF c \in Lags THEN Range(bundle[c].ports) ELSE {}
    BY DEF Converged, LagMembersAreLinked
  <2>2. bundle'[c].ports = IF c = b THEN <<>> ELSE bundle[c].ports
    BY <1>1, NothingListed DEF BundleDestroy, Lists
  <2>3. hwLag'[c] = IF c = b THEN {} ELSE hwLag[c]
    BY DEF BundleDestroy, BundleInv, BundlesInv
  <2> QED
    BY <2>1, <2>2, <2>3, NothingListed
<1> QED
  BY <1>3, <1>4, <1>5, <1>6 DEF Converged, LagMembersAreLinked

LEMMA RemoveConverges ==
  ASSUME ~NativeInTrunks, BundleInv, Converged, NEW q \in Ports, BundleRemove(q)
  PROVE  Converged'
<1>1. Lists(live, bundle) /\ BundlesInv
  BY DEF BundleInv, BundlesInv
<1>2. /\ BundlesInv' /\ live' \subseteq live
      /\ \A c \in live' : /\ SameSettings(bundle'[c], bundle[c])
                          /\ Range(bundle'[c].ports) = Range(bundle[c].ports) \ {q}
      /\ \A c \in live : c \notin live' => Range(bundle[c].ports) \subseteq {q}
  BY <1>1, BundleRemoveLists
<1>3. Unlinked(q).ok /\ Unlinked(q).port = FreshPort
  BY <1>1, UnlinkedServes
<1>4. /\ refused' = {} /\ vlans' = vlans
      /\ \A p \in Ports : port'[p] = IF p = q THEN FreshPort ELSE port[p]
  BY <1>3 DEF BundleRemove, Converged, BundleInv, VlanInv
<1>5. ASSUME NEW c \in live'
      PROVE  /\ Named(bundle'[c]) \subseteq vlans'
             /\ \A p \in Range(bundle'[c].ports) : Serves(port'[p], bundle'[c])
  <2>1. c \in live /\ SameSettings(bundle'[c], bundle[c])
    BY <1>2
  <2>2. Range(bundle[c].ports) \subseteq Ports
    <3>1. bundle[c].ports \in Seq(Ports)
      BY <1>1, <2>1 DEF Lists, BundleState
    <3> QED
      BY <3>1, RangeOfSeq
  <2>3. \A p \in Range(bundle'[c].ports) : p \in Range(bundle[c].ports) /\ port'[p] = port[p]
    BY <1>2, <1>4, <2>2
  <2>4. Named(bundle[c]) \subseteq vlans
        /\ \A p \in Range(bundle[c].ports) : Serves(port[p], bundle[c])
    BY <2>1 DEF Converged
  <2> QED
    BY <1>4, <2>1, <2>3, <2>4, ServesSame
<1>6. ASSUME NEW p \in Ports, ~HasBundle(p)' PROVE port'[p] = FreshPort
  <2>1. CASE p = q
    BY <1>4, <2>1
  <2>2. CASE p # q
    <3>1. \A c \in live' : p \notin Range(bundle'[c].ports)
      BY <1>6 DEF HasBundle
    <3>2. ASSUME NEW c \in live, p \in Range(bundle[c].ports) PROVE FALSE
      BY <1>2, <2>2, <3>1, <3>2
    <3>3. port[p] = FreshPort
      BY <3>2 DEF HasBundle, Converged
    <3> QED
      BY <1>4, <2>2, <3>3
  <2> QED
    BY <2>1, <2>2
<1>7. ASSUME NEW c \in Bundles
      PROVE  hwLag'[c] = IF c \in Lags THEN Range(bundle'[c].ports) ELSE {}
  <2>1. hwLag[c] = IF c \in Lags THEN Range(bundle[c].ports) ELSE {}
    BY DEF Converged, LagMembersAreLinked
  <2> DEFINE Q == {q}
  <2>2. hwLag' = AfterLeaving(Q).hwLag
    BY DEF BundleRemove
  <2>3. \A p \in Q : Unlinked(p).ok
    BY <1>3
  <2> HIDE DEF Q
  <2>4. hwLag'[c] = IF Emptied(c, Q) THEN {} ELSE hwLag[c] \ (Q \cap Range(bundle[c].ports))
    BY <2>2, <2>3 DEF AfterLeaving
  <2>5. Range(bundle'[c].ports) = Range(bundle[c].ports) \ Q
    <3>1. CASE c \in live'
      BY <1>2, <3>1 DEF Q
    <3>2. CASE c \notin live'
      <4>1. bundle'[c].ports = <<>>
        BY <1>2, <3>2 DEF BundlesInv, Lists
      <4>2. c \in live => Range(bundle[c].ports) \subseteq Q
        BY <1>2, <3>2 DEF Q
      <4>3. c \notin live => bundle[c].ports = <<>>
        BY <1>1 DEF Lists
      <4> QED
        BY <4>1, <4>2, <4>3, NothingListed
    <3> QED
      BY <3>1, <3>2
  <2>6. Emptied(c, Q) => Range(bundle[c].ports) \subseteq Q
    BY DEF Emptied
  <2> QED
    BY <2>1, <2>4, <2>5, <2>6
<1> QED
  BY <1>4, <1>5, <1>6, <1>7 DEF Converged, LagMembersAreLinked

\* A VLAN that comes finds on every port what it has there already,
LEMMA ReplayedServes ==
  ASSUME ~NativeInTrunks, NEW v \in Vlans
  PROVE  /\ Replayed(FreshPort, v) = FreshPort
         /\ \A st, r : Asked(r) /\ Serves(st, r) => Serves(Replayed(st, v), r)
<1>1. Replayed(FreshPort, v) = FreshPort
  BY DEF Replayed, FreshPort
<1>2. ASSUME NEW st, NEW r, Asked(r), Serves(st, r) PROVE Serves(Replayed(st, v), r)
  <2>1. CASE st.remembered[v] = "none"
    BY <1>2, <2>1 DEF Replayed
  <2>2. CASE st.remembered[v] # "none"
    <3> DEFINE new == Replayed(st, v)
    <3>1. /\ new.remembered = st.remembered
          /\ \A w \in Vlans : new.member[w] = IF w = v THEN st.remembered[v] ELSE st.member[w]
          /\ new.pvid = IF st.remembered[v] = "untagged" THEN v ELSE st.pvid
          /\ new.untagEnable = st.untagEnable /\ new.ingressFilter = st.ingressFilter
          /\ new.dropUntagged = st.dropUntagged /\ new.dropTagged = st.dropTagged
          /\ new \in PortState
      BY <1>2, <2>2 DEF Replayed, Serves, PortState
    <3>2. st.remembered[v] = "untagged" => v = r.vlan /\ r.mode # "trunk"
      BY <1>2, ModesAre, WantedIs DEF Serves
    <3> HIDE DEF new
    <3>3. Serves(new, r)
      BY <1>2, <3>1, <3>2 DEF Serves
    <3> QED
      BY <3>3 DEF new
  <2> QED
    BY <2>1, <2>2
<1> QED
  BY <1>1, <1>2

\* and one that no settings name takes nothing with it.
LEMMA DestroyedServes ==
  ASSUME ~NativeInTrunks, NEW v \in Vlans, NEW st, NEW new, new = [st EXCEPT !.member[v] = "none"]
  PROVE  /\ st = FreshPort => new = FreshPort
         /\ \A r : Asked(r) /\ v \notin Named(r) /\ Serves(st, r) => Serves(new, r)
<1>1. ASSUME st \in PortState
      PROVE  /\ new.remembered = st.remembered
             /\ \A w \in Vlans : new.member[w] = IF w = v THEN "none" ELSE st.member[w]
             /\ new.pvid = st.pvid
             /\ new.untagEnable = st.untagEnable /\ new.ingressFilter = st.ingressFilter
             /\ new.dropUntagged = st.dropUntagged /\ new.dropTagged = st.dropTagged
             /\ new \in PortState
  BY <1>1 DEF PortState, TagMode
<1>2. ASSUME st = FreshPort PROVE new = FreshPort
  <2>1. st \in PortState
    BY <1>2, FreshCoherent
  <2>2. /\ \A w \in Vlans : st.member[w] = "none" /\ st.remembered[w] = "none"
        /\ st.pvid = DefaultPvid /\ st.untagEnable = TRUE /\ st.ingressFilter = FALSE
        /\ st.dropUntagged = FALSE /\ st.dropTagged = FALSE
    BY <1>2 DEF FreshPort
  <2>3. \A w \in Vlans : new.member[w] = "none" /\ new.remembered[w] = "none"
    BY <1>1, <2>1, <2>2
  <2>4. /\ new \in PortState /\ new.pvid = DefaultPvid /\ new.untagEnable = TRUE
        /\ new.ingressFilter = FALSE /\ new.dropUntagged = FALSE /\ new.dropTagged = FALSE
    BY <1>1, <2>1, <2>2
  <2> QED
    BY <2>3, <2>4, IsFresh
<1>3. ASSUME NEW r, Asked(r), v \notin Named(r), Serves(st, r) PROVE Serves(new, r)
  <2>1. WantedMode(r, v) = "none"
    BY <1>3, WantedIs DEF Named
  <2> QED
    BY <1>1, <1>3, <2>1 DEF Serves
<1> QED
  BY <1>2, <1>3

LEMMA VlanConverges ==
  ASSUME ~NativeInTrunks, Disciplined, BundleInv, Converged, VlanStep
  PROVE  Converged'
<1>1. Lists(live, bundle) /\ UNCHANGED <<live, bundle, hwLag>>
  BY DEF BundleInv, BundlesInv, VlanStep, bundleVars
<1>2. \A b \in live : Asked(bundle[b]) /\ Range(bundle[b].ports) \subseteq Ports
  <2> TAKE b \in live
  <2>1. bundle[b].ports \in Seq(Ports)
    BY <1>1 DEF Lists, BundleState
  <2> QED
    BY <1>1, <2>1, LiveAsked, RangeOfSeq
<1>3. ASSUME NEW v \in Vlans, VlanCreate(v) \/ VlanIntfUpdate(v)
      PROVE  /\ refused' = {} /\ vlans \subseteq vlans'
             /\ \A p \in Ports : port'[p] = Replayed(port[p], v)
  BY <1>3 DEF VlanCreate, VlanIntfUpdate, Converged
<1>4. ASSUME NEW v \in Vlans, VlanCreate(v) \/ VlanIntfUpdate(v) PROVE Converged'
  <2>1. ASSUME NEW b \in live
        PROVE  /\ Named(bundle[b]) \subseteq vlans'
               /\ \A p \in Range(bundle[b].ports) : Serves(port'[p], bundle[b])
    BY <1>2, <1>3, <1>4, ReplayedServes DEF Converged
  <2>2. \A p \in Ports : ~HasBundle(p) => port'[p] = FreshPort
    BY <1>3, <1>4, ReplayedServes DEF Converged
  <2> QED
    BY <1>1, <1>3, <1>4, <2>1, <2>2 DEF Converged, HasBundle, LagMembersAreLinked
<1>5. ASSUME NEW v \in Vlans, VlanDestroy(v), v \notin InUse PROVE Converged'
  <2>1. /\ refused' = {} /\ vlans' = vlans \ {v}
        /\ \A p \in Ports : port'[p] = [port[p] EXCEPT !.member[v] = "none"]
    BY <1>5 DEF VlanDestroy, Converged
  <2>2. ASSUME NEW b \in live
        PROVE  /\ Named(bundle[b]) \subseteq vlans'
               /\ \A p \in Range(bundle[b].ports) : Serves(port'[p], bundle[b])
    <3>1. v \notin Named(bundle[b])
      BY <1>5 DEF InUse
    <3>2. ASSUME NEW p \in Range(bundle[b].ports) PROVE Serves(port'[p], bundle[b])
      <4>1. port'[p] = [port[p] EXCEPT !.member[v] = "none"]
        BY <1>2, <2>1
      <4> QED
        BY <1>2, <3>1, <4>1, DestroyedServes DEF Converged
    <3> QED
      BY <2>1, <3>1, <3>2 DEF Converged
  <2>3. \A p \in Ports : ~HasBundle(p) => port'[p] = FreshPort
    <3> TAKE p \in Ports
    <3>1. port'[p] = [port[p] EXCEPT !.member[v] = "none"]
      BY <2>1
    <3> QED
      BY <3>1, DestroyedServes DEF Converged
  <2> QED
    BY <1>1, <2>1, <2>2, <2>3 DEF Converged, HasBundle, LagMembersAreLinked
<1> QED
  BY <1>4, <1>5 DEF VlanStep

LEMMA ConvergedNext ==
  ASSUME ~NativeInTrunks, ~MayRefuse, Disciplined
  PROVE  BundleInv /\ Converged /\ [Next]_vars => Converged'
<1> SUFFICES ASSUME BundleInv, Converged, [Next]_vars PROVE Converged'
  OBVIOUS
<1>1. ASSUME NEW b \in Bundles, NEW s \in Settings, NEW slaves \in Slaves(b),
             BundleSet(b, s, slaves)
      PROVE  Converged'
  BY <1>1, SetConverges
<1>2. ASSUME NEW b \in Bundles, BundleDestroy(b) PROVE Converged'
  BY <1>2, DestroyConverges
<1>3. ASSUME NEW p \in Ports, BundleRemove(p) PROVE Converged'
  BY <1>3, RemoveConverges
<1>4. CASE VlanStep
  BY <1>4, VlanConverges
<1>5. CASE SaiRefuses
  BY <1>5 DEF SaiRefuses
<1>6. CASE UNCHANGED vars
  BY <1>6 DEF vars, vlanVars, bundleVars, Converged, HasBundle, LagMembersAreLinked
<1> QED
  BY <1>1, <1>2, <1>3, <1>4, <1>5, <1>6 DEF Next

\* For any number of ports, VLANs and bundles, and whether or not SAI minds the
\* removal of a port that is no member: if the client uses VLANs only while they
\* exist, never lists a native VLAN among the trunks, and SAI refuses nothing, then
\* every linked port is in hardware what its bundle has recorded, by whatever
\* settings, moves between bundles and list changes it got there.
THEOREM LinkedPortsConvergeHolds ==
  ASSUME ~NativeInTrunks, ~MayRefuse, Disciplined
  PROVE  Spec => []LinkedPortsConverge
<1>1. BundleInv /\ Converged => LinkedPortsConverge
  <2> SUFFICES ASSUME BundleInv, Converged PROVE LinkedPortsConverge
    OBVIOUS
  <2>1. PvidOfAccessAndTrunk
    BY DEF Converged, Serves, PvidOfAccessAndTrunk
  <2>2. ASSUME NEW b \in live, NEW p \in Range(bundle[b].ports)
        PROVE  /\ \A v \in vlans : port[p].member[v] = WantedMode(bundle[b], v)
               /\ port[p].ingressFilter /\ ~port[p].dropUntagged
               /\ port[p].dropTagged = (bundle[b].mode = "access")
    BY <2>2 DEF Converged, Serves, BundleInv, VlanInv
  <2> QED
    BY <2>1, <2>2 DEF LinkedPortsConverge
<1> QED
  BY <1>1, BundleInvInit, BundleInvNext, ConvergedInit, ConvergedNext, PTL DEF Spec

\* Under the same assumptions a port that no bundle lists is as if none had ever
\* listed it: nothing of a bundle it was in is left in the hardware, or in
\* all_vlan_member for a VLAN that comes later.
THEOREM UnlinkedPortsAreFreshHolds ==
  ASSUME ~NativeInTrunks, ~MayRefuse, Disciplined
  PROVE  Spec => []UnlinkedPortsAreFresh
<1>1. Converged => UnlinkedPortsAreFresh
  BY DEF Converged, UnlinkedPortsAreFresh
<1> QED
  BY <1>1, BundleInvInit, BundleInvNext, ConvergedInit, ConvergedNext, PTL DEF Spec

\* And the members of a LAG in hardware are the ports its bundle lists.
THEOREM ListsAndLagsAgreeHolds ==
  ASSUME ~NativeInTrunks, ~MayRefuse, Disciplined
  PROVE  Spec => []ListsAndLagsAgree
<1>1. BundleInv /\ Converged => ListsAndLagsAgree
  BY DEF BundleInv, BundlesInv, Lists, Converged, OneBundlePerPort, ListsAndLagsAgree
<1> QED
  BY <1>1, BundleInvInit, BundleInvNext, ConvergedInit, ConvergedNext, PTL DEF Spec
=============================================================================
