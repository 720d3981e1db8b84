------------------------------ MODULE SaiRoute ------------------------------
(***************************************************************************)
(* Routes, next hops and neighbours (src/src/sai-route.c,                  *)
(* src/src/sai-neighbor.c, and the calls the provider makes of them): the  *)
(* table of routes, the reference counts of the next hops that routes and  *)
(* neighbours share, and the objects of SAI behind them.                   *)
(*                                                                         *)
(* Calls come from the main thread, one at a time; a call is one action.   *)
(* SAI has one next hop object for an address, named by the address.  It   *)
(* refuses to create what exists, to point a route or a group at what does *)
(* not, and to remove an object in use; Refusals says what else it may     *)
(* refuse to create.  A status nobody looks at changes nothing.            *)
(*                                                                         *)
(* A handle the code leaves uninitialized is any value.  Next hops of one  *)
(* call are distinct, and fewer than SAI_NEXT_HOP_MAX: with more,          *)
(* __route_remote_add does nothing.                                        *)
(***************************************************************************)
EXTENDS Naturals, FiniteSets

CONSTANTS
  Prefixes,   \* prefixes of routes
  Addresses,  \* own addresses of the switch, other prefixes
  NextHops,   \* IP addresses of next hops, that is of neighbours
  Groups,     \* SAI's handles of next hop groups
  Cpu,        \* the target of a route that traps
  NoObject,   \* a handle of nothing
  Macs,       \* MAC addresses of neighbours
  Refusals,   \* what SAI may refuse to create during one call
  MaxRef      \* bound on reference counts

ASSUME DisjointAssumption ==
  /\ Addresses \cap Prefixes = {}
  /\ NextHops \cap Groups = {}
  /\ {Cpu, NoObject} \cap (NextHops \cup Groups) = {} /\ Cpu # NoObject
  /\ {"none", "empty"} \cap Macs = {}
ASSUME BoundAssumption == MaxRef \in Nat

\* Addresses and prefixes have a fixed number of bits.
ASSUME FiniteAssumption == IsFiniteSet(Prefixes) /\ IsFiniteSet(NextHops)

\* Next hops, a group, a route or neighbour.
ASSUME RefusalsAssumption ==
  Refusals \subseteq [hops : SUBSET NextHops, group : BOOLEAN, entry : BOOLEAN]

VARIABLES
  nexthop,   \* all_nexthop: the reference count of each next hop it has
  route,     \* all_route: a function on the prefixes it has
  neighbor,  \* neighbors of the bundle: the MAC of each IP address
  sai,       \* the objects of SAI
  clean,     \* history: nothing was refused, and calls named the right next hops
  leaked     \* history: next hops and groups whose last route went with its hops

vars == <<nexthop, route, neighbor, sai, clean, leaked>>

\* struct sai_ops_route_s; malloc leaves rstate and nh_ecmp "unset".
Route == [hops : SUBSET NextHops, refer : Nat, rstate : {"ecmp", "non_ecmp", "unset"},
          group : Groups \cup {NoObject}]
FreshRoute == [hops |-> {}, refer |-> 0, rstate |-> "unset", group |-> NoObject]

Target == NextHops \cup Groups \cup {Cpu}

With(f, x, y) == [z \in DOMAIN f \cup {x} |-> IF z = x THEN y ELSE f[z]]
Without(f, x) == [z \in DOMAIN f \ {x} |-> f[z]]

-----------------------------------------------------------------------------
(* SAI *)

IsObject(s, t) == t \in s.hops \cup DOMAIN s.groups

InUse(s, x) == \/ \E p \in DOMAIN s.routes : s.routes[p] = x
               \/ \E g \in DOMAIN s.groups : x \in s.groups[g]

Creatable(s, p, t) == p \notin DOMAIN s.routes /\ (t = Cpu \/ IsObject(s, t))

RouteCreated(s, p, t) ==
  IF Creatable(s, p, t) THEN [s EXCEPT !.routes = With(@, p, t)] ELSE s

RouteRemoved(s, p) == [s EXCEPT !.routes = Without(@, p)]

\* Faulty variant of RouteRetargeted: the attribute is not set.
RouteStays(s, p, t) == s

\* ops_sai_routing_nexthop_id_update
RouteRetargeted(s, p, t) ==
  IF p \in DOMAIN s.routes /\ IsObject(s, t) THEN [s EXCEPT !.routes[p] = t] ELSE s

\* ops_sai_routing_nexthop_remove, ops_sai_routing_nh_group_del
HopsRemoved(s, H) == [s EXCEPT !.hops = {n \in @ : n \in H => InUse(s, n)}]
GroupRemoved(s, g) == IF InUse(s, g) THEN s ELSE [s EXCEPT !.groups = Without(@, g)]

\* ops_sai_routing_nhg_add_member, ops_sai_routing_nhg_del_member
MembersAdded(s, g, H) ==
  IF g \in DOMAIN s.groups THEN [s EXCEPT !.groups[g] = @ \cup (H \cap s.hops)] ELSE s
MembersRemoved(s, g, H) ==
  IF g \in DOMAIN s.groups THEN [s EXCEPT !.groups[g] = @ \ H] ELSE s

-----------------------------------------------------------------------------
(* Reference counts *)

\* The next hops of H that have no entry and that SAI creates an object for.
Made(H, bad) == H \ (DOMAIN nexthop \cup sai.hops \cup bad.hops)
WithHops(H)  == [sai EXCEPT !.hops = @ \cup H]

\* The next hops of H that can be referred to.
Resolved(H, bad) == (H \cap DOMAIN nexthop) \cup Made(H, bad)

\* Faulty variant of Referred: an entry that is there is not counted up.
ReferredOnce(H) ==
  [n \in DOMAIN nexthop \cup H |-> IF n \notin DOMAIN nexthop THEN 1 ELSE nexthop[n]]

\* nexthop_hmap_add for each of H.
Referred(H) ==
  [n \in DOMAIN nexthop \cup H |->
     IF n \notin DOMAIN nexthop THEN 1
     ELSE IF n \in H THEN nexthop[n] + 1 ELSE nexthop[n]]

\* ops_sai_route_delete_nexthop for each of H, and the entries that go with it.
Freed(H) == {n \in H \cap DOMAIN nexthop : nexthop[n] <= 1}

\* Faulty variant of Released: an entry nobody refers to stays.
ReleasedNeverFrees(H) ==
  [n \in DOMAIN nexthop |-> IF n \in H THEN nexthop[n] - 1 ELSE nexthop[n]]

Released(H) ==
  [n \in DOMAIN nexthop \ Freed(H) |-> IF n \in H THEN nexthop[n] - 1 ELSE nexthop[n]]

-----------------------------------------------------------------------------
(* The table of routes *)

\* What the code reads of rstate and nh_ecmp.
IsEcmp(e)   == IF e.rstate = "unset" THEN BOOLEAN ELSE {e.rstate = "ecmp"}
GroupOf(e)  == IF e.rstate = "unset" THEN Groups \cup {NoObject} ELSE {e.group}

\* The end of __sai_route_remote_action.
Settled(e) == IF Cardinality(e.hops) > 1 THEN [e EXCEPT !.rstate = "ecmp"]
              ELSE [e EXCEPT !.rstate = "non_ecmp", !.group = NoObject]

\* ops_sai_routing_nh_group_add for the next hops H, with the entries db: the
\* handle is a new group's, or uninitialized.
GroupAdded(s, H, db, bad) ==
  LET free == Groups \ DOMAIN s.groups
  IN  IF ~bad.group /\ H \subseteq DOMAIN db /\ free # {}
        THEN {[ok |-> TRUE, sai |-> [s EXCEPT !.groups = With(@, g, H)], group |-> g] : g \in free}
        ELSE {[ok |-> FALSE, sai |-> s, group |-> g] : g \in Groups \cup {NoObject}}

\* create_route for the target t, at the end of adding the first next hops.
Programmed(s, p, t, bad) == IF bad.entry THEN s ELSE RouteCreated(s, p, t)

\* The entry before its first next hops: none, or that of a local route.
Before(p) == IF p \in DOMAIN route THEN route[p] ELSE FreshRoute

\* The only next hop cannot be created: the call returns at once.
AddFails(p, H, bad) ==
  /\ Cardinality(H) = 1
  /\ Resolved(H, bad) = {}
  /\ route' = With(route, p, [Before(p) EXCEPT !.hops = H])
  /\ clean' = FALSE
  /\ UNCHANGED <<nexthop, sai>>

AddSingle(p, H, bad) ==
  \E n \in Resolved(H, bad) :
    /\ H = {n}
    /\ nexthop' = Referred(H)
    /\ sai' = Programmed(WithHops(Made(H, bad)), p, n, bad)
    /\ route' = With(route, p, Settled([Before(p) EXCEPT !.hops = H]))
    /\ clean' = (clean /\ p \in DOMAIN sai'.routes \ DOMAIN sai.routes)

AddGroup(p, H, bad) ==
  /\ Cardinality(H) > 1
  /\ nexthop' = Referred(Resolved(H, bad))
  /\ \E r \in GroupAdded(WithHops(Made(H, bad)), H, nexthop', bad) :
       /\ sai' = Programmed(r.sai, p, r.group, bad)
       /\ route' = With(route, p, Settled([Before(p) EXCEPT !.hops = H, !.group = r.group]))
       /\ clean' = (clean /\ r.ok /\ p \in DOMAIN sai'.routes \ DOMAIN sai.routes)

\* A new route, or the first next hops of a local one.
RemoteAddFirst(p, H) ==
  /\ Before(p).hops = {}
  /\ p \in DOMAIN route => route[p].refer > 0
  /\ \E bad \in Refusals : AddFails(p, H, bad) \/ AddSingle(p, H, bad) \/ AddGroup(p, H, bad)
  /\ UNCHANGED <<neighbor, leaked>>

\* "update is currently resolved on unresolved": one of H is there already, and
\* nothing is done for the others.
AddKnown(p, H) ==
  /\ H \cap route[p].hops # {}
  /\ route' = [route EXCEPT ![p] = Settled([route[p] EXCEPT !.hops = @ \cup H])]
  /\ clean' = FALSE
  /\ UNCHANGED <<nexthop, sai>>

\* "update to ecmp": every next hop of the route is looked at, and created if it
\* has no entry; those of H are referred to.
AddToEcmp(p, H, bad) ==
  LET e   == route[p]
      all == e.hops \cup H
      s   == WithHops(Made(all, bad))
  IN  /\ H \cap e.hops = {}
      /\ nexthop' = Referred(Resolved(H, bad))
      /\ \E ecmp \in IsEcmp(e) :
           \/ /\ ~ecmp
              /\ \E r \in GroupAdded(s, all, nexthop', bad) :
                   /\ sai' = RouteRetargeted(r.sai, p, r.group)
                   /\ route' = [route EXCEPT ![p] = Settled([@ EXCEPT !.hops = all, !.group = r.group])]
                   /\ clean' = (clean /\ r.ok)
           \/ /\ ecmp
              /\ H \subseteq DOMAIN nexthop'  \* else a NULL entry is dereferenced
              /\ \E g \in GroupOf(e) :
                   /\ sai' = MembersAdded(s, g, H)
                   /\ route' = [route EXCEPT ![p] = Settled([@ EXCEPT !.hops = all, !.group = g])]
              /\ UNCHANGED clean

RemoteAddMore(p, H) ==
  /\ p \in DOMAIN route
  /\ route[p].hops # {}
  /\ AddKnown(p, H) \/ \E bad \in Refusals : AddToEcmp(p, H, bad)
  /\ UNCHANGED <<neighbor, leaked>>

\* __route_remote_add
RemoteAdd(p, H) ==
  /\ \A n \in H \cap DOMAIN nexthop : nexthop[n] < MaxRef
  /\ RemoteAddFirst(p, H) \/ RemoteAddMore(p, H)

-----------------------------------------------------------------------------
(* __route_remote_nh_remove *)

\* Faulty variant of LeaveOne: the group is to go while the route goes to it.
LeaveOneGroupFirst(p, H) ==
  \E n \in route[p].hops : \E ecmp \in IsEcmp(route[p]), g \in GroupOf(route[p]) :
    LET s == IF ecmp THEN GroupRemoved(sai, g) ELSE sai
    IN  /\ route[p].hops \ H = {n}
        /\ sai' = HopsRemoved(RouteRetargeted(s, p, n), Freed(H))
        /\ route' = [route EXCEPT ![p] = Settled([@ EXCEPT !.hops = {n}])]
        /\ UNCHANGED leaked

\* One next hop stays: the route goes to it, then the group goes.
LeaveOne(p, H) ==
  \E n \in route[p].hops : \E ecmp \in IsEcmp(route[p]), g \in GroupOf(route[p]) :
    LET s == RouteRetargeted(sai, p, IF n \in DOMAIN nexthop THEN n ELSE NoObject)
    IN  /\ route[p].hops \ H = {n}
        /\ sai' = HopsRemoved(IF ecmp THEN GroupRemoved(s, g) ELSE s, Freed(H))
        /\ route' = [route EXCEPT ![p] = Settled([@ EXCEPT !.hops = {n}])]
        /\ UNCHANGED leaked

LeaveSeveral(p, H) ==
  /\ Cardinality(route[p].hops \ H) > 1
  /\ \E g \in GroupOf(route[p]) :
       /\ sai' = HopsRemoved(MembersRemoved(sai, g, H \cap DOMAIN nexthop), Freed(H))
       /\ route' = [route EXCEPT ![p] = Settled([route[p] EXCEPT !.hops = @ \ H, !.group = g])]
  /\ UNCHANGED leaked

\* No next hop stays, but local references: SAI's route becomes a local one.
\* Nobody removes the group.
LeaveLocal(p, H) ==
  LET e == route[p]
  IN  /\ e.hops \subseteq H
      /\ e.refer > 0
      /\ \E bad \in Refusals :
           sai' = HopsRemoved(Programmed(RouteRemoved(sai, p), p, Cpu, bad), Freed(H))
      /\ route' = [route EXCEPT ![p] = Settled([@ EXCEPT !.hops = {}])]
      /\ leaked' = leaked \cup (IF e.rstate = "ecmp" THEN e.hops \cup ({e.group} \ {NoObject}) ELSE {})

HopsRemove(p, H) ==
  /\ p \in DOMAIN route
  /\ LeaveOne(p, H) \/ LeaveSeveral(p, H) \/ LeaveLocal(p, H)
  /\ nexthop' = Released(H)
  /\ clean' = (clean /\ H \subseteq route[p].hops /\ p \in DOMAIN sai'.routes)
  /\ UNCHANGED neighbor

\* No next hop stays, nor a local reference: the call returns before it gives
\* back the references, and without removing the group.
LastHopsRemove(p, H) ==
  /\ p \in DOMAIN route
  /\ route[p].hops \subseteq H
  /\ route[p].refer = 0
  /\ sai' = RouteRemoved(sai, p)
  /\ route' = Without(route, p)
  /\ leaked' = leaked \cup route[p].hops \cup ({route[p].group} \ {NoObject})
  /\ clean' = (clean /\ H \subseteq route[p].hops)
  /\ UNCHANGED <<nexthop, neighbor>>

-----------------------------------------------------------------------------
(* Local routes and the removal of routes *)

\* __route_local_add
LocalAdd(p) ==
  /\ Before(p).refer < MaxRef
  /\ route' = With(route, p, [Before(p) EXCEPT !.refer = @ + 1])
  /\ \/ /\ p \in DOMAIN route
        /\ UNCHANGED <<sai, clean>>
     \/ /\ p \notin DOMAIN route
        /\ \E bad \in Refusals : sai' = Programmed(sai, p, Cpu, bad)
        /\ clean' = (clean /\ p \in DOMAIN sai'.routes \ DOMAIN sai.routes)
  /\ UNCHANGED <<nexthop, neighbor, leaked>>

\* Faulty variant of RemoveReference: the last local reference goes like any other.
RemoveAnyReference(p) ==
  /\ p \in DOMAIN route
  /\ route[p].refer > 0
  /\ route' = [route EXCEPT ![p].refer = @ - 1]
  /\ UNCHANGED <<nexthop, neighbor, sai, clean, leaked>>

\* __route_remove takes a local reference first, whatever the caller meant.
RemoveReference(p) ==
  /\ p \in DOMAIN route
  /\ route[p].refer > IF route[p].hops = {} THEN 1 ELSE 0
  /\ route' = [route EXCEPT ![p].refer = @ - 1]
  /\ UNCHANGED <<nexthop, neighbor, sai, clean, leaked>>

\* Faulty variant of RemoveLocal: the entry goes, SAI's route stays.
RemoveLocalEntry(p) ==
  /\ p \in DOMAIN route
  /\ route[p].refer = 1
  /\ route[p].hops = {}
  /\ route' = Without(route, p)
  /\ UNCHANGED <<nexthop, neighbor, sai, clean, leaked>>

RemoveLocal(p) ==
  /\ p \in DOMAIN route
  /\ route[p].refer = 1
  /\ route[p].hops = {}
  /\ sai' = RouteRemoved(sai, p)
  /\ route' = Without(route, p)
  /\ UNCHANGED <<nexthop, neighbor, clean, leaked>>

\* __sai_route_remote_action without next hops; if SAI has no such route it
\* gives up.
RemoveRemote(p) ==
  /\ p \in DOMAIN route
  /\ route[p].refer = 0
  /\ route[p].hops # {}
  /\ \/ /\ p \notin DOMAIN sai.routes
        /\ route' = [route EXCEPT ![p] = Settled(@)]
        /\ UNCHANGED <<nexthop, sai>>
     \/ /\ p \in DOMAIN sai.routes
        /\ \E ecmp \in IsEcmp(route[p]), g \in GroupOf(route[p]) :
             LET s == RouteRemoved(sai, p)
             IN  sai' = HopsRemoved(IF ecmp THEN GroupRemoved(s, g) ELSE s, Freed(route[p].hops))
        /\ nexthop' = Released(route[p].hops)
        /\ route' = Without(route, p)
  /\ UNCHANGED <<neighbor, clean, leaked>>

\* __route_ip_to_me_add, __route_ip_to_me_delete
IpToMe(a) ==
  /\ \/ \E bad \in Refusals : sai' = Programmed(sai, a, Cpu, bad)
     \/ sai' = RouteRemoved(sai, a)
  /\ UNCHANGED <<nexthop, route, neighbor, clean, leaked>>

-----------------------------------------------------------------------------
(* Neighbours: __add_l3_host_entry and __delete_l3_host_entry *)

\* A neighbour without a MAC is remembered only.
NeighborPending(n) ==
  /\ neighbor[n] = "none"
  /\ neighbor' = [neighbor EXCEPT ![n] = "empty"]
  /\ UNCHANGED <<nexthop, route, sai, clean, leaked>>

\* __neighbor_create, which always returns success; the MAC remembered of a
\* neighbour that changes it is the first one.
NeighborAdd(n, mac) ==
  /\ neighbor[n] # mac
  /\ n \in DOMAIN nexthop => nexthop[n] < MaxRef
  /\ neighbor' = [neighbor EXCEPT ![n] = IF @ \in Macs THEN @ ELSE mac]
  /\ \E bad \in Refusals :
       LET s == WithHops(Made({n}, bad))
       IN  /\ nexthop' = Referred(Resolved({n}, bad))
           /\ sai' = IF bad.entry \/ n \in DOMAIN sai.neighbors \/ Resolved({n}, bad) = {}
                       THEN s ELSE [s EXCEPT !.neighbors = With(@, n, mac)]
  /\ clean' = (clean /\ n \in DOMAIN sai'.neighbors \ DOMAIN sai.neighbors)
  /\ UNCHANGED <<route, leaked>>

\* __neighbor_remove gives up, and the provider with it, if SAI does not know
\* the neighbour.
NeighborDelete(n) ==
  /\ \/ /\ neighbor[n] = "empty"
        /\ UNCHANGED <<nexthop, sai>>
     \/ /\ neighbor[n] \in Macs
        /\ n \in DOMAIN sai.neighbors
        /\ nexthop' = Released({n})
        /\ sai' = HopsRemoved([sai EXCEPT !.neighbors = Without(@, n)], Freed({n}))
  /\ neighbor' = [neighbor EXCEPT ![n] = "none"]
  /\ UNCHANGED <<route, clean, leaked>>

Init ==
  /\ nexthop = [n \in {} |-> 0]
  /\ route = [p \in {} |-> FreshRoute]
  /\ neighbor = [n \in NextHops |-> "none"]
  /\ sai = [hops |-> {}, groups |-> [g \in {} |-> {}], routes |-> [p \in {} |-> Cpu],
            neighbors |-> [n \in {} |-> "none"]]
  /\ clean = TRUE
  /\ leaked = {}

Next ==
  \/ \E p \in Prefixes, H \in (SUBSET NextHops) \ {{}} :
       RemoteAdd(p, H) \/ HopsRemove(p, H) \/ LastHopsRemove(p, H)
  \/ \E p \in Prefixes : LocalAdd(p) \/ RemoveReference(p) \/ RemoveLocal(p) \/ RemoveRemote(p)
  \/ \E a \in Addresses : IpToMe(a)
  \/ \E n \in NextHops : NeighborPending(n) \/ NeighborDelete(n)
  \/ \E n \in NextHops, mac \in Macs : NeighborAdd(n, mac)

Spec == Init /\ [][Next]_vars

-----------------------------------------------------------------------------
(* Properties *)

\* f is a function from a part of A to B.
IsPartial(f, A, B) == DOMAIN f \subseteq A /\ \A x \in DOMAIN f : f[x] \in B

\* The variables have the types of the C declarations; a reference count is not
\* negative.
TypeOK ==
  /\ IsPartial(nexthop, NextHops, Nat)
  /\ IsPartial(route, Prefixes, Route)
  /\ neighbor \in [NextHops -> {"none", "empty"} \cup Macs]
  /\ sai.hops \subseteq NextHops
  /\ IsPartial(sai.groups, Groups, SUBSET NextHops)
  /\ IsPartial(sai.routes, Prefixes \cup Addresses, Target)
  /\ IsPartial(sai.neighbors, NextHops, Macs)
  /\ clean \in BOOLEAN
  /\ leaked \subseteq NextHops \cup Groups

\* Every route of the table can be removed again: it has next hops or a local
\* reference, otherwise __route_remove does nothing, for ever.
RoutesCanGo == \A p \in DOMAIN route : route[p].hops # {} \/ route[p].refer > 0

\* A next hop that has an entry exists in SAI, and SAI routes prefixes the table
\* has only -- whatever was refused, and whatever next hops calls named.
TableCoversSai ==
  /\ DOMAIN nexthop \subseteq sai.hops
  /\ DOMAIN sai.routes \cap Prefixes \subseteq DOMAIN route

\* The routes and neighbours that use next hop n.
Users(n) == Cardinality({p \in DOMAIN route : n \in route[p].hops})
              + (IF neighbor[n] \in Macs THEN 1 ELSE 0)
RefCount(n) == IF n \in DOMAIN nexthop THEN nexthop[n] ELSE 0

\* "need to add nexthop db or update refer cnt", "del the nexthop db or refer":
\* a next hop's reference count is the number of routes and neighbours that use
\* it, but for routes that went with their last next hops, which keep theirs.
CountsAreExact ==
  clean => \A n \in NextHops : /\ RefCount(n) >= Users(n)
                               /\ n \notin leaked => RefCount(n) = Users(n)

\* SAI does what the tables say: a route with one next hop goes to it, one with
\* several to a group of exactly those, one with none traps, and SAI's
\* neighbours are those with a MAC.
SaiFollowsTables ==
  clean =>
    /\ DOMAIN sai.routes \cap Prefixes = DOMAIN route
    /\ \A p \in DOMAIN route :
         LET e == route[p]
             t == sai.routes[p]
         IN  CASE Cardinality(e.hops) = 0 -> t = Cpu
               [] Cardinality(e.hops) = 1 -> t \in e.hops
               [] OTHER -> t = e.group /\ t \in DOMAIN sai.groups /\ sai.groups[t] = e.hops
    /\ \A n \in NextHops : IF neighbor[n] \in Macs
                             THEN n \in DOMAIN sai.neighbors /\ sai.neighbors[n] = neighbor[n]
                             ELSE n \notin DOMAIN sai.neighbors

\* Nothing stays in SAI without an entry: removals come in the order SAI asks
\* for, a route before its group, a group before its members.
NothingIsLeftBehind ==
  clean =>
    /\ sai.hops \ DOMAIN nexthop \subseteq leaked
    /\ \A g \in DOMAIN sai.groups \ leaked :
         \E p \in DOMAIN route : route[p].rstate = "ecmp" /\ route[p].group = g
    /\ \A p, q \in DOMAIN route :
         route[p].rstate = "ecmp" /\ route[q].rstate = "ecmp" /\ route[p].group = route[q].group
           => p = q
=============================================================================
