--------------------------- MODULE SaiRouteProofs ---------------------------
(***************************************************************************)
(* Proofs about SaiRoute, for any number of prefixes, next hops, groups    *)
(* and neighbours.  First, whatever SAI refuses and whatever calls name:   *)
(* types, that every route can be removed again, and that the tables cover *)
(* what SAI has.  Then, as long as nothing was refused and calls name the  *)
(* next hops that routes have: that reference counts are exact, that SAI   *)
(* does what the tables say, and that nothing stays behind.                *)
(*                                                                         *)
(* RouteInv is inductive: the operators on SAI's objects either leave its  *)
(* next hops and routes alone or change them together with the tables,     *)
(* which the lemmas of the second section say of each.  ExactInv is        *)
(* inductive with it.  It says in one piece what the three properties say  *)
(* one by one, since a next hop may be removed only because no group holds *)
(* it that nobody owns, and a group only because no other route has it.    *)
(***************************************************************************)
EXTENDS SaiRoute, FiniteSetTheorems, TLAPS

\* The functions from a part of A to B.
Partial(A, B) == UNION {[D -> B] : D \in SUBSET A}

SaiState ==
  [hops      : SUBSET NextHops,
   groups    : Partial(Groups, SUBSET NextHops),
   routes    : Partial(Prefixes \cup Addresses, Target),
   neighbors : Partial(NextHops, Macs)]

\* TypeOK with sets in the place of predicates.
RouteType ==
  /\ nexthop \in Partial(NextHops, Nat)
  /\ route \in Partial(Prefixes, Route)
  /\ neighbor \in [NextHops -> {"none", "empty"} \cup Macs]
  /\ sai \in SaiState
  /\ clean \in BOOLEAN
  /\ leaked \subseteq NextHops \cup Groups

RouteInv == RouteType /\ RoutesCanGo /\ TableCoversSai

-----------------------------------------------------------------------------
(* Partial functions *)

\* What membership in Partial means.
LEMMA PartialElim ==
  ASSUME NEW A, NEW B, NEW f \in Partial(A, B)
  PROVE  /\ DOMAIN f \subseteq A
         /\ f \in [DOMAIN f -> B]
         /\ \A x \in DOMAIN f : f[x] \in B
BY DEF Partial

LEMMA PartialIntro ==
  ASSUME NEW A, NEW B, NEW D \in SUBSET A, NEW f \in [D -> B]
  PROVE  f \in Partial(A, B)
BY DEF Partial

\* Adding or replacing a value.
LEMMA WithType ==
  ASSUME NEW A, NEW B, NEW f \in Partial(A, B), NEW x \in A, NEW y \in B
  PROVE  With(f, x, y) \in Partial(A, B)
<1>1. /\ DOMAIN f \subseteq A
      /\ \A z \in DOMAIN f : f[z] \in B
  BY PartialElim
<1>2. With(f, x, y) \in [DOMAIN f \cup {x} -> B]
  BY <1>1 DEF With
<1>3. DOMAIN f \cup {x} \in SUBSET A
  BY <1>1
<1> QED
  BY <1>2, <1>3, PartialIntro DEF With

\* Removing an argument.
LEMMA WithoutType ==
  ASSUME NEW A, NEW B, NEW f \in Partial(A, B), NEW x
  PROVE  /\ Without(f, x) \in Partial(A, B)
         /\ DOMAIN Without(f, x) = DOMAIN f \ {x}
<1>1. /\ DOMAIN f \subseteq A
      /\ \A z \in DOMAIN f : f[z] \in B
  BY PartialElim
<1>2. Without(f, x) \in [DOMAIN f \ {x} -> B]
  BY <1>1 DEF Without
<1>3. DOMAIN f \ {x} \in SUBSET A
  BY <1>1
<1> QED
  BY <1>2, <1>3, PartialIntro DEF Without

\* Changing one value.
LEMMA ExceptType ==
  ASSUME NEW A, NEW B, NEW f \in Partial(A, B), NEW x, NEW y,
         x \in DOMAIN f => y \in B
  PROVE  /\ [f EXCEPT ![x] = y] \in Partial(A, B)
         /\ DOMAIN [f EXCEPT ![x] = y] = DOMAIN f
<1>1. /\ DOMAIN f \subseteq A
      /\ f \in [DOMAIN f -> B]
  BY PartialElim
<1>2. [f EXCEPT ![x] = y] \in [DOMAIN f -> B]
  BY <1>1
<1>3. DOMAIN f \in SUBSET A
  BY <1>1
<1> QED
  BY <1>1, <1>2, <1>3, PartialIntro

-----------------------------------------------------------------------------
(* What the operators on SAI's objects leave alone *)

\* Creating a route touches nothing but that route.
LEMMA RouteCreatedType ==
  ASSUME NEW s \in SaiState, NEW p \in Prefixes \cup Addresses, NEW t
  PROVE  /\ RouteCreated(s, p, t) \in SaiState
         /\ RouteCreated(s, p, t).hops = s.hops
         /\ DOMAIN RouteCreated(s, p, t).routes \subseteq DOMAIN s.routes \cup {p}
<1>1. CASE ~Creatable(s, p, t)
  BY <1>1 DEF RouteCreated, SaiState
<1>2. CASE Creatable(s, p, t)
  <2>1. t \in Target
    <3>1. /\ s.hops \subseteq NextHops
          /\ s.groups \in Partial(Groups, SUBSET NextHops)
      BY DEF SaiState
    <3>2. DOMAIN s.groups \subseteq Groups
      BY <3>1, PartialElim
    <3> QED
      BY <1>2, <3>1, <3>2 DEF Creatable, IsObject, Target
  <2>2. s.routes \in Partial(Prefixes \cup Addresses, Target)
    BY DEF SaiState
  <2>3. With(s.routes, p, t) \in Partial(Prefixes \cup Addresses, Target)
    <3> DEFINE A == Prefixes \cup Addresses
    <3>1. p \in A /\ s.routes \in Partial(A, Target)
      BY <2>2
    <3> HIDE DEF A
    <3>2. With(s.routes, p, t) \in Partial(A, Target)
      BY <2>1, <3>1, WithType
    <3> QED
      BY <3>2 DEF A
  <2>4. DOMAIN With(s.routes, p, t) = DOMAIN s.routes \cup {p}
    BY DEF With
  <2>5. RouteCreated(s, p, t) = [s EXCEPT !.routes = With(s.routes, p, t)]
    BY <1>2 DEF RouteCreated
  <2> QED
    BY <2>3, <2>4, <2>5 DEF SaiState
<1> QED
  BY <1>1, <1>2

LEMMA ProgrammedType ==
  ASSUME NEW s \in SaiState, NEW p \in Prefixes \cup Addresses, NEW t, NEW bad
  PROVE  /\ Programmed(s, p, t, bad) \in SaiState
         /\ Programmed(s, p, t, bad).hops = s.hops
         /\ DOMAIN Programmed(s, p, t, bad).routes \subseteq DOMAIN s.routes \cup {p}
BY RouteCreatedType DEF Programmed

LEMMA RouteRemovedType ==
  ASSUME NEW s \in SaiState, NEW p
  PROVE  /\ RouteRemoved(s, p) \in SaiState
         /\ RouteRemoved(s, p).hops = s.hops
         /\ DOMAIN RouteRemoved(s, p).routes = DOMAIN s.routes \ {p}
<1>1. s.routes \in Partial(Prefixes \cup Addresses, Target)
  BY DEF SaiState
<1>2. /\ Without(s.routes, p) \in Partial(Prefixes \cup Addresses, Target)
      /\ DOMAIN Without(s.routes, p) = DOMAIN s.routes \ {p}
  BY <1>1, WithoutType
<1> QED
  BY <1>2 DEF RouteRemoved, SaiState

LEMMA RouteRetargetedType ==
  ASSUME NEW s \in SaiState, NEW p, NEW t
  PROVE  /\ RouteRetargeted(s, p, t) \in SaiState
         /\ RouteRetargeted(s, p, t).hops = s.hops
         /\ DOMAIN RouteRetargeted(s, p, t).routes = DOMAIN s.routes
<1>1. CASE ~(p \in DOMAIN s.routes /\ IsObject(s, t))
  BY <1>1 DEF RouteRetargeted
<1>2. CASE p \in DOMAIN s.routes /\ IsObject(s, t)
  <2>1. /\ s.hops \subseteq NextHops
        /\ s.groups \in Partial(Groups, SUBSET NextHops)
        /\ s.routes \in Partial(Prefixes \cup Addresses, Target)
    BY DEF SaiState
  <2>2. DOMAIN s.groups \subseteq Groups
    BY <2>1, PartialElim
  <2>3. t \in Target
    BY <1>2, <2>1, <2>2 DEF IsObject, Target
  <2>4. /\ [s.routes EXCEPT ![p] = t] \in Partial(Prefixes \cup Addresses, Target)
        /\ DOMAIN [s.routes EXCEPT ![p] = t] = DOMAIN s.routes
    BY <2>1, <2>3, ExceptType
  <2>5. RouteRetargeted(s, p, t) = [s EXCEPT !.routes = [s.routes EXCEPT ![p] = t]]
    BY <1>2 DEF RouteRetargeted, SaiState
  <2> QED
    BY <2>4, <2>5 DEF SaiState
<1> QED
  BY <1>1, <1>2

\* Next hops are removed only if they are named.
LEMMA HopsRemovedType ==
  ASSUME NEW s \in SaiState, NEW H
  PROVE  /\ HopsRemoved(s, H) \in SaiState
         /\ s.hops \ H \subseteq HopsRemoved(s, H).hops
         /\ HopsRemoved(s, H).routes = s.routes
BY DEF HopsRemoved, SaiState

LEMMA GroupRemovedType ==
  ASSUME NEW s \in SaiState, NEW g
  PROVE  /\ GroupRemoved(s, g) \in SaiState
         /\ GroupRemoved(s, g).hops = s.hops
         /\ GroupRemoved(s, g).routes = s.routes
<1>1. s.groups \in Partial(Groups, SUBSET NextHops)
  BY DEF SaiState
<1>2. Without(s.groups, g) \in Partial(Groups, SUBSET NextHops)
  BY <1>1, WithoutType
<1> QED
  BY <1>2 DEF GroupRemoved, SaiState

LEMMA MembersAddedType ==
  ASSUME NEW s \in SaiState, NEW g, NEW H
  PROVE  /\ MembersAdded(s, g, H) \in SaiState
         /\ MembersAdded(s, g, H).hops = s.hops
         /\ MembersAdded(s, g, H).routes = s.routes
<1>1. CASE g \notin DOMAIN s.groups
  BY <1>1 DEF MembersAdded
<1>2. CASE g \in DOMAIN s.groups
  <2>1. s.groups \in Partial(Groups, SUBSET NextHops) /\ s.hops \subseteq NextHops
    BY DEF SaiState
  <2>2. s.groups[g] \cup (H \cap s.hops) \in SUBSET NextHops
    BY <1>2, <2>1, PartialElim
  <2>3. [s.groups EXCEPT ![g] = s.groups[g] \cup (H \cap s.hops)] \in Partial(Groups, SUBSET NextHops)
    BY <2>1, <2>2, ExceptType
  <2>4. MembersAdded(s, g, H)
          = [s EXCEPT !.groups = [s.groups EXCEPT ![g] = s.groups[g] \cup (H \cap s.hops)]]
    BY <1>2 DEF MembersAdded, SaiState
  <2> QED
    BY <2>3, <2>4 DEF SaiState
<1> QED
  BY <1>1, <1>2

LEMMA MembersRemovedType ==
  ASSUME NEW s \in SaiState, NEW g, NEW H
  PROVE  /\ MembersRemoved(s, g, H) \in SaiState
         /\ MembersRemoved(s, g, H).hops = s.hops
         /\ MembersRemoved(s, g, H).routes = s.routes
<1>1. CASE g \notin DOMAIN s.groups
  BY <1>1 DEF MembersRemoved
<1>2. CASE g \in DOMAIN s.groups
  <2>1. s.groups \in Partial(Groups, SUBSET NextHops)
    BY DEF SaiState
  <2>2. s.groups[g] \ H \in SUBSET NextHops
    BY <1>2, <2>1, PartialElim
  <2>3. [s.groups EXCEPT ![g] = s.groups[g] \ H] \in Partial(Groups, SUBSET NextHops)
    BY <2>1, <2>2, ExceptType
  <2>4. MembersRemoved(s, g, H) = [s EXCEPT !.groups = [s.groups EXCEPT ![g] = s.groups[g] \ H]]
    BY <1>2 DEF MembersRemoved, SaiState
  <2> QED
    BY <2>3, <2>4 DEF SaiState
<1> QED
  BY <1>1, <1>2

LEMMA GroupAddedType ==
  ASSUME NEW s \in SaiState, NEW H \in SUBSET NextHops, NEW db, NEW bad,
         NEW r \in GroupAdded(s, H, db, bad)
  PROVE  /\ r.sai \in SaiState
         /\ r.sai.hops = s.hops
         /\ r.sai.routes = s.routes
         /\ r.group \in Groups \cup {NoObject}
         /\ r.ok \in BOOLEAN
<1>1. s.groups \in Partial(Groups, SUBSET NextHops)
  BY DEF SaiState
<1>2. \A g \in Groups : [s EXCEPT !.groups = With(s.groups, g, H)] \in SaiState
  <2>1. SUFFICES ASSUME NEW g \in Groups
                 PROVE  [s EXCEPT !.groups = With(s.groups, g, H)] \in SaiState
    OBVIOUS
  <2>2. With(s.groups, g, H) \in Partial(Groups, SUBSET NextHops)
    BY <1>1, WithType
  <2> QED
    BY <2>2 DEF SaiState
<1>3. CASE ~bad.group /\ H \subseteq DOMAIN db /\ Groups \ DOMAIN s.groups # {}
  <2>1. PICK g \in Groups : r = [ok |-> TRUE, sai |-> [s EXCEPT !.groups = With(@, g, H)], group |-> g]
    BY <1>3 DEF GroupAdded
  <2> QED
    BY <1>2, <2>1 DEF SaiState
<1>4. CASE ~(~bad.group /\ H \subseteq DOMAIN db /\ Groups \ DOMAIN s.groups # {})
  <2>1. PICK g \in Groups \cup {NoObject} : r = [ok |-> FALSE, sai |-> s, group |-> g]
    BY <1>4 DEF GroupAdded
  <2> QED
    BY <2>1
<1> QED
  BY <1>3, <1>4

-----------------------------------------------------------------------------
(* Reference counts and entries *)

\* Counting up makes entries of the next hops named, and no others.
LEMMA ReferredType ==
  ASSUME nexthop \in Partial(NextHops, Nat), NEW H \in SUBSET NextHops
  PROVE  /\ Referred(H) \in Partial(NextHops, Nat)
         /\ DOMAIN Referred(H) = DOMAIN nexthop \cup H
<1>1. /\ DOMAIN nexthop \subseteq NextHops
      /\ \A n \in DOMAIN nexthop : nexthop[n] \in Nat
  BY PartialElim
<1>2. Referred(H) \in [DOMAIN nexthop \cup H -> Nat]
  BY <1>1 DEF Referred
<1>3. DOMAIN nexthop \cup H \in SUBSET NextHops
  BY <1>1
<1> QED
  BY <1>2, <1>3, PartialIntro DEF Referred

\* A count that does not free its entry stays positive.
LEMMA ReleasedType ==
  ASSUME nexthop \in Partial(NextHops, Nat), NEW H
  PROVE  /\ Released(H) \in Partial(NextHops, Nat)
         /\ DOMAIN Released(H) = DOMAIN nexthop \ Freed(H)
<1>1. /\ DOMAIN nexthop \subseteq NextHops
      /\ \A n \in DOMAIN nexthop : nexthop[n] \in Nat
  BY PartialElim
<1>2. \A n \in DOMAIN nexthop \ Freed(H) : n \in H => nexthop[n] - 1 \in Nat
  BY <1>1 DEF Freed
<1>3. Released(H) \in [DOMAIN nexthop \ Freed(H) -> Nat]
  BY <1>1, <1>2 DEF Released
<1>4. DOMAIN nexthop \ Freed(H) \in SUBSET NextHops
  BY <1>1
<1> QED
  BY <1>3, <1>4, PartialIntro DEF Released

\* Creating next hops adds those to what SAI has.
LEMMA WithHopsType ==
  ASSUME sai \in SaiState, NEW H \in SUBSET NextHops
  PROVE  /\ WithHops(H) \in SaiState
         /\ WithHops(H).hops = sai.hops \cup H
         /\ WithHops(H).routes = sai.routes
         /\ WithHops(H).neighbors = sai.neighbors
BY DEF WithHops, SaiState

\* A next hop that can be referred to exists in SAI once those without an entry
\* are created.
LEMMA ResolvedExists ==
  ASSUME RouteType, TableCoversSai, NEW all \in SUBSET NextHops, NEW H \in SUBSET all, NEW bad
  PROVE  /\ Resolved(H, bad) \in SUBSET NextHops
         /\ Made(all, bad) \in SUBSET NextHops
         /\ DOMAIN Referred(Resolved(H, bad)) \subseteq WithHops(Made(all, bad)).hops
<1>1. /\ Resolved(H, bad) \in SUBSET NextHops
      /\ Made(all, bad) \in SUBSET NextHops
  BY DEF Resolved, Made
<1>2. WithHops(Made(all, bad)).hops = sai.hops \cup Made(all, bad)
  BY <1>1, WithHopsType DEF RouteType
<1>3. DOMAIN Referred(Resolved(H, bad)) = DOMAIN nexthop \cup Resolved(H, bad)
  BY <1>1, ReferredType DEF RouteType
<1>4. Resolved(H, bad) \subseteq DOMAIN nexthop \cup Made(all, bad)
  BY DEF Resolved, Made
<1> QED
  BY <1>1, <1>2, <1>3, <1>4 DEF TableCoversSai

\* The end of an update changes neither the next hops nor the local references.
LEMMA SettledType ==
  ASSUME NEW e \in Route
  PROVE  /\ Settled(e) \in Route
         /\ Settled(e).hops = e.hops
         /\ Settled(e).refer = e.refer
BY DEF Settled, Route

LEMMA BeforeType ==
  ASSUME route \in Partial(Prefixes, Route), NEW p
  PROVE  Before(p) \in Route
<1>1. FreshRoute \in Route
  BY DEF FreshRoute, Route
<1> QED
  BY <1>1, PartialElim DEF Before

\* Writing an entry that can go keeps the table right.
LEMMA PutRoute ==
  ASSUME RouteInv, NEW p \in Prefixes, NEW e \in Route, e.hops # {} \/ e.refer > 0,
         route' = With(route, p, e)
  PROVE  /\ (route \in Partial(Prefixes, Route))'
         /\ RoutesCanGo'
         /\ DOMAIN route' = DOMAIN route \cup {p}
<1>1. /\ With(route, p, e) \in Partial(Prefixes, Route)
      /\ DOMAIN With(route, p, e) = DOMAIN route \cup {p}
  <2>1. route \in Partial(Prefixes, Route)
    BY DEF RouteInv, RouteType
  <2>2. With(route, p, e) \in Partial(Prefixes, Route)
    BY <2>1, WithType
  <2> QED
    BY <2>2 DEF With
<1>2. \A q \in DOMAIN route \cup {p} : route'[q] = IF q = p THEN e ELSE route[q]
  BY DEF With
<1>3. RoutesCanGo'
  BY <1>1, <1>2 DEF RoutesCanGo, RouteInv
<1> QED
  BY <1>1, <1>3

LEMMA UpdateRoute ==
  ASSUME RouteInv, NEW p \in DOMAIN route, NEW e \in Route, e.hops # {} \/ e.refer > 0,
         route' = [route EXCEPT ![p] = e]
  PROVE  /\ (route \in Partial(Prefixes, Route))'
         /\ RoutesCanGo'
         /\ DOMAIN route' = DOMAIN route
<1>1. /\ [route EXCEPT ![p] = e] \in Partial(Prefixes, Route)
      /\ DOMAIN [route EXCEPT ![p] = e] = DOMAIN route
  BY ExceptType DEF RouteInv, RouteType
<1>2. \A q \in DOMAIN route : route'[q] = IF q = p THEN e ELSE route[q]
  BY DEF RouteInv, RouteType
<1>3. RoutesCanGo'
  BY <1>1, <1>2 DEF RoutesCanGo, RouteInv
<1> QED
  BY <1>1, <1>3

LEMMA DropRoute ==
  ASSUME RouteInv, NEW p, route' = Without(route, p)
  PROVE  /\ (route \in Partial(Prefixes, Route))'
         /\ RoutesCanGo'
         /\ DOMAIN route' = DOMAIN route \ {p}
<1>1. /\ Without(route, p) \in Partial(Prefixes, Route)
      /\ DOMAIN Without(route, p) = DOMAIN route \ {p}
  BY WithoutType DEF RouteInv, RouteType
<1>2. \A q \in DOMAIN route \ {p} : route'[q] = route[q]
  BY DEF Without
<1>3. RoutesCanGo'
  BY <1>1, <1>2 DEF RoutesCanGo, RouteInv
<1> QED
  BY <1>1, <1>3

-----------------------------------------------------------------------------
(* Adding next hops *)

\* The first next hops of a route: whether SAI refuses anything or not, next hops
\* that get an entry are in SAI, and so is the route only if the table has it.
LEMMA RemoteAddFirstStep ==
  ASSUME RouteInv, NEW p \in Prefixes, NEW H \in (SUBSET NextHops) \ {{}}, RemoteAddFirst(p, H)
  PROVE  RouteInv'
<1> USE DEF RouteInv
<1>1. /\ Before(p) \in Route
      /\ H # {}
      /\ UNCHANGED <<neighbor, leaked>>
  <2>1. Before(p) \in Route
    BY BeforeType DEF RouteType
  <2> QED
    BY <2>1 DEF RemoteAddFirst
<1>2. PICK bad \in Refusals : AddFails(p, H, bad) \/ AddSingle(p, H, bad) \/ AddGroup(p, H, bad)
  BY DEF RemoteAddFirst
<1>3. CASE AddFails(p, H, bad)
  <2> DEFINE e == [Before(p) EXCEPT !.hops = H]
  <2>1. e \in Route /\ e.hops # {}
    BY <1>1 DEF Route
  <2>2. route' = With(route, p, e) /\ clean' = FALSE /\ UNCHANGED <<nexthop, sai>>
    BY <1>3 DEF AddFails
  <2> HIDE DEF e
  <2>3. /\ (route \in Partial(Prefixes, Route))'
        /\ RoutesCanGo'
        /\ DOMAIN route' = DOMAIN route \cup {p}
    BY <2>1, <2>2, PutRoute
  <2>4. RouteType'
    BY <1>1, <2>2, <2>3 DEF RouteType
  <2>5. TableCoversSai'
    BY <2>2, <2>3 DEF TableCoversSai
  <2> QED
    BY <2>3, <2>4, <2>5
<1>4. ASSUME NEW s \in SaiState, NEW t, NEW e \in Route, e.hops = H,
             nexthop' = Referred(Resolved(H, bad)),
             s.hops = WithHops(Made(H, bad)).hops,
             s.routes = sai.routes,
             sai' = Programmed(s, p, t, bad),
             route' = With(route, p, e),
             clean' \in BOOLEAN
      PROVE  RouteInv'
  <2>1. /\ Resolved(H, bad) \in SUBSET NextHops
        /\ DOMAIN nexthop' \subseteq s.hops
    BY <1>4, ResolvedExists
  <2>2. (nexthop \in Partial(NextHops, Nat))'
    BY <1>4, <2>1, ReferredType DEF RouteType
  <2>3. /\ sai' \in SaiState
        /\ sai'.hops = s.hops
        /\ DOMAIN sai'.routes \subseteq DOMAIN sai.routes \cup {p}
    BY <1>4, ProgrammedType
  <2>4. /\ (route \in Partial(Prefixes, Route))'
        /\ RoutesCanGo'
        /\ DOMAIN route' = DOMAIN route \cup {p}
    BY <1>1, <1>4, PutRoute
  <2>5. RouteType'
    BY <1>1, <1>4, <2>2, <2>3, <2>4 DEF RouteType
  <2>6. TableCoversSai'
    BY <2>1, <2>3, <2>4 DEF TableCoversSai
  <2> QED
    BY <2>4, <2>5, <2>6
<1>5. Made(H, bad) \in SUBSET NextHops
  BY DEF Made
<1>6. /\ WithHops(Made(H, bad)) \in SaiState
      /\ WithHops(Made(H, bad)).routes = sai.routes
  BY <1>5, WithHopsType DEF RouteType
<1>7. CASE AddSingle(p, H, bad)
  <2> DEFINE e == Settled([Before(p) EXCEPT !.hops = H])
  <2>1. PICK n \in Resolved(H, bad) :
          /\ H = {n}
          /\ nexthop' = Referred(H)
          /\ sai' = Programmed(WithHops(Made(H, bad)), p, n, bad)
          /\ route' = With(route, p, e)
          /\ clean' = (clean /\ p \in DOMAIN sai'.routes \ DOMAIN sai.routes)
    BY <1>7 DEF AddSingle
  <2>2. Resolved(H, bad) = H
    BY <2>1 DEF Resolved, Made
  <2>3. [Before(p) EXCEPT !.hops = H] \in Route /\ [Before(p) EXCEPT !.hops = H].hops = H
    BY <1>1 DEF Route
  <2>4. e \in Route /\ e.hops = H
    BY <2>3, SettledType
  <2>5. clean' \in BOOLEAN
    BY <2>1
  <2> HIDE DEF e
  <2> QED
    BY <1>4, <1>6, <2>1, <2>2, <2>4, <2>5
<1>8. CASE AddGroup(p, H, bad)
  <2>1. PICK r \in GroupAdded(WithHops(Made(H, bad)), H, nexthop', bad) :
          /\ sai' = Programmed(r.sai, p, r.group, bad)
          /\ route' = With(route, p, Settled([Before(p) EXCEPT !.hops = H, !.group = r.group]))
          /\ clean' = (clean /\ r.ok /\ p \in DOMAIN sai'.routes \ DOMAIN sai.routes)
    BY <1>8 DEF AddGroup
  <2>2. /\ r.sai \in SaiState
        /\ r.sai.hops = WithHops(Made(H, bad)).hops
        /\ r.sai.routes = sai.routes
        /\ r.group \in Groups \cup {NoObject}
    BY <1>6, <2>1, GroupAddedType
  <2> DEFINE e == [Before(p) EXCEPT !.hops = H, !.group = r.group]
  <2>3. e \in Route /\ e.hops = H
    BY <1>1, <2>2 DEF Route
  <2> HIDE DEF e
  <2>4. Settled(e) \in Route /\ Settled(e).hops = H
    BY <2>3, SettledType
  <2>5. route' = With(route, p, Settled(e))
    BY <2>1 DEF e
  <2>6. nexthop' = Referred(Resolved(H, bad)) /\ clean' \in BOOLEAN
    BY <1>8, <2>1 DEF AddGroup
  <2> QED
    BY <1>4, <2>1, <2>2, <2>4, <2>5, <2>6
<1> QED
  BY <1>2, <1>3, <1>7, <1>8

\* More next hops: every next hop of the route is created where it has no entry,
\* and only those of the call are referred to.
LEMMA RemoteAddMoreStep ==
  ASSUME RouteInv, NEW p \in Prefixes, NEW H \in (SUBSET NextHops) \ {{}}, RemoteAddMore(p, H)
  PROVE  RouteInv'
<1> USE DEF RouteInv
<1> DEFINE all == route[p].hops \cup H
<1>1. /\ p \in DOMAIN route
      /\ H # {}
      /\ UNCHANGED <<neighbor, leaked>>
  BY DEF RemoteAddMore
<1>2. route[p] \in Route
  BY <1>1, PartialElim DEF RouteType
<1>3. all \in SUBSET NextHops
  BY <1>2 DEF Route
<1>4. ASSUME NEW g \in Groups \cup {NoObject}
      PROVE  /\ Settled([route[p] EXCEPT !.hops = all, !.group = g]) \in Route
             /\ Settled([route[p] EXCEPT !.hops = all, !.group = g]).hops # {}
  <2> DEFINE e == [route[p] EXCEPT !.hops = all, !.group = g]
  <2>1. e \in Route /\ e.hops # {}
    BY <1>1, <1>2, <1>3 DEF Route
  <2> HIDE DEF e
  <2>2. Settled(e) \in Route /\ Settled(e).hops # {}
    BY <2>1, SettledType
  <2> QED
    BY <2>2 DEF e
<1>5. CASE AddKnown(p, H)
  <2> DEFINE e == [route[p] EXCEPT !.hops = all]
  <2>1. e \in Route /\ e.hops # {}
    BY <1>1, <1>2, <1>3 DEF Route
  <2>2. route' = [route EXCEPT ![p] = Settled(e)] /\ clean' = FALSE /\ UNCHANGED <<nexthop, sai>>
    BY <1>5 DEF AddKnown
  <2> HIDE DEF e, all
  <2>3. Settled(e) \in Route /\ Settled(e).hops # {}
    BY <2>1, SettledType
  <2>4. /\ (route \in Partial(Prefixes, Route))'
        /\ RoutesCanGo'
        /\ DOMAIN route' = DOMAIN route
    BY <1>1, <2>2, <2>3, UpdateRoute
  <2>5. RouteType'
    BY <1>1, <2>2, <2>4 DEF RouteType
  <2>6. TableCoversSai'
    BY <2>2, <2>4 DEF TableCoversSai
  <2> QED
    BY <2>4, <2>5, <2>6
<1>6. CASE \E bad \in Refusals : AddToEcmp(p, H, bad)
  <2>1. PICK bad \in Refusals : AddToEcmp(p, H, bad)
    BY <1>6
  <2> DEFINE s == WithHops(Made(all, bad))
  <2>2. /\ Resolved(H, bad) \in SUBSET NextHops
        /\ Made(all, bad) \in SUBSET NextHops
        /\ DOMAIN Referred(Resolved(H, bad)) \subseteq s.hops
    <3>1. H \in SUBSET all
      OBVIOUS
    <3> HIDE DEF all
    <3> QED
      BY <1>3, <3>1, ResolvedExists
  <2>3. s \in SaiState /\ s.routes = sai.routes
    BY <2>2, WithHopsType DEF RouteType
  <2>4. nexthop' = Referred(Resolved(H, bad))
    BY <2>1 DEF AddToEcmp
  <2>5. (nexthop \in Partial(NextHops, Nat))'
    BY <2>2, <2>4, ReferredType DEF RouteType
  <2> HIDE DEF s
  <2>6. /\ sai' \in SaiState
        /\ sai'.hops = s.hops
        /\ DOMAIN sai'.routes = DOMAIN sai.routes
        /\ \E g \in Groups \cup {NoObject} :
             route' = [route EXCEPT ![p] = Settled([route[p] EXCEPT !.hops = all, !.group = g])]
        /\ clean' \in BOOLEAN
    <3>1. \/ \E r \in GroupAdded(s, all, nexthop', bad) :
               /\ sai' = RouteRetargeted(r.sai, p, r.group)
               /\ route' = [route EXCEPT ![p] = Settled([route[p] EXCEPT !.hops = all, !.group = r.group])]
               /\ clean' = (clean /\ r.ok)
          \/ \E g \in GroupOf(route[p]) :
               /\ sai' = MembersAdded(s, g, H)
               /\ route' = [route EXCEPT ![p] = Settled([route[p] EXCEPT !.hops = all, !.group = g])]
               /\ clean' = clean
      BY <2>1 DEF AddToEcmp, s, all
    <3>2. GroupOf(route[p]) \subseteq Groups \cup {NoObject}
      BY <1>2 DEF GroupOf, Route
    <3> HIDE DEF all
    <3>3. CASE \E r \in GroupAdded(s, all, nexthop', bad) :
                 /\ sai' = RouteRetargeted(r.sai, p, r.group)
                 /\ route' = [route EXCEPT ![p] = Settled([route[p] EXCEPT !.hops = all, !.group = r.group])]
                 /\ clean' = (clean /\ r.ok)
      <4>1. PICK r \in GroupAdded(s, all, nexthop', bad) :
              /\ sai' = RouteRetargeted(r.sai, p, r.group)
              /\ route' = [route EXCEPT ![p] = Settled([route[p] EXCEPT !.hops = all, !.group = r.group])]
              /\ clean' = (clean /\ r.ok)
        BY <3>3
      <4>2. /\ r.sai \in SaiState
            /\ r.sai.hops = s.hops
            /\ r.sai.routes = s.routes
            /\ r.group \in Groups \cup {NoObject}
        BY <1>3, <2>3, GroupAddedType
      <4>3. /\ sai' \in SaiState
            /\ sai'.hops = r.sai.hops
            /\ DOMAIN sai'.routes = DOMAIN r.sai.routes
        BY <4>1, <4>2, RouteRetargetedType
      <4> QED
        BY <2>3, <4>1, <4>2, <4>3
    <3>4. CASE \E g \in GroupOf(route[p]) :
                 /\ sai' = MembersAdded(s, g, H)
                 /\ route' = [route EXCEPT ![p] = Settled([route[p] EXCEPT !.hops = all, !.group = g])]
                 /\ clean' = clean
      <4>1. PICK g \in GroupOf(route[p]) :
              /\ sai' = MembersAdded(s, g, H)
              /\ route' = [route EXCEPT ![p] = Settled([route[p] EXCEPT !.hops = all, !.group = g])]
              /\ clean' = clean
        BY <3>4
      <4>2. sai' \in SaiState /\ sai'.hops = s.hops /\ sai'.routes = s.routes
        BY <2>3, <4>1, MembersAddedType
      <4> QED
        BY <2>3, <3>2, <4>1, <4>2 DEF RouteType
    <3> QED
      BY <3>1, <3>3, <3>4
  <2>7. PICK g \in Groups \cup {NoObject} :
          route' = [route EXCEPT ![p] = Settled([route[p] EXCEPT !.hops = all, !.group = g])]
    BY <2>6
  <2> DEFINE e == Settled([route[p] EXCEPT !.hops = all, !.group = g])
  <2>8. e \in Route /\ e.hops # {} /\ route' = [route EXCEPT ![p] = e]
    BY <1>4, <2>7
  <2> HIDE DEF e, all
  <2>9. /\ (route \in Partial(Prefixes, Route))'
        /\ RoutesCanGo'
        /\ DOMAIN route' = DOMAIN route
    BY <1>1, <2>8, UpdateRoute
  <2>10. RouteType'
    BY <1>1, <2>5, <2>6, <2>9 DEF RouteType
  <2>11. TableCoversSai'
    BY <2>2, <2>4, <2>6, <2>9 DEF TableCoversSai
  <2> QED
    BY <2>9, <2>10, <2>11
<1> QED
  BY <1>5, <1>6 DEF RemoteAddMore

-----------------------------------------------------------------------------
(* Removing next hops and routes *)

\* Giving back references removes from SAI only next hops whose entries go.
LEMMA GiveBack ==
  ASSUME RouteInv, NEW s \in SaiState, s.hops = sai.hops, NEW H,
         sai' = HopsRemoved(s, Freed(H)), nexthop' = Released(H)
  PROVE  /\ (nexthop \in Partial(NextHops, Nat))'
         /\ sai' \in SaiState
         /\ sai'.routes = s.routes
         /\ DOMAIN nexthop' \subseteq sai'.hops
<1>1. /\ Released(H) \in Partial(NextHops, Nat)
      /\ DOMAIN Released(H) = DOMAIN nexthop \ Freed(H)
  BY ReleasedType DEF RouteInv, RouteType
<1>2. /\ HopsRemoved(s, Freed(H)) \in SaiState
      /\ s.hops \ Freed(H) \subseteq HopsRemoved(s, Freed(H)).hops
      /\ HopsRemoved(s, Freed(H)).routes = s.routes
  BY HopsRemovedType
<1> QED
  BY <1>1, <1>2 DEF RouteInv, TableCoversSai

\* Some next hops of a route go: it keeps one, several, or local references.
LEMMA HopsRemoveStep ==
  ASSUME RouteInv, NEW p \in Prefixes, NEW H \in SUBSET NextHops, HopsRemove(p, H)
  PROVE  RouteInv'
<1> USE DEF RouteInv
<1>1. /\ p \in DOMAIN route
      /\ nexthop' = Released(H)
      /\ clean' \in BOOLEAN
      /\ neighbor' = neighbor
  BY DEF HopsRemove
<1>2. /\ route[p] \in Route
      /\ GroupOf(route[p]) \subseteq Groups \cup {NoObject}
      /\ sai \in SaiState
  <2>1. route[p] \in Route
    BY <1>1, PartialElim DEF RouteType
  <2> QED
    BY <2>1 DEF GroupOf, Route, RouteType
<1>3. ASSUME NEW s \in SaiState, s.hops = sai.hops, DOMAIN s.routes \subseteq DOMAIN sai.routes \cup {p},
             sai' = HopsRemoved(s, Freed(H)),
             NEW e \in Route, e.hops # {} \/ e.refer > 0,
             route' = [route EXCEPT ![p] = Settled(e)],
             leaked' \subseteq NextHops \cup Groups
      PROVE  RouteInv'
  <2>1. /\ (nexthop \in Partial(NextHops, Nat))'
        /\ sai' \in SaiState
        /\ sai'.routes = s.routes
        /\ DOMAIN nexthop' \subseteq sai'.hops
    BY <1>1, <1>3, GiveBack
  <2>2. Settled(e) \in Route /\ (Settled(e).hops # {} \/ Settled(e).refer > 0)
    BY <1>3, SettledType
  <2>3. /\ (route \in Partial(Prefixes, Route))'
        /\ RoutesCanGo'
        /\ DOMAIN route' = DOMAIN route
    BY <1>1, <1>3, <2>2, UpdateRoute
  <2>4. RouteType'
    BY <1>1, <1>3, <2>1, <2>3 DEF RouteType
  <2>5. TableCoversSai'
    BY <1>1, <1>3, <2>1, <2>3 DEF TableCoversSai
  <2> QED
    BY <2>3, <2>4, <2>5
<1>4. CASE LeaveOne(p, H)
  <2>1. PICK n \in route[p].hops : \E ecmp \in IsEcmp(route[p]), g \in GroupOf(route[p]) :
          LET s == RouteRetargeted(sai, p, IF n \in DOMAIN nexthop THEN n ELSE NoObject)
          IN  /\ sai' = HopsRemoved(IF ecmp THEN GroupRemoved(s, g) ELSE s, Freed(H))
              /\ route' = [route EXCEPT ![p] = Settled([route[p] EXCEPT !.hops = {n}])]
              /\ leaked' = leaked
    BY <1>4 DEF LeaveOne
  <2> DEFINE s == RouteRetargeted(sai, p, IF n \in DOMAIN nexthop THEN n ELSE NoObject)
             e == [route[p] EXCEPT !.hops = {n}]
  <2>2. PICK ecmp \in IsEcmp(route[p]), g \in GroupOf(route[p]) :
          /\ sai' = HopsRemoved(IF ecmp THEN GroupRemoved(s, g) ELSE s, Freed(H))
          /\ route' = [route EXCEPT ![p] = Settled(e)]
          /\ leaked' = leaked
    BY <2>1
  <2>3. e \in Route /\ e.hops # {}
    BY <1>2 DEF Route
  <2>4. s \in SaiState /\ s.hops = sai.hops /\ DOMAIN s.routes = DOMAIN sai.routes
    BY <1>2, RouteRetargetedType
  <2> DEFINE u == IF ecmp THEN GroupRemoved(s, g) ELSE s
  <2> HIDE DEF s, e
  <2>5. u \in SaiState /\ u.hops = sai.hops /\ DOMAIN u.routes = DOMAIN sai.routes
    BY <2>4, GroupRemovedType
  <2>6. sai' = HopsRemoved(u, Freed(H))
    BY <2>2
  <2> HIDE DEF u
  <2> QED
    BY <1>3, <2>2, <2>3, <2>5, <2>6 DEF RouteType
<1>5. CASE LeaveSeveral(p, H)
  <2>1. PICK g \in GroupOf(route[p]) :
          /\ sai' = HopsRemoved(MembersRemoved(sai, g, H \cap DOMAIN nexthop), Freed(H))
          /\ route' = [route EXCEPT ![p] = Settled([route[p] EXCEPT !.hops = @ \ H, !.group = g])]
    BY <1>5 DEF LeaveSeveral
  <2> DEFINE s == MembersRemoved(sai, g, H \cap DOMAIN nexthop)
             e == [route[p] EXCEPT !.hops = @ \ H, !.group = g]
  <2>2. route[p].hops \ H # {}
    BY <1>5, FS_EmptySet DEF LeaveSeveral
  <2>3. e \in Route /\ e.hops # {}
    BY <1>2, <2>2 DEF Route
  <2>4. s \in SaiState /\ s.hops = sai.hops /\ s.routes = sai.routes
    BY <1>2, MembersRemovedType
  <2>5. sai' = HopsRemoved(s, Freed(H)) /\ route' = [route EXCEPT ![p] = Settled(e)]
    BY <2>1
  <2>6. leaked' \subseteq NextHops \cup Groups
    BY <1>5 DEF LeaveSeveral, RouteType
  <2> HIDE DEF s, e
  <2> QED
    BY <1>3, <2>3, <2>4, <2>5, <2>6
<1>6. CASE LeaveLocal(p, H)
  <2>1. PICK bad \in Refusals :
          sai' = HopsRemoved(Programmed(RouteRemoved(sai, p), p, Cpu, bad), Freed(H))
    BY <1>6 DEF LeaveLocal
  <2> DEFINE s == Programmed(RouteRemoved(sai, p), p, Cpu, bad)
             e == [route[p] EXCEPT !.hops = {}]
  <2>2. e \in Route /\ e.refer > 0
    BY <1>2, <1>6 DEF LeaveLocal, Route
  <2>3. /\ RouteRemoved(sai, p) \in SaiState
        /\ RouteRemoved(sai, p).hops = sai.hops
        /\ DOMAIN RouteRemoved(sai, p).routes = DOMAIN sai.routes \ {p}
    BY <1>2, RouteRemovedType
  <2>4. s \in SaiState /\ s.hops = sai.hops /\ DOMAIN s.routes \subseteq DOMAIN sai.routes \cup {p}
    BY <2>3, ProgrammedType
  <2>5. sai' = HopsRemoved(s, Freed(H)) /\ route' = [route EXCEPT ![p] = Settled(e)]
    BY <1>6, <2>1 DEF LeaveLocal
  <2>6. leaked' \subseteq NextHops \cup Groups
    BY <1>2, <1>6 DEF LeaveLocal, RouteType, Route
  <2> HIDE DEF s, e
  <2> QED
    BY <1>3, <2>2, <2>4, <2>5, <2>6
<1> QED
  BY <1>4, <1>5, <1>6 DEF HopsRemove

\* The last next hops go, and the route with them.
LEMMA LastHopsRemoveStep ==
  ASSUME RouteInv, NEW p \in Prefixes, NEW H \in SUBSET NextHops, LastHopsRemove(p, H)
  PROVE  RouteInv'
<1> USE DEF RouteInv
<1>1. /\ p \in DOMAIN route
      /\ sai' = RouteRemoved(sai, p)
      /\ route' = Without(route, p)
      /\ leaked' = leaked \cup route[p].hops \cup ({route[p].group} \ {NoObject})
      /\ clean' \in BOOLEAN
      /\ UNCHANGED <<nexthop, neighbor>>
  BY DEF LastHopsRemove
<1>2. route[p] \in Route
  BY <1>1, PartialElim DEF RouteType
<1>3. /\ sai' \in SaiState
      /\ sai'.hops = sai.hops
      /\ DOMAIN sai'.routes = DOMAIN sai.routes \ {p}
  BY <1>1, RouteRemovedType DEF RouteType
<1>4. /\ (route \in Partial(Prefixes, Route))'
      /\ RoutesCanGo'
      /\ DOMAIN route' = DOMAIN route \ {p}
  BY <1>1, DropRoute
<1>5. leaked' \subseteq NextHops \cup Groups
  BY <1>1, <1>2 DEF RouteType, Route
<1>6. RouteType'
  BY <1>1, <1>3, <1>4, <1>5 DEF RouteType
<1>7. TableCoversSai'
  BY <1>1, <1>3, <1>4 DEF TableCoversSai
<1> QED
  BY <1>4, <1>6, <1>7

\* A local reference is added, to a route that is there or to a new one.
LEMMA LocalAddStep ==
  ASSUME RouteInv, NEW p \in Prefixes, LocalAdd(p)
  PROVE  RouteInv'
<1> USE DEF RouteInv
<1> DEFINE e == [Before(p) EXCEPT !.refer = @ + 1]
<1>1. /\ route' = With(route, p, e)
      /\ UNCHANGED <<nexthop, neighbor, leaked>>
  BY DEF LocalAdd
<1>2. Before(p) \in Route
  BY BeforeType DEF RouteType
<1>3. e \in Route /\ e.refer > 0
  BY <1>2 DEF Route
<1>4. /\ sai' \in SaiState
      /\ sai'.hops = sai.hops
      /\ DOMAIN sai'.routes \subseteq DOMAIN sai.routes \cup {p}
      /\ clean' \in BOOLEAN
  <2>1. CASE UNCHANGED <<sai, clean>>
    BY <2>1 DEF RouteType
  <2>2. CASE /\ \E bad \in Refusals : sai' = Programmed(sai, p, Cpu, bad)
             /\ clean' = (clean /\ p \in DOMAIN sai'.routes \ DOMAIN sai.routes)
    <3>1. PICK bad \in Refusals : sai' = Programmed(sai, p, Cpu, bad)
      BY <2>2
    <3> QED
      BY <2>2, <3>1, ProgrammedType DEF RouteType
  <2> QED
    BY <2>1, <2>2 DEF LocalAdd
<1> HIDE DEF e
<1>5. /\ (route \in Partial(Prefixes, Route))'
      /\ RoutesCanGo'
      /\ DOMAIN route' = DOMAIN route \cup {p}
  BY <1>1, <1>3, PutRoute
<1>6. RouteType'
  BY <1>1, <1>4, <1>5 DEF RouteType
<1>7. TableCoversSai'
  BY <1>1, <1>4, <1>5 DEF TableCoversSai
<1> QED
  BY <1>5, <1>6, <1>7

\* A local reference goes: not the last of a route without next hops.
LEMMA RemoveReferenceStep ==
  ASSUME RouteInv, NEW p \in Prefixes, RemoveReference(p)
  PROVE  RouteInv'
<1> USE DEF RouteInv
<1> DEFINE e == [route[p] EXCEPT !.refer = @ - 1]
<1>1. /\ p \in DOMAIN route
      /\ route[p].refer > IF route[p].hops = {} THEN 1 ELSE 0
      /\ route' = [route EXCEPT ![p].refer = @ - 1]
      /\ UNCHANGED <<nexthop, neighbor, sai, clean, leaked>>
  BY DEF RemoveReference
<1>2. route[p] \in Route
  BY <1>1, PartialElim DEF RouteType
<1>3. e \in Route /\ (e.hops # {} \/ e.refer > 0)
  BY <1>1, <1>2 DEF Route
<1>4. route' = [route EXCEPT ![p] = e]
  BY <1>1
<1> HIDE DEF e
<1>5. /\ (route \in Partial(Prefixes, Route))'
      /\ RoutesCanGo'
      /\ DOMAIN route' = DOMAIN route
  BY <1>1, <1>3, <1>4, UpdateRoute
<1>6. RouteType'
  BY <1>1, <1>5 DEF RouteType
<1>7. TableCoversSai'
  BY <1>1, <1>5 DEF TableCoversSai
<1> QED
  BY <1>5, <1>6, <1>7

\* The last local reference of a route without next hops goes, and the route.
LEMMA RemoveLocalStep ==
  ASSUME RouteInv, NEW p \in Prefixes, RemoveLocal(p)
  PROVE  RouteInv'
<1> USE DEF RouteInv
<1>1. /\ sai' = RouteRemoved(sai, p)
      /\ route' = Without(route, p)
      /\ UNCHANGED <<nexthop, neighbor, clean, leaked>>
  BY DEF RemoveLocal
<1>2. /\ sai' \in SaiState
      /\ sai'.hops = sai.hops
      /\ DOMAIN sai'.routes = DOMAIN sai.routes \ {p}
  BY <1>1, RouteRemovedType DEF RouteType
<1>3. /\ (route \in Partial(Prefixes, Route))'
      /\ RoutesCanGo'
      /\ DOMAIN route' = DOMAIN route \ {p}
  BY <1>1, DropRoute
<1>4. RouteType'
  BY <1>1, <1>2, <1>3 DEF RouteType
<1>5. TableCoversSai'
  BY <1>1, <1>2, <1>3 DEF TableCoversSai
<1> QED
  BY <1>3, <1>4, <1>5

\* A remote route goes with all its next hops, unless SAI does not know it.
LEMMA RemoveRemoteStep ==
  ASSUME RouteInv, NEW p \in Prefixes, RemoveRemote(p)
  PROVE  RouteInv'
<1> USE DEF RouteInv
<1>1. /\ p \in DOMAIN route
      /\ route[p].hops # {}
      /\ UNCHANGED <<neighbor, clean, leaked>>
  BY DEF RemoveRemote
<1>2. CASE route' = [route EXCEPT ![p] = Settled(@)] /\ UNCHANGED <<nexthop, sai>>
  <2>1. route[p] \in Route
    BY <1>1, PartialElim DEF RouteType
  <2>2. Settled(route[p]) \in Route /\ Settled(route[p]).hops # {}
    BY <1>1, <2>1, SettledType
  <2>3. /\ (route \in Partial(Prefixes, Route))'
        /\ RoutesCanGo'
        /\ DOMAIN route' = DOMAIN route
    BY <1>1, <1>2, <2>2, UpdateRoute
  <2>4. RouteType'
    BY <1>1, <1>2, <2>3 DEF RouteType
  <2>5. TableCoversSai'
    BY <1>2, <2>3 DEF TableCoversSai
  <2> QED
    BY <2>3, <2>4, <2>5
<1>3. CASE /\ \E ecmp \in IsEcmp(route[p]), g \in GroupOf(route[p]) :
                LET s == RouteRemoved(sai, p)
                IN  sai' = HopsRemoved(IF ecmp THEN GroupRemoved(s, g) ELSE s, Freed(route[p].hops))
           /\ nexthop' = Released(route[p].hops)
           /\ route' = Without(route, p)
  <2> DEFINE s == RouteRemoved(sai, p)
  <2>1. PICK ecmp \in IsEcmp(route[p]), g \in GroupOf(route[p]) :
          sai' = HopsRemoved(IF ecmp THEN GroupRemoved(s, g) ELSE s, Freed(route[p].hops))
    BY <1>3
  <2>2. s \in SaiState /\ s.hops = sai.hops /\ DOMAIN s.routes = DOMAIN sai.routes \ {p}
    BY RouteRemovedType DEF RouteType
  <2> DEFINE u == IF ecmp THEN GroupRemoved(s, g) ELSE s
  <2> HIDE DEF s
  <2>3. u \in SaiState /\ u.hops = sai.hops /\ DOMAIN u.routes = DOMAIN sai.routes \ {p}
    BY <2>2, GroupRemovedType
  <2>4. sai' = HopsRemoved(u, Freed(route[p].hops))
    BY <2>1
  <2> HIDE DEF u
  <2>5. /\ (nexthop \in Partial(NextHops, Nat))'
        /\ sai' \in SaiState
        /\ sai'.routes = u.routes
        /\ DOMAIN nexthop' \subseteq sai'.hops
    BY <1>3, <2>3, <2>4, GiveBack
  <2>6. /\ (route \in Partial(Prefixes, Route))'
        /\ RoutesCanGo'
        /\ DOMAIN route' = DOMAIN route \ {p}
    BY <1>3, DropRoute
  <2>7. RouteType'
    BY <1>1, <2>5, <2>6 DEF RouteType
  <2>8. TableCoversSai'
    BY <2>3, <2>5, <2>6 DEF TableCoversSai
  <2> QED
    BY <2>6, <2>7, <2>8
<1> QED
  BY <1>2, <1>3 DEF RemoveRemote

\* An own address of the switch is no prefix of the table.
LEMMA IpToMeStep ==
  ASSUME RouteInv, NEW a \in Addresses, IpToMe(a)
  PROVE  RouteInv'
<1> USE DEF RouteInv
<1>1. UNCHANGED <<nexthop, route, neighbor, clean, leaked>>
  BY DEF IpToMe
<1>2. a \notin Prefixes
  BY DisjointAssumption
<1>3. /\ sai' \in SaiState
      /\ sai'.hops = sai.hops
      /\ DOMAIN sai'.routes \subseteq DOMAIN sai.routes \cup {a}
  <2>1. CASE \E bad \in Refusals : sai' = Programmed(sai, a, Cpu, bad)
    BY <2>1, ProgrammedType DEF RouteType
  <2>2. CASE sai' = RouteRemoved(sai, a)
    BY <2>2, RouteRemovedType DEF RouteType
  <2> QED
    BY <2>1, <2>2 DEF IpToMe
<1>4. RouteType'
  BY <1>1, <1>3 DEF RouteType
<1>5. TableCoversSai' /\ RoutesCanGo'
  BY <1>1, <1>2, <1>3 DEF TableCoversSai, RoutesCanGo
<1> QED
  BY <1>4, <1>5

-----------------------------------------------------------------------------
(* Neighbours *)

\* A neighbour with a MAC refers to its next hop, created if it has no entry.
LEMMA NeighborAddStep ==
  ASSUME RouteInv, NEW n \in NextHops, NEW mac \in Macs, NeighborAdd(n, mac)
  PROVE  RouteInv'
<1> USE DEF RouteInv
<1>1. /\ neighbor' = [neighbor EXCEPT ![n] = IF @ \in Macs THEN @ ELSE mac]
      /\ clean' \in BOOLEAN
      /\ UNCHANGED <<route, leaked>>
  BY DEF NeighborAdd
<1>2. PICK bad \in Refusals :
        /\ nexthop' = Referred(Resolved({n}, bad))
        /\ sai' = IF bad.entry \/ n \in DOMAIN sai.neighbors \/ Resolved({n}, bad) = {}
                    THEN WithHops(Made({n}, bad))
                    ELSE [WithHops(Made({n}, bad)) EXCEPT !.neighbors = With(@, n, mac)]
  BY DEF NeighborAdd
<1> DEFINE s == WithHops(Made({n}, bad))
<1>3. /\ Resolved({n}, bad) \in SUBSET NextHops
      /\ Made({n}, bad) \in SUBSET NextHops
      /\ DOMAIN nexthop' \subseteq s.hops
  <2>1. {n} \in SUBSET NextHops /\ {n} \in SUBSET {n}
    OBVIOUS
  <2> QED
    BY <1>2, <2>1, ResolvedExists
<1>4. s \in SaiState /\ s.routes = sai.routes /\ s.neighbors = sai.neighbors
  BY <1>3, WithHopsType DEF RouteType
<1>5. (nexthop \in Partial(NextHops, Nat))'
  BY <1>2, <1>3, ReferredType DEF RouteType
<1> HIDE DEF s
<1>6. sai' \in SaiState /\ sai'.hops = s.hops /\ sai'.routes = s.routes
  <2>1. s.neighbors \in Partial(NextHops, Macs)
    BY <1>4 DEF SaiState
  <2>2. With(s.neighbors, n, mac) \in Partial(NextHops, Macs)
    BY <2>1, WithType
  <2>3. CASE sai' = s
    BY <1>4, <2>3
  <2>4. CASE sai' = [s EXCEPT !.neighbors = With(s.neighbors, n, mac)]
    BY <1>4, <2>2, <2>4 DEF SaiState
  <2> QED
    BY <1>2, <2>3, <2>4 DEF s
<1>7. RouteType'
  BY <1>1, <1>5, <1>6 DEF RouteType
<1>8. TableCoversSai' /\ RoutesCanGo'
  BY <1>1, <1>3, <1>4, <1>6 DEF TableCoversSai, RoutesCanGo
<1> QED
  BY <1>7, <1>8

\* A neighbour that goes gives its reference back.
LEMMA NeighborDeleteStep ==
  ASSUME RouteInv, NEW n \in NextHops, NeighborDelete(n)
  PROVE  RouteInv'
<1> USE DEF RouteInv
<1>1. /\ neighbor' = [neighbor EXCEPT ![n] = "none"]
      /\ UNCHANGED <<route, clean, leaked>>
  BY DEF NeighborDelete
<1>2. CASE UNCHANGED <<nexthop, sai>>
  <2>1. RouteType'
    BY <1>1, <1>2 DEF RouteType
  <2>2. TableCoversSai' /\ RoutesCanGo'
    BY <1>1, <1>2 DEF TableCoversSai, RoutesCanGo
  <2> QED
    BY <2>1, <2>2
<1>3. CASE /\ nexthop' = Released({n})
           /\ sai' = HopsRemoved([sai EXCEPT !.neighbors = Without(@, n)], Freed({n}))
  <2> DEFINE s == [sai EXCEPT !.neighbors = Without(@, n)]
  <2>1. s \in SaiState /\ s.hops = sai.hops /\ s.routes = sai.routes
    <3>1. sai.neighbors \in Partial(NextHops, Macs)
      BY DEF RouteType, SaiState
    <3>2. Without(sai.neighbors, n) \in Partial(NextHops, Macs)
      BY <3>1, WithoutType
    <3> QED
      BY <3>2 DEF RouteType, SaiState
  <2>2. sai' = HopsRemoved(s, Freed({n}))
    BY <1>3
  <2> HIDE DEF s
  <2>3. /\ (nexthop \in Partial(NextHops, Nat))'
        /\ sai' \in SaiState
        /\ sai'.routes = s.routes
        /\ DOMAIN nexthop' \subseteq sai'.hops
    BY <1>3, <2>1, <2>2, GiveBack
  <2>4. RouteType'
    BY <1>1, <2>3 DEF RouteType
  <2>5. TableCoversSai' /\ RoutesCanGo'
    BY <1>1, <2>1, <2>3 DEF TableCoversSai, RoutesCanGo
  <2> QED
    BY <2>4, <2>5
<1> QED
  BY <1>2, <1>3 DEF NeighborDelete

-----------------------------------------------------------------------------
(* The invariant *)

\* The tables are empty at first.
LEMMA InitInv == Init => RouteInv
<1> SUFFICES ASSUME Init PROVE RouteInv
  OBVIOUS
<1>1. nexthop \in Partial(NextHops, Nat)
  <2>1. nexthop \in [{} -> Nat]
    BY DEF Init
  <2> QED
    BY <2>1, PartialIntro
<1>2. route \in Partial(Prefixes, Route)
  <2>1. route \in [{} -> Route]
    BY DEF Init
  <2> QED
    BY <2>1, PartialIntro
<1>3. /\ [g \in {} |-> {}] \in Partial(Groups, SUBSET NextHops)
      /\ [p \in {} |-> Cpu] \in Partial(Prefixes \cup Addresses, Target)
      /\ [n \in {} |-> "none"] \in Partial(NextHops, Macs)
  <2>1. /\ [g \in {} |-> {}] \in [{} -> SUBSET NextHops]
        /\ [p \in {} |-> Cpu] \in [{} -> Target]
        /\ [n \in {} |-> "none"] \in [{} -> Macs]
    OBVIOUS
  <2> QED
    BY <2>1, PartialIntro
<1>4. sai \in SaiState
  BY <1>3 DEF Init, SaiState
<1>5. neighbor \in [NextHops -> {"none", "empty"} \cup Macs]
  BY DEF Init
<1>6. RouteType
  BY <1>1, <1>2, <1>4, <1>5 DEF RouteType, Init
<1>7. RoutesCanGo /\ TableCoversSai
  BY DEF Init, RoutesCanGo, TableCoversSai
<1> QED
  BY <1>6, <1>7 DEF RouteInv

LEMMA StepInv == RouteInv /\ [Next]_vars => RouteInv'
<1> SUFFICES ASSUME RouteInv, [Next]_vars PROVE RouteInv'
  OBVIOUS
<1>1. ASSUME NEW p \in Prefixes, NEW H \in (SUBSET NextHops) \ {{}},
             RemoteAdd(p, H) \/ HopsRemove(p, H) \/ LastHopsRemove(p, H)
      PROVE  RouteInv'
  BY <1>1, RemoteAddFirstStep, RemoteAddMoreStep, HopsRemoveStep, LastHopsRemoveStep DEF RemoteAdd
<1>2. ASSUME NEW p \in Prefixes,
             LocalAdd(p) \/ RemoveReference(p) \/ RemoveLocal(p) \/ RemoveRemote(p)
      PROVE  RouteInv'
  BY <1>2, LocalAddStep, RemoveReferenceStep, RemoveLocalStep, RemoveRemoteStep
<1>3. ASSUME NEW a \in Addresses, IpToMe(a)
      PROVE  RouteInv'
  BY <1>3, IpToMeStep
<1>4. ASSUME NEW n \in NextHops, NeighborPending(n)
      PROVE  RouteInv'
  BY <1>4 DEF NeighborPending, RouteInv, RouteType, RoutesCanGo, TableCoversSai
<1>5. ASSUME NEW n \in NextHops, NeighborDelete(n)
      PROVE  RouteInv'
  BY <1>5, NeighborDeleteStep
<1>6. ASSUME NEW n \in NextHops, NEW mac \in Macs, NeighborAdd(n, mac)
      PROVE  RouteInv'
  BY <1>6, NeighborAddStep
<1>7. CASE UNCHANGED vars
  BY <1>7 DEF vars, RouteInv, RouteType, RoutesCanGo, TableCoversSai
<1> QED
  BY <1>1, <1>2, <1>3, <1>4, <1>5, <1>6, <1>7 DEF Next

LEMMA SpecInv == Spec => []RouteInv
BY InitInv, StepInv, PTL DEF Spec

\* The variables keep their types, and no reference count gets negative.
THEOREM RouteTypeCorrect == Spec => []TypeOK
<1>1. RouteInv => TypeOK
  <2>1. ASSUME NEW A, NEW B, NEW f \in Partial(A, B)
        PROVE  IsPartial(f, A, B)
    BY PartialElim DEF IsPartial
  <2> QED
    BY <2>1 DEF RouteInv, RouteType, SaiState, TypeOK
<1> QED
  BY <1>1, SpecInv, PTL

\* No call leaves a route in the table that none can remove.
THEOREM RoutesCanGoHolds == Spec => []RoutesCanGo
<1>1. RouteInv => RoutesCanGo
  BY DEF RouteInv
<1> QED
  BY <1>1, SpecInv, PTL

\* No next hop has an entry without an object, and no prefix an object without
\* an entry.
THEOREM TableCoversSaiHolds == Spec => []TableCoversSai
<1>1. RouteInv => TableCoversSai
  BY DEF RouteInv
<1> QED
  BY <1>1, SpecInv, PTL
-----------------------------------------------------------------------------
(* What is exact while the history is clean                                *)

\* The route of p in the objects s of SAI is what its entry e says.
Follows(s, e, p) ==
  /\ p \in DOMAIN s.routes
  /\ \/ e.hops = {} /\ e.rstate # "ecmp" /\ s.routes[p] = Cpu
     \/ e.rstate = "non_ecmp" /\ \E n \in NextHops : e.hops = {n} /\ s.routes[p] = n
     \/ /\ e.rstate = "ecmp" /\ Cardinality(e.hops) > 1
        /\ e.group \in DOMAIN s.groups
        /\ s.routes[p] = e.group /\ s.groups[e.group] = e.hops

RoutesFollow ==
  /\ \A p \in DOMAIN sai.routes \cap Prefixes : p \in DOMAIN route
  /\ \A p \in DOMAIN route : Follows(sai, route[p], p)
  /\ \A a \in Addresses \cap DOMAIN sai.routes : sai.routes[a] = Cpu

NeighborsFollow ==
  \A n \in NextHops :
    IF neighbor[n] \in Macs THEN n \in DOMAIN sai.neighbors /\ sai.neighbors[n] = neighbor[n]
    ELSE n \notin DOMAIN sai.neighbors

\* Route p has the group g.
Owns(p, g) == p \in DOMAIN route /\ route[p].rstate = "ecmp" /\ route[p].group = g

\* A group of SAI without a route is leaked, and so are its next hops, which it
\* keeps in use.
GroupsAreOwned ==
  \A g \in DOMAIN sai.groups :
    (\E p \in DOMAIN route : Owns(p, g)) \/ (g \in leaked /\ sai.groups[g] \subseteq leaked)

GroupsAreApart ==
  \A p, q \in DOMAIN route : \A g \in DOMAIN sai.groups : Owns(p, g) /\ Owns(q, g) => p = q

HopsAreKnown == sai.hops \ DOMAIN nexthop \subseteq leaked

CountsMatch == \A n \in NextHops : /\ RefCount(n) >= Users(n)
                                   /\ n \notin leaked => RefCount(n) = Users(n)

Exact ==
  /\ RoutesFollow /\ NeighborsFollow
  /\ GroupsAreOwned /\ GroupsAreApart /\ HopsAreKnown /\ CountsMatch

ExactInv == RouteInv /\ (clean => Exact)

-----------------------------------------------------------------------------
(* Types, value by value                                                    *)

Typed ==
  /\ \A n \in DOMAIN nexthop : n \in NextHops /\ nexthop[n] \in Nat
  /\ \A p \in DOMAIN route : p \in Prefixes /\ route[p] \in Route
  /\ \A g \in DOMAIN sai.groups : g \in Groups /\ sai.groups[g] \subseteq NextHops
  /\ \A p \in DOMAIN sai.routes : p \in Prefixes \cup Addresses /\ sai.routes[p] \in Target
  /\ sai.hops \subseteq NextHops
  /\ sai \in SaiState
  /\ neighbor \in [NextHops -> {"none", "empty"} \cup Macs]
  /\ leaked \subseteq NextHops \cup Groups

LEMMA InvIsTyped == RouteInv => Typed
<1> SUFFICES ASSUME RouteInv PROVE Typed
  OBVIOUS
<1>1. RouteType
  BY DEF RouteInv
<1>2. /\ sai.groups \in Partial(Groups, SUBSET NextHops)
      /\ sai.routes \in Partial(Prefixes \cup Addresses, Target)
      /\ sai.hops \subseteq NextHops
  BY <1>1 DEF RouteType, SaiState
<1>3. \A n \in DOMAIN nexthop : n \in NextHops /\ nexthop[n] \in Nat
  BY <1>1, PartialElim DEF RouteType
<1>4. \A p \in DOMAIN route : p \in Prefixes /\ route[p] \in Route
  BY <1>1, PartialElim DEF RouteType
<1>5. \A g \in DOMAIN sai.groups : g \in Groups /\ sai.groups[g] \subseteq NextHops
  <2>1. DOMAIN sai.groups \subseteq Groups /\ \A g \in DOMAIN sai.groups : sai.groups[g] \in SUBSET NextHops
    BY <1>2, PartialElim
  <2> QED
    BY <2>1
<1>6. \A p \in DOMAIN sai.routes : p \in Prefixes \cup Addresses /\ sai.routes[p] \in Target
  <2> DEFINE A == Prefixes \cup Addresses
  <2>1. sai.routes \in Partial(A, Target)
    BY <1>2
  <2> HIDE DEF A
  <2>2. \A p \in DOMAIN sai.routes : p \in A /\ sai.routes[p] \in Target
    BY <2>1, PartialElim
  <2> QED
    BY <2>2 DEF A
<1> QED
  BY <1>1, <1>2, <1>3, <1>4, <1>5, <1>6 DEF RouteType, Typed

LEMMA InvIsTypedAfter == RouteInv' => Typed'
BY InvIsTyped, PTL
-----------------------------------------------------------------------------
(* A step that changes one route                                            *)

\* Only route p changes, in the table and in SAI, and SAI does what its entry says.
Touches(p) ==
  /\ \A q \in DOMAIN route' \cup DOMAIN route :
       q # p => q \in DOMAIN route /\ q \in DOMAIN route' /\ route'[q] = route[q]
  /\ \A q \in DOMAIN sai'.routes \cup DOMAIN sai.routes :
       q # p => q \in DOMAIN sai.routes /\ q \in DOMAIN sai'.routes /\ sai'.routes[q] = sai.routes[q]
  /\ p \in DOMAIN sai'.routes => p \in DOMAIN route'
  /\ p \in DOMAIN route' => Follows(sai', route'[p], p)

\* Only the group of p changes; p has it, or it is gone or leaked.
Regroups(p) ==
  /\ \A g \in DOMAIN sai.groups :
       ~Owns(p, g) => g \in DOMAIN sai'.groups /\ sai'.groups[g] = sai.groups[g]
  /\ \A g \in DOMAIN sai'.groups : g \in DOMAIN sai.groups \/ Owns(p, g)'
  /\ \A g \in DOMAIN sai'.groups :
       Owns(p, g) => Owns(p, g)' \/ (g \in leaked' /\ sai'.groups[g] \subseteq leaked')
  /\ \A g \in DOMAIN sai.groups : Owns(p, g)' => Owns(p, g)
  /\ leaked \subseteq leaked'

\* A route that has a group is one that follows it.
LEMMA OwnersFollow ==
  ASSUME RoutesFollow, NEW p, NEW g, Owns(p, g)
  PROVE  /\ g \in DOMAIN sai.groups /\ p \in DOMAIN sai.routes
         /\ sai.routes[p] = g /\ sai.groups[g] = route[p].hops
         /\ Cardinality(route[p].hops) > 1
<1>1. p \in DOMAIN route /\ route[p].rstate = "ecmp" /\ route[p].group = g
  BY DEF Owns
<1>2. Follows(sai, route[p], p)
  BY <1>1 DEF RoutesFollow
<1> QED
  BY <1>1, <1>2 DEF Follows

\* Routes follow, and groups have one owner each, after such a step too.
LEMMA RoutesStayExact ==
  ASSUME RouteInv, RoutesFollow, GroupsAreOwned, GroupsAreApart,
         NEW p \in Prefixes, Touches(p), Regroups(p)
  PROVE  RoutesFollow' /\ GroupsAreOwned' /\ GroupsAreApart'
<1> DEFINE Others == {q \in DOMAIN route' : q # p}
<1>1. \A q \in Others : q \in DOMAIN route /\ route'[q] = route[q]
  BY DEF Touches
<1>2. \A q \in Others : \A g : Owns(q, g)' <=> Owns(q, g)
  BY <1>1 DEF Owns
<1>3. \A q \in Others : \A g : Owns(q, g) => g \in DOMAIN sai.groups /\ ~Owns(p, g)
  <2> TAKE q \in Others
  <2> TAKE g
  <2> SUFFICES ASSUME Owns(q, g) PROVE g \in DOMAIN sai.groups /\ ~Owns(p, g)
    OBVIOUS
  <2>1. g \in DOMAIN sai.groups
    BY OwnersFollow
  <2>2. ASSUME Owns(p, g) PROVE FALSE
    BY <1>1, <2>1, <2>2 DEF GroupsAreApart, Owns
  <2> QED
    BY <2>1, <2>2
<1>4. RoutesFollow'
  <2>1. ASSUME NEW q \in Others PROVE Follows(sai', route'[q], q)
    <3>1. Follows(sai, route[q], q) /\ route'[q] = route[q] /\ q \in DOMAIN route /\ q # p
      BY <1>1, <2>1 DEF RoutesFollow
    <3>2. q \in DOMAIN sai'.routes /\ sai'.routes[q] = sai.routes[q]
      BY <3>1 DEF Follows, Touches
    <3>3. CASE route[q].rstate = "ecmp"
      <4>1. Owns(q, route[q].group)
        BY <3>1, <3>3 DEF Owns
      <4>2. /\ route[q].group \in DOMAIN sai'.groups
            /\ sai'.groups[route[q].group] = sai.groups[route[q].group]
        BY <1>3, <2>1, <4>1 DEF Regroups
      <4> QED
        BY <3>1, <3>2, <3>3, <4>2 DEF Follows
    <3>4. CASE route[q].rstate # "ecmp"
      BY <3>1, <3>2, <3>4 DEF Follows
    <3> QED
      BY <3>3, <3>4
  <2>2. \A q \in DOMAIN route' : Follows(sai', route'[q], q)
    BY <2>1 DEF Touches
  <2>3. \A q \in DOMAIN sai'.routes \cap Prefixes : q \in DOMAIN route'
    BY DEF Touches, RoutesFollow
  <2>4. \A a \in Addresses \cap DOMAIN sai'.routes : sai'.routes[a] = Cpu
    BY DisjointAssumption DEF Touches, RoutesFollow
  <2> QED
    BY <2>2, <2>3, <2>4 DEF RoutesFollow
<1>5. GroupsAreOwned'
  <2> SUFFICES ASSUME NEW g \in DOMAIN sai'.groups
               PROVE  \/ \E q \in DOMAIN route' : Owns(q, g)'
                      \/ g \in leaked' /\ sai'.groups[g] \subseteq leaked'
    BY DEF GroupsAreOwned
  <2>1. CASE Owns(p, g)'
    BY <2>1 DEF Owns
  <2>2. CASE Owns(p, g)
    BY <2>1, <2>2 DEF Regroups
  <2>3. CASE ~Owns(p, g) /\ ~Owns(p, g)'
    <3>1. g \in DOMAIN sai.groups /\ sai'.groups[g] = sai.groups[g]
      BY <2>3 DEF Regroups
    <3>2. CASE \E q \in DOMAIN route : Owns(q, g)
      <4>1. PICK q \in DOMAIN route : Owns(q, g)
        BY <3>2
      <4>2. q \in Others
        BY <2>3, <4>1 DEF Touches
      <4> QED
        BY <1>2, <4>1, <4>2
    <3>3. CASE g \in leaked /\ sai.groups[g] \subseteq leaked
      BY <3>1, <3>3 DEF Regroups
    <3> QED
      BY <3>1, <3>2, <3>3 DEF GroupsAreOwned
  <2> QED
    BY <2>1, <2>2, <2>3
<1>6. GroupsAreApart'
  <2>1. \A q \in Others : \A g : ~(Owns(q, g)' /\ Owns(p, g)')
    BY <1>2, <1>3 DEF Regroups
  <2>2. ASSUME NEW q \in Others, NEW r \in Others, NEW g, Owns(q, g)', Owns(r, g)' PROVE q = r
    <3>1. Owns(q, g) /\ Owns(r, g)
      BY <1>2, <2>2
    <3>2. g \in DOMAIN sai.groups /\ q \in DOMAIN route /\ r \in DOMAIN route
      BY <1>1, <1>3, <2>2, <3>1
    <3> QED
      BY <3>1, <3>2 DEF GroupsAreApart
  <2>3. ASSUME NEW q \in DOMAIN route', NEW r \in DOMAIN route', NEW g, Owns(q, g)', Owns(r, g)'
        PROVE  q = r
    BY <2>1, <2>2, <2>3
  <2> QED
    BY <2>3 DEF GroupsAreApart
<1> QED
  BY <1>4, <1>5, <1>6
-----------------------------------------------------------------------------
(* Users and reference counts                                               *)

\* The routes that use next hop n, and the next hops of route p.
Holders(n) == {p \in DOMAIN route : n \in route[p].hops}
HopsOf(p)  == IF p \in DOMAIN route THEN route[p].hops ELSE {}

LEMMA HoldersAreFinite == RouteInv => \A n : IsFiniteSet(Holders(n))
<1> SUFFICES ASSUME RouteInv, NEW n PROVE IsFiniteSet(Holders(n))
  OBVIOUS
<1>1. Holders(n) \in SUBSET Prefixes
  BY InvIsTyped DEF Typed, Holders
<1> QED
  BY <1>1, FS_Subset, FiniteAssumption

LEMMA UsersAreHolders ==
  RouteInv => \A n : /\ Cardinality(Holders(n)) \in Nat
                     /\ Users(n) \in Nat
                     /\ neighbor[n] \in Macs => Users(n) = Cardinality(Holders(n)) + 1
                     /\ neighbor[n] \notin Macs => Users(n) = Cardinality(Holders(n))
<1> SUFFICES ASSUME RouteInv, NEW n
             PROVE  /\ Cardinality(Holders(n)) \in Nat
                    /\ Users(n) \in Nat
                    /\ neighbor[n] \in Macs => Users(n) = Cardinality(Holders(n)) + 1
                    /\ neighbor[n] \notin Macs => Users(n) = Cardinality(Holders(n))
  OBVIOUS
<1>1. Cardinality(Holders(n)) \in Nat
  BY HoldersAreFinite, FS_CardinalityType
<1>2. Users(n) = Cardinality(Holders(n)) + (IF neighbor[n] \in Macs THEN 1 ELSE 0)
  BY DEF Users, Holders
<1> QED
  BY <1>1, <1>2

LEMMA UsersAreHoldersAfter ==
  RouteInv' => (\A n : /\ Cardinality(Holders(n)) \in Nat
                       /\ Users(n) \in Nat
                       /\ neighbor[n] \in Macs => Users(n) = Cardinality(Holders(n)) + 1
                       /\ neighbor[n] \notin Macs => Users(n) = Cardinality(Holders(n)))'
BY UsersAreHolders, PTL

\* A next hop that is used has at least one user, and an entry.
LEMMA UsedIsCounted ==
  ASSUME RouteInv, CountsMatch, NEW n \in NextHops,
         neighbor[n] \in Macs \/ \E p \in DOMAIN route : n \in route[p].hops
  PROVE  Users(n) >= 1 /\ n \in DOMAIN nexthop /\ nexthop[n] >= Users(n)
<1>1. Users(n) >= 1
  <2>1. CASE neighbor[n] \in Macs
    BY <2>1, UsersAreHolders
  <2>2. CASE \E p \in DOMAIN route : n \in route[p].hops
    <3>1. Holders(n) # {}
      BY <2>2 DEF Holders
    <3>2. Cardinality(Holders(n)) # 0
      BY <3>1, HoldersAreFinite, FS_EmptySet
    <3>3. /\ Cardinality(Holders(n)) \in Nat
          /\ Users(n) = Cardinality(Holders(n)) + 1 \/ Users(n) = Cardinality(Holders(n))
      BY UsersAreHolders
    <3> QED
      BY <3>2, <3>3
  <2> QED
    BY <2>1, <2>2
<1>2. RefCount(n) >= Users(n) /\ Users(n) \in Nat
  BY UsersAreHolders DEF CountsMatch
<1>3. n \in DOMAIN nexthop
  BY <1>1, <1>2 DEF RefCount
<1> QED
  BY <1>1, <1>2, <1>3 DEF RefCount

\* What a step that touches one route does to the number of users.
LEMMA UsersFollowRoute ==
  ASSUME RouteInv, RouteInv', NEW p, Touches(p), neighbor' = neighbor, NEW n \in NextHops
  PROVE  /\ n \in HopsOf(p) <=> n \in HopsOf(p)' => Users(n)' = Users(n)
         /\ n \notin HopsOf(p) /\ n \in HopsOf(p)' => Users(n)' = Users(n) + 1
         /\ n \in HopsOf(p) /\ n \notin HopsOf(p)' => Users(n)' = Users(n) - 1
<1> DEFINE R == Holders(n) \ {p}
<1>1. /\ p \in Holders(n) <=> n \in HopsOf(p)
      /\ p \in Holders(n)' <=> n \in HopsOf(p)'
  BY DEF Holders, HopsOf
<1>2. Holders(n)' \ {p} = R
  BY DEF Holders, Touches
<1>3. /\ IsFiniteSet(R) /\ Cardinality(R) \in Nat
      /\ Cardinality(R \cup {p}) = Cardinality(R) + 1
  <2>1. IsFiniteSet(R)
    BY HoldersAreFinite, FS_RemoveElement
  <2>2. p \notin R
    OBVIOUS
  <2> HIDE DEF R
  <2> QED
    BY <2>1, <2>2, FS_AddElement, FS_CardinalityType
<1>4. /\ n \in HopsOf(p) => Holders(n) = R \cup {p}
      /\ n \notin HopsOf(p) => Holders(n) = R
  BY <1>1
<1>5. /\ n \in HopsOf(p)' => Holders(n)' = R \cup {p}
      /\ n \notin HopsOf(p)' => Holders(n)' = R
  BY <1>1, <1>2
<1> DEFINE k == Cardinality(R)
<1>6. /\ n \in HopsOf(p) => Cardinality(Holders(n)) = k + 1
      /\ n \notin HopsOf(p) => Cardinality(Holders(n)) = k
      /\ n \in HopsOf(p)' => Cardinality(Holders(n)') = k + 1
      /\ n \notin HopsOf(p)' => Cardinality(Holders(n)') = k
      /\ k \in Nat
  BY <1>3, <1>4, <1>5
<1> HIDE DEF k
<1>7. /\ neighbor[n] \in Macs => Users(n) = Cardinality(Holders(n)) + 1
      /\ neighbor[n] \notin Macs => Users(n) = Cardinality(Holders(n))
      /\ neighbor[n] \in Macs => Users(n)' = Cardinality(Holders(n)') + 1
      /\ neighbor[n] \notin Macs => Users(n)' = Cardinality(Holders(n)')
  BY UsersAreHolders, UsersAreHoldersAfter
<1> QED
  BY <1>6, <1>7

\* Counts match after next hops got another user each and were counted up.
LEMMA CountedUp ==
  ASSUME RouteInv, CountsMatch, NEW H \in SUBSET NextHops, nexthop' = Referred(H),
         leaked \subseteq leaked',
         \A n \in NextHops : /\ n \in H => Users(n)' = Users(n) + 1
                             /\ n \notin H => Users(n)' = Users(n)
  PROVE  CountsMatch'
<1> SUFFICES ASSUME NEW n \in NextHops
             PROVE  /\ RefCount(n)' >= Users(n)'
                    /\ n \notin leaked' => RefCount(n)' = Users(n)'
  BY DEF CountsMatch
<1>1. /\ Users(n) \in Nat /\ RefCount(n) >= Users(n)
      /\ n \notin leaked => RefCount(n) = Users(n)
  BY UsersAreHolders DEF CountsMatch
<1>2. RefCount(n) \in Nat
  BY InvIsTyped DEF Typed, RefCount
<1>3. RefCount(n)' = IF n \in H THEN RefCount(n) + 1 ELSE RefCount(n)
  <2>1. DOMAIN nexthop' = DOMAIN nexthop \cup H
    BY DEF Referred
  <2>2. n \in DOMAIN nexthop' => nexthop'[n] = IF n \notin DOMAIN nexthop THEN 1
                                               ELSE IF n \in H THEN nexthop[n] + 1 ELSE nexthop[n]
    BY DEF Referred
  <2> QED
    BY <2>1, <2>2 DEF RefCount
<1> QED
  BY <1>1, <1>2, <1>3

\* And after next hops lost one user each and were counted down.
LEMMA CountedDown ==
  ASSUME RouteInv, CountsMatch, NEW H \in SUBSET NextHops, nexthop' = Released(H),
         leaked \subseteq leaked',
         \A n \in NextHops : /\ n \in H => Users(n) >= 1 /\ Users(n)' = Users(n) - 1
                             /\ n \notin H => Users(n)' = Users(n)
  PROVE  CountsMatch'
<1> SUFFICES ASSUME NEW n \in NextHops
             PROVE  /\ RefCount(n)' >= Users(n)'
                    /\ n \notin leaked' => RefCount(n)' = Users(n)'
  BY DEF CountsMatch
<1>1. /\ Users(n) \in Nat /\ RefCount(n) >= Users(n)
      /\ n \notin leaked => RefCount(n) = Users(n)
  BY UsersAreHolders DEF CountsMatch
<1>2. RefCount(n) \in Nat /\ (n \in DOMAIN nexthop => nexthop[n] \in Nat)
  BY InvIsTyped DEF Typed, RefCount
<1>3. n \in H => n \in DOMAIN nexthop /\ nexthop[n] >= 1
  BY <1>1, <1>2 DEF RefCount
<1>4. RefCount(n)' = IF n \in H THEN RefCount(n) - 1 ELSE RefCount(n)
  <2>1. DOMAIN nexthop' = DOMAIN nexthop \ Freed(H)
    BY DEF Released
  <2>2. n \in DOMAIN nexthop' => nexthop'[n] = IF n \in H THEN nexthop[n] - 1 ELSE nexthop[n]
    BY DEF Released
  <2>3. n \in Freed(H) <=> n \in H /\ n \in DOMAIN nexthop /\ nexthop[n] <= 1
    BY DEF Freed
  <2> QED
    BY <1>2, <1>3, <2>1, <2>2, <2>3 DEF RefCount
<1> QED
  BY <1>1, <1>2, <1>4

-----------------------------------------------------------------------------
(* What may go                                                              *)

\* SAI uses no next hop without an entry, unless it is leaked.
LEMMA UsedHasEntry ==
  RouteInv /\ RoutesFollow /\ GroupsAreOwned /\ CountsMatch
    => \A n \in NextHops : InUse(sai, n) => n \in DOMAIN nexthop \/ n \in leaked
<1> SUFFICES ASSUME RouteInv, RoutesFollow, GroupsAreOwned, CountsMatch,
                    NEW n \in NextHops, InUse(sai, n), n \notin leaked
             PROVE  n \in DOMAIN nexthop
  OBVIOUS
<1>1. SUFFICES \E p \in DOMAIN route : n \in route[p].hops
  BY UsedIsCounted
<1>2. CASE \E p \in DOMAIN sai.routes : sai.routes[p] = n
  <2>1. PICK p \in DOMAIN sai.routes : sai.routes[p] = n
    BY <1>2
  <2>2. n # Cpu /\ n \notin Groups
    BY DisjointAssumption
  <2>3. p \in DOMAIN route
    BY <2>1, <2>2, InvIsTyped DEF RoutesFollow, Typed
  <2>4. Follows(sai, route[p], p)
    BY <2>3 DEF RoutesFollow
  <2>5. n \in route[p].hops
    BY <2>1, <2>2, <2>4, InvIsTyped DEF Follows, Typed
  <2> QED
    BY <2>3, <2>5
<1>3. CASE \E g \in DOMAIN sai.groups : n \in sai.groups[g]
  <2>1. PICK g \in DOMAIN sai.groups : n \in sai.groups[g]
    BY <1>3
  <2>2. PICK p \in DOMAIN route : Owns(p, g)
    BY <2>1 DEF GroupsAreOwned
  <2> QED
    BY <2>1, <2>2, OwnersFollow
<1> QED
  BY <1>2, <1>3 DEF InUse

LEMMA UsedHasEntryAfter ==
  RouteInv' /\ RoutesFollow' /\ GroupsAreOwned' /\ CountsMatch'
    => (\A n \in NextHops : InUse(sai, n) => n \in DOMAIN nexthop \/ n \in leaked)'
BY UsedHasEntry, PTL

\* So the objects of entries that are freed go with them.
LEMMA FreedGo ==
  ASSUME RouteInv', RoutesFollow', GroupsAreOwned', CountsMatch', HopsAreKnown,
         NEW s \in SaiState, s.hops = sai.hops, NEW H,
         sai' = HopsRemoved(s, Freed(H)), nexthop' = Released(H), leaked \subseteq leaked'
  PROVE  HopsAreKnown'
<1>1. /\ sai'.routes = s.routes /\ sai'.groups = s.groups
      /\ sai'.hops = {n \in s.hops : n \in Freed(H) => InUse(s, n)}
  BY DEF HopsRemoved, SaiState
<1>2. \A n : InUse(s, n) <=> InUse(sai', n)
  BY <1>1 DEF InUse
<1>3. DOMAIN nexthop' = DOMAIN nexthop \ Freed(H)
  BY DEF Released
<1>4. SUFFICES ASSUME NEW n \in sai'.hops, n \notin DOMAIN nexthop'
               PROVE  n \in leaked'
  BY DEF HopsAreKnown
<1>5. n \in NextHops /\ n \in sai.hops
  BY <1>1, <1>4, InvIsTypedAfter DEF Typed
<1>6. CASE n \notin DOMAIN nexthop
  BY <1>5, <1>6 DEF HopsAreKnown
<1>7. CASE n \in Freed(H)
  BY <1>1, <1>2, <1>4, <1>5, <1>7, UsedHasEntryAfter
<1> QED
  BY <1>3, <1>4, <1>6, <1>7

\* The group of a route that goes elsewhere or is gone is in use no more.
LEMMA GroupIsFree ==
  ASSUME RouteInv, RoutesFollow, GroupsAreApart, NEW p \in Prefixes, NEW g, Owns(p, g),
         NEW s \in SaiState, s.groups = sai.groups,
         \A q \in DOMAIN s.routes : q # p => q \in DOMAIN sai.routes /\ s.routes[q] = sai.routes[q],
         p \in DOMAIN s.routes => s.routes[p] \in NextHops
  PROVE  ~InUse(s, g)
<1>1. g \in DOMAIN sai.groups
  BY OwnersFollow
<1>2. g \in Groups /\ g \notin NextHops /\ g # Cpu
  BY <1>1, InvIsTyped, DisjointAssumption DEF Typed
<1>3. \A h \in DOMAIN s.groups : g \notin s.groups[h]
  BY <1>2, InvIsTyped DEF Typed
<1>4. ASSUME NEW q \in DOMAIN s.routes, s.routes[q] = g PROVE FALSE
  <2>1. q # p /\ q \in DOMAIN sai.routes /\ sai.routes[q] = g
    BY <1>2, <1>4
  <2>2. q \in DOMAIN route
    BY <1>2, <2>1, InvIsTyped DEF RoutesFollow, Typed
  <2>3. Follows(sai, route[q], q)
    BY <2>2 DEF RoutesFollow
  <2>4. Owns(q, g)
    BY <1>2, <2>1, <2>2, <2>3 DEF Follows, Owns
  <2> QED
    BY <1>1, <2>1, <2>2, <2>4 DEF GroupsAreApart, Owns
<1> QED
  BY <1>3, <1>4 DEF InUse
-----------------------------------------------------------------------------
(* Steps that add next hops to a route, take some from it, or neither       *)

LEMMA NeighborsStay ==
  ASSUME NeighborsFollow, neighbor' = neighbor, sai'.neighbors = sai.neighbors
  PROVE  NeighborsFollow'
BY DEF NeighborsFollow

LEMMA AddingIsExact ==
  ASSUME RouteInv, RouteInv', Exact, NEW p \in Prefixes, NEW H \in SUBSET NextHops,
         Touches(p), Regroups(p), neighbor' = neighbor, sai'.neighbors = sai.neighbors,
         nexthop' = Referred(H), sai'.hops \subseteq sai.hops \cup H,
         HopsOf(p)' = HopsOf(p) \cup H, HopsOf(p) \cap H = {}
  PROVE  Exact'
<1> USE DEF Exact
<1>1. leaked \subseteq leaked'
  BY DEF Regroups
<1>2. \A n \in NextHops : /\ n \in H => Users(n)' = Users(n) + 1
                          /\ n \notin H => Users(n)' = Users(n)
  BY UsersFollowRoute
<1>3. CountsMatch'
  BY <1>1, <1>2, CountedUp
<1>4. HopsAreKnown'
  BY <1>1 DEF HopsAreKnown, Referred
<1> QED
  BY <1>3, <1>4, RoutesStayExact, NeighborsStay

LEMMA RemovingIsExact ==
  ASSUME RouteInv, RouteInv', Exact, NEW p \in Prefixes, NEW H \in SUBSET NextHops,
         Touches(p), Regroups(p), neighbor' = neighbor,
         NEW s \in SaiState, s.hops = sai.hops, s.neighbors = sai.neighbors,
         sai' = HopsRemoved(s, Freed(H)), nexthop' = Released(H),
         HopsOf(p)' = HopsOf(p) \ H, H \subseteq HopsOf(p)
  PROVE  Exact'
<1> USE DEF Exact
<1>1. leaked \subseteq leaked'
  BY DEF Regroups
<1>2. \A n \in NextHops : /\ n \in H => Users(n)' = Users(n) - 1
                          /\ n \notin H => Users(n)' = Users(n)
  BY UsersFollowRoute
<1>3. \A n \in NextHops : n \in H => Users(n) >= 1
  BY UsedIsCounted DEF HopsOf
<1>4. CountsMatch'
  BY <1>1, <1>2, <1>3, CountedDown
<1>5. RoutesFollow' /\ GroupsAreOwned' /\ GroupsAreApart'
  BY RoutesStayExact
<1>6. HopsAreKnown'
  BY <1>1, <1>4, <1>5, FreedGo
<1>7. sai'.neighbors = sai.neighbors
  BY DEF HopsRemoved, SaiState
<1> QED
  BY <1>4, <1>5, <1>6, <1>7, NeighborsStay

\* Next hops that leave the route without being counted down are leaked.
LEMMA LeakingIsExact ==
  ASSUME RouteInv, RouteInv', Exact, NEW p \in Prefixes, Touches(p), Regroups(p),
         neighbor' = neighbor, sai'.neighbors = sai.neighbors,
         nexthop' = nexthop, sai'.hops = sai.hops,
         HopsOf(p)' \subseteq HopsOf(p), HopsOf(p) \ HopsOf(p)' \subseteq leaked'
  PROVE  Exact'
<1> USE DEF Exact
<1>1. leaked \subseteq leaked'
  BY DEF Regroups
<1>2. CountsMatch'
  <2> SUFFICES ASSUME NEW n \in NextHops
               PROVE  /\ RefCount(n)' >= Users(n)'
                      /\ n \notin leaked' => RefCount(n)' = Users(n)'
    BY DEF CountsMatch
  <2>1. /\ Users(n)' = Users(n) \/ Users(n)' = Users(n) - 1
        /\ n \notin leaked' => Users(n)' = Users(n)
    BY UsersFollowRoute
  <2>2. RefCount(n)' = RefCount(n) /\ RefCount(n) \in Nat
    BY InvIsTyped DEF Typed, RefCount
  <2>3. /\ Users(n) \in Nat /\ RefCount(n) >= Users(n)
        /\ n \notin leaked' => RefCount(n) = Users(n)
    BY <1>1, UsersAreHolders DEF CountsMatch
  <2> QED
    BY <2>1, <2>2, <2>3
<1>3. HopsAreKnown'
  BY <1>1 DEF HopsAreKnown
<1> QED
  BY <1>2, <1>3, RoutesStayExact, NeighborsStay

-----------------------------------------------------------------------------
(* What the operators on SAI's objects do to routes, groups and neighbours  *)

LEMMA ProgrammedIs ==
  ASSUME NEW s \in SaiState, NEW p, NEW t, NEW bad, NEW z, z = Programmed(s, p, t, bad)
  PROVE  /\ z.hops = s.hops /\ z.groups = s.groups /\ z.neighbors = s.neighbors
         /\ \A q \in DOMAIN z.routes \cup DOMAIN s.routes :
              q # p => q \in DOMAIN s.routes /\ q \in DOMAIN z.routes /\ z.routes[q] = s.routes[q]
         /\ p \in DOMAIN z.routes \ DOMAIN s.routes => z.routes[p] = t
         /\ p \in DOMAIN s.routes => z = s
<1>1. CASE z = s
  BY <1>1
<1>2. CASE z = [s EXCEPT !.routes = With(s.routes, p, t)] /\ p \notin DOMAIN s.routes
  <2>1. /\ z.hops = s.hops /\ z.groups = s.groups /\ z.neighbors = s.neighbors
        /\ z.routes = With(s.routes, p, t)
    BY <1>2 DEF SaiState
  <2> QED
    BY <1>2, <2>1 DEF With
<1> QED
  BY <1>1, <1>2 DEF Programmed, RouteCreated, Creatable

LEMMA RouteRemovedIs ==
  ASSUME NEW s \in SaiState, NEW p, NEW z, z = RouteRemoved(s, p)
  PROVE  /\ z.hops = s.hops /\ z.groups = s.groups /\ z.neighbors = s.neighbors
         /\ \A q \in DOMAIN z.routes \cup DOMAIN s.routes :
              q # p => q \in DOMAIN s.routes /\ q \in DOMAIN z.routes /\ z.routes[q] = s.routes[q]
         /\ p \notin DOMAIN z.routes
<1>1. /\ z.hops = s.hops /\ z.groups = s.groups /\ z.neighbors = s.neighbors
      /\ z.routes = Without(s.routes, p)
  BY DEF RouteRemoved, SaiState
<1> QED
  BY <1>1 DEF Without

LEMMA RouteRetargetedIs ==
  ASSUME NEW s \in SaiState, NEW p \in DOMAIN s.routes, NEW t, IsObject(s, t),
         NEW z, z = RouteRetargeted(s, p, t)
  PROVE  /\ z.hops = s.hops /\ z.groups = s.groups /\ z.neighbors = s.neighbors
         /\ DOMAIN z.routes = DOMAIN s.routes
         /\ \A q \in DOMAIN s.routes : q # p => z.routes[q] = s.routes[q]
         /\ z.routes[p] = t
<1>1. z = [s EXCEPT !.routes = [s.routes EXCEPT ![p] = t]]
  BY DEF RouteRetargeted, SaiState
<1>2. /\ z.hops = s.hops /\ z.groups = s.groups /\ z.neighbors = s.neighbors
      /\ z.routes = [s.routes EXCEPT ![p] = t]
  BY <1>1 DEF SaiState
<1>3. \E A, B : s.routes \in [A -> B]
  BY DEF SaiState, Partial
<1> QED
  BY <1>2, <1>3

LEMMA HopsRemovedIs ==
  ASSUME NEW s \in SaiState, NEW H, NEW z, z = HopsRemoved(s, H)
  PROVE  z.groups = s.groups /\ z.routes = s.routes /\ z.neighbors = s.neighbors
BY DEF HopsRemoved, SaiState

LEMMA GroupRemovedIs ==
  ASSUME NEW s \in SaiState, NEW g, ~InUse(s, g), NEW z, z = GroupRemoved(s, g)
  PROVE  /\ z.hops = s.hops /\ z.routes = s.routes /\ z.neighbors = s.neighbors
         /\ DOMAIN z.groups = DOMAIN s.groups \ {g}
         /\ \A h \in DOMAIN z.groups : z.groups[h] = s.groups[h]
<1>1. /\ z.hops = s.hops /\ z.routes = s.routes /\ z.neighbors = s.neighbors
      /\ z.groups = Without(s.groups, g)
  BY DEF GroupRemoved, SaiState
<1> QED
  BY <1>1 DEF Without

LEMMA MembersAddedIs ==
  ASSUME NEW s \in SaiState, NEW g \in DOMAIN s.groups, NEW H, H \subseteq s.hops,
         NEW z, z = MembersAdded(s, g, H)
  PROVE  /\ z.hops = s.hops /\ z.routes = s.routes /\ z.neighbors = s.neighbors
         /\ DOMAIN z.groups = DOMAIN s.groups
         /\ \A h \in DOMAIN s.groups : h # g => z.groups[h] = s.groups[h]
         /\ z.groups[g] = s.groups[g] \cup H
<1>1. z = [s EXCEPT !.groups = [s.groups EXCEPT ![g] = s.groups[g] \cup (H \cap s.hops)]]
  BY DEF MembersAdded, SaiState
<1>2. /\ z.hops = s.hops /\ z.routes = s.routes /\ z.neighbors = s.neighbors
      /\ z.groups = [s.groups EXCEPT ![g] = s.groups[g] \cup (H \cap s.hops)]
  BY <1>1 DEF SaiState
<1>3. \E A, B : s.groups \in [A -> B]
  BY DEF SaiState, Partial
<1>4. H \cap s.hops = H
  OBVIOUS
<1> QED
  BY <1>2, <1>3, <1>4

LEMMA MembersRemovedIs ==
  ASSUME NEW s \in SaiState, NEW g \in DOMAIN s.groups, NEW H, NEW z, z = MembersRemoved(s, g, H)
  PROVE  /\ z.hops = s.hops /\ z.routes = s.routes /\ z.neighbors = s.neighbors
         /\ DOMAIN z.groups = DOMAIN s.groups
         /\ \A h \in DOMAIN s.groups : h # g => z.groups[h] = s.groups[h]
         /\ z.groups[g] = s.groups[g] \ H
<1>1. z = [s EXCEPT !.groups = [s.groups EXCEPT ![g] = s.groups[g] \ H]]
  BY DEF MembersRemoved, SaiState
<1>2. /\ z.hops = s.hops /\ z.routes = s.routes /\ z.neighbors = s.neighbors
      /\ z.groups = [s.groups EXCEPT ![g] = s.groups[g] \ H]
  BY <1>1 DEF SaiState
<1>3. \E A, B : s.groups \in [A -> B]
  BY DEF SaiState, Partial
<1> QED
  BY <1>2, <1>3

\* A group that is made is a new one.
LEMMA GroupAddedIs ==
  ASSUME NEW s \in SaiState, NEW H, NEW db, NEW bad, NEW r \in GroupAdded(s, H, db, bad), r.ok
  PROVE  /\ r.sai.hops = s.hops /\ r.sai.routes = s.routes /\ r.sai.neighbors = s.neighbors
         /\ H \subseteq DOMAIN db
         /\ r.group \in Groups \ DOMAIN s.groups
         /\ DOMAIN r.sai.groups = DOMAIN s.groups \cup {r.group}
         /\ \A h \in DOMAIN s.groups : r.sai.groups[h] = s.groups[h]
         /\ r.sai.groups[r.group] = H
<1>1. /\ ~bad.group /\ H \subseteq DOMAIN db /\ Groups \ DOMAIN s.groups # {}
      /\ r \in {[ok |-> TRUE, sai |-> [s EXCEPT !.groups = With(@, g, H)], group |-> g]
                  : g \in Groups \ DOMAIN s.groups}
  BY DEF GroupAdded
<1>2. PICK g \in Groups \ DOMAIN s.groups :
        r = [ok |-> TRUE, sai |-> [s EXCEPT !.groups = With(@, g, H)], group |-> g]
  BY <1>1
<1>3. /\ r.sai = [s EXCEPT !.groups = With(s.groups, g, H)] /\ r.group = g
  BY <1>2
<1>4. /\ r.sai.hops = s.hops /\ r.sai.routes = s.routes /\ r.sai.neighbors = s.neighbors
      /\ r.sai.groups = With(s.groups, g, H)
  BY <1>3 DEF SaiState
<1> QED
  BY <1>1, <1>3, <1>4 DEF With

\* An entry whose update ends has a group or not.
LEMMA SettledIs ==
  ASSUME NEW e \in Route, NEW z, z = Settled(e)
  PROVE  /\ z.hops = e.hops /\ z.refer = e.refer
         /\ Cardinality(e.hops) > 1 => z.rstate = "ecmp" /\ z.group = e.group
         /\ ~(Cardinality(e.hops) > 1) => z.rstate = "non_ecmp" /\ z.group = NoObject
BY DEF Settled, Route

\* Sets of next hops are finite, one with one element has no two.
LEMMA HopsCount ==
  ASSUME NEW H \in SUBSET NextHops
  PROVE  /\ IsFiniteSet(H) /\ Cardinality(H) \in Nat
         /\ Cardinality(H) = 0 <=> H = {}
         /\ Cardinality(H) = 1 <=> \E n : H = {n}
         /\ \A n, m \in H : n # m => Cardinality(H) > 1
<1>1. IsFiniteSet(H)
  BY FiniteAssumption, FS_Subset
<1>2. Cardinality(H) \in Nat
  BY <1>1, FS_CardinalityType
<1>3. /\ Cardinality(H) = 0 <=> H = {}
      /\ Cardinality(H) = 1 <=> \E n : H = {n}
  BY <1>1, FS_EmptySet, FS_Singleton
<1>4. ASSUME NEW n \in H, NEW m \in H, n # m PROVE Cardinality(H) > 1
  <2>1. Cardinality(H) # 0 /\ Cardinality(H) # 1
    BY <1>3, <1>4
  <2> QED
    BY <1>2, <2>1
<1> QED
  BY <1>1, <1>2, <1>3, <1>4
-----------------------------------------------------------------------------
(* Adding next hops                                                         *)

\* Of a route that follows, what is read of malloc'ed memory was written.
LEMMA FollowingIsSettled ==
  ASSUME RouteInv, RoutesFollow, NEW p \in DOMAIN route, route[p].hops # {}
  PROVE  /\ Follows(sai, route[p], p)
         /\ Cardinality(route[p].hops) > 1 <=> route[p].rstate = "ecmp"
         /\ IsEcmp(route[p]) = {route[p].rstate = "ecmp"}
         /\ GroupOf(route[p]) = {route[p].group}
<1>1. route[p].hops \in SUBSET NextHops
  BY InvIsTyped DEF Typed, Route
<1>2. Follows(sai, route[p], p)
  BY DEF RoutesFollow
<1>3. route[p].rstate # "unset"
  BY <1>2 DEF Follows
<1>4. Cardinality(route[p].hops) > 1 <=> route[p].rstate = "ecmp"
  <2>1. CASE route[p].rstate = "ecmp"
    BY <1>2, <2>1 DEF Follows
  <2>2. CASE route[p].rstate # "ecmp"
    <3>1. PICK n \in NextHops : route[p].hops = {n}
      BY <1>2, <2>2 DEF Follows
    <3>2. Cardinality(route[p].hops) = 1
      BY <1>1, <3>1, HopsCount
    <3> QED
      BY <2>2, <3>2
  <2> QED
    BY <2>1, <2>2
<1> QED
  BY <1>2, <1>3, <1>4 DEF IsEcmp, GroupOf

LEMMA FirstHopsAreExact ==
  ASSUME RouteInv, RouteInv', clean => Exact, clean', NEW p \in Prefixes,
         NEW H \in (SUBSET NextHops) \ {{}}, RemoteAddFirst(p, H)
  PROVE  Exact'
<1>1. /\ Before(p).hops = {} /\ UNCHANGED <<neighbor, leaked>>
      /\ \E bad \in Refusals : AddSingle(p, H, bad) \/ AddGroup(p, H, bad)
  BY DEF RemoteAddFirst, AddFails
<1>2. PICK bad \in Refusals : AddSingle(p, H, bad) \/ AddGroup(p, H, bad)
  BY <1>1
<1> DEFINE s == WithHops(Made(H, bad))
<1>3. clean /\ p \in DOMAIN sai'.routes \ DOMAIN sai.routes
  BY <1>2 DEF AddSingle, AddGroup
<1>4. Exact
  BY <1>3
<1>5. p \notin DOMAIN route /\ Before(p) = FreshRoute /\ HopsOf(p) = {}
  BY <1>3, <1>4 DEF Exact, RoutesFollow, Follows, Before, HopsOf
<1>6. /\ s \in SaiState /\ s.hops = sai.hops \cup Made(H, bad) /\ s.groups = sai.groups
      /\ s.routes = sai.routes /\ s.neighbors = sai.neighbors
  <2>1. Made(H, bad) \in SUBSET NextHops /\ sai \in SaiState
    BY InvIsTyped DEF Made, Typed
  <2>2. WithHops(Made(H, bad)).groups = sai.groups
    BY <2>1 DEF WithHops, SaiState
  <2> QED
    BY <2>1, <2>2, WithHopsType
<1> HIDE DEF s
<1>7. sai.hops \cup Made(H, bad) \subseteq sai.hops \cup H
  BY DEF Made
<1>8. CASE AddSingle(p, H, bad)
  <2> DEFINE e == [FreshRoute EXCEPT !.hops = H]
  <2>1. PICK n \in Resolved(H, bad) :
          /\ H = {n}
          /\ nexthop' = Referred(H)
          /\ sai' = Programmed(s, p, n, bad)
          /\ route' = With(route, p, Settled(e))
    BY <1>5, <1>8 DEF AddSingle, s
  <2>2. e \in Route /\ e.hops = H
    BY DEF FreshRoute, Route
  <2> HIDE DEF e
  <2>3. Cardinality(H) = 1
    BY <2>1, HopsCount
  <2>4. Settled(e).hops = H /\ Settled(e).rstate = "non_ecmp"
    BY <2>2, <2>3, SettledIs
  <2>5. /\ sai'.hops = s.hops /\ sai'.groups = s.groups /\ sai'.neighbors = s.neighbors
        /\ \A q \in DOMAIN sai'.routes \cup DOMAIN s.routes :
             q # p => q \in DOMAIN s.routes /\ q \in DOMAIN sai'.routes /\ sai'.routes[q] = s.routes[q]
        /\ p \in DOMAIN sai'.routes \ DOMAIN s.routes => sai'.routes[p] = n
    <3>1. sai' = Programmed(s, p, n, bad) /\ s \in SaiState
      BY <1>6, <2>1
    <3> QED
      BY <3>1, ProgrammedIs
  <2>6. /\ DOMAIN route' = DOMAIN route \cup {p} /\ route'[p] = Settled(e)
        /\ \A q \in DOMAIN route : q # p => route'[q] = route[q]
    BY <2>1 DEF With
  <2>7. Follows(sai', route'[p], p)
    BY <1>3, <1>6, <2>1, <2>4, <2>5, <2>6 DEF Follows
  <2>8. Touches(p)
    BY <1>6, <2>5, <2>6, <2>7 DEF Touches
  <2>9. Regroups(p)
    BY <1>1, <1>5, <1>6, <2>4, <2>5, <2>6 DEF Regroups, Owns
  <2>10. HopsOf(p)' = H
    BY <2>4, <2>6 DEF HopsOf
  <2> QED
    BY <1>1, <1>4, <1>5, <1>6, <1>7, <2>1, <2>5, <2>8, <2>9, <2>10, AddingIsExact
<1>9. CASE AddGroup(p, H, bad)
  <2>1. PICK r \in GroupAdded(s, H, nexthop', bad) :
          /\ sai' = Programmed(r.sai, p, r.group, bad)
          /\ route' = With(route, p, Settled([FreshRoute EXCEPT !.hops = H, !.group = r.group]))
          /\ r.ok
    BY <1>5, <1>9 DEF AddGroup, s
  <2> DEFINE e == [FreshRoute EXCEPT !.hops = H, !.group = r.group]
  <2>2. /\ r.sai.hops = s.hops /\ r.sai.routes = s.routes /\ r.sai.neighbors = s.neighbors
        /\ H \subseteq DOMAIN nexthop'
        /\ r.group \in Groups \ DOMAIN s.groups
        /\ DOMAIN r.sai.groups = DOMAIN s.groups \cup {r.group}
        /\ \A h \in DOMAIN s.groups : r.sai.groups[h] = s.groups[h]
        /\ r.sai.groups[r.group] = H
    BY <1>6, <2>1, GroupAddedIs
  <2>3. e \in Route /\ e.hops = H /\ e.group = r.group
    BY <2>2 DEF FreshRoute, Route
  <2>4. Settled(e).hops = H /\ Settled(e).rstate = "ecmp" /\ Settled(e).group = r.group
    BY <1>9, <2>3, SettledIs DEF AddGroup
  <2>5. nexthop' = Referred(Resolved(H, bad)) /\ Cardinality(H) > 1
    BY <1>9 DEF AddGroup
  <2>6. Resolved(H, bad) = H
    BY <2>2, <2>5 DEF Resolved, Referred, Made
  <2>7. r.sai \in SaiState
    BY <1>6, <2>1, GroupAddedType
  <2>8. /\ sai'.hops = s.hops /\ sai'.groups = r.sai.groups /\ sai'.neighbors = s.neighbors
        /\ \A q \in DOMAIN sai'.routes \cup DOMAIN s.routes :
             q # p => q \in DOMAIN s.routes /\ q \in DOMAIN sai'.routes /\ sai'.routes[q] = s.routes[q]
        /\ sai'.routes[p] = r.group
    BY <1>3, <1>6, <2>1, <2>2, <2>7, ProgrammedIs
  <2>9. /\ DOMAIN route' = DOMAIN route \cup {p} /\ route'[p] = Settled(e)
        /\ \A q \in DOMAIN route : q # p => route'[q] = route[q]
    BY <2>1 DEF With
  <2> HIDE DEF e
  <2>10. Follows(sai', route'[p], p)
    BY <1>3, <2>2, <2>4, <2>5, <2>8, <2>9 DEF Follows
  <2>11. Touches(p)
    BY <1>6, <2>8, <2>9, <2>10 DEF Touches
  <2>12. \A g : Owns(p, g)' <=> g = r.group
    BY <2>4, <2>9 DEF Owns
  <2>13. Regroups(p)
    BY <1>1, <1>5, <1>6, <2>2, <2>8, <2>12 DEF Regroups, Owns
  <2>14. HopsOf(p)' = H
    BY <2>4, <2>9 DEF HopsOf
  <2> QED
    BY <1>1, <1>4, <1>5, <1>6, <1>7, <2>5, <2>6, <2>8, <2>11, <2>13, <2>14, AddingIsExact
<1> QED
  BY <1>2, <1>8, <1>9
\* More next hops: the route goes to a new group, or its group gets them.
LEMMA MoreHopsAreExact ==
  ASSUME RouteInv, RouteInv', clean => Exact, clean', NEW p \in Prefixes,
         NEW H \in (SUBSET NextHops) \ {{}}, RemoteAddMore(p, H)
  PROVE  Exact'
<1> DEFINE e == route[p]
           all == e.hops \cup H
<1>1. /\ p \in DOMAIN route /\ e.hops # {} /\ UNCHANGED <<neighbor, leaked>>
      /\ \E bad \in Refusals : AddToEcmp(p, H, bad)
  BY DEF RemoteAddMore, AddKnown
<1>2. PICK bad \in Refusals : AddToEcmp(p, H, bad)
  BY <1>1
<1> DEFINE s == WithHops(Made(all, bad))
<1>3. H \cap e.hops = {} /\ nexthop' = Referred(Resolved(H, bad))
  BY <1>2 DEF AddToEcmp
<1>4. clean
  BY <1>2 DEF AddToEcmp
<1> HIDE DEF all
<1>5. Exact
  BY <1>4
<1> USE DEF Exact
<1>6. /\ Follows(sai, e, p)
      /\ Cardinality(e.hops) > 1 <=> e.rstate = "ecmp"
      /\ IsEcmp(e) = {e.rstate = "ecmp"} /\ GroupOf(e) = {e.group}
  BY <1>1, <1>5, FollowingIsSettled
<1>7. /\ e \in Route /\ all \in SUBSET NextHops /\ Cardinality(all) > 1
  <2>1. e \in Route
    BY <1>1, InvIsTyped DEF Typed
  <2>2. all \in SUBSET NextHops
    BY <2>1 DEF Route, all
  <2>3. PICK m \in e.hops, n \in H : m # n
    BY <1>1, <1>3
  <2>4. m \in all /\ n \in all
    BY <2>3 DEF all
  <2> QED
    BY <2>1, <2>2, <2>3, <2>4, HopsCount
<1>8. e.hops \subseteq DOMAIN nexthop
  BY <1>1, <1>5, <1>7, UsedIsCounted DEF Route
<1>9. Made(all, bad) = Made(H, bad)
  BY <1>8 DEF Made, all
<1>10. /\ s \in SaiState /\ s.hops = sai.hops \cup Made(H, bad) /\ s.groups = sai.groups
       /\ s.routes = sai.routes /\ s.neighbors = sai.neighbors
  <2>1. Made(H, bad) \in SUBSET NextHops /\ sai \in SaiState
    BY InvIsTyped DEF Made, Typed
  <2>2. WithHops(Made(H, bad)).groups = sai.groups
    BY <2>1 DEF WithHops, SaiState
  <2> QED
    BY <1>9, <2>1, <2>2, WithHopsType
<1>11. \/ \E r \in GroupAdded(s, all, nexthop', bad) :
             /\ e.rstate # "ecmp" /\ r.ok
             /\ sai' = RouteRetargeted(r.sai, p, r.group)
             /\ route' = [route EXCEPT ![p] = Settled([@ EXCEPT !.hops = all, !.group = r.group])]
       \/ /\ e.rstate = "ecmp" /\ H \subseteq DOMAIN nexthop'
          /\ sai' = MembersAdded(s, e.group, H)
          /\ route' = [route EXCEPT ![p] = Settled([@ EXCEPT !.hops = all, !.group = e.group])]
  BY <1>2, <1>6 DEF AddToEcmp, all
<1> HIDE DEF s
<1>12. H \subseteq DOMAIN nexthop' => Resolved(H, bad) = H
  BY <1>3 DEF Resolved, Referred, Made
<1>13. sai.hops \cup Made(H, bad) \subseteq sai.hops \cup H
  BY DEF Made
<1>14. ASSUME NEW g \in Groups \cup {NoObject}, NEW f \in Route, f.hops = all, f.group = g,
              DOMAIN route' = DOMAIN route, route'[p] = Settled(f),
              \A q \in DOMAIN route : q # p => route'[q] = route[q],
              sai'.hops = s.hops, sai'.neighbors = s.neighbors, H \subseteq DOMAIN nexthop',
              g \in DOMAIN sai'.groups, sai'.groups[g] = all,
              \A h \in DOMAIN s.groups : h # g => h \in DOMAIN sai'.groups /\ sai'.groups[h] = s.groups[h],
              DOMAIN sai'.groups \subseteq DOMAIN s.groups \cup {g},
              Owns(p, g) \/ g \notin DOMAIN s.groups,
              \A h : Owns(p, h) => h = g,
              DOMAIN sai'.routes = DOMAIN s.routes, sai'.routes[p] = g,
              \A q \in DOMAIN s.routes : q # p => sai'.routes[q] = s.routes[q]
       PROVE  Exact'
  <2>2. Settled(f).hops = all /\ Settled(f).rstate = "ecmp" /\ Settled(f).group = g
    BY <1>7, <1>14, SettledIs
  <2>3. /\ DOMAIN route' = DOMAIN route /\ route'[p] = Settled(f)
        /\ \A q \in DOMAIN route : q # p => route'[q] = route[q]
    BY <1>14
  <2>4. Follows(sai', route'[p], p)
    BY <1>6, <1>7, <1>10, <1>14, <2>2, <2>3 DEF Follows
  <2>5. Touches(p)
    BY <1>1, <1>10, <1>14, <2>3, <2>4 DEF Touches
  <2>6. \A h : Owns(p, h)' <=> h = g
    BY <1>1, <2>2, <2>3 DEF Owns
  <2>7. Regroups(p)
    BY <1>1, <1>10, <1>14, <2>6 DEF Regroups
  <2>8. HopsOf(p) = e.hops /\ HopsOf(p)' = e.hops \cup H
    BY <1>1, <2>2, <2>3 DEF HopsOf, all
  <2> QED
    BY <1>1, <1>3, <1>5, <1>10, <1>12, <1>13, <1>14, <2>5, <2>7, <2>8, AddingIsExact
<1>15. ASSUME NEW r \in GroupAdded(s, all, nexthop', bad), e.rstate # "ecmp", r.ok,
              sai' = RouteRetargeted(r.sai, p, r.group),
              route' = [route EXCEPT ![p] = Settled([@ EXCEPT !.hops = all, !.group = r.group])]
       PROVE  Exact'
  <2>1. /\ r.sai.hops = s.hops /\ r.sai.routes = s.routes /\ r.sai.neighbors = s.neighbors
        /\ all \subseteq DOMAIN nexthop'
        /\ r.group \in Groups \ DOMAIN s.groups
        /\ DOMAIN r.sai.groups = DOMAIN s.groups \cup {r.group}
        /\ \A h \in DOMAIN s.groups : r.sai.groups[h] = s.groups[h]
        /\ r.sai.groups[r.group] = all
    BY <1>10, <1>15, GroupAddedIs
  <2>2. r.sai \in SaiState
    BY <1>7, <1>10, <1>15, GroupAddedType
  <2>3. p \in DOMAIN r.sai.routes /\ IsObject(r.sai, r.group)
    BY <1>6, <1>10, <2>1 DEF Follows, IsObject
  <2>4. /\ sai'.hops = r.sai.hops /\ sai'.groups = r.sai.groups /\ sai'.neighbors = r.sai.neighbors
        /\ DOMAIN sai'.routes = DOMAIN r.sai.routes
        /\ \A q \in DOMAIN r.sai.routes : q # p => sai'.routes[q] = r.sai.routes[q]
        /\ sai'.routes[p] = r.group
    BY <1>15, <2>2, <2>3, RouteRetargetedIs
  <2>5. \A h : ~Owns(p, h)
    BY <1>15 DEF Owns
  <2>6. H \subseteq all
    BY DEF all
  <2> DEFINE f == [e EXCEPT !.hops = all, !.group = r.group]
  <2>7. /\ DOMAIN route' = DOMAIN route /\ route'[p] = Settled(f)
        /\ \A q \in DOMAIN route : q # p => route'[q] = route[q]
    BY <1>1, <1>15
  <2>8. f \in Route /\ f.hops = all /\ f.group = r.group
    BY <1>7, <2>1 DEF Route
  <2> HIDE DEF f
  <2> QED
    BY <1>14, <2>1, <2>4, <2>5, <2>6, <2>7, <2>8
<1>16. ASSUME e.rstate = "ecmp", H \subseteq DOMAIN nexthop', sai' = MembersAdded(s, e.group, H),
              route' = [route EXCEPT ![p] = Settled([@ EXCEPT !.hops = all, !.group = e.group])]
       PROVE  Exact'
  <2>1. e.group \in DOMAIN s.groups /\ s.groups[e.group] = e.hops /\ s.routes[p] = e.group
    BY <1>6, <1>10, <1>16 DEF Follows
  <2>2. H \subseteq s.hops
    BY <1>3, <1>10, <1>16, <1>12 DEF RouteInv, TableCoversSai, Resolved
  <2>3. /\ sai'.hops = s.hops /\ sai'.routes = s.routes /\ sai'.neighbors = s.neighbors
        /\ DOMAIN sai'.groups = DOMAIN s.groups
        /\ \A h \in DOMAIN s.groups : h # e.group => sai'.groups[h] = s.groups[h]
        /\ sai'.groups[e.group] = s.groups[e.group] \cup H
    BY <1>10, <1>16, <2>1, <2>2, MembersAddedIs
  <2>4. \A h : Owns(p, h) <=> h = e.group
    BY <1>1, <1>16 DEF Owns
  <2>5. e.group \in Groups \cup {NoObject}
    BY <1>7 DEF Route
  <2> DEFINE f == [e EXCEPT !.hops = all, !.group = e.group]
  <2>6. /\ DOMAIN route' = DOMAIN route /\ route'[p] = Settled(f)
        /\ \A q \in DOMAIN route : q # p => route'[q] = route[q]
    BY <1>1, <1>16
  <2>7. sai'.groups[e.group] = all
    BY <2>1, <2>3 DEF all
  <2>8. f \in Route /\ f.hops = all /\ f.group = e.group
    BY <1>7, <2>5 DEF Route
  <2> HIDE DEF f
  <2> QED
    BY <1>14, <1>16, <2>1, <2>3, <2>4, <2>5, <2>6, <2>7, <2>8
<1> QED
  BY <1>11, <1>15, <1>16
-----------------------------------------------------------------------------
(* Taking next hops                                                         *)

LEMMA RemovedHopsAreExact ==
  ASSUME RouteInv, RouteInv', clean => Exact, clean', NEW p \in Prefixes,
         NEW H \in (SUBSET NextHops) \ {{}}, HopsRemove(p, H)
  PROVE  Exact'
<1> DEFINE e == route[p]
<1>1. /\ p \in DOMAIN route /\ nexthop' = Released(H) /\ neighbor' = neighbor
      /\ clean /\ H \subseteq e.hops /\ p \in DOMAIN sai'.routes
      /\ LeaveOne(p, H) \/ LeaveSeveral(p, H) \/ LeaveLocal(p, H)
  BY DEF HopsRemove
<1>2. Exact
  BY <1>1
<1> USE DEF Exact
<1>3. /\ Follows(sai, e, p) /\ e.hops # {}
      /\ Cardinality(e.hops) > 1 <=> e.rstate = "ecmp"
      /\ IsEcmp(e) = {e.rstate = "ecmp"} /\ GroupOf(e) = {e.group}
  BY <1>1, <1>2, FollowingIsSettled
<1>4. e \in Route /\ e.hops \in SUBSET NextHops /\ sai \in SaiState
  BY <1>1, InvIsTyped DEF Typed, Route
<1>5. e.hops \subseteq DOMAIN nexthop
  BY <1>1, <1>2, <1>4, UsedIsCounted
<1>6. e.rstate = "ecmp" => /\ Owns(p, e.group) /\ e.group \in DOMAIN sai.groups
                           /\ sai.groups[e.group] = e.hops
  BY <1>1, <1>3 DEF Owns, Follows
<1>7. \A h : Owns(p, h) => e.rstate = "ecmp" /\ h = e.group
  BY DEF Owns
<1>8. ASSUME NEW f \in Route, f.hops = e.hops \ H, NEW z, z = Settled(f),
             DOMAIN route' = DOMAIN route, route'[p] = z,
             \A q \in DOMAIN route : q # p => route'[q] = route[q],
             NEW s \in SaiState, s.hops = sai.hops, s.neighbors = sai.neighbors,
             sai' = HopsRemoved(s, Freed(H)),
             DOMAIN s.routes = DOMAIN sai.routes,
             \A q \in DOMAIN sai.routes : q # p => s.routes[q] = sai.routes[q],
             Follows(s, z, p), Regroups(p)
      PROVE  Exact'
  <2>1. z.hops = e.hops \ H
    BY <1>8, SettledIs
  <2>2. sai'.routes = s.routes /\ sai'.groups = s.groups
    BY <1>8, HopsRemovedIs
  <2>3. Follows(sai', route'[p], p)
    BY <1>8, <2>2 DEF Follows
  <2>4. Touches(p)
    BY <1>1, <1>8, <2>2, <2>3 DEF Touches
  <2>5. HopsOf(p) = e.hops /\ HopsOf(p)' = e.hops \ H
    BY <1>1, <1>8, <2>1 DEF HopsOf
  <2> QED
    BY <1>1, <1>2, <1>8, <2>4, <2>5, RemovingIsExact
<1>9. CASE LeaveOne(p, H)
  <2>1. PICK n \in e.hops :
          LET s == RouteRetargeted(sai, p, IF n \in DOMAIN nexthop THEN n ELSE NoObject)
          IN  /\ e.hops \ H = {n}
              /\ sai' = HopsRemoved(IF e.rstate = "ecmp" THEN GroupRemoved(s, e.group) ELSE s, Freed(H))
              /\ route' = [route EXCEPT ![p] = Settled([@ EXCEPT !.hops = {n}])]
              /\ UNCHANGED leaked
    BY <1>3, <1>9 DEF LeaveOne
  <2> DEFINE s == RouteRetargeted(sai, p, n)
             z == GroupRemoved(s, e.group)
             f == [e EXCEPT !.hops = {n}]
  <2>2. e.rstate = "ecmp"
    <3>1. PICK m \in H : TRUE
      OBVIOUS
    <3>2. m \in e.hops /\ m # n
      BY <1>1, <2>1
    <3> QED
      BY <1>3, <1>4, <3>2, HopsCount
  <2>3. sai' = HopsRemoved(z, Freed(H)) /\ leaked' = leaked /\ e.hops \ H = {n}
    BY <1>5, <2>1, <2>2
  <2>4. /\ DOMAIN route' = DOMAIN route /\ route'[p] = Settled(f)
        /\ \A q \in DOMAIN route : q # p => route'[q] = route[q]
    BY <1>1, <2>1
  <2>5. f \in Route /\ f.hops = {n}
    BY <1>4 DEF Route
  <2> HIDE DEF f
  <2>6. p \in DOMAIN sai.routes /\ IsObject(sai, n) /\ n \in NextHops
    BY <1>3, <1>4, <1>5 DEF Follows, IsObject, RouteInv, TableCoversSai
  <2>7. /\ s.hops = sai.hops /\ s.groups = sai.groups /\ s.neighbors = sai.neighbors
        /\ DOMAIN s.routes = DOMAIN sai.routes
        /\ \A q \in DOMAIN sai.routes : q # p => s.routes[q] = sai.routes[q]
        /\ s.routes[p] = n
    BY <1>4, <2>6, RouteRetargetedIs
  <2>8. s \in SaiState
    BY <1>4, RouteRetargetedType
  <2> HIDE DEF s
  <2>9. ~InUse(s, e.group)
    BY <1>2, <1>6, <2>2, <2>6, <2>7, <2>8, GroupIsFree
  <2>10. /\ z.hops = s.hops /\ z.routes = s.routes /\ z.neighbors = s.neighbors
         /\ DOMAIN z.groups = DOMAIN s.groups \ {e.group}
         /\ \A h \in DOMAIN z.groups : z.groups[h] = s.groups[h]
    BY <2>8, <2>9, GroupRemovedIs
  <2>11. z \in SaiState
    BY <2>8, GroupRemovedType
  <2> HIDE DEF z
  <2>12. ~(Cardinality(f.hops) > 1)
    <3>1. Cardinality({n}) = 1
      BY <2>6, HopsCount
    <3> QED
      BY <2>5, <3>1
  <2>13. Settled(f).hops = {n} /\ Settled(f).rstate = "non_ecmp"
    BY <2>5, <2>12, SettledIs
  <2>14. Follows(z, Settled(f), p)
    BY <2>6, <2>7, <2>10, <2>13 DEF Follows
  <2>15. sai'.groups = z.groups
    BY <2>3, <2>11, HopsRemovedIs
  <2>16. \A h : ~Owns(p, h)'
    BY <2>4, <2>13 DEF Owns
  <2>17. Regroups(p)
    <3>1. /\ DOMAIN sai'.groups = DOMAIN sai.groups \ {e.group}
          /\ \A h \in DOMAIN sai'.groups : sai'.groups[h] = sai.groups[h]
      BY <2>7, <2>10, <2>15
    <3>2. \A h : Owns(p, h) <=> h = e.group
      BY <1>6, <1>7, <2>2
    <3> QED
      BY <2>3, <2>16, <3>1, <3>2 DEF Regroups
  <2>18. f.hops = e.hops \ H
    BY <2>3, <2>5
  <2> QED
    BY <1>8, <2>3, <2>4, <2>5, <2>7, <2>10, <2>11, <2>14, <2>17, <2>18
<1>10. CASE LeaveSeveral(p, H)
  <2> DEFINE s == MembersRemoved(sai, e.group, H)
             f == [e EXCEPT !.hops = @ \ H, !.group = e.group]
  <2>1. /\ Cardinality(e.hops \ H) > 1 /\ leaked' = leaked
        /\ sai' = HopsRemoved(MembersRemoved(sai, e.group, H \cap DOMAIN nexthop), Freed(H))
        /\ route' = [route EXCEPT ![p] = Settled(f)]
    BY <1>3, <1>10 DEF LeaveSeveral
  <2>2. H \cap DOMAIN nexthop = H
    BY <1>1, <1>5
  <2>3. sai' = HopsRemoved(s, Freed(H))
    BY <2>1, <2>2
  <2>4. /\ DOMAIN route' = DOMAIN route /\ route'[p] = Settled(f)
        /\ \A q \in DOMAIN route : q # p => route'[q] = route[q]
    BY <1>1, <2>1
  <2>5. f \in Route /\ f.hops = e.hops \ H /\ f.group = e.group
    BY <1>4 DEF Route
  <2> HIDE DEF f
  <2>6. e.rstate = "ecmp"
    <3>1. IsFiniteSet(e.hops) /\ Cardinality(e.hops) \in Nat
      BY <1>4, HopsCount
    <3>2. Cardinality(e.hops \ H) <= Cardinality(e.hops)
      BY <3>1, FS_Subset
    <3>3. Cardinality(e.hops \ H) \in Nat
      BY <1>4, HopsCount
    <3> QED
      BY <1>3, <2>1, <3>1, <3>2, <3>3
  <2>7. Settled(f).hops = e.hops \ H /\ Settled(f).rstate = "ecmp" /\ Settled(f).group = e.group
    BY <2>1, <2>5, SettledIs
  <2>8. /\ s.hops = sai.hops /\ s.routes = sai.routes /\ s.neighbors = sai.neighbors
        /\ DOMAIN s.groups = DOMAIN sai.groups
        /\ \A h \in DOMAIN sai.groups : h # e.group => s.groups[h] = sai.groups[h]
        /\ s.groups[e.group] = sai.groups[e.group] \ H
    BY <1>4, <1>6, <2>6, MembersRemovedIs
  <2>9. s \in SaiState
    BY <1>4, MembersRemovedType
  <2> HIDE DEF s
  <2>10. Follows(s, Settled(f), p)
    BY <1>3, <1>6, <2>1, <2>6, <2>7, <2>8 DEF Follows
  <2>11. sai'.groups = s.groups
    BY <2>3, <2>9, HopsRemovedIs
  <2>12. \A h : Owns(p, h)' <=> h = e.group
    BY <1>1, <2>4, <2>7 DEF Owns
  <2>13. Regroups(p)
    BY <1>6, <1>7, <2>1, <2>6, <2>8, <2>11, <2>12 DEF Regroups
  <2> QED
    BY <1>8, <2>3, <2>4, <2>5, <2>8, <2>9, <2>10, <2>13
<1>11. CASE LeaveLocal(p, H)
  <2> DEFINE f == [e EXCEPT !.hops = {}]
  <2>1. PICK bad \in Refusals :
          sai' = HopsRemoved(Programmed(RouteRemoved(sai, p), p, Cpu, bad), Freed(H))
    BY <1>11 DEF LeaveLocal
  <2> DEFINE r == RouteRemoved(sai, p)
             s == Programmed(r, p, Cpu, bad)
  <2>2. /\ e.hops \subseteq H
        /\ route' = [route EXCEPT ![p] = Settled(f)]
        /\ leaked' = leaked \cup (IF e.rstate = "ecmp" THEN e.hops \cup ({e.group} \ {NoObject}) ELSE {})
    BY <1>1, <1>11 DEF LeaveLocal
  <2>3. /\ DOMAIN route' = DOMAIN route /\ route'[p] = Settled(f)
        /\ \A q \in DOMAIN route : q # p => route'[q] = route[q]
    BY <1>1, <2>2
  <2>4. f \in Route /\ f.hops = e.hops \ H /\ f.hops = {}
    BY <1>4, <2>2 DEF Route
  <2> HIDE DEF f
  <2>5. /\ r.hops = sai.hops /\ r.groups = sai.groups /\ r.neighbors = sai.neighbors
        /\ \A q \in DOMAIN r.routes \cup DOMAIN sai.routes :
             q # p => q \in DOMAIN sai.routes /\ q \in DOMAIN r.routes /\ r.routes[q] = sai.routes[q]
        /\ p \notin DOMAIN r.routes
    BY <1>4, RouteRemovedIs
  <2>6. r \in SaiState
    BY <1>4, RouteRemovedType
  <2> HIDE DEF r
  <2>7. /\ s.hops = r.hops /\ s.groups = r.groups /\ s.neighbors = r.neighbors
        /\ \A q \in DOMAIN s.routes \cup DOMAIN r.routes :
             q # p => q \in DOMAIN r.routes /\ q \in DOMAIN s.routes /\ s.routes[q] = r.routes[q]
        /\ p \in DOMAIN s.routes \ DOMAIN r.routes => s.routes[p] = Cpu
    BY <2>6, ProgrammedIs
  <2>8. s \in SaiState
    BY <2>6, ProgrammedType
  <2>9. sai' = HopsRemoved(s, Freed(H))
    BY <2>1 DEF r
  <2> HIDE DEF s
  <2>10. sai'.groups = sai.groups /\ sai'.routes = s.routes
    BY <2>5, <2>7, <2>8, <2>9, HopsRemovedIs
  <2>11. p \in DOMAIN s.routes /\ s.routes[p] = Cpu
    BY <1>1, <2>5, <2>7, <2>10
  <2>12. Cardinality({}) = 0
    BY FS_EmptySet
  <2>13. Settled(f).hops = {} /\ Settled(f).rstate = "non_ecmp"
    BY <2>4, <2>12, SettledIs
  <2>14. Follows(s, Settled(f), p)
    BY <2>11, <2>13 DEF Follows
  <2>15. \A h : ~Owns(p, h)'
    BY <2>3, <2>13 DEF Owns
  <2>16. e.rstate = "ecmp" => e.group # NoObject
    BY <1>6, InvIsTyped, DisjointAssumption DEF Typed
  <2>17. Regroups(p)
    BY <1>6, <1>7, <2>2, <2>10, <2>15, <2>16 DEF Regroups
  <2>18. /\ DOMAIN s.routes = DOMAIN sai.routes
         /\ \A q \in DOMAIN sai.routes : q # p => s.routes[q] = sai.routes[q]
         /\ s.hops = sai.hops /\ s.neighbors = sai.neighbors
    BY <1>3, <2>5, <2>7, <2>11 DEF Follows
  <2> QED
    BY <1>8, <2>3, <2>4, <2>8, <2>9, <2>14, <2>17, <2>18
<1> QED
  BY <1>1, <1>9, <1>10, <1>11
LEMMA LastHopsAreExact ==
  ASSUME RouteInv, RouteInv', clean => Exact, clean', NEW p \in Prefixes,
         NEW H \in (SUBSET NextHops) \ {{}}, LastHopsRemove(p, H)
  PROVE  Exact'
<1> DEFINE e == route[p]
<1>1. /\ p \in DOMAIN route /\ UNCHANGED <<nexthop, neighbor>>
      /\ sai' = RouteRemoved(sai, p) /\ route' = Without(route, p)
      /\ leaked' = leaked \cup e.hops \cup ({e.group} \ {NoObject})
      /\ clean /\ e.hops = H
  BY DEF LastHopsRemove
<1>2. Exact
  BY <1>1
<1>3. /\ sai'.hops = sai.hops /\ sai'.groups = sai.groups /\ sai'.neighbors = sai.neighbors
      /\ \A q \in DOMAIN sai'.routes \cup DOMAIN sai.routes :
           q # p => q \in DOMAIN sai.routes /\ q \in DOMAIN sai'.routes /\ sai'.routes[q] = sai.routes[q]
      /\ p \notin DOMAIN sai'.routes
  BY <1>1, InvIsTyped, RouteRemovedIs DEF Typed
<1>4. /\ DOMAIN route' = DOMAIN route \ {p}
      /\ \A q \in DOMAIN route' : route'[q] = route[q]
  BY <1>1 DEF Without
<1>5. Touches(p)
  BY <1>1, <1>3, <1>4 DEF Touches
<1>6. \A g : ~Owns(p, g)'
  BY <1>4 DEF Owns
<1>7. \A g \in DOMAIN sai.groups : Owns(p, g) => g \in leaked' /\ sai.groups[g] \subseteq leaked'
  <2> SUFFICES ASSUME NEW g \in DOMAIN sai.groups, Owns(p, g)
               PROVE  g \in leaked' /\ sai.groups[g] \subseteq leaked'
    OBVIOUS
  <2>1. sai.groups[g] = e.hops /\ g = e.group
    BY <1>2, OwnersFollow DEF Exact, Owns
  <2>2. g # NoObject
    BY InvIsTyped, DisjointAssumption DEF Typed
  <2> QED
    BY <1>1, <2>1, <2>2
<1>8. Regroups(p)
  BY <1>1, <1>3, <1>6, <1>7 DEF Regroups
<1>9. HopsOf(p)' = {} /\ HopsOf(p) = e.hops
  BY <1>1, <1>4 DEF HopsOf
<1> QED
  BY <1>1, <1>2, <1>3, <1>5, <1>8, <1>9, LeakingIsExact

-----------------------------------------------------------------------------
(* Local routes, references, and the removal of routes                      *)

\* Local references say nothing of SAI.
LEMMA ReferencesAreExact ==
  ASSUME RouteInv, RouteInv', Exact, NEW p \in DOMAIN route,
         DOMAIN route' = DOMAIN route, \A q \in DOMAIN route : q # p => route'[q] = route[q],
         route'[p].hops = route[p].hops, route'[p].rstate = route[p].rstate,
         route'[p].group = route[p].group,
         UNCHANGED <<nexthop, neighbor, sai, leaked>>
  PROVE  Exact'
<1>1. p \in Prefixes
  BY InvIsTyped DEF Typed
<1>2. Follows(sai', route'[p], p)
  BY DEF Follows, Exact, RoutesFollow
<1>3. Touches(p)
  BY <1>2 DEF Touches
<1>4. \A g : Owns(p, g)' <=> Owns(p, g)
  BY DEF Owns
<1>5. Regroups(p)
  BY <1>4 DEF Regroups
<1>6. HopsOf(p)' = HopsOf(p)
  BY DEF HopsOf
<1> QED
  BY <1>1, <1>3, <1>5, <1>6, LeakingIsExact

LEMMA LocalAddIsExact ==
  ASSUME RouteInv, RouteInv', clean => Exact, clean', NEW p \in Prefixes, LocalAdd(p)
  PROVE  Exact'
<1> DEFINE f == [Before(p) EXCEPT !.refer = @ + 1]
<1>1. /\ route' = With(route, p, f) /\ UNCHANGED <<nexthop, neighbor, leaked>>
      /\ \/ p \in DOMAIN route /\ UNCHANGED <<sai, clean>>
         \/ /\ p \notin DOMAIN route
            /\ \E bad \in Refusals : sai' = Programmed(sai, p, Cpu, bad)
            /\ clean /\ p \in DOMAIN sai'.routes \ DOMAIN sai.routes
  BY DEF LocalAdd
<1>2. Exact
  BY <1>1
<1>3. Before(p) \in Route
  BY BeforeType DEF RouteInv, RouteType
<1>4. f.hops = Before(p).hops /\ f.rstate = Before(p).rstate /\ f.group = Before(p).group
  BY <1>3 DEF Route
<1> HIDE DEF f
<1>5. /\ DOMAIN route' = DOMAIN route \cup {p} /\ route'[p] = f
      /\ \A q \in DOMAIN route : q # p => route'[q] = route[q]
  BY <1>1 DEF With
<1>6. CASE p \in DOMAIN route
  <2>1. Before(p) = route[p]
    BY <1>6 DEF Before
  <2>2. DOMAIN route' = DOMAIN route /\ UNCHANGED <<nexthop, neighbor, sai, leaked>>
    BY <1>1, <1>5, <1>6
  <2> QED
    BY <1>2, <1>4, <1>5, <1>6, <2>1, <2>2, ReferencesAreExact
<1>7. CASE p \notin DOMAIN route
  <2>1. PICK bad \in Refusals : sai' = Programmed(sai, p, Cpu, bad)
    BY <1>1, <1>7
  <2>2. p \in DOMAIN sai'.routes \ DOMAIN sai.routes
    BY <1>1, <1>7
  <2>3. /\ sai'.hops = sai.hops /\ sai'.groups = sai.groups /\ sai'.neighbors = sai.neighbors
        /\ \A q \in DOMAIN sai'.routes \cup DOMAIN sai.routes :
             q # p => q \in DOMAIN sai.routes /\ q \in DOMAIN sai'.routes /\ sai'.routes[q] = sai.routes[q]
        /\ p \in DOMAIN sai'.routes \ DOMAIN sai.routes => sai'.routes[p] = Cpu
    <3>1. sai \in SaiState
      BY InvIsTyped DEF Typed
    <3> QED
      BY <2>1, <3>1, ProgrammedIs
  <2>4. Before(p).hops = {} /\ Before(p).rstate = "unset"
    BY <1>7 DEF Before, FreshRoute
  <2>5. Follows(sai', route'[p], p)
    BY <1>4, <1>5, <2>2, <2>3, <2>4 DEF Follows
  <2>6. Touches(p)
    BY <1>5, <2>3, <2>5 DEF Touches
  <2>7. \A g : ~Owns(p, g) /\ ~Owns(p, g)'
    BY <1>4, <1>5, <1>7, <2>4 DEF Owns
  <2>8. Regroups(p)
    BY <1>1, <2>3, <2>7 DEF Regroups
  <2>9. HopsOf(p) = {} /\ HopsOf(p)' = {}
    BY <1>4, <1>5, <1>7, <2>4 DEF HopsOf
  <2> QED
    BY <1>1, <1>2, <2>3, <2>6, <2>8, <2>9, LeakingIsExact
<1> QED
  BY <1>6, <1>7

LEMMA RemoveReferenceIsExact ==
  ASSUME RouteInv, RouteInv', clean => Exact, clean', NEW p \in Prefixes, RemoveReference(p)
  PROVE  Exact'
<1>1. /\ p \in DOMAIN route /\ route' = [route EXCEPT ![p].refer = @ - 1]
      /\ UNCHANGED <<nexthop, neighbor, sai, clean, leaked>>
  BY DEF RemoveReference
<1>2. route[p] \in Route
  BY <1>1, InvIsTyped DEF Typed
<1>3. /\ DOMAIN route' = DOMAIN route
      /\ \A q \in DOMAIN route : q # p => route'[q] = route[q]
      /\ route'[p] = [route[p] EXCEPT !.refer = @ - 1]
  BY <1>1
<1>4. /\ route'[p].hops = route[p].hops /\ route'[p].rstate = route[p].rstate
      /\ route'[p].group = route[p].group
  BY <1>2, <1>3 DEF Route
<1> QED
  BY <1>1, <1>3, <1>4, ReferencesAreExact

LEMMA RemoveLocalIsExact ==
  ASSUME RouteInv, RouteInv', clean => Exact, clean', NEW p \in Prefixes, RemoveLocal(p)
  PROVE  Exact'
<1>1. /\ p \in DOMAIN route /\ route[p].hops = {}
      /\ sai' = RouteRemoved(sai, p) /\ route' = Without(route, p)
      /\ UNCHANGED <<nexthop, neighbor, clean, leaked>>
  BY DEF RemoveLocal
<1>2. Exact
  BY <1>1
<1>3. /\ sai'.hops = sai.hops /\ sai'.groups = sai.groups /\ sai'.neighbors = sai.neighbors
      /\ \A q \in DOMAIN sai'.routes \cup DOMAIN sai.routes :
           q # p => q \in DOMAIN sai.routes /\ q \in DOMAIN sai'.routes /\ sai'.routes[q] = sai.routes[q]
      /\ p \notin DOMAIN sai'.routes
  BY <1>1, InvIsTyped, RouteRemovedIs DEF Typed
<1>4. /\ DOMAIN route' = DOMAIN route \ {p}
      /\ \A q \in DOMAIN route' : route'[q] = route[q]
  BY <1>1 DEF Without
<1>5. Touches(p)
  BY <1>1, <1>3, <1>4 DEF Touches
<1>6. \A g : ~Owns(p, g) /\ ~Owns(p, g)'
  <2>1. Cardinality({}) = 0
    BY FS_EmptySet
  <2>2. \A g : ~Owns(p, g)
    BY <1>1, <1>2, <2>1, OwnersFollow DEF Exact
  <2> QED
    BY <1>4, <2>2 DEF Owns
<1>7. Regroups(p)
  BY <1>1, <1>3, <1>6 DEF Regroups
<1>8. HopsOf(p)' = {} /\ HopsOf(p) = {}
  BY <1>1, <1>4 DEF HopsOf
<1> QED
  BY <1>1, <1>2, <1>3, <1>5, <1>7, <1>8, LeakingIsExact

LEMMA RemoveRemoteIsExact ==
  ASSUME RouteInv, RouteInv', clean => Exact, clean', NEW p \in Prefixes, RemoveRemote(p)
  PROVE  Exact'
<1> DEFINE e == route[p]
           r == RouteRemoved(sai, p)
<1>1. /\ p \in DOMAIN route /\ e.hops # {} /\ UNCHANGED <<neighbor, clean, leaked>>
  BY DEF RemoveRemote
<1>2. Exact
  BY <1>1
<1>3. /\ Follows(sai, e, p)
      /\ IsEcmp(e) = {e.rstate = "ecmp"} /\ GroupOf(e) = {e.group}
  BY <1>1, <1>2, FollowingIsSettled DEF Exact
<1> DEFINE s == IF e.rstate = "ecmp" THEN GroupRemoved(r, e.group) ELSE r
<1>4. /\ sai' = HopsRemoved(s, Freed(e.hops)) /\ nexthop' = Released(e.hops)
      /\ route' = Without(route, p)
  BY <1>3 DEF RemoveRemote, Follows
<1>5. sai \in SaiState /\ e.hops \in SUBSET NextHops
  BY <1>1, InvIsTyped DEF Typed, Route
<1>6. /\ r.hops = sai.hops /\ r.groups = sai.groups /\ r.neighbors = sai.neighbors
      /\ \A q \in DOMAIN r.routes \cup DOMAIN sai.routes :
           q # p => q \in DOMAIN sai.routes /\ q \in DOMAIN r.routes /\ r.routes[q] = sai.routes[q]
      /\ p \notin DOMAIN r.routes
  BY <1>5, RouteRemovedIs
<1>7. r \in SaiState
  BY <1>5, RouteRemovedType
<1> HIDE DEF r
<1>8. /\ s \in SaiState
      /\ s.hops = sai.hops /\ s.routes = r.routes /\ s.neighbors = sai.neighbors
      /\ \A g \in DOMAIN sai.groups :
           ~Owns(p, g) => g \in DOMAIN s.groups /\ s.groups[g] = sai.groups[g]
      /\ DOMAIN s.groups \subseteq DOMAIN sai.groups
      /\ \A g \in DOMAIN s.groups : ~Owns(p, g)
  <2>1. CASE e.rstate # "ecmp"
    BY <1>6, <1>7, <2>1 DEF Owns
  <2>2. CASE e.rstate = "ecmp"
    <3> DEFINE z == GroupRemoved(r, e.group)
    <3>1. Owns(p, e.group) /\ \A g : Owns(p, g) => g = e.group
      BY <1>1, <2>2 DEF Owns
    <3>2. ~InUse(r, e.group)
      BY <1>2, <1>6, <1>7, <3>1, GroupIsFree DEF Exact
    <3>3. /\ z.hops = r.hops /\ z.routes = r.routes /\ z.neighbors = r.neighbors
          /\ DOMAIN z.groups = DOMAIN r.groups \ {e.group}
          /\ \A h \in DOMAIN z.groups : z.groups[h] = r.groups[h]
      BY <1>7, <3>2, GroupRemovedIs
    <3>4. z \in SaiState
      BY <1>7, GroupRemovedType
    <3>5. s = z
      BY <2>2
    <3> HIDE DEF z
    <3> QED
      BY <1>6, <3>1, <3>3, <3>4, <3>5
  <2> QED
    BY <2>1, <2>2
<1> HIDE DEF s
<1>9. sai'.groups = s.groups /\ sai'.routes = r.routes
  BY <1>4, <1>8, HopsRemovedIs
<1>10. /\ DOMAIN route' = DOMAIN route \ {p}
       /\ \A q \in DOMAIN route' : route'[q] = route[q]
  BY <1>4 DEF Without
<1>11. Touches(p)
  BY <1>1, <1>6, <1>9, <1>10 DEF Touches
<1>12. \A g : ~Owns(p, g)'
  BY <1>10 DEF Owns
<1>13. Regroups(p)
  BY <1>1, <1>8, <1>9, <1>12 DEF Regroups
<1>14. HopsOf(p)' = {} /\ HopsOf(p) = e.hops
  BY <1>1, <1>10 DEF HopsOf
<1> QED
  BY <1>1, <1>2, <1>4, <1>5, <1>8, <1>11, <1>13, <1>14, RemovingIsExact
\* SAI routes own addresses of the switch to the CPU or not at all.
LEMMA IpToMeIsExact ==
  ASSUME RouteInv, RouteInv', clean => Exact, clean', NEW a \in Addresses, IpToMe(a)
  PROVE  Exact'
<1> USE DEF Exact
<1>1. /\ UNCHANGED <<nexthop, route, neighbor, clean, leaked>>
      /\ (\E bad \in Refusals : sai' = Programmed(sai, a, Cpu, bad)) \/ sai' = RouteRemoved(sai, a)
  BY DEF IpToMe
<1>2. Exact
  BY <1>1
<1>3. sai \in SaiState /\ a \notin Prefixes
  BY InvIsTyped, DisjointAssumption DEF Typed
<1>4. /\ sai'.hops = sai.hops /\ sai'.groups = sai.groups /\ sai'.neighbors = sai.neighbors
      /\ \A q \in DOMAIN sai'.routes \cup DOMAIN sai.routes :
           q # a => q \in DOMAIN sai.routes /\ q \in DOMAIN sai'.routes /\ sai'.routes[q] = sai.routes[q]
      /\ a \in DOMAIN sai'.routes => sai'.routes[a] = Cpu
  <2>1. CASE sai' = RouteRemoved(sai, a)
    BY <1>3, <2>1, RouteRemovedIs
  <2>2. CASE \E bad \in Refusals : sai' = Programmed(sai, a, Cpu, bad)
    <3>1. PICK bad \in Refusals : sai' = Programmed(sai, a, Cpu, bad)
      BY <2>2
    <3>2. /\ sai'.hops = sai.hops /\ sai'.groups = sai.groups /\ sai'.neighbors = sai.neighbors
          /\ \A q \in DOMAIN sai'.routes \cup DOMAIN sai.routes :
               q # a => q \in DOMAIN sai.routes /\ q \in DOMAIN sai'.routes /\ sai'.routes[q] = sai.routes[q]
          /\ a \in DOMAIN sai'.routes \ DOMAIN sai.routes => sai'.routes[a] = Cpu
          /\ a \in DOMAIN sai.routes => sai' = sai
      BY <1>3, <3>1, ProgrammedIs
    <3> QED
      BY <1>2, <3>2 DEF RoutesFollow
  <2> QED
    BY <1>1, <2>1, <2>2
<1>5. RoutesFollow'
  <2>1. ASSUME NEW q \in DOMAIN route PROVE Follows(sai', route[q], q)
    <3>1. q # a /\ Follows(sai, route[q], q)
      BY <1>2, <1>3, InvIsTyped DEF RoutesFollow, Typed
    <3> QED
      BY <1>4, <3>1 DEF Follows
  <2>2. \A q \in DOMAIN sai'.routes \cap Prefixes : q \in DOMAIN route
    BY <1>2, <1>3, <1>4 DEF RoutesFollow
  <2>3. \A b \in Addresses \cap DOMAIN sai'.routes : sai'.routes[b] = Cpu
    BY <1>2, <1>4 DEF RoutesFollow
  <2> QED
    BY <1>1, <2>1, <2>2, <2>3 DEF RoutesFollow
<1>6. \A q, g : Owns(q, g)' <=> Owns(q, g)
  BY <1>1 DEF Owns
<1>7. GroupsAreOwned' /\ GroupsAreApart'
  BY <1>1, <1>2, <1>4, <1>6 DEF GroupsAreOwned, GroupsAreApart
<1>8. HopsAreKnown' /\ CountsMatch'
  BY <1>1, <1>2, <1>4 DEF HopsAreKnown, CountsMatch, RefCount, Users
<1> QED
  BY <1>1, <1>2, <1>4, <1>5, <1>7, <1>8, NeighborsStay

-----------------------------------------------------------------------------
(* Neighbours                                                               *)

\* Neighbours touch no route and no group.
LEMMA NeighborsLeaveRoutes ==
  ASSUME RoutesFollow, GroupsAreOwned, GroupsAreApart,
         route' = route, leaked' = leaked, sai'.routes = sai.routes, sai'.groups = sai.groups
  PROVE  RoutesFollow' /\ GroupsAreOwned' /\ GroupsAreApart'
<1>1. \A q, g : Owns(q, g)' <=> Owns(q, g)
  BY DEF Owns
<1>2. GroupsAreOwned' /\ GroupsAreApart'
  BY <1>1 DEF GroupsAreOwned, GroupsAreApart
<1>3. RoutesFollow'
  BY DEF RoutesFollow, Follows
<1> QED
  BY <1>2, <1>3

LEMMA PendingIsExact ==
  ASSUME RouteInv, RouteInv', clean => Exact, clean', NEW n \in NextHops, NeighborPending(n)
  PROVE  Exact'
<1> USE DEF Exact
<1>1. /\ neighbor[n] = "none" /\ neighbor' = [neighbor EXCEPT ![n] = "empty"]
      /\ UNCHANGED <<nexthop, route, sai, clean, leaked>>
  BY DEF NeighborPending
<1>2. Exact
  BY <1>1
<1>3. /\ neighbor \in [NextHops -> {"none", "empty"} \cup Macs]
      /\ "none" \notin Macs /\ "empty" \notin Macs
  BY InvIsTyped, DisjointAssumption DEF Typed
<1>4. \A m \in NextHops : /\ neighbor'[m] \in Macs <=> neighbor[m] \in Macs
                          /\ neighbor[m] \in Macs => neighbor'[m] = neighbor[m]
  BY <1>1, <1>3
<1>5. NeighborsFollow'
  BY <1>1, <1>2, <1>4 DEF NeighborsFollow
<1>6. HopsAreKnown' /\ CountsMatch'
  BY <1>1, <1>2, <1>4 DEF HopsAreKnown, CountsMatch, RefCount, Users
<1> QED
  BY <1>1, <1>2, <1>5, <1>6, NeighborsLeaveRoutes

\* The users of next hops when routes stay and one neighbour gets or loses its MAC.
LEMMA UsersFollowNeighbor ==
  ASSUME RouteInv, RouteInv', route' = route, NEW m \in NextHops
  PROVE  /\ (neighbor'[m] \in Macs <=> neighbor[m] \in Macs) => Users(m)' = Users(m)
         /\ neighbor'[m] \in Macs /\ neighbor[m] \notin Macs => Users(m)' = Users(m) + 1
         /\ neighbor'[m] \notin Macs /\ neighbor[m] \in Macs => Users(m)' = Users(m) - 1
<1>1. Holders(m)' = Holders(m)
  BY DEF Holders
<1>2. /\ Cardinality(Holders(m)) \in Nat
      /\ neighbor[m] \in Macs => Users(m) = Cardinality(Holders(m)) + 1
      /\ neighbor[m] \notin Macs => Users(m) = Cardinality(Holders(m))
      /\ neighbor'[m] \in Macs => Users(m)' = Cardinality(Holders(m)) + 1
      /\ neighbor'[m] \notin Macs => Users(m)' = Cardinality(Holders(m))
  BY <1>1, UsersAreHolders, UsersAreHoldersAfter
<1> QED
  BY <1>2

LEMMA NeighborAddIsExact ==
  ASSUME RouteInv, RouteInv', clean => Exact, clean', NEW n \in NextHops, NEW mac \in Macs,
         NeighborAdd(n, mac)
  PROVE  Exact'
<1> USE DEF Exact
<1>1. /\ neighbor' = [neighbor EXCEPT ![n] = IF @ \in Macs THEN @ ELSE mac]
      /\ route' = route /\ leaked' = leaked
      /\ clean /\ n \in DOMAIN sai'.neighbors \ DOMAIN sai.neighbors
  BY DEF NeighborAdd
<1>2. Exact
  BY <1>1
<1>3. /\ neighbor \in [NextHops -> {"none", "empty"} \cup Macs] /\ sai \in SaiState
  BY InvIsTyped DEF Typed
<1>4. neighbor[n] \notin Macs
  BY <1>1, <1>2 DEF NeighborsFollow
<1>5. neighbor'[n] = mac /\ \A m \in NextHops : m # n => neighbor'[m] = neighbor[m]
  BY <1>1, <1>3, <1>4
<1>6. PICK bad \in Refusals :
        /\ nexthop' = Referred(Resolved({n}, bad))
        /\ sai' = IF bad.entry \/ n \in DOMAIN sai.neighbors \/ Resolved({n}, bad) = {}
                    THEN WithHops(Made({n}, bad))
                    ELSE [WithHops(Made({n}, bad)) EXCEPT !.neighbors = With(@, n, mac)]
  BY DEF NeighborAdd
<1> DEFINE s == WithHops(Made({n}, bad))
<1>7. /\ s \in SaiState /\ s.hops = sai.hops \cup Made({n}, bad) /\ s.groups = sai.groups
      /\ s.routes = sai.routes /\ s.neighbors = sai.neighbors
  <2>1. Made({n}, bad) \in SUBSET NextHops
    BY DEF Made
  <2>2. s.groups = sai.groups
    BY <1>3 DEF WithHops, SaiState
  <2> QED
    BY <1>3, <2>1, <2>2, WithHopsType
<1> HIDE DEF s
<1>8. sai' = [s EXCEPT !.neighbors = With(@, n, mac)] /\ Resolved({n}, bad) # {}
  <2>1. CASE sai' = s
    BY <1>1, <1>7, <2>1
  <2>2. CASE sai' # s
    BY <1>6, <2>2 DEF s
  <2> QED
    BY <2>1, <2>2
<1>9. /\ sai'.hops = sai.hops \cup Made({n}, bad) /\ sai'.groups = sai.groups
      /\ sai'.routes = sai.routes /\ sai'.neighbors = With(sai.neighbors, n, mac)
  BY <1>7, <1>8 DEF SaiState
<1>10. Resolved({n}, bad) = {n}
  BY <1>8 DEF Resolved, Made
<1>11. NeighborsFollow'
  <2>1. /\ DOMAIN sai'.neighbors = DOMAIN sai.neighbors \cup {n} /\ sai'.neighbors[n] = mac
        /\ \A m \in DOMAIN sai.neighbors : m # n => sai'.neighbors[m] = sai.neighbors[m]
    BY <1>9 DEF With
  <2> QED
    BY <1>2, <1>5, <2>1 DEF NeighborsFollow
<1>12. CountsMatch'
  <2>1. \A m \in NextHops : /\ m \in {n} => Users(m)' = Users(m) + 1
                            /\ m \notin {n} => Users(m)' = Users(m)
    BY <1>1, <1>4, <1>5, UsersFollowNeighbor
  <2>2. nexthop' = Referred({n}) /\ leaked \subseteq leaked'
    BY <1>1, <1>6, <1>10
  <2> QED
    BY <1>2, <2>1, <2>2, CountedUp
<1>13. HopsAreKnown'
  BY <1>1, <1>2, <1>6, <1>9, <1>10 DEF HopsAreKnown, Referred, Made
<1> QED
  BY <1>1, <1>2, <1>9, <1>11, <1>12, <1>13, NeighborsLeaveRoutes

LEMMA NeighborDeleteIsExact ==
  ASSUME RouteInv, RouteInv', clean => Exact, clean', NEW n \in NextHops, NeighborDelete(n)
  PROVE  Exact'
<1> USE DEF Exact
<1> DEFINE s == [sai EXCEPT !.neighbors = Without(@, n)]
<1>1. /\ neighbor' = [neighbor EXCEPT ![n] = "none"] /\ UNCHANGED <<route, clean, leaked>>
      /\ \/ neighbor[n] = "empty" /\ UNCHANGED <<nexthop, sai>>
         \/ /\ neighbor[n] \in Macs /\ nexthop' = Released({n})
            /\ sai' = HopsRemoved(s, Freed({n}))
  BY DEF NeighborDelete
<1>2. Exact
  BY <1>1
<1>3. /\ neighbor \in [NextHops -> {"none", "empty"} \cup Macs] /\ sai \in SaiState
      /\ "none" \notin Macs /\ "empty" \notin Macs
  BY InvIsTyped, DisjointAssumption DEF Typed
<1>4. neighbor'[n] \notin Macs /\ \A m \in NextHops : m # n => neighbor'[m] = neighbor[m]
  BY <1>1, <1>3
<1>5. CASE neighbor[n] = "empty" /\ UNCHANGED <<nexthop, sai>>
  <2>1. \A m \in NextHops : /\ neighbor'[m] \in Macs <=> neighbor[m] \in Macs
                            /\ neighbor[m] \in Macs => neighbor'[m] = neighbor[m]
    BY <1>3, <1>4, <1>5
  <2>2. NeighborsFollow'
    BY <1>2, <1>5, <2>1 DEF NeighborsFollow
  <2>3. HopsAreKnown' /\ CountsMatch'
    BY <1>1, <1>2, <1>5, <2>1 DEF HopsAreKnown, CountsMatch, RefCount, Users
  <2> QED
    BY <1>1, <1>2, <1>5, <2>2, <2>3, NeighborsLeaveRoutes
<1>6. CASE neighbor[n] \in Macs /\ nexthop' = Released({n}) /\ sai' = HopsRemoved(s, Freed({n}))
  <2>1. /\ s.hops = sai.hops /\ s.groups = sai.groups /\ s.routes = sai.routes
        /\ s.neighbors = Without(sai.neighbors, n)
    BY <1>3 DEF SaiState
  <2>2. s \in SaiState
    <3>1. Without(sai.neighbors, n) \in Partial(NextHops, Macs)
      BY <1>3, WithoutType DEF SaiState
    <3> QED
      BY <1>3, <3>1 DEF SaiState
  <2>3. sai' = HopsRemoved(s, Freed({n}))
    BY <1>6
  <2> HIDE DEF s
  <2>4. sai'.groups = sai.groups /\ sai'.routes = sai.routes /\ sai'.neighbors = Without(sai.neighbors, n)
    BY <2>1, <2>2, <2>3, HopsRemovedIs
  <2>5. NeighborsFollow'
    <3>1. /\ DOMAIN sai'.neighbors = DOMAIN sai.neighbors \ {n}
          /\ \A m \in DOMAIN sai'.neighbors : sai'.neighbors[m] = sai.neighbors[m]
      BY <2>4 DEF Without
    <3> QED
      BY <1>2, <1>4, <3>1 DEF NeighborsFollow
  <2>6. RoutesFollow' /\ GroupsAreOwned' /\ GroupsAreApart'
    BY <1>1, <1>2, <2>4, NeighborsLeaveRoutes
  <2>7. CountsMatch'
    <3>1. \A m \in NextHops : /\ m \in {n} => Users(m) >= 1 /\ Users(m)' = Users(m) - 1
                              /\ m \notin {n} => Users(m)' = Users(m)
      BY <1>1, <1>2, <1>4, <1>6, UsersFollowNeighbor, UsedIsCounted
    <3> QED
      BY <1>1, <1>2, <1>6, <3>1, CountedDown
  <2>8. HopsAreKnown'
    BY <1>1, <1>2, <1>6, <2>1, <2>2, <2>3, <2>6, <2>7, FreedGo
  <2> QED
    BY <2>5, <2>6, <2>7, <2>8
<1> QED
  BY <1>1, <1>5, <1>6

-----------------------------------------------------------------------------
(* The theorems                                                             *)

LEMMA ExactInit == Init => Exact
<1> SUFFICES ASSUME Init PROVE Exact
  OBVIOUS
<1>1. /\ DOMAIN nexthop = {} /\ DOMAIN route = {}
      /\ neighbor = [n \in NextHops |-> "none"]
      /\ sai.hops = {} /\ DOMAIN sai.groups = {} /\ DOMAIN sai.routes = {} /\ DOMAIN sai.neighbors = {}
  BY DEF Init
<1>2. "none" \notin Macs
  BY DisjointAssumption
<1>3. CountsMatch
  <2> SUFFICES ASSUME NEW n \in NextHops PROVE RefCount(n) = 0 /\ Users(n) = 0
    BY DEF CountsMatch
  <2>1. {p \in DOMAIN route : n \in route[p].hops} = {}
    BY <1>1
  <2> QED
    BY <1>1, <1>2, <2>1, FS_EmptySet DEF RefCount, Users
<1> QED
  BY <1>1, <1>2, <1>3
     DEF Exact, RoutesFollow, NeighborsFollow, GroupsAreOwned, GroupsAreApart, HopsAreKnown

LEMMA ExactStep == RouteInv /\ (clean => Exact) /\ [Next]_vars => (clean => Exact)'
<1> SUFFICES ASSUME RouteInv, clean => Exact, [Next]_vars, clean' PROVE Exact'
  OBVIOUS
<1>1. RouteInv'
  BY StepInv
<1>2. ASSUME NEW p \in Prefixes, NEW H \in (SUBSET NextHops) \ {{}},
             RemoteAdd(p, H) \/ HopsRemove(p, H) \/ LastHopsRemove(p, H)
      PROVE  Exact'
  BY <1>1, <1>2, FirstHopsAreExact, MoreHopsAreExact, RemovedHopsAreExact, LastHopsAreExact DEF RemoteAdd
<1>3. ASSUME NEW p \in Prefixes,
             LocalAdd(p) \/ RemoveReference(p) \/ RemoveLocal(p) \/ RemoveRemote(p)
      PROVE  Exact'
  BY <1>1, <1>3, LocalAddIsExact, RemoveReferenceIsExact, RemoveLocalIsExact, RemoveRemoteIsExact
<1>4. ASSUME NEW a \in Addresses, IpToMe(a)
      PROVE  Exact'
  BY <1>1, <1>4, IpToMeIsExact
<1>5. ASSUME NEW n \in NextHops, NeighborPending(n) \/ NeighborDelete(n)
      PROVE  Exact'
  BY <1>1, <1>5, PendingIsExact, NeighborDeleteIsExact
<1>6. ASSUME NEW n \in NextHops, NEW mac \in Macs, NeighborAdd(n, mac)
      PROVE  Exact'
  BY <1>1, <1>6, NeighborAddIsExact
<1>7. ASSUME UNCHANGED vars PROVE Exact'
  BY <1>7 DEF vars, Exact, RoutesFollow, Follows, NeighborsFollow, GroupsAreOwned, GroupsAreApart,
              HopsAreKnown, CountsMatch, Owns, RefCount, Users
<1> QED
  BY <1>2, <1>3, <1>4, <1>5, <1>6, <1>7 DEF Next

\* ExactInv is an invariant: while the history is clean, the tables of sai-route.c
\* and SAI's objects agree in all that Exact says.
THEOREM ExactInvariant == Spec => []ExactInv
<1>1. Init => ExactInv
  BY InitInv, ExactInit DEF ExactInv
<1>2. ExactInv /\ [Next]_vars => ExactInv'
  BY StepInv, ExactStep DEF ExactInv
<1> QED
  BY <1>1, <1>2, PTL DEF Spec

\* A next hop is counted once for each route and neighbour that uses it, by
\* nexthop_hmap_add and ops_sai_route_delete_nexthop.
THEOREM CountsAreExactHolds == Spec => []CountsAreExact
<1>1. ExactInv => CountsAreExact
  BY DEF ExactInv, Exact, CountsMatch, CountsAreExact
<1> QED
  BY <1>1, ExactInvariant, PTL

\* SAI routes and resolves what the tables of routes and neighbours say.
THEOREM SaiFollowsTablesHolds == Spec => []SaiFollowsTables
<1>1. ExactInv => SaiFollowsTables
  <2> SUFFICES ASSUME ExactInv, clean PROVE SaiFollowsTables
    BY DEF SaiFollowsTables
  <2>1. RouteInv /\ RoutesFollow /\ NeighborsFollow
    BY DEF ExactInv, Exact
  <2>2. DOMAIN sai.routes \cap Prefixes = DOMAIN route
    BY <2>1, InvIsTyped DEF RoutesFollow, Follows, Typed
  <2>3. ASSUME NEW p \in DOMAIN route
        PROVE  LET e == route[p]
                   t == sai.routes[p]
               IN  CASE Cardinality(e.hops) = 0 -> t = Cpu
                     [] Cardinality(e.hops) = 1 -> t \in e.hops
                     [] OTHER -> t = e.group /\ t \in DOMAIN sai.groups /\ sai.groups[t] = e.hops
    <3>1. /\ Follows(sai, route[p], p) /\ route[p].hops \in SUBSET NextHops
      BY <2>1, InvIsTyped DEF RoutesFollow, Typed, Route
    <3>2. /\ Cardinality(route[p].hops) \in Nat
          /\ Cardinality(route[p].hops) = 0 <=> route[p].hops = {}
          /\ Cardinality(route[p].hops) = 1 <=> \E n : route[p].hops = {n}
      BY <3>1, HopsCount
    <3> QED
      BY <3>1, <3>2 DEF Follows
  <2> QED
    BY <2>1, <2>2, <2>3 DEF SaiFollowsTables, NeighborsFollow
<1> QED
  BY <1>1, ExactInvariant, PTL

\* Nothing is left in SAI but what the two paths that leak left, and no two routes
\* share a group.
THEOREM NothingIsLeftBehindHolds == Spec => []NothingIsLeftBehind
<1>1. ExactInv => NothingIsLeftBehind
  <2> SUFFICES ASSUME ExactInv, clean PROVE NothingIsLeftBehind
    BY DEF NothingIsLeftBehind
  <2>1. RoutesFollow /\ GroupsAreOwned /\ GroupsAreApart /\ HopsAreKnown
    BY DEF ExactInv, Exact
  <2>2. ASSUME NEW p \in DOMAIN route, NEW q \in DOMAIN route,
               route[p].rstate = "ecmp", route[q].rstate = "ecmp", route[p].group = route[q].group
        PROVE  p = q
    <3>1. Owns(p, route[p].group) /\ Owns(q, route[p].group)
      BY <2>2 DEF Owns
    <3>2. route[p].group \in DOMAIN sai.groups
      BY <2>1, <3>1, OwnersFollow
    <3> QED
      BY <2>1, <2>2, <3>1, <3>2 DEF GroupsAreApart
  <2> QED
    BY <2>1, <2>2 DEF NothingIsLeftBehind, GroupsAreOwned, Owns, HopsAreKnown
<1> QED
  BY <1>1, ExactInvariant, PTL
=============================================================================
