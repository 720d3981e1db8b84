---------------------------- MODULE BundleL3Proofs ----------------------------
(***************************************************************************)
(* Proofs about BundleL3 for any number of bundles, netdevs, addresses,    *)
(* prefixes and neighbours.                                                *)
(***************************************************************************)
EXTENDS BundleL3, FiniteSetTheorems, WellFoundedInduction, TLAPS

-----------------------------------------------------------------------------
(* Worlds, and what is true of them *)

Partial(A, B) == UNION {[D -> B] : D \in SUBSET A}

Rifs == [made : BOOLEAN, handle : Bundles \cup Nat \cup {None}, id : RifIds \cup {None},
         on : BOOLEAN]

Records ==
  [cached : BOOLEAN, conf : Settings \cup {None}, changed : SUBSET Changes,
   linked : SUBSET Netdevs, lag : {"none", "made", "gone"}, rif : Rifs,
   ipv4_primary : Addresses \cup {None}, freed : BOOLEAN,
   ipv4_secondary : SUBSET Addresses, local_routes : SUBSET Prefixes,
   neighbors : Partial(Hosts, {"mac", "empty"})]

Hardware ==
  [rifs : SUBSET RifIds,
   routes : Partial(Prefixes, [refer : Nat \ {0}, rif : RifIds \cup {None}]),
   hosts : SUBSET (Hosts \X RifIds), own : SUBSET Addresses]

Worlds ==
  [bundle : Partial(Bundles, Records), rifHandle : [Netdevs -> Bundles \cup {None}],
   hw : Hardware, past : History, error : BOOLEAN, crash : BOOLEAN,
   meets : [intact : BOOLEAN, refused : {"nothing"} \cup Refusable, walked : SUBSET Hosts]]

LinkedOnce(w) ==
  \A c \in DOMAIN w.bundle : \A d \in DOMAIN w.bundle :
    w.bundle[c].linked \cap w.bundle[d].linked # {} => c = d

\* A netdev's own bundle has it as its port.
LinksItself(w, c) == c \in Netdevs /\ ~w.bundle[c].cached => w.bundle[c].linked = {c}

\* What a cached bundle does not have, whatever SAI refused.
Idle(B) ==
  B.cached => /\ B.linked = {} /\ B.local_routes = {} /\ B.ipv4_secondary = {}
              /\ B.freed \/ B.ipv4_primary = None
              /\ B.lag # "made"

\* SAI has the addresses of bundle c that it records, and c has none twice.
Recorded(B, a) == a \in B.ipv4_secondary \/ (a = B.ipv4_primary /\ ~B.freed)

AddressesOf(w, c) ==
  /\ \A a \in OwnOf(c) \ w.past.doubled :
       /\ a \in w.hw.own <=> c \in DOMAIN w.bundle /\ Recorded(w.bundle[c], a)
       /\ c \in DOMAIN w.bundle =>
            ~(a \in w.bundle[c].ipv4_secondary /\ a = w.bundle[c].ipv4_primary)
  /\ c \in DOMAIN w.bundle => /\ w.bundle[c].ipv4_primary \in OwnOf(c) \cup {None}
                              /\ w.bundle[c].ipv4_secondary \subseteq OwnOf(c)
                              /\ w.bundle[c].freed => w.bundle[c].ipv4_primary # None

OwnIsOwned(w) == \A a \in w.hw.own : \E c \in Bundles : a \in OwnOf(c)

\* While SAI refuses nothing: router interfaces, and what hangs on them.
RifOf(w, c) ==
  /\ w.bundle[c].rif.made => w.bundle[c].rif.id \in w.hw.rifs
  /\ ~w.bundle[c].rif.made => w.bundle[c].rif = NoRif
  /\ w.bundle[c].cached => ~w.bundle[c].rif.made

RifsRight(w) ==
  /\ \A c \in DOMAIN w.bundle : RifOf(w, c)
  /\ \A c \in DOMAIN w.bundle : \A d \in DOMAIN w.bundle :
       w.bundle[c].rif.made /\ w.bundle[d].rif.made /\ w.bundle[c].rif.id = w.bundle[d].rif.id
         => c = d
  /\ \A r \in w.hw.rifs : \E c \in DOMAIN w.bundle :
       w.bundle[c].rif.made /\ w.bundle[c].rif.id = r

RoutesRight(w) ==
  /\ \A c \in DOMAIN w.bundle : \A x \in w.bundle[c].local_routes :
       /\ x \in DOMAIN w.hw.routes /\ w.bundle[c].rif.made
       /\ w.hw.routes[x].refer = 1 /\ w.hw.routes[x].rif = w.bundle[c].rif.id
  /\ \A x \in DOMAIN w.hw.routes : \E c \in DOMAIN w.bundle : x \in w.bundle[c].local_routes

Sent(B) == {n \in DOMAIN B.neighbors : B.neighbors[n] # "empty"}

HostsRight(w) ==
  /\ \A c \in DOMAIN w.bundle : \A n \in Sent(w.bundle[c]) :
       w.bundle[c].rif.made /\ <<n, w.bundle[c].rif.id>> \in w.hw.hosts
  /\ \A n \in Hosts : \A r \in RifIds : <<n, r>> \in w.hw.hosts =>
       \E c \in DOMAIN w.bundle : n \in Sent(w.bundle[c]) /\ w.bundle[c].rif.id = r

\* The netdevs of bundle c know its router interface.
HandlesOf(w, c) ==
  \A p \in w.bundle[c].linked : w.rifHandle[p] = IF w.bundle[c].rif.made THEN c ELSE None

\* What holds whatever SAI refuses, and what holds while it refuses nothing; a call
\* is about to set right the bundles X.
Base(w) ==
  /\ w \in Worlds /\ LinkedOnce(w) /\ OwnIsOwned(w)
  /\ \A c \in DOMAIN w.bundle : Idle(w.bundle[c])
  /\ \A c \in Bundles : AddressesOf(w, c)

Sound(w) == RifsRight(w) /\ RoutesRight(w) /\ HostsRight(w)

Fine(w, X) ==
  /\ Base(w)
  /\ \A c \in DOMAIN w.bundle \ X : LinksItself(w, c)
  /\ ~w.past.failed => Sound(w) /\ \A c \in DOMAIN w.bundle \ X : HandlesOf(w, c)

\* A step fails only where SAI refused something.
Calm(w) == ~w.past.failed => ~w.error

\* Bundles go or stay cached or not; they keep their settings and get no routes.
Keeps(w, v) ==
  /\ w.past.failed => v.past.failed
  /\ w.crash => v.crash
  /\ \A c \in DOMAIN v.bundle :
       /\ c \in DOMAIN w.bundle /\ v.bundle[c].cached = w.bundle[c].cached
       /\ v.bundle[c].conf = w.bundle[c].conf
       /\ v.bundle[c].local_routes \subseteq w.bundle[c].local_routes

Shrinks(w, v) == Keeps(w, v) /\ v.hw.rifs \subseteq w.hw.rifs

-----------------------------------------------------------------------------
(* Partial functions, and worlds as records *)

LEMMA PartialElim ==
  ASSUME NEW A, NEW B, NEW f \in Partial(A, B)
  PROVE  DOMAIN f \subseteq A /\ f \in [DOMAIN f -> B]
BY DEF Partial

LEMMA PartialIntro ==
  ASSUME NEW A, NEW B, NEW D \in SUBSET A, NEW f \in [D -> B]
  PROVE  f \in Partial(A, B)
BY DEF Partial

LEMMA PartialExcept ==
  ASSUME NEW A, NEW B, NEW f \in Partial(A, B), NEW x \in DOMAIN f, NEW y \in B
  PROVE  [f EXCEPT ![x] = y] \in Partial(A, B)
<1>1. DOMAIN f \in SUBSET A /\ [f EXCEPT ![x] = y] \in [DOMAIN f -> B]
  BY PartialElim
<1> QED
  BY <1>1, PartialIntro

\* Function g is function f without X, or with x mapped to y.
IsWithout(f, X, g, A, B) ==
  /\ g \in Partial(A, B) /\ DOMAIN g = DOMAIN f \ X
  /\ \A z \in DOMAIN f \ X : g[z] = f[z]

IsWith(f, x, y, g, A, B) ==
  /\ g \in Partial(A, B) /\ DOMAIN g = DOMAIN f \cup {x} /\ g[x] = y
  /\ \A z \in DOMAIN f : z # x => g[z] = f[z]

LEMMA WithoutIs ==
  ASSUME NEW A, NEW B, NEW f \in Partial(A, B), NEW X, NEW g, g = Without(f, X)
  PROVE  IsWithout(f, X, g, A, B)
<1>1. DOMAIN f \subseteq A /\ \A z \in DOMAIN f : f[z] \in B
  BY PartialElim
<1>2. g \in [DOMAIN f \ X -> B]
  BY <1>1 DEF Without
<1>3. g \in Partial(A, B)
  BY <1>1, <1>2, PartialIntro
<1> QED
  BY <1>3 DEF Without, IsWithout

LEMMA WithIs ==
  ASSUME NEW A, NEW B, NEW f \in Partial(A, B), NEW x \in A, NEW y \in B,
         NEW g, g = With(f, x, y)
  PROVE  IsWith(f, x, y, g, A, B)
<1>1. DOMAIN f \subseteq A /\ \A z \in DOMAIN f : f[z] \in B
  BY PartialElim
<1>2. g \in [DOMAIN f \cup {x} -> B]
  BY <1>1 DEF With
<1>3. g \in Partial(A, B)
  BY <1>1, <1>2, PartialIntro
<1> QED
  BY <1>3 DEF With, IsWith

LEMMA WorldParts ==
  ASSUME NEW w \in Worlds
  PROVE  /\ w.bundle \in Partial(Bundles, Records) /\ DOMAIN w.bundle \subseteq Bundles
         /\ w.bundle \in [DOMAIN w.bundle -> Records]
         /\ \A c \in DOMAIN w.bundle : w.bundle[c] \in Records
         /\ w.rifHandle \in [Netdevs -> Bundles \cup {None}]
         /\ w.hw \in Hardware /\ w.past \in History /\ w.past.failed \in BOOLEAN
         /\ w.error \in BOOLEAN /\ w.crash \in BOOLEAN
<1>1. w.bundle \in Partial(Bundles, Records)
  BY DEF Worlds
<1>2. DOMAIN w.bundle \subseteq Bundles /\ w.bundle \in [DOMAIN w.bundle -> Records]
  BY <1>1, PartialElim
<1> QED
  BY <1>1, <1>2 DEF Worlds, History

\* Only bundle b is another one than before.
Only(w, v, b) ==
  /\ v \in Worlds /\ b \in DOMAIN w.bundle /\ DOMAIN v.bundle = DOMAIN w.bundle
  /\ \A c \in DOMAIN w.bundle : c # b => v.bundle[c] = w.bundle[c]

\* A world with another record for bundle b, and other handles, hardware and so on.
Put(w, b, B, h, k, q, e, x) ==
  [w EXCEPT !.bundle = [w.bundle EXCEPT ![b] = B], !.rifHandle = h, !.hw = k,
            !.past = q, !.error = e, !.crash = x]

IsPut(w, v, b, B, h, k, q, e, x) ==
  /\ Only(w, v, b) /\ v.bundle[b] = B /\ v.rifHandle = h /\ v.hw = k /\ v.past = q
  /\ v.error = e /\ v.crash = x /\ v.meets = w.meets

LEMMA PutIs ==
  ASSUME NEW w \in Worlds, NEW b \in DOMAIN w.bundle, NEW B \in Records,
         NEW h \in [Netdevs -> Bundles \cup {None}], NEW k \in Hardware, NEW q \in History,
         NEW e \in BOOLEAN, NEW x \in BOOLEAN
  PROVE  IsPut(w, Put(w, b, B, h, k, q, e, x), b, B, h, k, q, e, x)
<1> DEFINE v == Put(w, b, B, h, k, q, e, x)
<1>1. [w.bundle EXCEPT ![b] = B] \in Partial(Bundles, Records)
  BY WorldParts, PartialExcept
<1>2. v \in Worlds
  BY <1>1 DEF Worlds, Put
<1>3. /\ v.bundle = [w.bundle EXCEPT ![b] = B] /\ v.rifHandle = h /\ v.hw = k /\ v.past = q
      /\ v.error = e /\ v.crash = x /\ v.meets = w.meets
  BY DEF Worlds, Put
<1> HIDE DEF v
<1>4. IsPut(w, v, b, B, h, k, q, e, x)
  BY <1>2, <1>3, WorldParts DEF Only, IsPut
<1> QED
  BY <1>4 DEF v

LEMMA PortsDeletedDoes ==
  ASSUME NEW w \in Worlds, NEW b \in DOMAIN w.bundle, NEW P, NEW v, v = PortsDeleted(w, b, P)
  PROVE  /\ Only(w, v, b) /\ v.bundle[b] = [w.bundle[b] EXCEPT !.linked = @ \ P]
         /\ v.hw = w.hw /\ v.past = w.past /\ v.error = w.error /\ v.crash = w.crash
         /\ \A p \in Netdevs \ P : v.rifHandle[p] = w.rifHandle[p]
<1> DEFINE B == [w.bundle[b] EXCEPT !.linked = @ \ P]
           h == [p \in Netdevs |->
               IF p \in P /\ w.bundle[b].lag = "made" /\ w.bundle[b].rif.made
               THEN None ELSE w.rifHandle[p]]
<1>1. w.bundle[b] \in Records
  BY WorldParts
<1>2. B \in Records
  BY <1>1 DEF Records
<1>4. h \in [Netdevs -> Bundles \cup {None}]
  BY WorldParts
<1>5. v = Put(w, b, B, h, w.hw, w.past, w.error, w.crash)
  BY DEF PortsDeleted, Worlds, Put
<1>6. \A p \in Netdevs \ P : h[p] = w.rifHandle[p]
  OBVIOUS
<1> HIDE DEF B, h
<1>7. IsPut(w, v, b, B, h, w.hw, w.past, w.error, w.crash)
  BY <1>2, <1>4, <1>5, WorldParts, PutIs
<1> QED
  BY <1>6, <1>7 DEF B, IsPut

-----------------------------------------------------------------------------
(* The route class *)

RouteEntries == [refer : Nat \ {0}, rif : RifIds \cup {None}]

LEMMA HardwareParts ==
  ASSUME NEW h \in Hardware
  PROVE  /\ h.routes \in Partial(Prefixes, RouteEntries) /\ DOMAIN h.routes \subseteq Prefixes
         /\ \A x \in DOMAIN h.routes : h.routes[x] \in RouteEntries
         /\ h.rifs \subseteq RifIds /\ h.hosts \subseteq Hosts \X RifIds
<1>1. h.routes \in Partial(Prefixes, RouteEntries)
  BY DEF Hardware, RouteEntries
<1>2. DOMAIN h.routes \subseteq Prefixes /\ h.routes \in [DOMAIN h.routes -> RouteEntries]
  BY <1>1, PartialElim
<1> QED
  BY <1>1, <1>2 DEF Hardware

LEMMA RoutesRemovedIs ==
  ASSUME NEW h \in Hardware, NEW X, NEW k, k = RoutesRemoved(h, X)
  PROVE  /\ k \in Hardware /\ k.rifs = h.rifs /\ k.hosts = h.hosts /\ k.own = h.own
         /\ \A x : x \in DOMAIN k.routes <=>
                     x \in DOMAIN h.routes /\ ~(x \in X /\ h.routes[x].refer = 1)
         /\ \A x \in DOMAIN k.routes \ X : k.routes[x] = h.routes[x]
<1> DEFINE gone == {x \in X \cap DOMAIN h.routes : h.routes[x].refer = 1}
           R == [x \in DOMAIN h.routes \ gone |->
                   IF x \in X THEN [h.routes[x] EXCEPT !.refer = @ - 1] ELSE h.routes[x]]
<1>1. DOMAIN h.routes \subseteq Prefixes /\ \A x \in DOMAIN h.routes : h.routes[x] \in RouteEntries
  BY HardwareParts
<1>2. \A x \in DOMAIN h.routes \ gone : R[x] \in RouteEntries
  <2> SUFFICES ASSUME NEW x \in DOMAIN h.routes \ gone PROVE R[x] \in RouteEntries
    OBVIOUS
  <2>1. h.routes[x] \in [refer : Nat \ {0}, rif : RifIds \cup {None}]
    BY <1>1 DEF RouteEntries
  <2>2. CASE x \in X
    <3>1. h.routes[x].refer \in Nat /\ h.routes[x].refer > 1
      BY <2>1, <2>2
    <3> QED
      BY <2>1, <2>2, <3>1 DEF RouteEntries
  <2> QED
    BY <2>1, <2>2 DEF RouteEntries
<1>3. R \in Partial(Prefixes, RouteEntries)
  <2>1. R \in [DOMAIN h.routes \ gone -> RouteEntries] /\ DOMAIN h.routes \ gone \in SUBSET Prefixes
    BY <1>1, <1>2
  <2> HIDE DEF R
  <2> QED
    BY <2>1, PartialIntro
<1>4. k = [h EXCEPT !.routes = R]
  <2>1. R = [x \in DOMAIN h.routes \ gone |->
               IF x \in X THEN CountedDown(h.routes[x]) ELSE h.routes[x]]
    BY DEF CountedDown
  <2> QED
    BY <2>1, Zenon DEF RoutesRemoved
<1>5. k \in Hardware /\ k.routes = R /\ k.rifs = h.rifs /\ k.hosts = h.hosts /\ k.own = h.own
  <2> HIDE DEF R
  <2> QED
    BY <1>3, <1>4 DEF Hardware, RouteEntries
<1> QED
  BY <1>5

\* Hardware k is hardware h with local routes X, on router interface r if there is one.
Routed(h, k, X, r) ==
  /\ k \in Hardware /\ k.rifs = h.rifs /\ k.hosts = h.hosts /\ k.own = h.own
  /\ DOMAIN k.routes = DOMAIN h.routes \cup X
  /\ \A x \in DOMAIN h.routes \ X : k.routes[x] = h.routes[x]
  /\ \A x \in X \ DOMAIN h.routes :
       k.routes[x].refer = 1 /\ k.routes[x].rif = IF r \in h.rifs THEN r ELSE None

LEMMA RoutesAddedIs ==
  ASSUME NEW h \in Hardware, NEW X \in SUBSET Prefixes, NEW r, NEW k, k = RoutesAdded(h, X, r)
  PROVE  Routed(h, k, X, r)
<1> DEFINE new == [refer |-> 1, rif |-> IF r \in h.rifs THEN r ELSE None]
           R == [x \in DOMAIN h.routes \cup X |->
                   IF x \notin X THEN h.routes[x]
                   ELSE IF x \in DOMAIN h.routes THEN [h.routes[x] EXCEPT !.refer = @ + 1]
                   ELSE new]
<1>1. DOMAIN h.routes \subseteq Prefixes /\ \A x \in DOMAIN h.routes : h.routes[x] \in RouteEntries
  BY HardwareParts
<1>2. new \in RouteEntries
  BY HardwareParts DEF RouteEntries
<1>3. \A x \in DOMAIN h.routes \cup X : R[x] \in RouteEntries
  <2> SUFFICES ASSUME NEW x \in DOMAIN h.routes \cup X PROVE R[x] \in RouteEntries
    OBVIOUS
  <2> HIDE DEF new
  <2>1. CASE x \in X /\ x \in DOMAIN h.routes
    <3>1. h.routes[x] \in RouteEntries
      BY <1>1, <2>1
    <3> QED
      BY <2>1, <3>1 DEF RouteEntries
  <2> QED
    BY <1>1, <1>2, <2>1
<1>4. R \in Partial(Prefixes, RouteEntries)
  <2>1. R \in [DOMAIN h.routes \cup X -> RouteEntries] /\ DOMAIN h.routes \cup X \in SUBSET Prefixes
    BY <1>1, <1>3
  <2> HIDE DEF R
  <2> QED
    BY <2>1, PartialIntro
<1>5. k = [h EXCEPT !.routes = R]
  BY DEF RoutesAdded
<1>6. k \in Hardware /\ k.routes = R /\ k.rifs = h.rifs /\ k.hosts = h.hosts /\ k.own = h.own
  <2> HIDE DEF R
  <2> QED
    BY <1>4, <1>5 DEF Hardware, RouteEntries
<1> QED
  BY <1>6 DEF Routed

-----------------------------------------------------------------------------
(* What removing a router interface does *)

\* The neighbours that go when a router interface of world w is removed.
Goners(w, b) ==
  LET B    == w.bundle[b]
      sent == Sent(B)
      inHw == {n \in sent : <<n, B.rif.id>> \in w.hw.hosts}
  IN IF inHw = sent THEN sent ELSE inHw \cap w.meets.walked

\* What is left of the bundle, and of the neighbours of SAI.
Unrouted(w, b) ==
  [w.bundle[b] EXCEPT !.local_routes = {}, !.neighbors = Without(@, Goners(w, b))]
HostsLeft(w, b) == w.hw.hosts \ (Goners(w, b) \X {w.bundle[b].rif.id})

LEMMA RoutesAndHostsDoes ==
  ASSUME NEW w \in Worlds, NEW b \in DOMAIN w.bundle, NEW v, v = RoutesAndHostsRemoved(w, b)
  PROVE  /\ Only(w, v, b) /\ v.bundle[b] = Unrouted(w, b)
         /\ v.rifHandle = w.rifHandle /\ v.past = w.past /\ v.crash = w.crash
         /\ v.hw.routes = RoutesRemoved(w.hw, w.bundle[b].local_routes).routes
         /\ v.hw.hosts = HostsLeft(w, b) /\ v.hw.rifs = w.hw.rifs /\ v.hw.own = w.hw.own
         /\ v.error <=> \E n \in Sent(w.bundle[b]) : <<n, w.bundle[b].rif.id>> \notin w.hw.hosts
<1> DEFINE B == Unrouted(w, b)
           h == RoutesRemoved(w.hw, w.bundle[b].local_routes)
           k == [h EXCEPT !.hosts = HostsLeft(w, b)]
           inHw == {n \in Sent(w.bundle[b]) : <<n, w.bundle[b].rif.id>> \in w.hw.hosts}
           e == inHw # Sent(w.bundle[b])
<1>1. w.bundle[b] \in Records
  BY WorldParts
<1>2. Without(w.bundle[b].neighbors, Goners(w, b)) \in Partial(Hosts, {"mac", "empty"})
  BY <1>1, WithoutIs DEF Records, IsWithout
<1>3. B \in Records
  BY <1>1, <1>2 DEF Records, Unrouted
<1>4. /\ h \in Hardware /\ h.hosts = w.hw.hosts /\ h.rifs = w.hw.rifs /\ h.own = w.hw.own
  BY WorldParts, RoutesRemovedIs
<1>5. k \in Hardware /\ k.routes = h.routes /\ k.hosts = HostsLeft(w, b)
      /\ k.rifs = w.hw.rifs /\ k.own = w.hw.own
  <2>1. HostsLeft(w, b) \subseteq h.hosts
    BY <1>4 DEF HostsLeft
  <2> HIDE DEF h
  <2> QED
    BY <1>4, <2>1 DEF Hardware
<1>6. v = Put(w, b, B, w.rifHandle, k, w.past, e, w.crash)
  <2> DEFINE N == Without(w.bundle[b].neighbors, Goners(w, b))
  <2>1. v = [w EXCEPT !.hw = k, !.bundle[b].local_routes = {}, !.bundle[b].neighbors = N,
                      !.error = e]
    BY <1>4, Zenon DEF RoutesAndHostsRemoved, HostsRemoved, Goners, Sent, HostsLeft
  <2> HIDE DEF k, e, N
  <2>2. [w.bundle EXCEPT ![b].local_routes = {}, ![b].neighbors = N]
          = [w.bundle EXCEPT ![b] = [w.bundle[b] EXCEPT !.local_routes = {}, !.neighbors = N]]
    BY <1>1, WorldParts DEF Records
  <2>3. v = [w EXCEPT !.hw = k, !.bundle = [w.bundle EXCEPT ![b].local_routes = {}, ![b].neighbors = N],
                      !.error = e]
    BY <2>1 DEF Worlds
  <2> QED
    BY <2>2, <2>3 DEF Put, Worlds, N, Unrouted
<1>7. IsPut(w, v, b, B, w.rifHandle, k, w.past, e, w.crash)
  <2>1. e \in BOOLEAN
    OBVIOUS
  <2> HIDE DEF B, k, e
  <2> QED
    BY <1>3, <1>5, <1>6, <2>1, WorldParts, PutIs
<1> QED
  BY <1>5, <1>7 DEF IsPut

LEMMA ToldDoes ==
  ASSUME NEW w \in Worlds, NEW b \in DOMAIN w.bundle, NEW x \in Bundles \cup {None},
         NEW v, v = Told(w, b, x)
  PROVE  /\ Only(w, v, b) /\ v.bundle[b] = w.bundle[b] /\ v.hw = w.hw /\ v.past = w.past
         /\ v.error = w.error /\ v.crash = w.crash
         /\ \A p \in Netdevs :
              v.rifHandle[p] = IF p \in w.bundle[b].linked THEN x ELSE w.rifHandle[p]
<1> DEFINE h == [p \in Netdevs |-> IF p \in w.bundle[b].linked THEN x ELSE w.rifHandle[p]]
<1>1. h \in [Netdevs -> Bundles \cup {None}]
  BY WorldParts
<1>2. v = Put(w, b, w.bundle[b], h, w.hw, w.past, w.error, w.crash)
  <2>1. [w.bundle EXCEPT ![b] = w.bundle[b]] = w.bundle
    BY WorldParts
  <2> QED
    BY <2>1 DEF Told, Put, Worlds
<1>3. IsPut(w, v, b, w.bundle[b], h, w.hw, w.past, w.error, w.crash)
  BY <1>1, <1>2, WorldParts, PutIs
<1> QED
  BY <1>3 DEF IsPut

LEMMA RifRemovedDoes ==
  ASSUME NEW w \in Worlds, NEW b \in DOMAIN w.bundle, NEW v, v = RifRemoved(w, b)
  PROVE  /\ Only(w, v, b)
         /\ v.bundle[b] \in {Unrouted(w, b), [Unrouted(w, b) EXCEPT !.rif = NoRif]}
         /\ v.past = w.past /\ v.crash = w.crash /\ v.hw.own = w.hw.own
         /\ v.hw.rifs \subseteq w.hw.rifs
         /\ \A p \in Netdevs \ w.bundle[b].linked : v.rifHandle[p] = w.rifHandle[p]
<1> DEFINE w1 == RoutesAndHostsRemoved(w, b)
           w2 == Told(w1, b, None)
           r  == w.bundle[b].rif.id
           B1 == Unrouted(w, b)
           w3 == [w2 EXCEPT !.error = TRUE]
           w4 == [w2 EXCEPT !.hw.rifs = @ \ {r}, !.bundle[b].rif = NoRif]
<1>1. w.bundle[b] \in Records
  BY WorldParts
<1>2. /\ Only(w, w1, b) /\ w1.bundle[b] = B1
      /\ w1.rifHandle = w.rifHandle /\ w1.past = w.past /\ w1.crash = w.crash
      /\ w1.hw.own = w.hw.own /\ w1.hw.rifs = w.hw.rifs
  BY RoutesAndHostsDoes
<1> HIDE DEF w1
<1>3. w1 \in Worlds /\ b \in DOMAIN w1.bundle /\ B1.linked = w.bundle[b].linked
  BY <1>1, <1>2 DEF Only, Records, Unrouted
<1>4. /\ Only(w, w2, b) /\ w2.bundle[b] = B1 /\ w2.hw = w1.hw /\ w2.past = w.past
      /\ w2.crash = w.crash
      /\ \A p \in Netdevs \ w.bundle[b].linked : w2.rifHandle[p] = w.rifHandle[p]
  <2> HIDE DEF B1
  <2> QED
    BY <1>2, <1>3, ToldDoes DEF Only
<1> HIDE DEF w2
<1>5. B1 \in Records /\ B1.rif = w.bundle[b].rif
  <2>1. w2.bundle[b] \in Records
    BY <1>4, WorldParts DEF Only
  <2> QED
    BY <1>1, <1>4, <2>1 DEF Records, Unrouted
<1>6. /\ Only(w2, w3, b) /\ w3.bundle = w2.bundle /\ w3.rifHandle = w2.rifHandle
      /\ w3.hw = w2.hw /\ w3.past = w2.past /\ w3.crash = w2.crash
  BY <1>4 DEF Only, Worlds
<1>7. /\ Only(w2, w4, b) /\ w4.bundle[b] = [B1 EXCEPT !.rif = NoRif] /\ w4.rifHandle = w2.rifHandle
      /\ w4.hw.own = w2.hw.own /\ w4.hw.rifs \subseteq w2.hw.rifs /\ w4.past = w2.past /\ w4.crash = w2.crash
  <2> DEFINE B2 == [B1 EXCEPT !.rif = NoRif]
             k  == [w2.hw EXCEPT !.rifs = @ \ {r}]
  <2>1. B2 \in Records
    BY <1>5 DEF Records, Rifs, NoRif
  <2>2. w2 \in Worlds /\ b \in DOMAIN w2.bundle
    BY <1>4 DEF Only
  <2>3. k \in Hardware /\ k.own = w2.hw.own /\ k.rifs \subseteq w2.hw.rifs
    BY <2>2, WorldParts DEF Hardware
  <2>4. w4 = Put(w2, b, B2, w2.rifHandle, k, w2.past, w2.error, w2.crash)
    BY <2>2, <1>4, WorldParts DEF Put, Worlds
  <2> HIDE DEF B2, k
  <2>5. IsPut(w2, w4, b, B2, w2.rifHandle, k, w2.past, w2.error, w2.crash)
    BY <2>1, <2>2, <2>3, <2>4, WorldParts, PutIs
  <2> QED
    BY <2>3, <2>5 DEF IsPut, B2
<1>8. v \in {w1, w3, w4}
  BY DEF RifRemoved, w1, w2
<1> HIDE DEF w3, w4
<1>9. CASE v = w1
  BY <1>2, <1>9
<1>10. CASE v = w3
  BY <1>4, <1>6, <1>10, <1>2 DEF Only
<1>11. CASE v = w4
  BY <1>4, <1>5, <1>7, <1>11, <1>2 DEF Only
<1> QED
  BY <1>8, <1>9, <1>10, <1>11

\* What SAI refused is remembered.
LEMMA FailedDoes ==
  ASSUME NEW w \in Worlds, NEW what, NEW v, v = Failed(w, what)
  PROVE  /\ v \in Worlds /\ v.bundle = w.bundle /\ v.rifHandle = w.rifHandle /\ v.hw = w.hw
         /\ v.error = w.error /\ v.crash = w.crash /\ v.past.doubled = w.past.doubled
         /\ v.past.failed <=> w.past.failed \/ Refuses(w, what)
<1> DEFINE q == [w.past EXCEPT !.failed = @ \/ Refuses(w, what)]
<1>1. v = [w EXCEPT !.past = q]
  BY DEF Failed
<1>2. w.past \in History
  BY WorldParts
<1>3. Refuses(w, what) \in BOOLEAN
  BY DEF Refuses
<1>4. q \in History /\ q.doubled = w.past.doubled /\ (q.failed <=> w.past.failed \/ Refuses(w, what))
  BY <1>2, <1>3 DEF History
<1> HIDE DEF q
<1> QED
  BY <1>1, <1>4 DEF Worlds

LEMMA RifCreatedDoes ==
  ASSUME NEW w \in Worlds, NEW b \in DOMAIN w.bundle, NEW handle \in Bundles \cup Nat \cup {None},
         NEW r \in RifIds, NEW v, v = RifCreated(w, b, handle, r)
  PROVE  /\ Only(w, v, b)
         /\ v.bundle[b] = [w.bundle[b] EXCEPT !.rif =
              [made |-> TRUE, handle |-> handle,
               id |-> IF Refuses(w, "rif") THEN None ELSE r, on |-> FALSE]]
         /\ v.hw.rifs = w.hw.rifs \cup (IF Refuses(w, "rif") THEN {} ELSE {r})
         /\ v.hw.routes = w.hw.routes /\ v.hw.hosts = w.hw.hosts /\ v.hw.own = w.hw.own
         /\ v.past.doubled = w.past.doubled
         /\ v.past.failed <=> w.past.failed \/ Refuses(w, "rif")
         /\ v.error = w.error /\ v.crash = w.crash
         /\ \A p \in Netdevs :
              v.rifHandle[p] = IF p \in w.bundle[b].linked THEN b ELSE w.rifHandle[p]
<1> DEFINE no == Refuses(w, "rif")
           R  == [made |-> TRUE, handle |-> handle, id |-> IF no THEN None ELSE r, on |-> FALSE]
           B  == [w.bundle[b] EXCEPT !.rif = R]
           k  == [w.hw EXCEPT !.rifs = IF no THEN @ ELSE @ \cup {r}]
           w1 == Put(w, b, B, w.rifHandle, k, w.past, w.error, w.crash)
           w2 == Failed(w1, "rif")
<1>1. w.bundle[b] \in Records /\ w.hw \in Hardware
  BY WorldParts
<1>2. R \in Rifs
  BY DEF Rifs
<1>3. B \in Records /\ B.linked = w.bundle[b].linked
  <2> HIDE DEF R
  <2> QED
    BY <1>1, <1>2 DEF Records
<1>4. /\ k \in Hardware /\ k.rifs = w.hw.rifs \cup (IF no THEN {} ELSE {r})
      /\ k.routes = w.hw.routes /\ k.hosts = w.hw.hosts /\ k.own = w.hw.own
  BY <1>1 DEF Hardware
<1>5. w1 = [w EXCEPT !.hw.rifs = IF no THEN @ ELSE @ \cup {r}, !.bundle[b].rif = R]
  BY DEF Put, Worlds
<1>6. v = Told(w2, b, b)
  BY <1>5 DEF RifCreated
<1> HIDE DEF R, B, k, w1
<1>7. IsPut(w, w1, b, B, w.rifHandle, k, w.past, w.error, w.crash)
  BY <1>3, <1>4, WorldParts, PutIs DEF w1
<1>8. w1.meets = w.meets /\ w1 \in Worlds /\ b \in DOMAIN w1.bundle
  BY <1>7 DEF IsPut, Only
<1>9. /\ w2 \in Worlds /\ w2.bundle = w1.bundle /\ w2.rifHandle = w1.rifHandle /\ w2.hw = w1.hw
      /\ w2.error = w1.error /\ w2.crash = w1.crash /\ w2.past.doubled = w1.past.doubled
      /\ w2.past.failed <=> w1.past.failed \/ Refuses(w1, "rif")
  BY <1>8, FailedDoes
<1> HIDE DEF w2
<1>10. b \in Bundles /\ b \in DOMAIN w2.bundle
  BY <1>8, <1>9, WorldParts
<1>11. /\ Only(w2, v, b) /\ v.bundle[b] = w2.bundle[b] /\ v.hw = w2.hw /\ v.past = w2.past
       /\ v.error = w2.error /\ v.crash = w2.crash
       /\ \A p \in Netdevs :
            v.rifHandle[p] = IF p \in w2.bundle[b].linked THEN b ELSE w2.rifHandle[p]
  BY <1>6, <1>9, <1>10, ToldDoes
<1>12. Only(w, v, b)
  BY <1>7, <1>9, <1>11 DEF Only, IsPut
<1>13. w1.past = w.past /\ (Refuses(w1, "rif") <=> no)
  BY <1>7 DEF IsPut, Refuses
<1>14. v.bundle[b] = B /\ v.hw = k
  BY <1>7, <1>9, <1>11 DEF IsPut
<1>15. \A p \in Netdevs : v.rifHandle[p] = IF p \in w.bundle[b].linked THEN b ELSE w.rifHandle[p]
  BY <1>3, <1>7, <1>9, <1>11 DEF IsPut
<1> QED
  BY <1>4, <1>7, <1>9, <1>11, <1>12, <1>13, <1>14, <1>15 DEF IsPut, B, R

LEMMA RifEnabledDoes ==
  ASSUME NEW w \in Worlds, NEW b \in DOMAIN w.bundle, NEW on \in BOOLEAN,
         NEW v, v = RifEnabled(w, b, on)
  PROVE  /\ Only(w, v, b)
         /\ v.bundle[b] \in {[w.bundle[b] EXCEPT !.rif = [w.bundle[b].rif EXCEPT !.on = on]],
                             w.bundle[b]}
         /\ v.rifHandle = w.rifHandle /\ v.hw = w.hw /\ v.past = w.past /\ v.crash = w.crash
         /\ w.bundle[b].rif.id \in w.hw.rifs => v.error = w.error
<1>1. w.bundle[b] \in Records
  BY WorldParts
<1>2. CASE w.bundle[b].rif.on = on
  BY <1>2 DEF RifEnabled, Only
<1>3. CASE w.bundle[b].rif.on # on /\ w.bundle[b].rif.id \notin w.hw.rifs
  <2>1. v = [w EXCEPT !.error = TRUE]
    BY <1>3 DEF RifEnabled
  <2> QED
    BY <1>3, <2>1 DEF Only, Worlds
<1>4. CASE w.bundle[b].rif.on # on /\ w.bundle[b].rif.id \in w.hw.rifs
  <2> DEFINE R == [w.bundle[b].rif EXCEPT !.on = on]
             B == [w.bundle[b] EXCEPT !.rif = R]
  <2>1. v = [w EXCEPT !.bundle[b].rif.on = on]
    BY <1>4 DEF RifEnabled
  <2>2. v = Put(w, b, B, w.rifHandle, w.hw, w.past, w.error, w.crash)
    BY <2>1 DEF Put, Worlds
  <2>3. R \in Rifs
    BY <1>1 DEF Records, Rifs
  <2>4. B \in Records
    <3> HIDE DEF R
    <3> QED
      BY <1>1, <2>3 DEF Records
  <2> HIDE DEF B
  <2>5. IsPut(w, v, b, B, w.rifHandle, w.hw, w.past, w.error, w.crash)
    BY <2>2, <2>4, WorldParts, PutIs
  <2> QED
    BY <2>5 DEF IsPut, B
<1> QED
  BY <1>2, <1>3, <1>4

-----------------------------------------------------------------------------
(* Addresses *)

\* A world in which bundle b has other addresses.
IpPut(w, b, a, f, S, O, D) ==
  Put(w, b, [w.bundle[b] EXCEPT !.ipv4_primary = a, !.freed = f, !.ipv4_secondary = S],
      w.rifHandle, [w.hw EXCEPT !.own = O], [w.past EXCEPT !.doubled = D], w.error, w.crash)

SameButIp(B, C) ==
  /\ C.cached = B.cached /\ C.conf = B.conf /\ C.changed = B.changed /\ C.linked = B.linked
  /\ C.lag = B.lag /\ C.rif = B.rif /\ C.local_routes = B.local_routes /\ C.neighbors = B.neighbors

IsIpPut(w, v, b, a, f, S, O, D) ==
  /\ Only(w, v, b) /\ SameButIp(w.bundle[b], v.bundle[b])
  /\ v.bundle[b].ipv4_primary = a /\ v.bundle[b].freed = f /\ v.bundle[b].ipv4_secondary = S
  /\ v.rifHandle = w.rifHandle /\ v.hw.rifs = w.hw.rifs /\ v.hw.routes = w.hw.routes
  /\ v.hw.hosts = w.hw.hosts /\ v.hw.own = O /\ v.past.failed = w.past.failed
  /\ v.past.doubled = D /\ v.error = w.error /\ v.crash = w.crash /\ v.meets = w.meets

LEMMA IpPutIs ==
  ASSUME NEW w \in Worlds, NEW b \in DOMAIN w.bundle, NEW a \in Addresses \cup {None},
         NEW f \in BOOLEAN, NEW S \in SUBSET Addresses, NEW O \in SUBSET Addresses,
         NEW D \in SUBSET Addresses
  PROVE  IsIpPut(w, IpPut(w, b, a, f, S, O, D), b, a, f, S, O, D)
<1> DEFINE v == IpPut(w, b, a, f, S, O, D)
           B == [w.bundle[b] EXCEPT !.ipv4_primary = a, !.freed = f, !.ipv4_secondary = S]
           k == [w.hw EXCEPT !.own = O]
           q == [w.past EXCEPT !.doubled = D]
<1>1. w.bundle[b] \in Records /\ w.hw \in Hardware /\ w.past \in History
  BY WorldParts
<1>2. B \in Records /\ SameButIp(w.bundle[b], B)
      /\ B.ipv4_primary = a /\ B.freed = f /\ B.ipv4_secondary = S
  BY <1>1 DEF Records, SameButIp
<1>3. /\ k \in Hardware /\ k.rifs = w.hw.rifs /\ k.routes = w.hw.routes /\ k.hosts = w.hw.hosts
      /\ k.own = O
  BY <1>1 DEF Hardware
<1>4. q \in History /\ q.failed = w.past.failed /\ q.doubled = D
  BY <1>1 DEF History
<1>5. v = Put(w, b, B, w.rifHandle, k, q, w.error, w.crash)
  BY DEF IpPut
<1> HIDE DEF B, k, q, v
<1>6. IsPut(w, v, b, B, w.rifHandle, k, q, w.error, w.crash)
  BY <1>2, <1>3, <1>4, <1>5, WorldParts, PutIs
<1>7. IsIpPut(w, v, b, a, f, S, O, D)
  BY <1>2, <1>3, <1>4, <1>6 DEF IsPut, IsIpPut
<1> QED
  BY <1>7 DEF v

\* Bundle b may have other addresses, all else is as it was.
IpOnly(w, v, b) ==
  /\ Only(w, v, b) /\ SameButIp(w.bundle[b], v.bundle[b])
  /\ v.rifHandle = w.rifHandle /\ v.hw.rifs = w.hw.rifs /\ v.hw.routes = w.hw.routes
  /\ v.hw.hosts = w.hw.hosts /\ v.past.failed = w.past.failed /\ v.meets = w.meets
  /\ w.crash => v.crash
  /\ \A a : a \notin OwnOf(b) => /\ a \in v.hw.own <=> a \in w.hw.own
                                 /\ a \in v.past.doubled <=> a \in w.past.doubled
  /\ w.past.doubled \subseteq v.past.doubled

LEMMA IpOnlyOn ==
  ASSUME NEW u, NEW v, NEW w, NEW b, IpOnly(u, v, b), IpOnly(v, w, b)
  PROVE  IpOnly(u, w, b)
BY DEF IpOnly, Only, SameButIp

LEMMA IpParts ==
  ASSUME NEW w \in Worlds, NEW b \in DOMAIN w.bundle
  PROVE  /\ w.bundle[b].ipv4_primary \in Addresses \cup {None} /\ w.bundle[b].freed \in BOOLEAN
         /\ w.bundle[b].ipv4_secondary \in SUBSET Addresses /\ w.hw.own \in SUBSET Addresses
         /\ w.past.doubled \in SUBSET Addresses /\ b \in Bundles
         /\ None \notin OwnOf(b) /\ None \notin Addresses
         /\ w.error \in BOOLEAN /\ w.crash \in BOOLEAN
<1>1. w.bundle[b] \in Records /\ w.hw \in Hardware /\ w.past \in History
  BY WorldParts
<1>2. /\ w.bundle[b].ipv4_primary \in Addresses \cup {None} /\ w.bundle[b].freed \in BOOLEAN
      /\ w.bundle[b].ipv4_secondary \in SUBSET Addresses
  BY <1>1 DEF Records
<1>3. w.hw.own \in SUBSET Addresses /\ w.past.doubled \in SUBSET Addresses
  BY <1>1 DEF Hardware, History
<1>4. None \notin OwnOf(b) /\ None \notin Addresses
  BY NoneAssumption DEF OwnOf
<1> QED
  BY <1>2, <1>3, <1>4, WorldParts

LEMMA PrimaryReadDoes ==
  ASSUME NEW w \in Worlds, NEW b \in DOMAIN w.bundle, NEW v, v = PrimaryRead(w, b)
  PROVE  /\ v \in Worlds /\ v.bundle = w.bundle /\ v.rifHandle = w.rifHandle /\ v.hw = w.hw
         /\ v.past = w.past /\ v.error = w.error /\ v.meets = w.meets /\ (w.crash => v.crash)
<1> DEFINE x == w.crash \/ (w.bundle[b].freed /\ ~w.meets.intact)
<1>1. x \in BOOLEAN
  BY IpParts DEF Worlds
<1>2. v = [w EXCEPT !.crash = x]
  BY DEF PrimaryRead
<1>3. w.crash => x
  OBVIOUS
<1> HIDE DEF x
<1> QED
  BY <1>1, <1>2, <1>3 DEF Worlds

LEMMA IpRemovedDoes ==
  ASSUME NEW w \in Worlds, NEW b \in DOMAIN w.bundle, AddressesOf(w, b),
         NEW v, v = IpRemoved(w, b)
  PROVE  /\ IpOnly(w, v, b) /\ AddressesOf(v, b) /\ v.error = w.error
         /\ v.bundle[b].ipv4_secondary = {}
         /\ v.bundle[b].freed \/ v.bundle[b].ipv4_primary = None
<1> DEFINE w1 == PrimaryRead(w, b)
           a == w.bundle[b].ipv4_primary
           S == w.bundle[b].ipv4_secondary
           O == w.hw.own \ ({a} \cup S)
<1>1. /\ w1 \in Worlds /\ w1.bundle = w.bundle /\ w1.rifHandle = w.rifHandle /\ w1.hw = w.hw
      /\ w1.past = w.past /\ w1.error = w.error /\ w1.meets = w.meets
      /\ w.crash => w1.crash
  BY PrimaryReadDoes
<1>2. w1.bundle[b] \in Records /\ w1.hw \in Hardware
  BY <1>1, WorldParts
<1>3. v = [w1 EXCEPT !.hw.own = O, !.bundle[b].freed = a # None, !.bundle[b].ipv4_secondary = {}]
  BY <1>1 DEF IpRemoved
<1> HIDE DEF w1
<1>4. v = IpPut(w1, b, a, a # None, {}, O, w.past.doubled)
  <2> DEFINE B == [w1.bundle[b] EXCEPT !.freed = a # None, !.ipv4_secondary = {}]
  <2>1. [w1.bundle EXCEPT ![b].freed = a # None, ![b].ipv4_secondary = {}]
          = [w1.bundle EXCEPT ![b] = B]
    BY <1>1, <1>2, WorldParts DEF Records
  <2>2. B = [w1.bundle[b] EXCEPT !.ipv4_primary = a, !.freed = a # None, !.ipv4_secondary = {}]
    BY <1>1, <1>2 DEF Records
  <2>3. [w1.past EXCEPT !.doubled = w.past.doubled] = w1.past
    BY <1>1, WorldParts DEF History
  <2>4. v = [w1 EXCEPT !.hw = [w1.hw EXCEPT !.own = O],
               !.bundle = [w1.bundle EXCEPT ![b].freed = a # None, ![b].ipv4_secondary = {}]]
    BY <1>3, <1>1 DEF Worlds
  <2> HIDE DEF B, O
  <2>5. v = Put(w1, b, B, w1.rifHandle, [w1.hw EXCEPT !.own = O], w1.past, w1.error, w1.crash)
    BY <2>1, <2>4, <1>1 DEF Put, Worlds
  <2> QED
    BY <1>1, <2>2, <2>3, <2>5 DEF IpPut
<1>5. b \in DOMAIN w1.bundle /\ O \in SUBSET Addresses /\ (a # None) \in BOOLEAN
  BY <1>1, IpParts
<1> HIDE DEF O
<1> DEFINE f == a # None
<1>6. IsIpPut(w1, v, b, a, f, {}, O, w.past.doubled)
  <2>1. a \in Addresses \cup {None}
    BY IpParts
  <2>2. f \in BOOLEAN
    OBVIOUS
  <2> DEFINE E == {}
             D == w.past.doubled
  <2>3. b \in DOMAIN w1.bundle /\ w1 \in Worlds
    BY <1>1
  <2>4. E \in SUBSET Addresses /\ D \in SUBSET Addresses
    BY <1>1, IpParts, WorldParts
  <2>5. v = IpPut(w1, b, a, f, E, O, D)
    BY <1>4
  <2> HIDE DEF a, f, E, D
  <2>6. IsIpPut(w1, v, b, a, f, E, O, D)
    BY <1>5, <2>1, <2>2, <2>3, <2>4, <2>5, IpPutIs
  <2> QED
    BY <2>6 DEF E, D
<1>7. IpOnly(w, v, b)
  <2>1. \A z : z \notin OwnOf(b) => (z \in O <=> z \in w.hw.own)
    BY IpParts DEF O, AddressesOf
  <2>2. Only(w, v, b)
    BY <1>1, <1>6 DEF IsIpPut, Only
  <2> QED
    BY <1>1, <1>6, <2>1, <2>2 DEF IsIpPut, IpOnly
<1>8. AddressesOf(v, b)
  BY <1>1, <1>6, IpParts DEF IsIpPut, Only, O, AddressesOf, Recorded
<1>9. v.bundle[b].ipv4_secondary = {} /\ v.bundle[b].freed = f /\ v.error = w1.error
      /\ v.bundle[b].ipv4_primary = a
  BY <1>6 DEF IsIpPut
<1>10. v.bundle[b].freed \/ a = None
  <2>1. CASE a = None
    BY <2>1
  <2>2. CASE f
    BY <1>9, <2>2
  <2> QED
    BY <2>1, <2>2
<1> QED
  BY <1>1, <1>7, <1>8, <1>9, <1>10

\* World w with addresses O in SAI, and D in the history.
Owning(w, O, D) ==
  [w EXCEPT !.hw = [w.hw EXCEPT !.own = O], !.past = [w.past EXCEPT !.doubled = D]]

LEMMA AddressesAddedIs ==
  ASSUME NEW w \in Worlds, NEW A \in SUBSET Addresses, NEW O, NEW D,
         O = w.hw.own \cup A, D = w.past.doubled \cup (A \cap w.hw.own)
  PROVE  AddressesAdded(w, A) = Owning(w, O, D)
BY DEF AddressesAdded, Worlds, Owning

LEMMA PrimaryChangedDoes ==
  ASSUME NEW w \in Worlds, NEW b \in DOMAIN w.bundle, AddressesOf(w, b),
         NEW a \in OwnOf(b) \cup {None}, a \in Addresses \cup {None},
         NEW v, v = PrimaryChanged(w, b, a)
  PROVE  IpOnly(w, v, b) /\ AddressesOf(v, b) /\ v.error = w.error
<1> DEFINE w0  == PrimaryRead(w, b)
           old == w.bundle[b].ipv4_primary
           S   == w.bundle[b].ipv4_secondary
           O1  == w.hw.own \ (IF old = a THEN {} ELSE {old})
           w1  == IF old = a THEN w0 ELSE [w0 EXCEPT !.hw.own = @ \ {old}]
           A   == {a} \ {None}
           O   == O1 \cup A
           D   == w.past.doubled \cup (A \cap O1)
<1>1. /\ w0 \in Worlds /\ w0.bundle = w.bundle /\ w0.rifHandle = w.rifHandle /\ w0.hw = w.hw
      /\ w0.past = w.past /\ w0.error = w.error /\ w0.meets = w.meets
      /\ w.crash => w0.crash
  BY PrimaryReadDoes
<1>2. w0.bundle[b] \in Records /\ w0.hw \in Hardware /\ w0.past \in History
  BY <1>1, WorldParts
<1>3. v = [AddressesAdded(w1, A) EXCEPT !.bundle[b].ipv4_primary = a, !.bundle[b].freed = FALSE]
  BY DEF PrimaryChanged
<1> HIDE DEF w0
<1>4. w1 = [w0 EXCEPT !.hw = [w0.hw EXCEPT !.own = O1]] /\ w1 \in Worlds
  <2>1. w1 = [w0 EXCEPT !.hw = [w0.hw EXCEPT !.own = O1]]
    <3>1. CASE old = a
      <4>1. O1 = w0.hw.own /\ w1 = w0
        BY <1>1, <3>1
      <4>2. [w0.hw EXCEPT !.own = O1] = w0.hw
        <5> HIDE DEF O1
        <5> QED
          BY <1>2, <4>1 DEF Hardware
      <4> HIDE DEF O1, w1
      <4> QED
        BY <1>1, <4>1, <4>2 DEF Worlds
    <3>2. CASE old # a
      <4>1. O1 = w0.hw.own \ {old} /\ w1 = [w0 EXCEPT !.hw.own = @ \ {old}]
        BY <1>1, <3>2
      <4> HIDE DEF O1, w1
      <4> QED
        BY <4>1 DEF Worlds
    <3> QED
      BY <3>1, <3>2
  <2>2. [w0.hw EXCEPT !.own = O1] \in Hardware
    BY <1>1, <1>2 DEF Hardware
  <2> QED
    BY <2>1, <2>2, <1>1 DEF Worlds
<1>5. A \in SUBSET Addresses /\ O \in SUBSET Addresses /\ D \in SUBSET Addresses
  BY IpParts
<1>6. AddressesAdded(w1, A) = [w0 EXCEPT !.hw = [w0.hw EXCEPT !.own = O],
                                         !.past = [w0.past EXCEPT !.doubled = D]]
  <2>1. w1.hw.own = O1 /\ w1.past = w0.past /\ w1.hw = [w0.hw EXCEPT !.own = O1]
    BY <1>1, <1>2, <1>4 DEF Worlds, Hardware
  <2>2. AddressesAdded(w1, A)
          = [w1 EXCEPT !.hw = [w1.hw EXCEPT !.own = O], !.past = [w0.past EXCEPT !.doubled = D]]
    <3>1. O = w1.hw.own \cup A /\ D = w1.past.doubled \cup (A \cap w1.hw.own)
      BY <1>1, <2>1
    <3>2. w1.past = w0.past
      BY <2>1
    <3> HIDE DEF O, D, A, w1
    <3>4. w1 \in Worlds /\ A \in SUBSET Addresses
      BY <1>4, <1>5
    <3>3. AddressesAdded(w1, A) = Owning(w1, O, D)
      BY <3>1, <3>4, AddressesAddedIs
    <3> QED
      BY <3>2, <3>3 DEF Owning
  <2>3. [w1.hw EXCEPT !.own = O] = [w0.hw EXCEPT !.own = O]
    BY <2>1, <1>2 DEF Hardware
  <2> HIDE DEF O, D, O1, w1
  <2> QED
    BY <2>2, <2>3, <1>1, <1>4 DEF Worlds
<1>7. v = IpPut(w0, b, a, FALSE, S, O, D)
  <2> DEFINE B == [w0.bundle[b] EXCEPT !.ipv4_primary = a, !.freed = FALSE]
  <2>1. [w0.bundle EXCEPT ![b].ipv4_primary = a, ![b].freed = FALSE] = [w0.bundle EXCEPT ![b] = B]
    BY <1>1, <1>2, WorldParts DEF Records
  <2>2. B = [w0.bundle[b] EXCEPT !.ipv4_primary = a, !.freed = FALSE, !.ipv4_secondary = S]
    BY <1>1, <1>2 DEF Records
  <2> HIDE DEF O, D, B, O1, w1, A
  <2>3. v = [w0 EXCEPT !.hw = [w0.hw EXCEPT !.own = O], !.past = [w0.past EXCEPT !.doubled = D],
               !.bundle = [w0.bundle EXCEPT ![b].ipv4_primary = a, ![b].freed = FALSE]]
    <3> DEFINE k == [w0.hw EXCEPT !.own = O]
               q == [w0.past EXCEPT !.doubled = D]
               u == AddressesAdded(w1, A)
    <3>1. u = [w0 EXCEPT !.hw = k, !.past = q]
          /\ v = [u EXCEPT !.bundle[b].ipv4_primary = a, !.bundle[b].freed = FALSE]
      BY <1>3, <1>6
    <3> HIDE DEF k, q, u
    <3> QED
      BY <3>1, <1>1 DEF Worlds, k, q
  <2> QED
    BY <1>1, <2>1, <2>2, <2>3 DEF IpPut, Put, Worlds
<1>8. IsIpPut(w0, v, b, a, FALSE, S, O, D)
  <2>1. S \in SUBSET Addresses /\ w0 \in Worlds /\ b \in DOMAIN w0.bundle
    BY <1>1, IpParts
  <2> DEFINE f == FALSE
  <2>2. f \in BOOLEAN /\ v = IpPut(w0, b, a, f, S, O, D)
    BY <1>7
  <2> HIDE DEF S, O, D, f
  <2>3. IsIpPut(w0, v, b, a, f, S, O, D)
    BY <1>5, <2>1, <2>2, IpPutIs
  <2> QED
    BY <2>3 DEF f
<1>9. IpOnly(w, v, b)
  <2>1. \A z : z \notin OwnOf(b) => /\ z \in O <=> z \in w.hw.own
                                    /\ z \in D <=> z \in w.past.doubled
    BY IpParts DEF AddressesOf
  <2>2. w.past.doubled \subseteq D
    OBVIOUS
  <2> HIDE DEF O, D
  <2> QED
    BY <1>1, <1>8, <2>1, <2>2 DEF IsIpPut, IpOnly, Only
<1>10. AddressesOf(v, b)
  BY <1>1, <1>8, IpParts DEF IsIpPut, Only, AddressesOf, Recorded
<1> QED
  BY <1>1, <1>8, <1>9, <1>10 DEF IsIpPut

LEMMA SecondaryChangedDoes ==
  ASSUME NEW w \in Worlds, NEW b \in DOMAIN w.bundle, AddressesOf(w, b),
         NEW A \in SUBSET OwnOf(b), A \in SUBSET Addresses,
         NEW v, v = SecondaryChanged(w, b, A)
  PROVE  IpOnly(w, v, b) /\ AddressesOf(v, b) /\ v.error = w.error
<1> DEFINE a   == w.bundle[b].ipv4_primary
           f   == w.bundle[b].freed
           old == w.bundle[b].ipv4_secondary
           O1  == w.hw.own \ (old \ A)
           D1  == w.past.doubled \cup ({a} \cap (A \ old))
           w1  == [w EXCEPT !.hw.own = @ \ (old \ A), !.past.doubled = @ \cup ({a} \cap (A \ old))]
           A1  == A \ old
           O   == O1 \cup A1
           D   == D1 \cup (A1 \cap O1)
<1>1. w.bundle[b] \in Records /\ w.hw \in Hardware /\ w.past \in History
  BY WorldParts
<1>2. v = [AddressesAdded(w1, A1) EXCEPT !.bundle[b].ipv4_secondary = A]
  BY DEF SecondaryChanged
<1>3. /\ O1 \in SUBSET Addresses /\ D1 \in SUBSET Addresses /\ A1 \in SUBSET Addresses
      /\ O \in SUBSET Addresses /\ D \in SUBSET Addresses
  BY IpParts
<1>4. w1 = [w EXCEPT !.hw = [w.hw EXCEPT !.own = O1], !.past = [w.past EXCEPT !.doubled = D1]]
  BY DEF Worlds
<1> HIDE DEF O1, D1, A1, O, D, w1
<1>5. w1 \in Worlds
  <2>1. [w.hw EXCEPT !.own = O1] \in Hardware /\ [w.past EXCEPT !.doubled = D1] \in History
    BY <1>1, <1>3 DEF Hardware, History
  <2> QED
    BY <1>4, <2>1 DEF Worlds
<1>6. AddressesAdded(w1, A1) = [w EXCEPT !.hw = [w.hw EXCEPT !.own = O],
                                         !.past = [w.past EXCEPT !.doubled = D]]
  <2>1. /\ w1.hw = [w.hw EXCEPT !.own = O1] /\ w1.past = [w.past EXCEPT !.doubled = D1]
        /\ w1.hw.own = O1 /\ w1.past.doubled = D1
    BY <1>1, <1>4 DEF Worlds, Hardware, History
  <2>2. AddressesAdded(w1, A1)
          = [w1 EXCEPT !.hw = [w1.hw EXCEPT !.own = O], !.past = [w1.past EXCEPT !.doubled = D]]
    <3>1. O = w1.hw.own \cup A1 /\ D = w1.past.doubled \cup (A1 \cap w1.hw.own)
      BY <2>1 DEF O, D
    <3>2. AddressesAdded(w1, A1) = Owning(w1, O, D)
      BY <1>3, <1>5, <3>1, AddressesAddedIs
    <3> QED
      BY <3>2 DEF Owning
  <2>3. /\ [w1.hw EXCEPT !.own = O] = [w.hw EXCEPT !.own = O]
        /\ [w1.past EXCEPT !.doubled = D] = [w.past EXCEPT !.doubled = D]
    BY <2>1, <1>1 DEF Hardware, History
  <2> QED
    BY <2>2, <2>3, <1>4 DEF Worlds
<1>7. v = IpPut(w, b, a, f, A, O, D)
  <2> DEFINE B == [w.bundle[b] EXCEPT !.ipv4_secondary = A]
  <2>1. [w.bundle EXCEPT ![b].ipv4_secondary = A] = [w.bundle EXCEPT ![b] = B]
    OBVIOUS
  <2>2. B = [w.bundle[b] EXCEPT !.ipv4_primary = a, !.freed = f, !.ipv4_secondary = A]
    BY <1>1 DEF Records
  <2> HIDE DEF B, a, f
  <2>3. v = [w EXCEPT !.hw = [w.hw EXCEPT !.own = O], !.past = [w.past EXCEPT !.doubled = D],
               !.bundle = [w.bundle EXCEPT ![b].ipv4_secondary = A]]
    BY <1>2, <1>6 DEF Worlds
  <2> QED
    BY <2>1, <2>2, <2>3 DEF IpPut, Put, Worlds
<1>8. IsIpPut(w, v, b, a, f, A, O, D)
  <2>1. a \in Addresses \cup {None} /\ f \in BOOLEAN
    BY IpParts
  <2> HIDE DEF a, f
  <2> QED
    BY <1>3, <1>7, <2>1, IpPutIs
<1>9. IpOnly(w, v, b)
  <2>1. \A z : z \notin OwnOf(b) => /\ z \in O <=> z \in w.hw.own
                                    /\ z \in D <=> z \in w.past.doubled
    BY IpParts DEF AddressesOf, O, O1, D, D1, A1
  <2>2. w.past.doubled \subseteq D
    BY DEF D, D1
  <2> QED
    BY <1>8, <2>1, <2>2 DEF IsIpPut, IpOnly, Only
<1>10. AddressesOf(v, b)
  BY <1>8, IpParts DEF IsIpPut, Only, AddressesOf, Recorded, O, O1, D, D1, A1
<1> QED
  BY <1>8, <1>9, <1>10 DEF IsIpPut

\* A LAG takes the address it has in the database.
LEMMA AddressTakenDoes ==
  ASSUME NEW w \in Worlds, NEW b \in DOMAIN w.bundle, AddressesOf(w, b),
         NEW a \in OwnOf(b), a \in Addresses, w.bundle[b].ipv4_primary = None,
         NEW v, v = [AddressesAdded(w, {a}) EXCEPT !.bundle[b].ipv4_primary = a]
  PROVE  IpOnly(w, v, b) /\ AddressesOf(v, b) /\ v.error = w.error
<1> DEFINE f == w.bundle[b].freed
           S == w.bundle[b].ipv4_secondary
           A == {a}
           O == w.hw.own \cup A
           D == w.past.doubled \cup (A \cap w.hw.own)
<1>1. w.bundle[b] \in Records /\ w.hw \in Hardware /\ w.past \in History
  BY WorldParts
<1>2. A \in SUBSET Addresses /\ O \in SUBSET Addresses /\ D \in SUBSET Addresses
  BY IpParts
<1>3. f = FALSE
  BY IpParts DEF AddressesOf
<1>4. v = [AddressesAdded(w, A) EXCEPT !.bundle[b].ipv4_primary = a]
  OBVIOUS
<1>5. O = w.hw.own \cup A /\ D = w.past.doubled \cup (A \cap w.hw.own)
  OBVIOUS
<1> HIDE DEF A, O, D, f, S
<1>6. AddressesAdded(w, A) = Owning(w, O, D)
  BY <1>2, <1>5, AddressesAddedIs
<1>7. v = IpPut(w, b, a, f, S, O, D)
  <2> DEFINE B == [w.bundle[b] EXCEPT !.ipv4_primary = a]
  <2>1. [w.bundle EXCEPT ![b].ipv4_primary = a] = [w.bundle EXCEPT ![b] = B]
    OBVIOUS
  <2>2. B = [w.bundle[b] EXCEPT !.ipv4_primary = a, !.freed = f, !.ipv4_secondary = S]
    BY <1>1 DEF Records, f, S
  <2> HIDE DEF B
  <2>3. v = [w EXCEPT !.hw = [w.hw EXCEPT !.own = O], !.past = [w.past EXCEPT !.doubled = D],
               !.bundle = [w.bundle EXCEPT ![b].ipv4_primary = a]]
    BY <1>4, <1>6 DEF Worlds, Owning
  <2> QED
    BY <2>1, <2>2, <2>3 DEF IpPut, Put, Worlds
<1>8. IsIpPut(w, v, b, a, f, S, O, D)
  <2>1. f \in BOOLEAN /\ S \in SUBSET Addresses
    BY IpParts DEF f, S
  <2> QED
    BY <1>2, <1>7, <2>1, IpPutIs
<1>9. IpOnly(w, v, b)
  <2>1. \A z : z \notin OwnOf(b) => /\ z \in O <=> z \in w.hw.own
                                    /\ z \in D <=> z \in w.past.doubled
    BY DEF O, D, A
  <2>2. w.past.doubled \subseteq D
    BY DEF D
  <2> QED
    BY <1>8, <2>1, <2>2 DEF IsIpPut, IpOnly, Only
<1>10. AddressesOf(v, b)
  <2>1. /\ DOMAIN v.bundle = DOMAIN w.bundle /\ v.hw.own = O /\ v.past.doubled = D
        /\ v.bundle[b].ipv4_primary = a /\ v.bundle[b].freed = FALSE
        /\ v.bundle[b].ipv4_secondary = S
    BY <1>3, <1>8 DEF IsIpPut, Only
  <2>2. \A z : z \notin D => (z \in O <=> z \in w.hw.own \/ z = a) /\ z \notin w.past.doubled
                             /\ (z = a => z \notin w.hw.own)
    BY DEF O, D, A
  <2>3. S \subseteq OwnOf(b) /\ None \notin OwnOf(b)
    BY IpParts DEF S, AddressesOf
  <2>4. \A z \in OwnOf(b) \ w.past.doubled : z \in w.hw.own <=> z \in S
    BY <2>3 DEF S, AddressesOf, Recorded
  <2> QED
    BY <2>1, <2>2, <2>3, <2>4 DEF AddressesOf, Recorded
<1> QED
  BY <1>8, <1>9, <1>10 DEF IsIpPut

\* The addresses that settings give are those of the bundle.
LEMMA SettingsAddresses ==
  ASSUME NEW b \in Bundles, NEW s \in Configs[b]
  PROVE  /\ s \in Settings
         /\ s.ip4 \in OwnOf(b) \cup {None} /\ s.ip4 \in Addresses \cup {None}
         /\ s.db # None => s.db \in OwnOf(b) /\ s.db \in Addresses
         /\ s.secondary \in SUBSET OwnOf(b) /\ s.secondary \in SUBSET Addresses
<1>1. s \in Settings
  BY ConfigsAssumption
<1>2. /\ s.ip4 \in Addresses \cup {None} /\ s.db \in Addresses \cup {None}
      /\ s.secondary \in SUBSET Addresses
  BY <1>1 DEF Settings
<1> QED
  BY <1>1, <1>2, NoneAssumption DEF OwnOf

LEMMA IpReconfiguredDoes ==
  ASSUME NEW w \in Worlds, NEW b \in DOMAIN w.bundle, AddressesOf(w, b),
         NEW s \in Configs[b], NEW changed, NEW v, v = IpReconfigured(w, b, s, changed)
  PROVE  IpOnly(w, v, b) /\ AddressesOf(v, b)
<1> DEFINE taken == b \in Lags /\ w.bundle[b].ipv4_primary = None /\ s.ip4 = None /\ s.db # None
           w1 == IF taken THEN [AddressesAdded(w, {s.db}) EXCEPT !.bundle[b].ipv4_primary = s.db]
                 ELSE w
           w2 == IF "ip4" \in changed THEN PrimaryChanged(w1, b, s.ip4) ELSE w1
           w3 == SecondaryChanged(w2, b, s.secondary)
<1>1. b \in Bundles
  BY IpParts
<1>2. IpOnly(w, w, b)
  BY DEF IpOnly, Only, SameButIp
<1>3. IpOnly(w, w1, b) /\ AddressesOf(w1, b)
  <2>1. CASE taken
    BY <1>1, <2>1, AddressTakenDoes, SettingsAddresses
  <2>2. CASE ~taken
    BY <1>2, <2>2
  <2> QED
    BY <2>1, <2>2
<1> HIDE DEF taken, w1
<1>4. IpOnly(w, w2, b) /\ AddressesOf(w2, b)
  <2>1. w1 \in Worlds /\ b \in DOMAIN w1.bundle
    BY <1>3 DEF IpOnly, Only
  <2>2. CASE "ip4" \in changed
    <3>1. w2 = PrimaryChanged(w1, b, s.ip4)
      BY <2>2
    <3> HIDE DEF w2
    <3> DEFINE a == s.ip4
    <3>2. a \in OwnOf(b) \cup {None} /\ a \in Addresses \cup {None} /\ w2 = PrimaryChanged(w1, b, a)
      BY <1>1, <3>1, SettingsAddresses
    <3> HIDE DEF a
    <3> QED
      BY <1>3, <2>1, <3>2, PrimaryChangedDoes, IpOnlyOn
  <2>3. CASE "ip4" \notin changed
    BY <1>3, <2>3
  <2> QED
    BY <2>2, <2>3
<1>5. v = [w2 EXCEPT !.error = TRUE] \/ v = w3 \/ v = w2
  BY DEF IpReconfigured, w1, taken
<1> HIDE DEF w2
<1>6. w2 \in Worlds /\ b \in DOMAIN w2.bundle
  BY <1>4 DEF IpOnly, Only
<1>7. CASE v = [w2 EXCEPT !.error = TRUE]
  <2>1. v \in Worlds /\ v.bundle = w2.bundle /\ v.rifHandle = w2.rifHandle /\ v.hw = w2.hw
        /\ v.past = w2.past /\ v.meets = w2.meets /\ v.crash = w2.crash
    BY <1>6, <1>7 DEF Worlds
  <2> QED
    BY <1>4, <2>1 DEF IpOnly, Only, SameButIp, AddressesOf
<1>8. CASE v = w3
  <2> DEFINE A == s.secondary
  <2>1. A \in SUBSET OwnOf(b) /\ A \in SUBSET Addresses /\ v = SecondaryChanged(w2, b, A)
    BY <1>1, <1>8, SettingsAddresses
  <2> HIDE DEF A
  <2> QED
    BY <1>4, <1>6, <2>1, SecondaryChangedDoes, IpOnlyOn
<1> QED
  BY <1>4, <1>5, <1>7, <1>8

\* Other addresses of bundle b are no matter to the rest.
LEMMA IpOnlyKeeps ==
  ASSUME NEW w \in Worlds, NEW v, NEW b \in DOMAIN w.bundle, NEW X, Fine(w, X), IpOnly(w, v, b),
         AddressesOf(v, b), ~w.bundle[b].cached
  PROVE  Fine(v, X) /\ Shrinks(w, v)
<1>1. /\ v \in Worlds /\ DOMAIN v.bundle = DOMAIN w.bundle /\ DOMAIN w.bundle \subseteq Bundles
      /\ \A c \in DOMAIN w.bundle : SameButIp(w.bundle[c], v.bundle[c])
      /\ \A c \in DOMAIN w.bundle : c # b => v.bundle[c] = w.bundle[c]
  BY WorldParts DEF IpOnly, Only, SameButIp
<1>2. LinkedOnce(v) /\ \A c \in DOMAIN w.bundle : LinksItself(w, c) => LinksItself(v, c)
  BY <1>1 DEF Fine, Base, LinkedOnce, LinksItself, SameButIp
<1>3. OwnIsOwned(v)
  BY <1>1 DEF Fine, Base, IpOnly, OwnIsOwned
<1>4. \A c \in DOMAIN v.bundle : Idle(v.bundle[c])
  BY <1>1 DEF Fine, Base, Idle, SameButIp
<1>5. \A c \in Bundles : AddressesOf(v, c)
  <2> SUFFICES ASSUME NEW c \in Bundles, c # b PROVE AddressesOf(v, c)
    OBVIOUS
  <2>1. OwnOf(b) \cap OwnOf(c) = {}
    BY <1>1, ConfigsAssumption
  <2>2. AddressesOf(w, c)
    BY DEF Fine, Base
  <2>3. \A a \in OwnOf(c) : /\ a \in v.hw.own <=> a \in w.hw.own
                            /\ a \in v.past.doubled <=> a \in w.past.doubled
    BY <2>1 DEF IpOnly
  <2> QED
    BY <1>1, <2>2, <2>3 DEF AddressesOf, Recorded
<1>6. ASSUME Sound(w) PROVE Sound(v)
  <2>1. RifsRight(v)
    BY <1>1, <1>6 DEF Sound, RifsRight, RifOf, SameButIp, IpOnly
  <2>2. RoutesRight(v)
    BY <1>1, <1>6 DEF Sound, RoutesRight, SameButIp, IpOnly
  <2>3. HostsRight(v)
    BY <1>1, <1>6 DEF Sound, HostsRight, Sent, SameButIp, IpOnly
  <2> QED
    BY <2>1, <2>2, <2>3 DEF Sound
<1>7. \A c \in DOMAIN w.bundle : HandlesOf(w, c) => HandlesOf(v, c)
  BY <1>1 DEF HandlesOf, SameButIp, IpOnly
<1>8. v.past.failed = w.past.failed /\ v.hw.rifs = w.hw.rifs /\ (w.crash => v.crash)
  BY DEF IpOnly
<1> QED
  BY <1>1, <1>2, <1>3, <1>4, <1>5, <1>6, <1>7, <1>8 DEF Fine, Base, Shrinks, Keeps, SameButIp

-----------------------------------------------------------------------------
(* Router interfaces come and go *)

SameIp(B, C) ==
  /\ C.ipv4_primary = B.ipv4_primary /\ C.freed = B.freed /\ C.ipv4_secondary = B.ipv4_secondary

LEMMA BaseKept ==
  ASSUME NEW w, NEW v, NEW b, Base(w), Only(w, v, b), SameIp(w.bundle[b], v.bundle[b]),
         v.hw.own = w.hw.own, v.past.doubled = w.past.doubled, Idle(v.bundle[b]), LinkedOnce(v)
  PROVE  Base(v)
<1>1. OwnIsOwned(v)
  BY DEF Base, OwnIsOwned
<1>2. \A c \in DOMAIN v.bundle : Idle(v.bundle[c])
  BY DEF Base, Only
<1>3. \A c \in Bundles : AddressesOf(v, c)
  BY DEF Base, Only, AddressesOf, Recorded, SameIp
<1> QED
  BY <1>1, <1>2, <1>3 DEF Base, Only

LEMMA SameLinks ==
  ASSUME NEW w, NEW v, NEW b, LinkedOnce(w), Only(w, v, b),
         v.bundle[b].linked \subseteq w.bundle[b].linked
  PROVE  LinkedOnce(v)
BY DEF LinkedOnce, Only

LEMMA UnroutedIs ==
  ASSUME NEW w \in Worlds, NEW b \in DOMAIN w.bundle, NEW B,
         B \in {Unrouted(w, b), [Unrouted(w, b) EXCEPT !.rif = NoRif]}
  PROVE  /\ B.cached = w.bundle[b].cached /\ B.conf = w.bundle[b].conf
         /\ B.linked = w.bundle[b].linked /\ B.lag = w.bundle[b].lag
         /\ SameIp(w.bundle[b], B) /\ B.local_routes = {}
         /\ B.neighbors = Without(w.bundle[b].neighbors, Goners(w, b))
         /\ B.rif \in {w.bundle[b].rif, NoRif}
<1>1. w.bundle[b] \in Records
  BY WorldParts
<1> QED
  BY <1>1 DEF Records, Unrouted, SameIp

\* What SAI keeps of neighbours.
LEMMA HostsLeftAre ==
  ASSUME NEW w, NEW b, NEW n, NEW r
  PROVE  <<n, r>> \in HostsLeft(w, b) <=>
           <<n, r>> \in w.hw.hosts /\ ~(n \in Goners(w, b) /\ r = w.bundle[b].rif.id)
BY DEF HostsLeft

\* While all is sound, all neighbours that were sent go.
LEMMA AllGo ==
  ASSUME NEW w, NEW b \in DOMAIN w.bundle, HostsRight(w)
  PROVE  Goners(w, b) = Sent(w.bundle[b])
         /\ \A n \in Sent(w.bundle[b]) : <<n, w.bundle[b].rif.id>> \in w.hw.hosts
<1> DEFINE sent == Sent(w.bundle[b])
           inHw == {n \in sent : <<n, w.bundle[b].rif.id>> \in w.hw.hosts}
<1>1. \A n \in sent : <<n, w.bundle[b].rif.id>> \in w.hw.hosts
  BY DEF HostsRight
<1>2. inHw = sent
  BY <1>1
<1>3. Goners(w, b) = IF inHw = sent THEN sent ELSE inHw \cap w.meets.walked
  BY DEF Goners
<1> QED
  BY <1>1, <1>2, <1>3

LEMMA NoneSent ==
  ASSUME NEW w \in Worlds, NEW b \in DOMAIN w.bundle, HostsRight(w), NEW B,
         B.neighbors = Without(w.bundle[b].neighbors, Goners(w, b))
  PROVE  Sent(B) = {}
<1> DEFINE N == w.bundle[b].neighbors
           M == {"mac", "empty"}
           F == B.neighbors
<1>1. N \in Partial(Hosts, M) /\ F = Without(N, Goners(w, b))
  BY WorldParts DEF Records
<1>2. /\ DOMAIN B.neighbors = DOMAIN N \ Goners(w, b)
      /\ \A z \in DOMAIN N \ Goners(w, b) : B.neighbors[z] = N[z]
  <2> HIDE DEF N, M, F
  <2>1. IsWithout(N, Goners(w, b), F, Hosts, M)
    BY <1>1, WithoutIs
  <2> QED
    BY <2>1 DEF F, IsWithout
<1> QED
  BY <1>2, AllGo DEF Sent

\* No local route and no neighbour is left to keep a router interface.
LEMMA NotInUse ==
  ASSUME NEW w \in Worlds, NEW b \in DOMAIN w.bundle, Sound(w), w.bundle[b].rif.made,
         NEW k, NEW r, r = w.bundle[b].rif.id, k.hosts = HostsLeft(w, b),
         k.routes = RoutesRemoved(w.hw, w.bundle[b].local_routes).routes
  PROVE  ~InUse(k, r) /\ r \in w.hw.rifs
<1> DEFINE X == w.bundle[b].local_routes
           h == RoutesRemoved(w.hw, X)
<1>1. w.hw \in Hardware
  BY WorldParts
<1>2. /\ \A x : x \in DOMAIN h.routes <=>
                  x \in DOMAIN w.hw.routes /\ ~(x \in X /\ w.hw.routes[x].refer = 1)
      /\ \A x \in DOMAIN h.routes \ X : h.routes[x] = w.hw.routes[x]
  BY <1>1, RoutesRemovedIs
<1> HIDE DEF h
<1>3. r \in w.hw.rifs /\ r \in RifIds
  BY <1>1, HardwareParts DEF Sound, RifsRight, RifOf
<1>4. \A x \in DOMAIN h.routes : h.routes[x].rif # r
  <2> SUFFICES ASSUME NEW x \in DOMAIN h.routes, h.routes[x].rif = r PROVE FALSE
    OBVIOUS
  <2>1. x \in DOMAIN w.hw.routes
    BY <1>2
  <2>2. PICK c \in DOMAIN w.bundle : x \in w.bundle[c].local_routes
    BY <2>1 DEF Sound, RoutesRight
  <2>3. w.bundle[c].rif.made /\ w.hw.routes[x].refer = 1 /\ w.hw.routes[x].rif = w.bundle[c].rif.id
    BY <2>2 DEF Sound, RoutesRight
  <2>4. x \notin X
    BY <1>2, <2>3
  <2>5. w.bundle[c].rif.id = r
    BY <1>2, <2>3, <2>4
  <2>6. c = b
    BY <2>3, <2>5 DEF Sound, RifsRight
  <2> QED
    BY <2>2, <2>4, <2>6
<1>5. \A n \in Hosts : <<n, r>> \notin k.hosts
  <2> SUFFICES ASSUME NEW n \in Hosts, <<n, r>> \in k.hosts PROVE FALSE
    OBVIOUS
  <2>1. <<n, r>> \in w.hw.hosts /\ n \notin Goners(w, b)
    BY HostsLeftAre
  <2>2. PICK c \in DOMAIN w.bundle : n \in Sent(w.bundle[c]) /\ w.bundle[c].rif.id = r
    BY <1>3, <2>1 DEF Sound, HostsRight
  <2>3. w.bundle[c].rif.made
    BY <2>2 DEF Sound, HostsRight
  <2>4. c = b
    BY <2>2, <2>3 DEF Sound, RifsRight
  <2> QED
    BY <2>1, <2>2, <2>4, AllGo DEF Sound
<1>6. k.routes = h.routes
  BY DEF h
<1> QED
  BY <1>3, <1>4, <1>5, <1>6 DEF InUse

\* While all is sound, the router interface goes with all that hangs on it.
LEMMA RifRemovedIs ==
  ASSUME NEW w \in Worlds, NEW b \in DOMAIN w.bundle, Sound(w), NEW v, v = RifRemoved(w, b)
  PROVE  /\ Only(w, v, b) /\ v.bundle[b].rif = NoRif /\ ~v.error
         /\ v.hw.routes = RoutesRemoved(w.hw, w.bundle[b].local_routes).routes
         /\ v.hw.hosts = HostsLeft(w, b) /\ v.hw.rifs = w.hw.rifs \ {w.bundle[b].rif.id}
         /\ \A p \in Netdevs :
              v.rifHandle[p] = IF p \in w.bundle[b].linked /\ w.bundle[b].rif.made THEN None
                               ELSE w.rifHandle[p]
<1> DEFINE w1 == RoutesAndHostsRemoved(w, b)
           w2 == Told(w1, b, None)
           r  == w.bundle[b].rif.id
           B1 == Unrouted(w, b)
<1>1. w.bundle[b] \in Records /\ w.hw \in Hardware
  BY WorldParts
<1>2. /\ Only(w, w1, b) /\ w1.bundle[b] = B1 /\ w1.rifHandle = w.rifHandle
      /\ w1.hw.routes = RoutesRemoved(w.hw, w.bundle[b].local_routes).routes
      /\ w1.hw.hosts = HostsLeft(w, b) /\ w1.hw.rifs = w.hw.rifs
  BY RoutesAndHostsDoes
<1> HIDE DEF w1
<1>3. ~w1.error
  <2>1. w1.error <=> \E n \in Sent(w.bundle[b]) : <<n, w.bundle[b].rif.id>> \notin w.hw.hosts
    BY RoutesAndHostsDoes DEF w1
  <2> QED
    BY <2>1, AllGo DEF Sound
<1>4. B1.linked = w.bundle[b].linked /\ B1.rif = w.bundle[b].rif
  BY <1>1 DEF Records, Unrouted
<1>5. CASE ~w.bundle[b].rif.made
  <2>1. w.bundle[b].rif = NoRif
    BY <1>5 DEF Sound, RifsRight, RifOf
  <2>2. r \notin w.hw.rifs
    BY <2>1, <1>1, HardwareParts, NoneAssumption DEF NoRif
  <2>3. v = w1
    BY <1>5, <1>3 DEF RifRemoved, w1
  <2> HIDE DEF B1
  <2> QED
    BY <1>2, <1>3, <1>4, <1>5, <2>1, <2>2, <2>3
<1>6. CASE w.bundle[b].rif.made
  <2> HIDE DEF B1
  <2>1. w1 \in Worlds /\ b \in DOMAIN w1.bundle
    BY <1>2 DEF Only
  <2>2. /\ Only(w1, w2, b) /\ w2.bundle[b] = B1 /\ w2.hw = w1.hw /\ w2.error = w1.error
        /\ \A p \in Netdevs :
             w2.rifHandle[p] = IF p \in w.bundle[b].linked THEN None ELSE w.rifHandle[p]
    BY <1>2, <1>4, <2>1, ToldDoes
  <2>3. ~InUse(w2.hw, r) /\ r \in w2.hw.rifs
    BY <1>2, <1>6, <2>2, NotInUse
  <2>4. v = [w2 EXCEPT !.hw.rifs = @ \ {r}, !.bundle[b].rif = NoRif]
    BY <1>3, <1>6, <2>3 DEF RifRemoved, w1
  <2> HIDE DEF w2
  <2> DEFINE B == [B1 EXCEPT !.rif = NoRif]
             k == [w2.hw EXCEPT !.rifs = @ \ {r}]
  <2>5. w2 \in Worlds /\ b \in DOMAIN w2.bundle /\ w2.bundle[b] \in Records
    BY <2>2, WorldParts DEF Only
  <2>6. B \in Records /\ B.rif = NoRif
    BY <2>2, <2>5 DEF Records, Rifs, NoRif
  <2>7. /\ k \in Hardware /\ k.routes = w2.hw.routes /\ k.hosts = w2.hw.hosts
        /\ k.rifs = w2.hw.rifs \ {r}
    BY <2>5, WorldParts DEF Hardware
  <2>8. v = Put(w2, b, B, w2.rifHandle, k, w2.past, w2.error, w2.crash)
    BY <2>2, <2>4, <2>5, WorldParts DEF Put, Worlds
  <2> HIDE DEF B, k
  <2>9. IsPut(w2, v, b, B, w2.rifHandle, k, w2.past, w2.error, w2.crash)
    BY <2>5, <2>6, <2>7, <2>8, WorldParts, PutIs
  <2>10. Only(w, v, b)
    BY <1>2, <2>2, <2>9 DEF Only, IsPut
  <2> QED
    BY <1>2, <1>3, <1>6, <2>2, <2>6, <2>7, <2>9, <2>10 DEF IsPut
<1> QED
  BY <1>5, <1>6

LEMMA RifRemovedSound ==
  ASSUME NEW w \in Worlds, NEW b \in DOMAIN w.bundle, Sound(w), NEW v, v = RifRemoved(w, b)
  PROVE  /\ Sound(v) /\ Sent(v.bundle[b]) = {} /\ v.bundle[b].local_routes = {}
         /\ v.bundle[b].rif = NoRif
<1> DEFINE X == w.bundle[b].local_routes
           r == w.bundle[b].rif.id
           h == RoutesRemoved(w.hw, X)
<1>1. /\ Only(w, v, b) /\ v.bundle[b].rif = NoRif /\ v.hw.routes = h.routes
      /\ v.hw.hosts = HostsLeft(w, b) /\ v.hw.rifs = w.hw.rifs \ {r}
  BY RifRemovedIs
<1>2. /\ \A x : x \in DOMAIN h.routes <=>
                  x \in DOMAIN w.hw.routes /\ ~(x \in X /\ w.hw.routes[x].refer = 1)
      /\ \A x \in DOMAIN h.routes \ X : h.routes[x] = w.hw.routes[x]
  BY WorldParts, RoutesRemovedIs
<1> HIDE DEF h
<1>3. /\ v.bundle[b].local_routes = {} /\ Sent(v.bundle[b]) = {}
      /\ v.bundle[b].cached = w.bundle[b].cached
  <2>1. v.bundle[b] \in {Unrouted(w, b), [Unrouted(w, b) EXCEPT !.rif = NoRif]}
    BY RifRemovedDoes
  <2>2. /\ v.bundle[b].local_routes = {} /\ v.bundle[b].cached = w.bundle[b].cached
        /\ v.bundle[b].neighbors = Without(w.bundle[b].neighbors, Goners(w, b))
    BY <2>1, UnroutedIs
  <2> QED
    BY <2>2, NoneSent DEF Sound
<1>4. ~v.bundle[b].rif.made
  BY <1>1 DEF NoRif
<1>5. /\ DOMAIN v.bundle = DOMAIN w.bundle
      /\ \A c \in DOMAIN w.bundle : c # b => v.bundle[c] = w.bundle[c]
  BY <1>1 DEF Only
<1>6. \A c \in DOMAIN w.bundle : w.bundle[c].rif.made /\ w.bundle[c].rif.id = r =>
        c = b \/ ~w.bundle[b].rif.made
  BY DEF Sound, RifsRight
<1>7. \A c \in DOMAIN w.bundle : w.bundle[c].rif.made => w.bundle[c].rif.id # None
  BY WorldParts, HardwareParts, NoneAssumption DEF Sound, RifsRight, RifOf
<1>8. ~w.bundle[b].rif.made => r = None
  BY DEF Sound, RifsRight, RifOf, NoRif
<1>9. \A c \in DOMAIN w.bundle : w.bundle[c].rif.made /\ c # b => w.bundle[c].rif.id # r
  BY <1>6, <1>7, <1>8
<1>10. RifsRight(v)
  <2>1. \A c \in DOMAIN v.bundle : RifOf(v, c)
    BY <1>1, <1>3, <1>4, <1>5, <1>9 DEF Sound, RifsRight, RifOf
  <2>2. \A c \in DOMAIN v.bundle : \A d \in DOMAIN v.bundle :
          v.bundle[c].rif.made /\ v.bundle[d].rif.made /\ v.bundle[c].rif.id = v.bundle[d].rif.id
            => c = d
    BY <1>4, <1>5 DEF Sound, RifsRight
  <2>3. \A z \in v.hw.rifs : \E c \in DOMAIN v.bundle :
          v.bundle[c].rif.made /\ v.bundle[c].rif.id = z
    BY <1>1, <1>5 DEF Sound, RifsRight
  <2> QED
    BY <2>1, <2>2, <2>3 DEF RifsRight
<1>11. RoutesRight(v)
  <2>1. ASSUME NEW c \in DOMAIN v.bundle, NEW x \in v.bundle[c].local_routes
        PROVE  /\ x \in DOMAIN v.hw.routes /\ v.bundle[c].rif.made
               /\ v.hw.routes[x].refer = 1 /\ v.hw.routes[x].rif = v.bundle[c].rif.id
    <3>1. c # b /\ x \in w.bundle[c].local_routes
      BY <1>3, <1>5, <2>1
    <3>2. /\ x \in DOMAIN w.hw.routes /\ w.bundle[c].rif.made
          /\ w.hw.routes[x].refer = 1 /\ w.hw.routes[x].rif = w.bundle[c].rif.id
      BY <1>5, <3>1 DEF Sound, RoutesRight
    <3>3. x \notin X
      BY <1>5, <1>9, <3>1, <3>2 DEF Sound, RoutesRight
    <3> QED
      BY <1>1, <1>2, <1>5, <3>1, <3>2, <3>3
  <2>2. ASSUME NEW x \in DOMAIN v.hw.routes
        PROVE  \E c \in DOMAIN v.bundle : x \in v.bundle[c].local_routes
    <3>1. x \in DOMAIN w.hw.routes /\ ~(x \in X /\ w.hw.routes[x].refer = 1)
      BY <1>1, <1>2
    <3>2. PICK c \in DOMAIN w.bundle : x \in w.bundle[c].local_routes
      BY <3>1 DEF Sound, RoutesRight
    <3>3. c # b
      BY <3>1, <3>2 DEF Sound, RoutesRight
    <3> QED
      BY <1>5, <3>2, <3>3
  <2> QED
    BY <2>1, <2>2 DEF RoutesRight
<1>12. HostsRight(v)
  <2>1. \A n : Goners(w, b) = Sent(w.bundle[b])
    BY AllGo DEF Sound
  <2>2. ASSUME NEW c \in DOMAIN v.bundle, NEW n \in Sent(v.bundle[c])
        PROVE  v.bundle[c].rif.made /\ <<n, v.bundle[c].rif.id>> \in v.hw.hosts
    <3>1. c # b /\ n \in Sent(w.bundle[c])
      BY <1>3, <1>5, <2>2
    <3>2. w.bundle[c].rif.made /\ <<n, w.bundle[c].rif.id>> \in w.hw.hosts
      BY <1>5, <3>1 DEF Sound, HostsRight
    <3>3. w.bundle[c].rif.id # r
      BY <1>5, <1>9, <3>1, <3>2
    <3> QED
      BY <1>1, <1>5, <3>1, <3>2, <3>3, HostsLeftAre
  <2>3. ASSUME NEW n \in Hosts, NEW z \in RifIds, <<n, z>> \in v.hw.hosts
        PROVE  \E c \in DOMAIN v.bundle : n \in Sent(v.bundle[c]) /\ v.bundle[c].rif.id = z
    <3>1. <<n, z>> \in w.hw.hosts /\ ~(n \in Goners(w, b) /\ z = r)
      BY <1>1, <2>3, HostsLeftAre
    <3>2. PICK c \in DOMAIN w.bundle : n \in Sent(w.bundle[c]) /\ w.bundle[c].rif.id = z
      BY <3>1 DEF Sound, HostsRight
    <3>3. c # b
      BY <2>1, <3>1, <3>2
    <3> QED
      BY <1>5, <3>2, <3>3
  <2> QED
    BY <2>2, <2>3 DEF HostsRight
<1> QED
  BY <1>1, <1>3, <1>10, <1>11, <1>12 DEF Sound

\* What a step leaves to a bundle that it may take layer 3 from.
LEMMA RifRemovedKeeps ==
  ASSUME NEW w, NEW b \in DOMAIN w.bundle, NEW X, Fine(w, X), NEW v, v = RifRemoved(w, b)
  PROVE  /\ Fine(v, X) /\ Calm(v) /\ Shrinks(w, v) /\ Only(w, v, b)
         /\ v.bundle[b].linked = w.bundle[b].linked /\ v.bundle[b].lag = w.bundle[b].lag
         /\ SameIp(w.bundle[b], v.bundle[b]) /\ v.bundle[b].local_routes = {}
         /\ v.hw.own = w.hw.own /\ v.past = w.past
         /\ ~w.past.failed => Sent(v.bundle[b]) = {} /\ v.bundle[b].rif = NoRif
         /\ \A p \in Netdevs \ w.bundle[b].linked : v.rifHandle[p] = w.rifHandle[p]
<1> DEFINE B == v.bundle[b]
<1>1. w \in Worlds
  BY DEF Fine, Base
<1>2. /\ Only(w, v, b) /\ v.past = w.past /\ v.hw.own = w.hw.own
      /\ v.crash = w.crash /\ v.hw.rifs \subseteq w.hw.rifs
      /\ B \in {Unrouted(w, b), [Unrouted(w, b) EXCEPT !.rif = NoRif]}
      /\ \A p \in Netdevs \ w.bundle[b].linked : v.rifHandle[p] = w.rifHandle[p]
  BY <1>1, RifRemovedDoes
<1> HIDE DEF B
<1>3. /\ B.cached = w.bundle[b].cached /\ B.conf = w.bundle[b].conf
      /\ B.linked = w.bundle[b].linked /\ B.lag = w.bundle[b].lag
      /\ SameIp(w.bundle[b], B) /\ B.local_routes = {}
  BY <1>1, <1>2, UnroutedIs
<1>4. Base(v)
  <2>1. LinkedOnce(v)
    BY <1>2, <1>3, SameLinks DEF B, Fine, Base
  <2>2. Idle(B)
    BY <1>3 DEF Fine, Base, Idle, SameIp
  <2> QED
    BY <1>2, <1>3, <2>1, <2>2, BaseKept DEF Fine, B
<1>5. \A c \in DOMAIN v.bundle \ X : LinksItself(v, c)
  BY <1>2, <1>3 DEF Fine, LinksItself, Only, B
<1>6. Shrinks(w, v)
  BY <1>2, <1>3 DEF Shrinks, Keeps, Only, B
<1>7. ASSUME ~w.past.failed
      PROVE  /\ Sound(v) /\ Sent(B) = {} /\ B.rif = NoRif /\ ~v.error
             /\ \A c \in DOMAIN v.bundle \ X : HandlesOf(v, c)
  <2>1. Sound(w) /\ \A c \in DOMAIN w.bundle \ X : HandlesOf(w, c)
    BY <1>7 DEF Fine
  <2>2. Sound(v) /\ Sent(B) = {} /\ B.rif = NoRif /\ ~v.error
    BY <1>1, <2>1, RifRemovedSound, RifRemovedIs DEF B
  <2>3. ~B.rif.made
    BY <2>2 DEF NoRif
  <2>4. \A p \in Netdevs :
          v.rifHandle[p] = IF p \in w.bundle[b].linked /\ w.bundle[b].rif.made THEN None
                           ELSE w.rifHandle[p]
    BY <1>1, <2>1, RifRemovedIs
  <2>5. ASSUME NEW c \in DOMAIN v.bundle \ X PROVE HandlesOf(v, c)
    <3>1. c \in DOMAIN w.bundle /\ HandlesOf(w, c) /\ w.bundle[c].linked \subseteq Netdevs
      BY <1>1, <1>2, <2>1, <2>5, WorldParts DEF Only, Records
    <3>2. CASE c = b
      BY <1>3, <2>3, <2>4, <3>1, <3>2 DEF HandlesOf, B
    <3>3. CASE c # b
      <4>1. w.bundle[c].linked \cap w.bundle[b].linked = {}
        BY <3>1, <3>3 DEF Fine, Base, LinkedOnce
      <4> QED
        BY <1>2, <2>4, <3>1, <3>3, <4>1 DEF HandlesOf, Only
    <3> QED
      BY <3>2, <3>3
  <2> QED
    BY <2>2, <2>5
<1> QED
  BY <1>2, <1>3, <1>4, <1>5, <1>6, <1>7 DEF Fine, Calm, B

-----------------------------------------------------------------------------
(* Bundles lose their ports, and go *)

\* If bundle b has a router interface that it can tell new ports of, its ports know it.
Ready(w, b) ==
  ~w.past.failed /\ w.bundle[b].rif.made /\ (b \in Lags => w.bundle[b].lag = "made")
    => HandlesOf(w, b)

\* Bundle b has nothing in hardware that SAI would have to give back.
Hollow(w, b) ==
  /\ w.bundle[b].local_routes = {} /\ w.bundle[b].ipv4_secondary = {}
  /\ w.bundle[b].freed \/ w.bundle[b].ipv4_primary = None
  /\ ~w.past.failed => ~w.bundle[b].rif.made

LEMMA FineIn ==
  ASSUME NEW w, NEW X, Fine(w, X)
  PROVE  w \in Worlds /\ \A Y : X \subseteq Y => Fine(w, Y)
BY DEF Fine, Base

LEMMA FineBut ==
  ASSUME NEW w, NEW X, NEW b, Fine(w, X \cup {b}), LinksItself(w, b),
         ~w.past.failed => HandlesOf(w, b)
  PROVE  Fine(w, X)
BY DEF Fine

LEMMA KeepsOn ==
  ASSUME NEW u, NEW v, NEW w, Keeps(u, v), Keeps(v, w)
  PROVE  Keeps(u, w)
BY DEF Keeps

LEMMA ShrinksOn ==
  ASSUME NEW u, NEW v, NEW w, Shrinks(u, v), Shrinks(v, w)
  PROVE  Shrinks(u, w)
BY KeepsOn DEF Shrinks

\* What is sound does not depend on ports, LAGs, addresses and settings.
LEMMA SoundKept ==
  ASSUME NEW w, NEW v, NEW b \in DOMAIN w.bundle, Sound(w), Only(w, v, b), v.hw = w.hw,
         v.bundle[b].rif = w.bundle[b].rif, v.bundle[b].local_routes = w.bundle[b].local_routes,
         v.bundle[b].neighbors = w.bundle[b].neighbors,
         v.bundle[b].cached => w.bundle[b].cached \/ ~v.bundle[b].rif.made
  PROVE  Sound(v)
<1>1. /\ DOMAIN v.bundle = DOMAIN w.bundle
      /\ \A c \in DOMAIN w.bundle : c # b => v.bundle[c] = w.bundle[c]
      /\ \A c \in DOMAIN w.bundle : v.bundle[c].rif = w.bundle[c].rif
      /\ \A c \in DOMAIN w.bundle : v.bundle[c].local_routes = w.bundle[c].local_routes
      /\ \A c \in DOMAIN w.bundle : Sent(v.bundle[c]) = Sent(w.bundle[c])
  BY DEF Only, Sent
<1>2. RifsRight(v)
  <2>1. \A c \in DOMAIN v.bundle : RifOf(v, c)
    BY <1>1 DEF Sound, RifsRight, RifOf
  <2> QED
    BY <1>1, <2>1 DEF Sound, RifsRight
<1>3. RoutesRight(v)
  BY <1>1 DEF Sound, RoutesRight
<1>4. HostsRight(v)
  BY <1>1 DEF Sound, HostsRight
<1> QED
  BY <1>2, <1>3, <1>4 DEF Sound

\* World v has ports P of bundle b of world w unlinked.
PortsGone(w, v, b, P, X) ==
  /\ Fine(v, X \cup {b}) /\ Shrinks(w, v) /\ v.error = w.error /\ Only(w, v, b)
  /\ v.bundle[b].linked = w.bundle[b].linked \ P /\ v.bundle[b].lag = w.bundle[b].lag
  /\ v.bundle[b].rif = w.bundle[b].rif /\ SameIp(w.bundle[b], v.bundle[b])
  /\ v.bundle[b].local_routes = w.bundle[b].local_routes
  /\ v.past = w.past
  /\ HandlesOf(w, b) => HandlesOf(v, b)
  /\ \A p \in Netdevs \ P : v.rifHandle[p] = w.rifHandle[p]

HasPorts(w, b, P) == P \subseteq w.bundle[b].linked

LEMMA PortsDeletedKeeps ==
  ASSUME NEW w, NEW X, Fine(w, X), NEW b \in DOMAIN w.bundle, NEW P, HasPorts(w, b, P),
         NEW v, v = PortsDeleted(w, b, P)
  PROVE  PortsGone(w, v, b, P, X)
<1> DEFINE B == v.bundle[b]
           C == w.bundle[b]
<1>1. w \in Worlds
  BY DEF Fine, Base
<1>2. /\ Only(w, v, b) /\ B = [C EXCEPT !.linked = @ \ P]
      /\ v.hw = w.hw /\ v.past = w.past /\ v.error = w.error /\ v.crash = w.crash
      /\ \A p \in Netdevs \ P : v.rifHandle[p] = w.rifHandle[p]
  BY <1>1, PortsDeletedDoes
<1>3. C \in Records
  BY <1>1, WorldParts
<1>4. /\ B.cached = C.cached /\ B.conf = C.conf /\ B.linked = C.linked \ P /\ B.lag = C.lag
      /\ B.rif = C.rif /\ SameIp(C, B) /\ B.local_routes = C.local_routes
      /\ B.neighbors = C.neighbors
  <2> HIDE DEF B, C
  <2> QED
    BY <1>2, <1>3 DEF Records, SameIp
<1> HIDE DEF B, C
<1>5. Base(v)
  <2>1. LinkedOnce(v)
    BY <1>2, <1>4, SameLinks DEF B, C, Fine, Base
  <2>2. Idle(B)
    BY <1>4 DEF Fine, Base, Idle, SameIp, C
  <2> QED
    BY <1>2, <1>4, <2>1, <2>2, BaseKept DEF Fine, B, C
<1>6. DOMAIN v.bundle = DOMAIN w.bundle
      /\ \A c \in DOMAIN w.bundle : c # b => v.bundle[c] = w.bundle[c]
  BY <1>2 DEF Only
<1>7. \A c \in DOMAIN v.bundle \ (X \cup {b}) : LinksItself(v, c)
  BY <1>6 DEF Fine, LinksItself
<1>8. Sound(w) => Sound(v)
  BY <1>2, <1>4, SoundKept DEF B, C
<1>9. \A p \in w.bundle[b].linked : p \in Netdevs
  BY <1>3 DEF Records, C, HasPorts
<1>10. HandlesOf(w, b) => HandlesOf(v, b)
  BY <1>2, <1>4, <1>9 DEF HandlesOf, B, C, HasPorts
<1>11. ASSUME NEW c \in DOMAIN v.bundle, c # b, HandlesOf(w, c) PROVE HandlesOf(v, c)
  <2>1. w.bundle[c].linked \cap w.bundle[b].linked = {} /\ w.bundle[c].linked \subseteq Netdevs
    BY <1>1, <1>6, <1>11, WorldParts DEF Fine, Base, LinkedOnce, Records
  <2> QED
    BY <1>2, <1>6, <1>11, <2>1 DEF HandlesOf, HasPorts
<1>12. Shrinks(w, v)
  BY <1>2, <1>4, <1>6 DEF Shrinks, Keeps, B, C
<1> QED
  BY <1>2, <1>4, <1>5, <1>7, <1>8, <1>10, <1>11, <1>12 DEF PortsGone, Fine, B, C, Only

\* Another LAG and other settings are no matter to the rest.
SameButLag(B, C) ==
  /\ C.linked = B.linked /\ C.rif = B.rif /\ C.local_routes = B.local_routes
  /\ C.neighbors = B.neighbors /\ SameIp(B, C)

LEMMA SameButLagKeeps ==
  ASSUME NEW w, NEW v \in Worlds, NEW X, Fine(w, X), NEW b \in DOMAIN w.bundle, Only(w, v, b),
         SameButLag(w.bundle[b], v.bundle[b]), Idle(v.bundle[b]),
         v.bundle[b].cached = w.bundle[b].cached \/ (v.bundle[b].cached /\ ~v.bundle[b].rif.made),
         v.rifHandle = w.rifHandle, v.hw = w.hw, v.past.doubled = w.past.doubled,
         w.past.failed => v.past.failed
  PROVE  /\ Fine(v, X \cup {b}) /\ (v.bundle[b].cached = w.bundle[b].cached => Fine(v, X))
         /\ HandlesOf(w, b) => HandlesOf(v, b)
<1>1. DOMAIN v.bundle = DOMAIN w.bundle
      /\ \A c \in DOMAIN w.bundle : c # b => v.bundle[c] = w.bundle[c]
  BY DEF Only
<1>2. Base(v)
  <2>1. LinkedOnce(v)
    BY SameLinks DEF SameButLag, Fine, Base
  <2> QED
    BY <2>1, BaseKept DEF Fine, SameButLag
<1>3. \A c \in DOMAIN v.bundle : c # b \/ v.bundle[b].cached = w.bundle[b].cached =>
        (LinksItself(w, c) => LinksItself(v, c))
  BY <1>1 DEF LinksItself, SameButLag
<1>4. Sound(w) => Sound(v)
  BY SoundKept DEF SameButLag
<1>5. \A c \in DOMAIN v.bundle : HandlesOf(w, c) => HandlesOf(v, c)
  BY <1>1 DEF HandlesOf, SameButLag
<1> QED
  BY <1>1, <1>2, <1>3, <1>4, <1>5 DEF Fine

LEMMA LagIs ==
  ASSUME NEW w \in Worlds, NEW b \in DOMAIN w.bundle, NEW y \in {"none", "made", "gone"},
         NEW v, v = [w EXCEPT !.bundle[b].lag = y]
  PROVE  /\ Only(w, v, b) /\ SameButLag(w.bundle[b], v.bundle[b]) /\ v.bundle[b].lag = y
         /\ v.bundle[b].cached = w.bundle[b].cached /\ v.bundle[b].conf = w.bundle[b].conf
         /\ v.rifHandle = w.rifHandle /\ v.hw = w.hw /\ v.past = w.past
         /\ v.error = w.error /\ v.crash = w.crash
<1> DEFINE B == [w.bundle[b] EXCEPT !.lag = y]
<1>1. w.bundle[b] \in Records
  BY WorldParts
<1>2. /\ B \in Records /\ SameButLag(w.bundle[b], B) /\ B.lag = y
      /\ B.cached = w.bundle[b].cached /\ B.conf = w.bundle[b].conf
  BY <1>1 DEF Records, SameButLag, SameIp
<1>3. v = Put(w, b, B, w.rifHandle, w.hw, w.past, w.error, w.crash)
  BY DEF Put, Worlds
<1> HIDE DEF B
<1>4. IsPut(w, v, b, B, w.rifHandle, w.hw, w.past, w.error, w.crash)
  <2> DEFINE h == w.rifHandle
             k == w.hw
             q == w.past
  <2>1. B \in Records /\ h \in [Netdevs -> Bundles \cup {None}] /\ k \in Hardware
        /\ q \in History /\ w.error \in BOOLEAN /\ w.crash \in BOOLEAN
    BY <1>2, WorldParts
  <2> HIDE DEF h, k, q
  <2>2. IsPut(w, Put(w, b, B, h, k, q, w.error, w.crash), b, B, h, k, q, w.error, w.crash)
    BY <2>1, PutIs
  <2> QED
    BY <1>3, <2>2 DEF h, k, q
<1> QED
  BY <1>2, <1>4 DEF IsPut

\* World v has nothing left of bundle b of world w but its record.
Emptied(w, v, b, X) ==
  /\ Fine(v, X \cup {b}) /\ Shrinks(w, v) /\ (Calm(w) => Calm(v)) /\ Only(w, v, b)
  /\ v.bundle[b].linked = {} /\ v.bundle[b].lag # "made" /\ Hollow(v, b)
  /\ v.past.failed = w.past.failed
  /\ \A p \in Netdevs \ w.bundle[b].linked : v.rifHandle[p] = w.rifHandle[p]

LEMMA StrippedKeeps ==
  ASSUME NEW w, NEW X, Fine(w, X), NEW b \in DOMAIN w.bundle, NEW v, v = Stripped(w, b)
  PROVE  Emptied(w, v, b, X)
<1> DEFINE w0 == IpRemoved(w, b)
           wr == RifRemoved(w0, b)
           w1 == [wr EXCEPT !.error = FALSE]
           P  == w1.bundle[b].linked
           w2 == PortsDeleted(w1, b, P)
           y  == IF w2.bundle[b].lag = "made" THEN "gone" ELSE w2.bundle[b].lag
<1>1. w \in Worlds /\ AddressesOf(w, b)
  BY WorldParts DEF Fine, Base
<1>2. CASE w.bundle[b].cached
  <2>1. v = w
    BY <1>2 DEF Stripped
  <2>2. Shrinks(w, w) /\ Only(w, w, b)
    BY <1>1 DEF Shrinks, Keeps, Only
  <2>3. Idle(w.bundle[b])
    BY DEF Fine, Base
  <2>4. ~w.past.failed => ~w.bundle[b].rif.made
    BY <1>2 DEF Fine, Sound, RifsRight, RifOf
  <2> QED
    BY <1>2, <2>1, <2>2, <2>3, <2>4, FineIn DEF Idle, Hollow, Emptied
<1>3. CASE ~w.bundle[b].cached
  <2>1. /\ IpOnly(w, w0, b) /\ AddressesOf(w0, b) /\ w0.bundle[b].ipv4_secondary = {}
        /\ w0.bundle[b].freed \/ w0.bundle[b].ipv4_primary = None
    BY <1>1, IpRemovedDoes
  <2>2. v = [w2 EXCEPT !.bundle[b].lag = y]
    BY <1>3 DEF Stripped
  <2> HIDE DEF w0
  <2>3. /\ Fine(w0, X) /\ Shrinks(w, w0) /\ Only(w, w0, b) /\ w0.rifHandle = w.rifHandle
        /\ w0.bundle[b].linked = w.bundle[b].linked /\ w0.past.failed = w.past.failed
    BY <1>1, <1>3, <2>1, IpOnlyKeeps DEF IpOnly, SameButIp
  <2>4. b \in DOMAIN w0.bundle
    BY <2>3 DEF Only
  <2>5. /\ Fine(wr, X) /\ Shrinks(w0, wr) /\ Only(w0, wr, b)
        /\ wr.bundle[b].linked = w.bundle[b].linked
        /\ SameIp(w0.bundle[b], wr.bundle[b]) /\ wr.bundle[b].local_routes = {}
        /\ wr.past = w0.past
        /\ ~w.past.failed => wr.bundle[b].rif = NoRif
        /\ \A p \in Netdevs \ w.bundle[b].linked : wr.rifHandle[p] = w.rifHandle[p]
    BY <2>3, <2>4, RifRemovedKeeps
  <2> HIDE DEF wr
  <2>6. /\ w1 \in Worlds /\ w1.bundle = wr.bundle /\ w1.rifHandle = wr.rifHandle
        /\ w1.hw = wr.hw /\ w1.past = wr.past /\ w1.error = FALSE /\ w1.crash = wr.crash
    <3>1. wr \in Worlds
      BY <2>5, FineIn
    <3> QED
      BY <3>1 DEF Worlds
  <2> HIDE DEF w1
  <2>7. Fine(w1, X) /\ Shrinks(wr, w1) /\ Only(wr, w1, b)
    <3>1. Base(w1)
      BY <2>5, <2>6
         DEF Fine, Base, LinkedOnce, OwnIsOwned, AddressesOf, Recorded
    <3>2. Sound(wr) => Sound(w1)
      BY <2>6 DEF Sound, RifsRight, RifOf, RoutesRight, HostsRight
    <3> QED
      BY <2>4, <2>5, <2>6, <3>1, <3>2 DEF Fine, LinksItself, HandlesOf, Shrinks, Keeps, Only
  <2>8. b \in DOMAIN w1.bundle /\ HasPorts(w1, b, P)
    BY <2>4, <2>5, <2>6 DEF Only, HasPorts
  <2>9. /\ Fine(w2, X \cup {b}) /\ Shrinks(w1, w2) /\ w2.error = FALSE /\ Only(w1, w2, b)
        /\ w2.bundle[b].linked = w1.bundle[b].linked \ P
        /\ w2.bundle[b].rif = w1.bundle[b].rif /\ SameIp(w1.bundle[b], w2.bundle[b])
        /\ w2.bundle[b].local_routes = w1.bundle[b].local_routes /\ w2.past = w1.past
        /\ \A p \in Netdevs \ P : w2.rifHandle[p] = w1.rifHandle[p]
    <3>1. w2 = PortsDeleted(w1, b, P)
      OBVIOUS
    <3> HIDE DEF P, w2
    <3>2. PortsGone(w1, w2, b, P, X)
      BY <2>7, <2>8, <3>1, PortsDeletedKeeps
    <3> QED
      BY <2>6, <3>2 DEF PortsGone
  <2>10. w2.bundle[b].linked = {} /\ P = w.bundle[b].linked
    <3>1. P = w1.bundle[b].linked
      OBVIOUS
    <3> HIDE DEF P, w2
    <3> QED
      BY <2>5, <2>6, <2>9, <3>1
  <2> HIDE DEF w2, P
  <2>11. w2 \in Worlds /\ b \in DOMAIN w2.bundle /\ y \in {"none", "made", "gone"} /\ y # "made"
    <3>1. w2 \in Worlds /\ b \in DOMAIN w2.bundle
      BY <2>8, <2>9, FineIn DEF Only
    <3> QED
      BY <3>1, WorldParts DEF Records
  <2> HIDE DEF y
  <2>12. /\ Only(w2, v, b) /\ SameButLag(w2.bundle[b], v.bundle[b]) /\ v.bundle[b].lag = y
         /\ v.bundle[b].cached = w2.bundle[b].cached /\ v.bundle[b].conf = w2.bundle[b].conf
         /\ v.rifHandle = w2.rifHandle /\ v.hw = w2.hw /\ v.past = w2.past
         /\ v.error = w2.error /\ v.crash = w2.crash
    BY <2>2, <2>11, LagIs
  <2>13. v.bundle[b].linked = {} /\ Hollow(v, b)
    BY <2>1, <2>3, <2>5, <2>6, <2>9, <2>10, <2>12 DEF Hollow, SameButLag, SameIp, NoRif
  <2>14. Fine(v, X \cup {b})
    <3>1. v \in Worlds
      BY <2>12 DEF Only
    <3>2. Idle(v.bundle[b])
      BY <2>11, <2>12, <2>13 DEF Idle, Hollow
    <3> QED
      BY <2>9, <2>11, <2>12, <3>1, <3>2, SameButLagKeeps
  <2>15. Shrinks(w2, v)
    BY <2>12 DEF Shrinks, Keeps, Only, SameButLag
  <2>16. Shrinks(w, v)
    BY <2>3, <2>5, <2>7, <2>9, <2>15, ShrinksOn
  <2>17. Only(w, v, b)
    BY <2>3, <2>5, <2>7, <2>9, <2>12 DEF Only
  <2>18. ~v.error /\ v.past.failed = w.past.failed
    BY <2>3, <2>5, <2>6, <2>9, <2>12
  <2>19. \A p \in Netdevs \ w.bundle[b].linked : v.rifHandle[p] = w.rifHandle[p]
    BY <2>5, <2>6, <2>9, <2>10, <2>12
  <2> QED
    BY <2>11, <2>12, <2>13, <2>14, <2>16, <2>17, <2>18, <2>19 DEF Calm, Emptied
<1> QED
  BY <1>2, <1>3

\* World v is world u without bundle c.
Dropped(u, v, c) ==
  /\ v \in Worlds /\ DOMAIN v.bundle = DOMAIN u.bundle \ {c}
  /\ \A d \in DOMAIN v.bundle : v.bundle[d] = u.bundle[d]
  /\ v.rifHandle = u.rifHandle /\ v.hw = u.hw /\ v.past = u.past
  /\ v.error = u.error /\ v.crash = u.crash

LEMMA DroppedIs ==
  ASSUME NEW u \in Worlds, NEW c, NEW v, v = [u EXCEPT !.bundle = Without(@, {c})]
  PROVE  Dropped(u, v, c)
<1> DEFINE f == u.bundle
           g == Without(f, {c})
           X == {c}
<1>1. f \in Partial(Bundles, Records)
  BY WorldParts
<1>2. g = Without(f, X) /\ v = [u EXCEPT !.bundle = g]
  OBVIOUS
<1> HIDE DEF f, g, X
<1>3. /\ g \in Partial(Bundles, Records) /\ DOMAIN g = DOMAIN f \ X
      /\ \A z \in DOMAIN f \ X : g[z] = f[z]
  BY <1>1, <1>2, WithoutIs DEF IsWithout
<1>4. v \in Worlds
  BY <1>2, <1>3 DEF Worlds
<1> QED
  BY <1>2, <1>3, <1>4 DEF Dropped, Worlds, f, X

LEMMA DroppedKeeps ==
  ASSUME NEW u, NEW v, NEW X, NEW c \in DOMAIN u.bundle, Fine(u, X \cup {c}), Hollow(u, c),
         Dropped(u, v, c)
  PROVE  Fine(v, X) /\ Shrinks(u, v)
<1>1. u \in Worlds
  BY DEF Fine, Base
<1>2. LinkedOnce(v) /\ OwnIsOwned(v) /\ \A d \in DOMAIN v.bundle : Idle(v.bundle[d])
  BY DEF Dropped, Fine, Base, LinkedOnce, OwnIsOwned
<1>3. ASSUME NEW d \in Bundles PROVE AddressesOf(v, d)
  <2>1. AddressesOf(u, d) /\ None \notin OwnOf(c)
    BY <1>1, IpParts DEF Fine, Base
  <2>2. CASE d # c
    BY <2>1, <2>2 DEF Dropped, AddressesOf
  <2>3. CASE d = c
    BY <2>1, <2>3 DEF Dropped, AddressesOf, Recorded, Hollow
  <2> QED
    BY <2>2, <2>3
<1>4. Base(v)
  BY <1>2, <1>3 DEF Dropped, Base
<1>5. ASSUME ~u.past.failed PROVE Sound(v)
  <2>1. Sound(u) /\ ~u.bundle[c].rif.made /\ u.bundle[c].local_routes = {}
    BY <1>5 DEF Fine, Hollow
  <2>2. Sent(u.bundle[c]) = {}
    BY <2>1 DEF Sound, HostsRight
  <2>3. RifsRight(v)
    BY <2>1 DEF Dropped, Sound, RifsRight, RifOf
  <2>4. RoutesRight(v)
    BY <2>1 DEF Dropped, Sound, RoutesRight
  <2>5. HostsRight(v)
    BY <2>1, <2>2 DEF Dropped, Sound, HostsRight
  <2> QED
    BY <2>3, <2>4, <2>5 DEF Sound
<1>6. \A d \in DOMAIN v.bundle : d # c /\ d \in DOMAIN u.bundle
        /\ (LinksItself(u, d) => LinksItself(v, d)) /\ (HandlesOf(u, d) => HandlesOf(v, d))
  BY DEF Dropped, LinksItself, HandlesOf
<1>7. Fine(v, X)
  BY <1>4, <1>5, <1>6 DEF Fine, Dropped
<1> QED
  BY <1>7 DEF Dropped, Shrinks, Keeps

\* World v is what is left of world w when port p leaves bundle c.
Left(w, v, c, p, X) ==
  /\ Fine(v, X) /\ Shrinks(w, v) /\ (Calm(w) => Calm(v))
  /\ \A d \in DOMAIN w.bundle : d # c => d \in DOMAIN v.bundle /\ v.bundle[d] = w.bundle[d]
  /\ \A d \in DOMAIN v.bundle : p \notin v.bundle[d].linked
  /\ \A q \in Netdevs \ w.bundle[c].linked : v.rifHandle[q] = w.rifHandle[q]

\* World v is world w with bundle b destroyed.
Gone(w, v, b, X) ==
  /\ Fine(v, X) /\ Shrinks(w, v) /\ (Calm(w) => Calm(v))
  /\ DOMAIN v.bundle = DOMAIN w.bundle \ {b}
  /\ \A d \in DOMAIN v.bundle : v.bundle[d] = w.bundle[d]
  /\ \A q \in Netdevs \ w.bundle[b].linked : v.rifHandle[q] = w.rifHandle[q]

LEMMA DestroyedKeeps ==
  ASSUME NEW w, NEW X, NEW b \in DOMAIN w.bundle, Fine(w, X \cup {b}),
         NEW v, v = Destroyed(w, b)
  PROVE  Gone(w, v, b, X)
<1> DEFINE u == Stripped(w, b)
           Y == X \cup {b}
<1>1. Emptied(w, u, b, Y)
  <2>1. Fine(w, Y)
    OBVIOUS
  <2> HIDE DEF Y
  <2> QED
    BY <2>1, StrippedKeeps
<1>2. v = [u EXCEPT !.bundle = Without(@, {b})]
  BY DEF Destroyed
<1> HIDE DEF u
<1>3. u \in Worlds /\ b \in DOMAIN u.bundle /\ Fine(u, X \cup {b}) /\ Hollow(u, b)
  BY <1>1 DEF Emptied, Only, Fine
<1>4. Dropped(u, v, b)
  BY <1>2, <1>3, DroppedIs
<1>5. Fine(v, X) /\ Shrinks(u, v)
  BY <1>3, <1>4, DroppedKeeps
<1>6. Shrinks(w, v)
  BY <1>1, <1>5, ShrinksOn DEF Emptied
<1>7. Calm(w) => Calm(v)
  BY <1>1, <1>4 DEF Emptied, Calm, Dropped
<1> QED
  BY <1>1, <1>4, <1>5, <1>6, <1>7 DEF Gone, Emptied, Dropped, Only

LEMMA RemovedKeeps ==
  ASSUME NEW w, NEW X, Fine(w, X), NEW c \in DOMAIN w.bundle \ X, NEW p \in w.bundle[c].linked,
         NEW v, v = Removed(w, c, p)
  PROVE  Left(w, v, c, p, X)
<1> DEFINE P  == {p}
           w1 == PortsDeleted(w, c, P)
<1>1. PortsGone(w, w1, c, P, X)
  <2>1. HasPorts(w, c, P)
    BY DEF HasPorts
  <2> HIDE DEF P
  <2> QED
    BY <2>1, PortsDeletedKeeps
<1>2. v = IF w1.bundle[c].linked = {} THEN Destroyed(w1, c) ELSE w1
  BY DEF Removed
<1> HIDE DEF w1
<1>3. /\ Fine(w1, X \cup {c}) /\ Shrinks(w, w1) /\ w1.error = w.error /\ w1.past = w.past
      /\ DOMAIN w1.bundle = DOMAIN w.bundle
      /\ \A d \in DOMAIN w.bundle : d # c => w1.bundle[d] = w.bundle[d]
      /\ w1.bundle[c].linked = w.bundle[c].linked \ {p}
      /\ \A q \in Netdevs \ w.bundle[c].linked : w1.rifHandle[q] = w.rifHandle[q]
  BY <1>1 DEF PortsGone, Only
<1>4. \A d \in DOMAIN w.bundle : d # c => p \notin w.bundle[d].linked
  BY DEF Fine, Base, LinkedOnce
<1>5. Calm(w) => Calm(w1)
  BY <1>3 DEF Calm
<1>6. CASE w1.bundle[c].linked = {}
  <2>1. Gone(w1, v, c, X)
    BY <1>2, <1>3, <1>6, DestroyedKeeps
  <2>2. Shrinks(w, v)
    BY <1>3, <2>1, ShrinksOn DEF Gone
  <2>3. \A q \in Netdevs \ w.bundle[c].linked : v.rifHandle[q] = w.rifHandle[q]
    BY <1>3, <2>1 DEF Gone
  <2> QED
    BY <1>3, <1>4, <1>5, <2>1, <2>2, <2>3 DEF Gone, Left
<1>7. CASE w1.bundle[c].linked # {}
  <2>1. v = w1
    BY <1>2, <1>7
  <2>2. c \notin Netdevs
    <3>1. LinksItself(w, c) /\ Idle(w.bundle[c])
      BY DEF Fine, Base
    <3> QED
      BY <1>3, <1>7, <3>1 DEF LinksItself, Idle
  <2>3. LinksItself(w1, c)
    BY <2>2 DEF LinksItself
  <2>4. ~w1.past.failed => HandlesOf(w1, c)
    BY <1>1, <1>3 DEF PortsGone, Fine
  <2>5. Fine(w1, X)
    BY <1>3, <2>3, <2>4, FineBut
  <2> QED
    BY <1>3, <1>4, <1>5, <2>1, <2>5 DEF Left
<1> QED
  BY <1>6, <1>7

-----------------------------------------------------------------------------
(* Bundles get ports *)

SameButPorts(B, C) ==
  /\ C.cached = B.cached /\ C.conf = B.conf /\ C.lag = B.lag /\ C.rif = B.rif
  /\ C.local_routes = B.local_routes /\ C.neighbors = B.neighbors /\ SameIp(B, C)

\* In world w bundle b can be given ports.
Takes(w, b) ==
  /\ Fine(w, {b}) /\ Calm(w) /\ Ready(w, b)
  /\ b \in DOMAIN w.bundle /\ ~w.bundle[b].cached
  /\ ~w.past.failed /\ w.bundle[b].rif.made => b \in Lags

\* World v is world w with port p nowhere but perhaps in bundle b.
Loose(w, v, b, p) ==
  /\ Takes(v, b) /\ Shrinks(w, v) /\ v.bundle[b] = w.bundle[b]
  /\ \A d \in DOMAIN v.bundle : p \notin v.bundle[d].linked

LEMMA LooseIs ==
  ASSUME NEW w, NEW b, Takes(w, b), NEW p, p \notin w.bundle[b].linked,
         NEW v, v = IF Links(w.bundle, p) = {} THEN w
                    ELSE Removed(w, CHOOSE c \in Links(w.bundle, p) : TRUE, p)
  PROVE  Loose(w, v, b, p)
<1> DEFINE L == Links(w.bundle, p)
           X == {b}
<1>1. w \in Worlds /\ Fine(w, X) /\ b \in DOMAIN w.bundle
  BY FineIn DEF Takes
<1>2. \A d \in DOMAIN w.bundle : d \in L <=> p \in w.bundle[d].linked
  BY DEF Links
<1>3. CASE L = {}
  <2>1. v = w
    BY <1>3
  <2>2. Shrinks(w, w)
    BY DEF Shrinks, Keeps
  <2> QED
    BY <1>2, <1>3, <2>1, <2>2 DEF Loose
<1>4. CASE L # {}
  <2>1. PICK c \in L : v = Removed(w, c, p)
    BY <1>4
  <2>2. c \in DOMAIN w.bundle \ X /\ p \in w.bundle[c].linked
    BY <2>1 DEF Links
  <2>3. Left(w, v, c, p, X)
    <3> HIDE DEF X
    <3> QED
      BY <1>1, <2>1, <2>2, RemovedKeeps
  <2>4. b \in DOMAIN v.bundle /\ v.bundle[b] = w.bundle[b]
    BY <1>1, <2>2, <2>3 DEF Left
  <2>5. w.bundle[b].linked \cap w.bundle[c].linked = {} /\ w.bundle[b].linked \subseteq Netdevs
    BY <1>1, <2>2, WorldParts DEF Fine, Base, LinkedOnce, Records
  <2>6. HandlesOf(w, b) => HandlesOf(v, b)
    BY <2>3, <2>4, <2>5 DEF Left, HandlesOf
  <2>7. v.past.failed \/ ~w.past.failed
    BY <2>3 DEF Left, Shrinks, Keeps
  <2>8. Takes(v, b)
    BY <2>3, <2>4, <2>6, <2>7 DEF Left, Takes, Ready
  <2> QED
    BY <2>3, <2>4, <2>8 DEF Left, Loose
<1> QED
  BY <1>3, <1>4

\* World v is world w with port p given to bundle b.
Added(w, v, b, p) ==
  /\ Takes(v, b) /\ Shrinks(w, v) /\ SameButPorts(w.bundle[b], v.bundle[b])
  /\ v.bundle[b].linked = w.bundle[b].linked \cup {p}

LEMMA PortAddedKeeps ==
  ASSUME NEW w, NEW b, Takes(w, b), NEW p \in Netdevs, p \notin w.bundle[b].linked,
         NEW v, v = PortAdded(w, b, p)
  PROVE  Added(w, v, b, p)
<1> DEFINE u == IF Links(w.bundle, p) = {} THEN w
                ELSE Removed(w, CHOOSE c \in Links(w.bundle, p) : TRUE, p)
           B == [u.bundle[b] EXCEPT !.linked = @ \cup {p}]
           tells == u.bundle[b].lag = "made" /\ u.bundle[b].rif.made
           h == [u.rifHandle EXCEPT ![p] = IF tells THEN b ELSE @]
<1>1. v = [u EXCEPT !.bundle[b].linked = @ \cup {p}, !.rifHandle[p] = IF tells THEN b ELSE @]
  BY DEF PortAdded
<1>2. Loose(w, u, b, p)
  BY LooseIs
<1> HIDE DEF u
<1>3. u \in Worlds /\ b \in DOMAIN u.bundle /\ u.bundle[b] = w.bundle[b] /\ b \in Bundles
  BY <1>2, FineIn, WorldParts DEF Loose, Takes
<1>4. u.bundle[b] \in Records /\ u.rifHandle \in [Netdevs -> Bundles \cup {None}]
  BY <1>3, WorldParts
<1>5. /\ B \in Records /\ SameButPorts(u.bundle[b], B) /\ B.linked = u.bundle[b].linked \cup {p}
  BY <1>4 DEF Records, SameButPorts, SameIp
<1>6. /\ h \in [Netdevs -> Bundles \cup {None}] /\ h[p] = IF tells THEN b ELSE u.rifHandle[p]
      /\ \A q \in Netdevs : q # p => h[q] = u.rifHandle[q]
  BY <1>3, <1>4
<1>7. v = Put(u, b, B, h, u.hw, u.past, u.error, u.crash)
  BY <1>1, <1>3 DEF Put, Worlds
<1> HIDE DEF B, h
<1>8. IsPut(u, v, b, B, h, u.hw, u.past, u.error, u.crash)
  BY <1>3, <1>5, <1>6, <1>7, WorldParts, PutIs
<1>9. /\ Only(u, v, b) /\ v.bundle[b] = B /\ v.rifHandle = h /\ v.hw = u.hw /\ v.past = u.past
      /\ v.error = u.error /\ v.crash = u.crash
      /\ DOMAIN v.bundle = DOMAIN u.bundle
      /\ \A c \in DOMAIN u.bundle : c # b => v.bundle[c] = u.bundle[c]
  BY <1>8 DEF IsPut, Only
<1>10. Fine(u, {b}) /\ \A d \in DOMAIN u.bundle : p \notin u.bundle[d].linked
  BY <1>2 DEF Loose, Takes
<1>11. Base(v)
  <2>1. LinkedOnce(v)
    BY <1>5, <1>9, <1>10 DEF Fine, Base, LinkedOnce
  <2>2. Idle(v.bundle[b])
    BY <1>2, <1>5, <1>9 DEF Loose, Takes, Idle, SameButPorts
  <2> QED
    BY <1>5, <1>9, <1>10, <2>1, <2>2, BaseKept DEF Fine, SameButPorts
<1>12. Sound(u) => Sound(v)
  BY <1>3, <1>5, <1>9, SoundKept DEF SameButPorts
<1>13. \A c \in DOMAIN v.bundle \ {b} : /\ LinksItself(u, c) => LinksItself(v, c)
                                        /\ HandlesOf(u, c) => HandlesOf(v, c)
  <2> SUFFICES ASSUME NEW c \in DOMAIN v.bundle \ {b}
               PROVE  /\ LinksItself(u, c) => LinksItself(v, c)
                      /\ HandlesOf(u, c) => HandlesOf(v, c)
    OBVIOUS
  <2>1. v.bundle[c] = u.bundle[c] /\ p \notin u.bundle[c].linked
    BY <1>9, <1>10
  <2>2. \A q \in u.bundle[c].linked : v.rifHandle[q] = u.rifHandle[q]
    <3>1. u.bundle[c].linked \subseteq Netdevs
      BY <1>3, <1>9, WorldParts DEF Records
    <3> QED
      BY <1>6, <1>9, <2>1, <3>1
  <2> QED
    BY <2>1, <2>2 DEF LinksItself, HandlesOf
<1>14. Fine(v, {b})
  BY <1>9, <1>10, <1>11, <1>12, <1>13 DEF Fine
<1>15. Ready(v, b)
  <2> SUFFICES ASSUME ~v.past.failed, v.bundle[b].rif.made, b \in Lags => v.bundle[b].lag = "made"
               PROVE  HandlesOf(v, b)
    BY DEF Ready
  <2>1. /\ ~u.past.failed /\ u.bundle[b].rif.made /\ b \in Lags /\ u.bundle[b].lag = "made"
        /\ HandlesOf(u, b)
    BY <1>2, <1>5, <1>9 DEF Loose, Takes, Ready, SameButPorts
  <2>2. h[p] = b
    BY <1>6, <2>1
  <2>3. u.bundle[b].linked \subseteq Netdevs
    BY <1>4 DEF Records
  <2> QED
    BY <1>5, <1>6, <1>9, <2>1, <2>2, <2>3 DEF HandlesOf, SameButPorts
<1>16. Takes(v, b)
  BY <1>2, <1>5, <1>9, <1>14, <1>15 DEF Loose, Takes, Calm, SameButPorts
<1>17. Shrinks(u, v)
  BY <1>5, <1>9 DEF Shrinks, Keeps, SameButPorts
<1>18. Shrinks(w, v)
  BY <1>2, <1>17, ShrinksOn DEF Loose
<1> QED
  BY <1>3, <1>5, <1>9, <1>16, <1>18 DEF Added

-----------------------------------------------------------------------------
(* What a fold over the ports computes *)

\* What the empty set is in, and a set that all it has but one element are in, is in T.
LEMMA SetInduction ==
  ASSUME NEW S, IsFiniteSet(S), NEW T, {} \in T,
         \A s \in SUBSET S : s # {} /\ (\A x \in s : s \ {x} \in T) => s \in T
  PROVE  \A s \in SUBSET S : s \in T
<1> SUFFICES ASSUME NEW s0 \in SUBSET S, s0 \notin T PROVE FALSE
  OBVIOUS
<1> DEFINE Bad == (SUBSET S) \ T
<1>1. Bad \subseteq FiniteSubsetsOf(S) /\ Bad # {}
  <2>1. FiniteSubsetsOf(S) = SUBSET S
    BY FS_FiniteSubsetsOfFinite
  <2> QED
    BY <2>1
<1>2. PICK U \in Bad : \A V \in Bad : <<V, U>> \notin StrictSubsetOrdering(S)
  <2> HIDE DEF Bad
  <2> QED
    BY <1>1, WFMin, FS_StrictSubsetOrderingWellFounded
<1>3. U \in SUBSET S /\ U \notin T /\ U # {}
  BY <1>2
<1>4. ASSUME NEW x \in U PROVE U \ {x} \in T
  <2> DEFINE V == U \ {x}
  <2>1. V \in SUBSET S /\ V \subseteq U /\ V # U
    BY <1>3, <1>4
  <2>2. V \in Bad => <<V, U>> \in StrictSubsetOrdering(S)
    BY <1>3, <2>1 DEF StrictSubsetOrdering
  <2>3. V \notin Bad
    BY <1>2, <2>2
  <2> QED
    BY <2>1, <2>3
<1> QED
  BY <1>3, <1>4

Picked(t) == CHOOSE x \in t : TRUE
LessPicked(t) == t \ {Picked(t)}

LEMMA PickedIs ==
  ASSUME NEW t, t # {}
  PROVE  Picked(t) \in t /\ LessPicked(t) \subseteq t /\ Picked(t) \notin LessPicked(t)
         /\ t = LessPicked(t) \cup {Picked(t)}
<1>1. Picked(t) \in t
  BY DEF Picked
<1> QED
  BY <1>1 DEF LessPicked

\* Function f gives for each part of S the world when its ports are added to bundle b.
NextPort(f, w, b, t) ==
  IF t = {} THEN w ELSE PortAdded(f[LessPicked(t)], b, Picked(t))
IsFold(f, S, w, b) == f = [t \in SUBSET S |-> NextPort(f, w, b, t)]

LEMMA FoldAgrees ==
  ASSUME NEW R, NEW S, IsFiniteSet(R), NEW f, NEW g, NEW w, NEW b,
         IsFold(f, R, w, b), IsFold(g, S, w, b), R \subseteq S
  PROVE  \A t \in SUBSET R : f[t] = g[t]
<1> DEFINE T == {t \in SUBSET R : f[t] = g[t]}
<1>1. \A t \in SUBSET R : f[t] = NextPort(f, w, b, t)
  BY DEF IsFold
<1>2. \A t \in SUBSET R : g[t] = NextPort(g, w, b, t)
  <2>1. \A t \in SUBSET S : g[t] = NextPort(g, w, b, t)
    BY DEF IsFold
  <2> QED
    BY <2>1
<1>3. {} \in T
  BY <1>1, <1>2 DEF NextPort
<1>4. ASSUME NEW s \in SUBSET R, s # {}, \A x \in s : s \ {x} \in T PROVE s \in T
  <2>1. LessPicked(s) \in T
    BY <1>4, PickedIs DEF LessPicked
  <2>2. f[LessPicked(s)] = g[LessPicked(s)]
    BY <2>1
  <2>3. NextPort(f, w, b, s) = NextPort(g, w, b, s)
    BY <2>2 DEF NextPort
  <2> QED
    BY <1>1, <1>2, <2>3
<1>5. \A s \in SUBSET R : s \in T
  <2> HIDE DEF T
  <2> QED
    BY <1>3, <1>4, SetInduction
<1> QED
  BY <1>5

LEMMA FoldThere ==
  ASSUME NEW S, IsFiniteSet(S), NEW w, NEW b
  PROVE  \E f : IsFold(f, S, w, b)
<1> DEFINE T == {s \in SUBSET S : \E f : IsFold(f, s, w, b)}
<1>1. {} \in T
  <2> DEFINE f == [t \in SUBSET {} |-> w]
  <2>1. \A t \in SUBSET {} : NextPort(f, w, b, t) = w
    BY DEF NextPort
  <2>2. [t \in SUBSET {} |-> NextPort(f, w, b, t)] = [t \in SUBSET {} |-> w]
    BY <2>1
  <2>3. IsFold(f, {}, w, b)
    BY <2>2 DEF IsFold
  <2> QED
    BY <2>3
<1>2. ASSUME NEW s \in SUBSET S, s # {}, \A x \in s : s \ {x} \in T PROVE s \in T
  <2> DEFINE F(x) == CHOOSE f : IsFold(f, s \ {x}, w, b)
             val(t) == IF t = {} THEN w
                       ELSE PortAdded(F(Picked(t))[LessPicked(t)], b, Picked(t))
             g == [t \in SUBSET s |-> val(t)]
  <2>1. \A x \in s : IsFold(F(x), s \ {x}, w, b)
    <3> SUFFICES ASSUME NEW x \in s PROVE IsFold(F(x), s \ {x}, w, b)
      OBVIOUS
    <3>1. \E f : IsFold(f, s \ {x}, w, b)
      BY <1>2
    <3> QED
      BY <3>1
  <2> HIDE DEF F
  <2>2. \A x \in s : IsFiniteSet(s \ {x})
    <3>1. IsFiniteSet(s)
      BY FS_Subset
    <3> QED
      BY <3>1, FS_RemoveElement
  <2>3. ASSUME NEW x \in s, NEW u \in SUBSET (s \ {x}) PROVE F(x)[u] = val(u)
    <3>1. F(x)[u] = NextPort(F(x), w, b, u)
      BY <2>1, <2>3 DEF IsFold
    <3>2. CASE u = {}
      BY <3>1, <3>2 DEF NextPort
    <3>3. CASE u # {}
      <4> DEFINE y == Picked(u)
                 r == LessPicked(u)
                 R == (s \ {x}) \cap (s \ {y})
      <4>1. y \in s /\ r \subseteq s \ {x} /\ r \subseteq s \ {y}
        BY <2>3, <3>3, PickedIs
      <4>2. F(x)[r] = F(y)[r]
        <5>1. IsFold(F(x), s \ {x}, w, b) /\ IsFold(F(y), s \ {y}, w, b)
          BY <2>1, <4>1
        <5> DEFINE f == [t \in SUBSET r |-> F(x)[t]]
        <5>2. IsFold(f, r, w, b)
          <6>1. \A t \in SUBSET r : F(x)[t] = NextPort(F(x), w, b, t)
            <7>1. \A t \in SUBSET (s \ {x}) : F(x)[t] = NextPort(F(x), w, b, t)
              BY <5>1 DEF IsFold
            <7> QED
              BY <4>1, <7>1
          <6>2. \A t \in SUBSET r : t # {} => LessPicked(t) \in SUBSET r
            BY PickedIs
          <6>3. \A t \in SUBSET r : NextPort(f, w, b, t) = NextPort(F(x), w, b, t)
            BY <6>2 DEF NextPort
          <6> QED
            BY <6>1, <6>3 DEF IsFold
        <5>3. IsFiniteSet(r)
          BY <2>2, <4>1, FS_Subset
        <5>4. \A t \in SUBSET r : f[t] = F(y)[t]
          <6> HIDE DEF f, r, y
          <6> DEFINE Q == s \ {y}
                     h == F(y)
          <6>1. IsFold(h, Q, w, b) /\ r \subseteq Q
            BY <4>1, <5>1
          <6> HIDE DEF Q, h
          <6>2. \A t \in SUBSET r : f[t] = h[t]
            BY <5>2, <5>3, <6>1, FoldAgrees
          <6> QED
            BY <6>2 DEF h
        <5>5. r \in SUBSET r
          OBVIOUS
        <5> QED
          BY <5>4, <5>5
      <4>3. F(x)[u] = PortAdded(F(x)[r], b, y)
        BY <3>1, <3>3 DEF NextPort
      <4> QED
        BY <3>3, <4>2, <4>3
    <3> QED
      BY <3>2, <3>3
  <2>4. \A t \in SUBSET s : val(t) = NextPort(g, w, b, t)
    <3> SUFFICES ASSUME NEW t \in SUBSET s PROVE val(t) = NextPort(g, w, b, t)
      OBVIOUS
    <3>1. CASE t = {}
      BY <3>1 DEF NextPort
    <3>2. CASE t # {}
      <4>1. Picked(t) \in s /\ LessPicked(t) \in SUBSET (s \ {Picked(t)})
        BY <3>2, PickedIs
      <4>2. F(Picked(t))[LessPicked(t)] = val(LessPicked(t))
        BY <2>3, <4>1
      <4>3. g[LessPicked(t)] = val(LessPicked(t))
        BY <4>1
      <4> HIDE DEF g
      <4>4. val(t) = PortAdded(F(Picked(t))[LessPicked(t)], b, Picked(t))
        BY <3>2
      <4> QED
        BY <3>2, <4>2, <4>3, <4>4 DEF NextPort
    <3> QED
      BY <3>1, <3>2
  <2>5. IsFold(g, s, w, b)
    <3> HIDE DEF val
    <3> QED
      BY <2>4 DEF IsFold
  <2> QED
    BY <2>5
<1>3. \A s \in SUBSET S : s \in T
  <2> HIDE DEF T
  <2> QED
    BY <1>1, <1>2, SetInduction
<1> QED
  BY <1>3

LEMMA FoldOfPorts ==
  ASSUME NEW w, NEW b, NEW P, NEW w1, w1 = PortsDeleted(w, b, w.bundle[b].linked \ P),
         NEW N, N = P \ w.bundle[b].linked, IsFiniteSet(N)
  PROVE  \E f : IsFold(f, N, w1, b) /\ PortsReconfigured(w, b, P) = f[N]
<1> DEFINE f == CHOOSE it : IsFold(it, N, w1, b)
<1>1. IsFold(f, N, w1, b)
  <2>1. \E it : IsFold(it, N, w1, b)
    BY FoldThere
  <2> QED
    BY <2>1
<1>2. PortsReconfigured(w, b, P) = f[N]
  BY DEF PortsReconfigured, FoldSet, MapThenFoldSet, IsFold, NextPort, LessPicked, Picked
<1> QED
  BY <1>1, <1>2

\* World v is world w with ports S given to bundle b.
Given(w, v, b, S) ==
  /\ Takes(v, b) /\ Shrinks(w, v) /\ SameButPorts(w.bundle[b], v.bundle[b])
  /\ v.bundle[b].linked = w.bundle[b].linked \cup S

LEMMA GivenPorts ==
  ASSUME NEW w, NEW b, Takes(w, b), NEW P \in SUBSET Netdevs, IsFiniteSet(P),
         P \cap w.bundle[b].linked = {},
         NEW f, IsFold(f, P, w, b)
  PROVE  Given(w, f[P], b, P)
<1> DEFINE T == {t \in SUBSET P : Given(w, f[t], b, t)}
<1>1. \A t \in SUBSET P : f[t] = NextPort(f, w, b, t)
  BY DEF IsFold
<1>2. {} \in T
  <2>1. f[{}] = w
    BY <1>1 DEF NextPort
  <2>2. Shrinks(w, w) /\ SameButPorts(w.bundle[b], w.bundle[b])
    BY DEF Shrinks, Keeps, SameButPorts, SameIp
  <2>3. Given(w, w, b, {})
    BY <2>2 DEF Given
  <2> QED
    BY <2>1, <2>3
<1>3. ASSUME NEW s \in SUBSET P, s # {}, \A x \in s : s \ {x} \in T PROVE s \in T
  <2> DEFINE p == Picked(s)
             r == LessPicked(s)
             u == f[r]
             v == f[s]
  <2>1. p \in s /\ p \notin r /\ s = r \cup {p} /\ r = s \ {p}
    BY <1>3, PickedIs DEF LessPicked
  <2>2. Given(w, u, b, r)
    BY <1>3, <2>1
  <2>3. v = PortAdded(u, b, p)
    BY <1>1, <1>3 DEF NextPort
  <2>4. p \in Netdevs /\ p \notin w.bundle[b].linked
    BY <2>1
  <2> HIDE DEF p, r, u, v
  <2>5. Takes(u, b) /\ p \notin u.bundle[b].linked
    BY <2>1, <2>2, <2>4 DEF Given
  <2>6. Added(u, v, b, p)
    BY <2>3, <2>4, <2>5, PortAddedKeeps
  <2>7. Shrinks(w, v)
    BY <2>2, <2>6, ShrinksOn DEF Given, Added
  <2>8. Given(w, v, b, s)
    BY <2>1, <2>2, <2>6, <2>7 DEF Given, Added, SameButPorts, SameIp
  <2> QED
    BY <2>8 DEF v
<1>4. \A s \in SUBSET P : s \in T
  <2> HIDE DEF T
  <2> QED
    BY <1>2, <1>3, SetInduction
<1> QED
  BY <1>4

\* World v is world w with ports P for those of bundle b.
Ported(w, v, b, P) ==
  /\ Fine(v, {b}) /\ Calm(v) /\ Ready(v, b) /\ Shrinks(w, v) /\ b \in DOMAIN v.bundle
  /\ SameButPorts(w.bundle[b], v.bundle[b]) /\ v.bundle[b].linked = P

LEMMA PortsReconfiguredKeeps ==
  ASSUME NEW w, NEW b \in DOMAIN w.bundle, Fine(w, {b}), Calm(w), Ready(w, b),
         ~w.bundle[b].cached, NEW P \in SUBSET Netdevs, IsFiniteSet(P),
         ~w.past.failed /\ w.bundle[b].rif.made => b \in Lags \/ P \subseteq w.bundle[b].linked,
         NEW v, v = PortsReconfigured(w, b, P)
  PROVE  Ported(w, v, b, P)
<1> DEFINE w1 == PortsDeleted(w, b, w.bundle[b].linked \ P)
           S  == w.bundle[b].linked \ P
           N  == P \ w.bundle[b].linked
           X  == {b}
<1>2. w \in Worlds
  BY FineIn
<1>3. IsFiniteSet(N)
  BY FS_Subset
<1>4. PortsGone(w, w1, b, S, X)
  <2>1. HasPorts(w, b, S) /\ w1 = PortsDeleted(w, b, S) /\ Fine(w, X)
    BY DEF HasPorts
  <2> HIDE DEF S, X, w1
  <2> QED
    BY <2>1, PortsDeletedKeeps
<1>5. PICK f : IsFold(f, N, w1, b) /\ v = f[N]
  <2>1. w1 = PortsDeleted(w, b, w.bundle[b].linked \ P) /\ N = P \ w.bundle[b].linked
    OBVIOUS
  <2> HIDE DEF w1, N
  <2> QED
    BY <1>3, <2>1, FoldOfPorts
<1> HIDE DEF w1
<1>6. /\ Fine(w1, {b}) /\ Shrinks(w, w1) /\ w1.error = w.error /\ w1.past = w.past
      /\ b \in DOMAIN w1.bundle /\ w1.bundle[b].linked = w.bundle[b].linked \ S
      /\ w1.bundle[b].rif = w.bundle[b].rif /\ w1.bundle[b].lag = w.bundle[b].lag
      /\ SameIp(w.bundle[b], w1.bundle[b])
      /\ w1.bundle[b].local_routes = w.bundle[b].local_routes
      /\ HandlesOf(w, b) => HandlesOf(w1, b)
  <2>1. Fine(w1, X \cup {b}) /\ X \cup {b} = {b}
    BY <1>4 DEF PortsGone
  <2> QED
    BY <1>4, <2>1 DEF PortsGone, Only
<1>7. SameButPorts(w.bundle[b], w1.bundle[b])
  <2>1. w1.bundle[b] = [w.bundle[b] EXCEPT !.linked = @ \ S]
    BY <1>2, PortsDeletedDoes DEF w1
  <2>2. w.bundle[b] \in Records
    BY <1>2, WorldParts
  <2> QED
    BY <2>1, <2>2 DEF Records, SameButPorts, SameIp
<1>8. Calm(w1) /\ Ready(w1, b)
  BY <1>6 DEF Calm, Ready
<1>9. CASE N = {}
  <2>1. v = w1
    BY <1>5, <1>9 DEF IsFold, NextPort
  <2> QED
    BY <1>6, <1>7, <1>8, <1>9, <2>1 DEF Ported
<1>10. CASE N # {}
  <2>1. Takes(w1, b)
    BY <1>6, <1>7, <1>8, <1>10 DEF Takes, SameButPorts
  <2>2. N \in SUBSET Netdevs /\ N \cap w1.bundle[b].linked = {}
        /\ w1.bundle[b].linked \cup N = P
    BY <1>6
  <2> HIDE DEF N
  <2>3. Given(w1, v, b, N)
    BY <1>3, <1>5, <2>1, <2>2, GivenPorts
  <2>4. Shrinks(w, v)
    BY <1>6, <2>3, ShrinksOn DEF Given
  <2>5. SameButPorts(w.bundle[b], v.bundle[b])
    BY <1>7, <2>3 DEF Given, SameButPorts, SameIp
  <2> QED
    BY <2>2, <2>3, <2>4, <2>5 DEF Given, Takes, Ported
<1> QED
  BY <1>9, <1>10

-----------------------------------------------------------------------------
(* A bundle is set *)

\* The ports of bundle b know its router interface, if it has one.
Known(w, b) == ~w.past.failed /\ w.bundle[b].rif.made => HandlesOf(w, b)

\* World v is world w with a LAG for bundle b, if b is to have one.
Lagged(w, v, b) ==
  /\ Fine(v, {b}) /\ Calm(v) /\ Known(v, b) /\ Shrinks(w, v)
  /\ b \in DOMAIN v.bundle /\ SameButLag(w.bundle[b], v.bundle[b])
  /\ v.bundle[b].cached = w.bundle[b].cached /\ v.bundle[b].conf = w.bundle[b].conf

LEMMA LagReconfiguredKeeps ==
  ASSUME NEW w, NEW b \in DOMAIN w.bundle, Fine(w, {b}), Calm(w), Known(w, b),
         ~w.bundle[b].cached, NEW v, v = LagReconfigured(w, b)
  PROVE  Lagged(w, v, b)
<1> DEFINE wF == Failed(w, "lag")
           y  == IF Refuses(w, "lag") THEN wF.bundle[b].lag ELSE "made"
           X  == {b}
<1>1. w \in Worlds
  BY FineIn
<1>2. CASE ~(b \in Lags /\ w.bundle[b].lag = "none")
  <2>1. v = w
    BY <1>2 DEF LagReconfigured
  <2>2. Shrinks(w, w) /\ SameButLag(w.bundle[b], w.bundle[b])
    BY DEF Shrinks, Keeps, SameButLag, SameIp
  <2> QED
    BY <2>1, <2>2 DEF Lagged
<1>3. CASE b \in Lags /\ w.bundle[b].lag = "none"
  <2>1. v = [wF EXCEPT !.bundle[b].lag = y]
    BY <1>3 DEF LagReconfigured
  <2>2. /\ wF \in Worlds /\ wF.bundle = w.bundle /\ wF.rifHandle = w.rifHandle /\ wF.hw = w.hw
        /\ wF.error = w.error /\ wF.crash = w.crash /\ wF.past.doubled = w.past.doubled
        /\ w.past.failed => wF.past.failed
    BY <1>1, FailedDoes
  <2> HIDE DEF wF
  <2>3. y \in {"none", "made", "gone"}
    BY <2>2, WorldParts DEF Records
  <2> HIDE DEF y
  <2>4. /\ Only(wF, v, b) /\ SameButLag(wF.bundle[b], v.bundle[b]) /\ v.bundle[b].lag = y
        /\ v.bundle[b].cached = wF.bundle[b].cached /\ v.bundle[b].conf = wF.bundle[b].conf
        /\ v.rifHandle = wF.rifHandle /\ v.hw = wF.hw /\ v.past = wF.past
        /\ v.error = wF.error /\ v.crash = wF.crash
    BY <2>1, <2>2, <2>3, LagIs
  <2>5. v \in Worlds /\ Only(w, v, b) /\ SameButLag(w.bundle[b], v.bundle[b])
        /\ v.bundle[b].cached = w.bundle[b].cached /\ Idle(v.bundle[b])
    BY <2>2, <2>4 DEF Only, Idle
  <2>6. Fine(v, {b}) /\ (HandlesOf(w, b) => HandlesOf(v, b))
    <3>1. Fine(w, X)
      OBVIOUS
    <3> HIDE DEF X
    <3>2. Fine(v, X) /\ (HandlesOf(w, b) => HandlesOf(v, b))
      BY <2>2, <2>4, <2>5, <3>1, SameButLagKeeps
    <3> QED
      BY <3>2 DEF X
  <2>7. Calm(v) /\ Known(v, b)
    BY <2>2, <2>4, <2>5, <2>6 DEF Calm, Known, SameButLag
  <2>8. Shrinks(w, v)
    BY <2>2, <2>4, <2>5 DEF Shrinks, Keeps, Only, SameButLag
  <2> QED
    BY <2>2, <2>4, <2>5, <2>6, <2>7, <2>8 DEF Lagged, Only
<1> QED
  BY <1>2, <1>3

SameButRif(B, C) ==
  /\ C.cached = B.cached /\ C.conf = B.conf /\ C.linked = B.linked /\ C.lag = B.lag
  /\ SameIp(B, C)

\* World v is world w with perhaps another router interface for bundle b.
RifSet(w, v, b) ==
  /\ Fine(v, {b}) /\ Calm(v) /\ Keeps(w, v) /\ b \in DOMAIN v.bundle
  /\ SameButRif(w.bundle[b], v.bundle[b])
  /\ ~v.past.failed /\ ~v.crash => HandlesOf(v, b)

LEMMA RifCreatedKeeps ==
  ASSUME NEW w, NEW b \in DOMAIN w.bundle, Fine(w, {b}), Calm(w), ~w.bundle[b].cached,
         NEW r \in RifIds, r \notin w.hw.rifs, ~w.bundle[b].rif.made,
         NEW handle \in Bundles \cup Nat \cup {None}, NEW v, v = RifCreated(w, b, handle, r)
  PROVE  RifSet(w, v, b) /\ v.bundle[b].rif.made
<1> DEFINE R == [made |-> TRUE, handle |-> handle,
                 id |-> IF Refuses(w, "rif") THEN None ELSE r, on |-> FALSE]
           B == v.bundle[b]
<1>1. w \in Worlds
  BY FineIn
<1>2. /\ Only(w, v, b) /\ B = [w.bundle[b] EXCEPT !.rif = R]
      /\ v.hw.rifs = w.hw.rifs \cup (IF Refuses(w, "rif") THEN {} ELSE {r})
      /\ v.hw.routes = w.hw.routes /\ v.hw.hosts = w.hw.hosts /\ v.hw.own = w.hw.own
      /\ v.past.doubled = w.past.doubled
      /\ v.past.failed <=> w.past.failed \/ Refuses(w, "rif")
      /\ v.error = w.error /\ v.crash = w.crash
      /\ \A p \in Netdevs :
           v.rifHandle[p] = IF p \in w.bundle[b].linked THEN b ELSE w.rifHandle[p]
  BY <1>1, RifCreatedDoes
<1>3. w.bundle[b] \in Records
  BY <1>1, WorldParts
<1>4. /\ SameButRif(w.bundle[b], B) /\ B.rif = R /\ B.local_routes = w.bundle[b].local_routes
      /\ B.neighbors = w.bundle[b].neighbors
  <2> HIDE DEF R, B
  <2> QED
    BY <1>2, <1>3 DEF Records, SameButRif, SameIp
<1>5. R.made /\ (~Refuses(w, "rif") => R.id = r)
  OBVIOUS
<1> HIDE DEF R, B
<1>6. /\ DOMAIN v.bundle = DOMAIN w.bundle
      /\ \A c \in DOMAIN w.bundle : c # b => v.bundle[c] = w.bundle[c]
  BY <1>2 DEF Only
<1>7. Base(v)
  <2>1. LinkedOnce(v)
    BY <1>2, <1>4, SameLinks DEF Fine, Base, SameButRif, B
  <2>2. Idle(v.bundle[b])
    BY <1>4 DEF Idle, SameButRif, B
  <2> QED
    BY <1>2, <1>4, <2>1, <2>2, BaseKept DEF Fine, SameButRif, B
<1>8. ASSUME ~v.past.failed PROVE Sound(v) /\ HandlesOf(v, b)
  <2>1. Sound(w) /\ v.hw.rifs = w.hw.rifs \cup {r} /\ B.rif.id = r /\ B.rif.made
    BY <1>2, <1>4, <1>5, <1>8 DEF Fine
  <2>2. Sent(B) = {} /\ B.local_routes = {} /\ Sent(w.bundle[b]) = {}
    <3>1. w.bundle[b].local_routes = {}
      BY <2>1 DEF Sound, RoutesRight
    <3>2. Sent(w.bundle[b]) = {}
      BY <2>1 DEF Sound, HostsRight
    <3>3. Sent(B) = Sent(w.bundle[b])
      BY <1>4 DEF Sent
    <3> QED
      BY <1>4, <3>1, <3>2, <3>3
  <2>3. ~B.cached
    BY <1>4 DEF SameButRif
  <2>4. \A c \in DOMAIN w.bundle : w.bundle[c].rif.made => w.bundle[c].rif.id \in w.hw.rifs
    BY <2>1 DEF Sound, RifsRight, RifOf
  <2>5. RifsRight(v)
    <3>1. \A c \in DOMAIN v.bundle : RifOf(v, c)
      BY <1>6, <2>1, <2>3 DEF Sound, RifsRight, RifOf, B
    <3>2. \A c \in DOMAIN v.bundle : \A d \in DOMAIN v.bundle :
            v.bundle[c].rif.made /\ v.bundle[d].rif.made /\ v.bundle[c].rif.id = v.bundle[d].rif.id
              => c = d
      BY <1>6, <2>1, <2>4 DEF Sound, RifsRight, B
    <3>3. \A z \in v.hw.rifs : \E c \in DOMAIN v.bundle :
            v.bundle[c].rif.made /\ v.bundle[c].rif.id = z
      BY <1>6, <2>1 DEF Sound, RifsRight, B
    <3> QED
      BY <3>1, <3>2, <3>3 DEF RifsRight
  <2>6. RoutesRight(v)
    <3>1. w.bundle[b].local_routes = {}
      BY <1>4, <2>2
    <3>2. RoutesRight(w)
      BY <2>1 DEF Sound
    <3>3. \A c \in DOMAIN v.bundle : v.bundle[c].local_routes = w.bundle[c].local_routes
      BY <1>4, <1>6 DEF B
    <3>4. \A c \in DOMAIN v.bundle : c # b => v.bundle[c] = w.bundle[c]
      BY <1>6
    <3> QED
      BY <1>2, <1>6, <3>1, <3>2, <3>3, <3>4 DEF RoutesRight
  <2>7. HostsRight(v)
    BY <1>2, <1>6, <2>1, <2>2 DEF Sound, HostsRight, B
  <2>8. HandlesOf(v, b)
    <3>1. w.bundle[b].linked \subseteq Netdevs
      BY <1>3 DEF Records
    <3> QED
      BY <1>2, <1>4, <2>1, <3>1 DEF HandlesOf, SameButRif, B
  <2> QED
    BY <2>5, <2>6, <2>7, <2>8 DEF Sound
<1>9. ASSUME NEW c \in DOMAIN v.bundle \ {b}
      PROVE  /\ LinksItself(w, c) => LinksItself(v, c)
             /\ HandlesOf(w, c) => HandlesOf(v, c)
  <2>1. v.bundle[c] = w.bundle[c] /\ c \in DOMAIN w.bundle
    BY <1>6
  <2>2. w.bundle[c].linked \cap w.bundle[b].linked = {} /\ w.bundle[c].linked \subseteq Netdevs
    BY <1>1, <2>1, WorldParts DEF Fine, Base, LinkedOnce, Records
  <2> QED
    BY <1>2, <2>1, <2>2 DEF LinksItself, HandlesOf
<1>10. Fine(v, {b})
  BY <1>2, <1>6, <1>7, <1>8, <1>9 DEF Fine
<1>11. Keeps(w, v)
  BY <1>2, <1>4, <1>6 DEF Keeps, SameButRif, B
<1> QED
  BY <1>2, <1>4, <1>5, <1>6, <1>8, <1>10, <1>11 DEF RifSet, Calm, B

LEMMA RifEnabledKeeps ==
  ASSUME NEW w, NEW b \in DOMAIN w.bundle, Fine(w, {b}), Calm(w), ~w.bundle[b].cached,
         ~w.past.failed => w.bundle[b].rif.made /\ (w.crash \/ HandlesOf(w, b)),
         NEW on \in BOOLEAN, NEW v, v = RifEnabled(w, b, on)
  PROVE  RifSet(w, v, b)
<1> DEFINE B == v.bundle[b]
           C == w.bundle[b]
<1>1. w \in Worlds
  BY FineIn
<1>2. /\ Only(w, v, b) /\ B \in {[C EXCEPT !.rif = [C.rif EXCEPT !.on = on]], C}
      /\ v.rifHandle = w.rifHandle /\ v.hw = w.hw /\ v.past = w.past /\ v.crash = w.crash
      /\ C.rif.id \in w.hw.rifs => v.error = w.error
  BY <1>1, RifEnabledDoes
<1>3. C \in Records /\ C.rif \in Rifs
  BY <1>1, WorldParts DEF Records
<1>4. /\ SameButRif(C, B) /\ B.local_routes = C.local_routes /\ B.neighbors = C.neighbors
      /\ B.rif.made = C.rif.made /\ B.rif.id = C.rif.id
  <2> HIDE DEF B, C
  <2> QED
    BY <1>2, <1>3 DEF Records, Rifs, SameButRif, SameIp
<1> HIDE DEF B, C
<1>5. /\ DOMAIN v.bundle = DOMAIN w.bundle
      /\ \A c \in DOMAIN w.bundle : c # b => v.bundle[c] = w.bundle[c]
  BY <1>2 DEF Only
<1>6. Base(v)
  <2>1. LinkedOnce(v)
    BY <1>2, <1>4, SameLinks DEF Fine, Base, SameButRif, B, C
  <2>2. Idle(v.bundle[b])
    BY <1>4 DEF Idle, SameButRif, B, C
  <2> QED
    BY <1>2, <1>4, <2>1, <2>2, BaseKept DEF Fine, SameButRif, B, C
<1>7. ASSUME ~w.past.failed
      PROVE  Sound(v) /\ (w.crash \/ HandlesOf(v, b)) /\ v.error = w.error
  <2>1. Sound(w) /\ C.rif.made /\ (w.crash \/ HandlesOf(w, b))
    BY <1>7 DEF Fine, C
  <2>2. /\ \A c \in DOMAIN w.bundle : v.bundle[c].rif.made = w.bundle[c].rif.made
        /\ \A c \in DOMAIN w.bundle : v.bundle[c].rif.id = w.bundle[c].rif.id
        /\ \A c \in DOMAIN w.bundle : v.bundle[c].local_routes = w.bundle[c].local_routes
        /\ \A c \in DOMAIN w.bundle : Sent(v.bundle[c]) = Sent(w.bundle[c])
        /\ \A c \in DOMAIN w.bundle : v.bundle[c].linked = w.bundle[c].linked
    BY <1>4, <1>5 DEF Sent, SameButRif, B, C
  <2>3. RifsRight(v)
    <3>1. \A c \in DOMAIN v.bundle : RifOf(v, c)
      <4>1. \A c \in DOMAIN w.bundle : RifOf(w, c)
        BY <2>1 DEF Sound, RifsRight
      <4>2. RifOf(v, b)
        BY <1>2, <1>4, <2>1, <4>1 DEF RifOf, SameButRif, B, C
      <4>3. \A c \in DOMAIN v.bundle : c # b => RifOf(v, c)
        BY <1>2, <1>5, <4>1 DEF RifOf
      <4> QED
        BY <4>2, <4>3
    <3> QED
      BY <1>2, <1>5, <2>1, <2>2, <3>1 DEF Sound, RifsRight
  <2>4. RoutesRight(v)
    BY <1>2, <1>5, <2>1, <2>2 DEF Sound, RoutesRight
  <2>5. HostsRight(v)
    BY <1>2, <1>5, <2>1, <2>2 DEF Sound, HostsRight
  <2>6. w.crash \/ HandlesOf(v, b)
    BY <1>2, <2>1, <2>2 DEF HandlesOf
  <2>7. v.error = w.error
    BY <1>2, <2>1 DEF Sound, RifsRight, RifOf, C
  <2> QED
    BY <2>3, <2>4, <2>5, <2>6, <2>7 DEF Sound
<1>8. \A c \in DOMAIN v.bundle \ {b} : /\ LinksItself(w, c) => LinksItself(v, c)
                                       /\ HandlesOf(w, c) => HandlesOf(v, c)
  BY <1>2, <1>5 DEF LinksItself, HandlesOf
<1>9. Fine(v, {b})
  BY <1>2, <1>5, <1>6, <1>7, <1>8 DEF Fine
<1>10. Keeps(w, v)
  BY <1>2, <1>4, <1>5 DEF Keeps, SameButRif, B, C
<1> QED
  BY <1>2, <1>4, <1>5, <1>7, <1>9, <1>10 DEF RifSet, Calm, B, C

\* The same but for what is asked of its handles.
LEMMA CrashKeeps ==
  ASSUME NEW w, NEW b \in DOMAIN w.bundle, Fine(w, {b}), Calm(w),
         NEW v, v = [w EXCEPT !.crash = TRUE]
  PROVE  RifSet(w, v, b) /\ v.crash
<1>1. w \in Worlds
  BY FineIn
<1>2. /\ v \in Worlds /\ v.bundle = w.bundle /\ v.rifHandle = w.rifHandle /\ v.hw = w.hw
      /\ v.past = w.past /\ v.error = w.error /\ v.crash = TRUE
  BY <1>1 DEF Worlds
<1>3. Base(v)
  BY <1>2 DEF Fine, Base, LinkedOnce, OwnIsOwned, AddressesOf, Recorded
<1>4. Sound(w) => Sound(v)
  BY <1>2 DEF Sound, RifsRight, RifOf, RoutesRight, HostsRight
<1>5. Fine(v, {b})
  BY <1>2, <1>3, <1>4 DEF Fine, LinksItself, HandlesOf
<1>6. Keeps(w, v) /\ SameButRif(w.bundle[b], v.bundle[b])
  BY <1>2 DEF Keeps, SameButRif, SameIp
<1> QED
  BY <1>2, <1>5, <1>6 DEF RifSet, Calm

LEMMA RifSetOn ==
  ASSUME NEW u, NEW v, NEW w, NEW b, Keeps(u, v), SameButRif(u.bundle[b], v.bundle[b]),
         RifSet(v, w, b)
  PROVE  RifSet(u, w, b)
BY KeepsOn DEF RifSet, SameButRif, SameIp

LEMMA RifReconfiguredKeeps ==
  ASSUME NEW w, NEW b \in DOMAIN w.bundle, Fine(w, {b}), Calm(w), Ready(w, b),
         ~w.bundle[b].cached, NEW s \in Configs[b], NEW r \in RifIds, r \notin w.hw.rifs,
         NEW v, v = RifReconfigured(w, b, s, r)
  PROVE  RifSet(w, v, b)
<1> DEFINE B      == w.bundle[b]
           handle == IF b \in VlanIntfs THEN s.vlan ELSE b
           moved  == B.rif.made /\ B.rif.handle # handle
           w1     == IF moved THEN RifRemoved(w, b) ELSE w
           w2     == IF w1.error \/ w1.bundle[b].rif.made THEN w1
                     ELSE RifCreated(w1, b, handle, r)
           on     == s.enable
           X      == {b}
<1>1. w \in Worlds /\ b \in Bundles
  BY FineIn, WorldParts
<1>2. handle \in Bundles \cup Nat \cup {None} /\ on \in BOOLEAN
  BY <1>1, SettingsAddresses DEF Settings
<1>3. CASE b \in Lags /\ B.lag # "made"
  <2>1. v = [w EXCEPT !.crash = TRUE]
    BY <1>3 DEF RifReconfigured
  <2> QED
    BY <2>1, CrashKeeps
<1>4. CASE b \in Lags => B.lag = "made"
  <2>1. v = IF w2.error THEN w2 ELSE RifEnabled(w2, b, on)
    BY <1>4 DEF RifReconfigured
  <2> HIDE DEF handle, on
  <2>2. /\ Fine(w1, {b}) /\ Calm(w1) /\ Shrinks(w, w1) /\ b \in DOMAIN w1.bundle
        /\ SameButRif(w.bundle[b], w1.bundle[b])
        /\ ~w1.past.failed /\ w1.bundle[b].rif.made => HandlesOf(w1, b)
    <3>1. CASE moved
      <4>1. w1 = RifRemoved(w, b) /\ Fine(w, X)
        BY <3>1
      <4> HIDE DEF w1, X
      <4>2. /\ Fine(w1, X) /\ Calm(w1) /\ Shrinks(w, w1) /\ Only(w, w1, b)
            /\ w1.bundle[b].linked = w.bundle[b].linked /\ w1.bundle[b].lag = w.bundle[b].lag
            /\ SameIp(w.bundle[b], w1.bundle[b]) /\ w1.past = w.past
            /\ ~w.past.failed => Sent(w1.bundle[b]) = {} /\ w1.bundle[b].rif = NoRif
        BY <4>1, RifRemovedKeeps
      <4> QED
        BY <4>2 DEF X, Shrinks, Keeps, Only, SameButRif, NoRif
    <3>2. CASE ~moved
      <4>1. w1 = w
        BY <3>2
      <4>2. Shrinks(w, w) /\ SameButRif(w.bundle[b], w.bundle[b])
        BY DEF Shrinks, Keeps, SameButRif, SameIp
      <4> QED
        BY <1>4, <4>1, <4>2 DEF Ready
    <3> QED
      BY <3>1, <3>2
  <2> HIDE DEF w1, moved
  <2>3. ~w1.bundle[b].cached /\ r \notin w1.hw.rifs /\ Keeps(w, w1)
    BY <2>2 DEF SameButRif, Shrinks
  <2>4. RifSet(w, w2, b) /\ (~w2.past.failed => w2.bundle[b].rif.made)
    <3>1. CASE ~w1.error /\ ~w1.bundle[b].rif.made
      <4>1. w2 = RifCreated(w1, b, handle, r)
        BY <3>1
      <4> HIDE DEF w2
      <4>2. RifSet(w1, w2, b) /\ w2.bundle[b].rif.made
        BY <1>2, <2>2, <2>3, <3>1, <4>1, RifCreatedKeeps
      <4> QED
        BY <2>2, <2>3, <4>2, RifSetOn
    <3>2. CASE w1.error \/ w1.bundle[b].rif.made
      <4>1. w2 = w1
        BY <3>2
      <4> HIDE DEF w2
      <4> QED
        BY <2>2, <2>3, <3>2, <4>1 DEF RifSet, Calm
    <3> QED
      BY <3>1, <3>2
  <2> HIDE DEF w2
  <2>5. CASE w2.error
    BY <2>1, <2>4, <2>5
  <2>6. CASE ~w2.error
    <3>1. v = RifEnabled(w2, b, on)
      BY <2>1, <2>6
    <3>2. /\ b \in DOMAIN w2.bundle /\ Fine(w2, {b}) /\ Calm(w2) /\ ~w2.bundle[b].cached
          /\ Keeps(w, w2) /\ SameButRif(w.bundle[b], w2.bundle[b])
      BY <2>4 DEF RifSet, SameButRif
    <3>3. ~w2.past.failed => w2.bundle[b].rif.made /\ (w2.crash \/ HandlesOf(w2, b))
      BY <2>4 DEF RifSet
    <3>4. RifSet(w2, v, b)
      BY <1>2, <3>1, <3>2, <3>3, RifEnabledKeeps
    <3> QED
      BY <3>2, <3>4, RifSetOn
  <2> QED
    BY <2>5, <2>6
<1> QED
  BY <1>3, <1>4

\* World v is world w after the settings s of bundle b were applied.
Set(w, v, b, s) ==
  /\ Fine(v, {b}) /\ Keeps(w, v) /\ b \in DOMAIN v.bundle
  /\ v.bundle[b].linked = s.slaves
  /\ ~v.past.failed /\ ~v.crash => HandlesOf(v, b)

LEMMA SlavesAre ==
  ASSUME NEW b \in Bundles, NEW s \in Configs[b]
  PROVE  /\ s.slaves \in SUBSET Netdevs /\ IsFiniteSet(s.slaves)
         /\ b \in Netdevs => s.slaves = {b}
         /\ b \in Lags \/ b \in Netdevs
<1>1. s \in Settings
  BY SettingsAddresses
<1>2. s.slaves \in SUBSET Netdevs
  BY <1>1 DEF Settings
<1>3. b \in Lags \/ b \in Netdevs
  BY DEF Bundles, Netdevs
<1>4. CASE b \in Netdevs
  <2>1. s.slaves = {b}
    BY <1>4, ConfigsAssumption
  <2> QED
    BY <1>2, <1>3, <2>1, FS_Singleton
<1>5. CASE b \in Lags
  <2>1. s.slaves \subseteq Ports
    BY <1>5, ConfigsAssumption
  <2>2. IsFiniteSet(s.slaves)
    BY <2>1, PortsAssumption, FS_Subset
  <2>3. b \notin Netdevs
    BY <1>5, KindsAssumption
  <2> QED
    BY <1>2, <1>3, <2>2, <2>3
<1> QED
  BY <1>3, <1>4, <1>5

\* What a bundle that is about to be set must have.
Settable(w, b, s) ==
  /\ Fine(w, {b}) /\ Calm(w) /\ Known(w, b) /\ b \in DOMAIN w.bundle /\ ~w.bundle[b].cached
  /\ ~w.past.failed /\ w.bundle[b].rif.made => b \in Lags \/ s.slaves \subseteq w.bundle[b].linked

LEMMA AppliedKeeps ==
  ASSUME NEW w, NEW b, NEW s \in Configs[b], Settable(w, b, s), NEW changed,
         NEW r \in RifIds, r \notin w.hw.rifs, NEW v, v = Applied(w, b, s, changed, r)
  PROVE  Set(w, v, b, s)
<1> DEFINE w0 == LagReconfigured(w, b)
           P  == s.slaves
           w1 == PortsReconfigured(w0, b, P)
           w2 == RifReconfigured(w1, b, s, r)
           X  == {b}
<1>1. /\ b \in DOMAIN w.bundle /\ Fine(w, {b}) /\ Calm(w) /\ Known(w, b) /\ ~w.bundle[b].cached
      /\ ~w.past.failed /\ w.bundle[b].rif.made => b \in Lags \/ P \subseteq w.bundle[b].linked
  BY DEF Settable
<1>2. b \in Bundles
  BY <1>1, FineIn, WorldParts
<1>3. P \in SUBSET Netdevs /\ IsFiniteSet(P)
  BY <1>2, SlavesAre
<1>4. v = IF w2.error THEN w2 ELSE IpReconfigured(w2, b, s, changed)
  BY DEF Applied
<1>5. w2 = RifReconfigured(w1, b, s, r)
  OBVIOUS
<1>6. w1 = PortsReconfigured(w0, b, P)
  OBVIOUS
<1>7. w0 = LagReconfigured(w, b)
  OBVIOUS
<1> HIDE DEF w0, w1, w2, P, X
<1>8. Lagged(w, w0, b)
  BY <1>1, <1>7, LagReconfiguredKeeps
<1>9. /\ b \in DOMAIN w0.bundle /\ Fine(w0, {b}) /\ Calm(w0) /\ Known(w0, b)
      /\ ~w0.bundle[b].cached /\ Shrinks(w, w0)
      /\ w0.bundle[b].linked = w.bundle[b].linked /\ w0.bundle[b].rif = w.bundle[b].rif
      /\ w.past.failed => w0.past.failed
  BY <1>1, <1>8 DEF Lagged, SameButLag, Shrinks, Keeps
<1>10. Ready(w0, b)
  BY <1>9 DEF Ready, Known
<1>11. ~w0.past.failed /\ w0.bundle[b].rif.made => b \in Lags \/ P \subseteq w0.bundle[b].linked
  BY <1>1, <1>9
<1>12. Ported(w0, w1, b, P)
  BY <1>3, <1>6, <1>9, <1>10, <1>11, PortsReconfiguredKeeps
<1>13. /\ b \in DOMAIN w1.bundle /\ Fine(w1, {b}) /\ Calm(w1) /\ Ready(w1, b)
       /\ ~w1.bundle[b].cached /\ Shrinks(w, w1) /\ w1.bundle[b].linked = P
  BY <1>9, <1>12, ShrinksOn DEF Ported, SameButPorts
<1>14. r \notin w1.hw.rifs /\ Keeps(w, w1)
  BY <1>13 DEF Shrinks
<1>15. RifSet(w1, w2, b)
  BY <1>5, <1>13, <1>14, RifReconfiguredKeeps
<1>16. /\ b \in DOMAIN w2.bundle /\ Fine(w2, {b}) /\ Keeps(w, w2) /\ ~w2.bundle[b].cached
       /\ w2.bundle[b].linked = P /\ (~w2.past.failed /\ ~w2.crash => HandlesOf(w2, b))
  BY <1>13, <1>14, <1>15, KeepsOn DEF RifSet, SameButRif
<1>17. CASE w2.error
  BY <1>4, <1>16, <1>17 DEF Set, P
<1>18. CASE ~w2.error
  <2>1. v = IpReconfigured(w2, b, s, changed)
    BY <1>4, <1>18
  <2>2. w2 \in Worlds /\ AddressesOf(w2, b) /\ Fine(w2, X)
    BY <1>2, <1>16 DEF Fine, Base, X
  <2>3. IpOnly(w2, v, b) /\ AddressesOf(v, b)
    BY <1>16, <2>1, <2>2, IpReconfiguredDoes
  <2>4. Fine(v, X) /\ Shrinks(w2, v)
    BY <1>16, <2>2, <2>3, IpOnlyKeeps
  <2>5. Keeps(w, v)
    BY <1>16, <2>4, KeepsOn DEF Shrinks
  <2>6. /\ b \in DOMAIN v.bundle /\ v.bundle[b].linked = P /\ v.bundle[b].rif = w2.bundle[b].rif
        /\ v.rifHandle = w2.rifHandle /\ v.past.failed = w2.past.failed /\ (w2.crash => v.crash)
    BY <1>16, <2>3 DEF IpOnly, Only, SameButIp
  <2>7. ~v.past.failed /\ ~v.crash => HandlesOf(v, b)
    BY <1>16, <2>6 DEF HandlesOf
  <2> QED
    BY <2>4, <2>5, <2>6, <2>7 DEF Set, P, X
<1> QED
  BY <1>17, <1>18

\* A bundle that was set is right, unless the process stops.
LEMMA SetIsFine ==
  ASSUME NEW w, NEW v, NEW b \in Bundles, NEW s \in Configs[b], Set(w, v, b, s), ~v.crash
  PROVE  Fine(v, {})
<1>1. LinksItself(v, b)
  BY SlavesAre DEF Set, LinksItself
<1>2. ~v.past.failed => HandlesOf(v, b)
  BY DEF Set
<1>3. Fine(v, {b})
  BY DEF Set
<1> QED
  BY <1>1, <1>2, <1>3 DEF Fine

-----------------------------------------------------------------------------
(* The inductive invariant *)

\* What switchd set, the routes it asked for, and who is cached: bundles X may have
\* no settings yet.
Confs(w, X)    == \A c \in DOMAIN w.bundle \ X : w.bundle[c].conf \in Configs[c]
Asked(w, want) == \A c \in DOMAIN w.bundle : \A x \in w.bundle[c].local_routes : want[x] = c
Lanes(w, on)   == \A c \in DOMAIN w.bundle \cap Netdevs : w.bundle[c].cached <=> ~on[c]

Sure(w, want, on) == Fine(w, {}) /\ Confs(w, {}) /\ Asked(w, want) /\ Lanes(w, on)

Meetings == [intact : BOOLEAN, refused : {"nothing"} \cup Refusable, walked : SUBSET Hosts]

Here == World([intact |-> TRUE, refused |-> "nothing", walked |-> {}])

L3Inv ==
  /\ Sure(Here, asked, lane)
  /\ crashed \in BOOLEAN
  /\ lane \in [Netdevs -> BOOLEAN] /\ asked \in [Prefixes -> Bundles \cup {None}]

\* Bundles that go, and routes that go with them, leave the rest sure.
LEMMA SureKept ==
  ASSUME NEW w, NEW v, NEW want, NEW on, Sure(w, want, on), Fine(v, {}), Keeps(w, v)
  PROVE  Sure(v, want, on)
<1>1. Confs(v, {})
  BY DEF Sure, Keeps, Confs
<1>2. Asked(v, want)
  BY DEF Sure, Keeps, Asked
<1>3. Lanes(v, on)
  BY DEF Sure, Keeps, Lanes
<1> QED
  BY <1>1, <1>2, <1>3 DEF Sure

\* World v is world w but for what this call meets.
SameState(w, v) ==
  v.bundle = w.bundle /\ v.rifHandle = w.rifHandle /\ v.hw = w.hw /\ v.past = w.past

LEMMA SameStateFine ==
  ASSUME NEW w, NEW v \in Worlds, SameState(w, v), Fine(w, {})
  PROVE  Fine(v, {})
<1>1. Base(v)
  BY DEF SameState, Fine, Base, LinkedOnce, OwnIsOwned, AddressesOf
<1>2. ~v.past.failed => Sound(v)
  BY DEF SameState, Fine, Sound, RifsRight, RifOf, RoutesRight, HostsRight
<1> QED
  BY <1>1, <1>2 DEF SameState, Fine, LinksItself, HandlesOf

LEMMA SameStateSure ==
  ASSUME NEW w, NEW v \in Worlds, NEW want, NEW on, SameState(w, v), Sure(w, want, on)
  PROVE  Sure(v, want, on)
<1>1. Fine(v, {})
  BY SameStateFine DEF Sure
<1> QED
  BY <1>1 DEF SameState, Sure, Confs, Asked, Lanes

LEMMA HereIs ==
  /\ Here.bundle = bundle /\ Here.rifHandle = rifHandle /\ Here.hw = hw /\ Here.past = past
  /\ \A m : /\ World(m).bundle = bundle /\ World(m).rifHandle = rifHandle /\ World(m).hw = hw
            /\ World(m).past = past /\ World(m).error = FALSE /\ World(m).crash = FALSE
BY DEF Here, World

Typed ==
  /\ bundle \in Partial(Bundles, Records) /\ hw \in Hardware
  /\ rifHandle \in [Netdevs -> Bundles \cup {None}] /\ past \in History

LEMMA HereTyped == Here \in Worlds <=> Typed
<1> DEFINE P == Partial(Bundles, Records)
           K == Hardware
           Q == History
<1> HIDE DEF P, K, Q
<1>1. Worlds = [bundle : P, rifHandle : [Netdevs -> Bundles \cup {None}], hw : K, past : Q,
                error : BOOLEAN, crash : BOOLEAN, meets : Meetings]
  BY DEF Worlds, Meetings, P, K, Q
<1>2. [intact |-> TRUE, refused |-> "nothing", walked |-> {}] \in Meetings
  BY DEF Meetings
<1>3. Here \in Worlds <=> /\ bundle \in P /\ hw \in K
                          /\ rifHandle \in [Netdevs -> Bundles \cup {None}] /\ past \in Q
  BY <1>1, <1>2 DEF Here, World
<1> QED
  BY <1>3 DEF Typed, P, K, Q

\* A call starts in a world that is sure.
LEMMA WorldIsSure ==
  ASSUME L3Inv, NEW m \in Meetings
  PROVE  /\ World(m) \in Worlds /\ Sure(World(m), asked, lane) /\ Fine(World(m), {})
         /\ Calm(World(m)) /\ \A X : Fine(World(m), X)
<1>1. Here \in Worlds /\ Sure(Here, asked, lane)
  BY DEF L3Inv, Sure, Fine, Base
<1>2. World(m) \in Worlds
  <2> DEFINE P == Partial(Bundles, Records)
             K == Hardware
             Q == History
  <2>1. /\ bundle \in P /\ hw \in K
        /\ rifHandle \in [Netdevs -> Bundles \cup {None}] /\ past \in Q
    BY <1>1, HereTyped DEF Typed
  <2> HIDE DEF P, K, Q
  <2>2. Worlds = [bundle : P, rifHandle : [Netdevs -> Bundles \cup {None}], hw : K, past : Q,
                  error : BOOLEAN, crash : BOOLEAN, meets : Meetings]
    BY DEF Worlds, Meetings, P, K, Q
  <2> QED
    BY <2>1, <2>2 DEF World
<1>3. SameState(Here, World(m))
  BY HereIs DEF SameState
<1>4. Sure(World(m), asked, lane)
  BY <1>1, <1>2, <1>3, SameStateSure
<1>5. Fine(World(m), {})
  BY <1>4 DEF Sure
<1>6. \A X : Fine(World(m), X)
  BY <1>5, FineIn
<1> QED
  BY <1>2, <1>4, <1>5, <1>6, HereIs DEF Calm

LEMMA MetIs ==
  ASSUME NEW X, NEW m \in Met(X)
  PROVE  m \in Meetings
<1>1. m \in [intact : BOOLEAN, refused : {"nothing"} \cup Refusable, walked : SUBSET Hosts]
  BY DEF Met
<1> QED
  BY <1>1 DEF Meetings

IsNothing ==
  /\ bundle = [b \in {} |-> FreshBundle] /\ rifHandle = [p \in Netdevs |-> None]
  /\ hw = [rifs |-> {}, routes |-> [x \in {} |-> 0], hosts |-> {}, own |-> {}]
  /\ past = [failed |-> FALSE, doubled |-> {}]

LEMMA NothingIsSure == IsNothing => Sure(Here, asked, lane)
<1> SUFFICES ASSUME IsNothing PROVE Sure(Here, asked, lane)
  OBVIOUS
<1>1. DOMAIN bundle = {} /\ hw.rifs = {} /\ hw.hosts = {} /\ hw.own = {} /\ DOMAIN hw.routes = {}
      /\ past.doubled = {}
  BY DEF IsNothing
<1>2. Here \in Worlds
  <2>1. bundle \in Partial(Bundles, Records)
    <3>1. {} \in SUBSET Bundles /\ bundle \in [{} -> Records]
      BY DEF IsNothing
    <3> QED
      BY <3>1, PartialIntro
  <2>2. hw \in Hardware
    <3> DEFINE R == [refer : Nat \ {0}, rif : RifIds \cup {None}]
    <3>1. {} \in SUBSET Prefixes /\ hw.routes \in [{} -> R]
      BY DEF IsNothing
    <3> HIDE DEF R
    <3>2. hw.routes \in Partial(Prefixes, R)
      BY <3>1, PartialIntro
    <3> DEFINE P == Partial(Prefixes, R)
    <3> HIDE DEF P
    <3>3. hw \in [rifs : SUBSET RifIds, routes : P, hosts : SUBSET (Hosts \X RifIds),
                  own : SUBSET Addresses]
      BY <3>2 DEF IsNothing, P
    <3> QED
      BY <3>3 DEF Hardware, P, R
  <2>3. rifHandle \in [Netdevs -> Bundles \cup {None}] /\ past \in History
    BY DEF IsNothing, History
  <2> QED
    BY <2>1, <2>2, <2>3, HereTyped DEF Typed
<1>3. Base(Here)
  BY <1>1, <1>2, HereIs DEF Base, LinkedOnce, OwnIsOwned, AddressesOf
<1>4. Sound(Here)
  BY <1>1, HereIs DEF Sound, RifsRight, RoutesRight, HostsRight
<1>5. Fine(Here, {})
  BY <1>1, <1>3, <1>4, HereIs DEF Fine
<1> QED
  BY <1>1, <1>5, HereIs DEF Sure, Confs, Asked, Lanes

\* A process that stopped has nothing.
LEMMA StopsKeeps ==
  ASSUME Stops, lane' \in [Netdevs -> BOOLEAN],
         asked' \in [Prefixes -> Bundles \cup {None}]
  PROVE  L3Inv'
<1>1. /\ bundle' = [b \in {} |-> FreshBundle] /\ rifHandle' = [p \in Netdevs |-> None]
      /\ hw' = [rifs |-> {}, routes |-> [x \in {} |-> 0], hosts |-> {}, own |-> {}]
      /\ past' = [failed |-> FALSE, doubled |-> {}] /\ crashed' = TRUE
  BY DEF Stops, Becomes, Nothing
<1>2. IsNothing'
  BY <1>1 DEF IsNothing
<1>3. Sure(Here, asked, lane)'
  BY <1>2, NothingIsSure, PTL
<1> QED
  BY <1>1, <1>3 DEF L3Inv

\* A call that goes through leaves what it became.
LEMMA DoesKeeps ==
  ASSUME crashed \in BOOLEAN, NEW v, Does(v), lane' \in [Netdevs -> BOOLEAN],
         asked' \in [Prefixes -> Bundles \cup {None}],
         v.crash \/ Sure(v, asked', lane')
  PROVE  L3Inv'
<1>1. CASE v.crash
  BY <1>1, StopsKeeps DEF Does
<1>2. CASE ~v.crash
  <2>1. Becomes(v) /\ crashed' \in BOOLEAN /\ Sure(v, asked', lane')
    BY <1>2 DEF Does
  <2>2. SameState(v, Here')
    BY <2>1 DEF Becomes, SameState, Here, World
  <2>3. Here' \in Worlds
    <3>1. v.bundle \in Partial(Bundles, Records) /\ v.hw \in Hardware
          /\ v.rifHandle \in [Netdevs -> Bundles \cup {None}] /\ v.past \in History
      BY <2>1, WorldParts DEF Sure, Fine, Base
    <3>2. Typed'
      BY <2>1, <3>1 DEF Becomes, Typed
    <3>3. (Here \in Worlds)'
      BY <3>2, HereTyped, PTL
    <3> QED
      BY <3>3
  <2>4. Sure(Here', asked', lane')
    BY <2>1, <2>2, <2>3, SameStateSure
  <2> QED
    BY <2>1, <2>4 DEF L3Inv
<1> QED
  BY <1>1, <1>2

-----------------------------------------------------------------------------
(* The calls *)

LEMMA KeptIs ==
  ASSUME NEW u \in Worlds, NEW b \in DOMAIN u.bundle, NEW s \in Settings,
         NEW changed \in SUBSET Changes, NEW v, v = Kept(u, b, s, changed)
  PROVE  /\ Only(u, v, b) /\ SameButLag(u.bundle[b], v.bundle[b]) /\ v.bundle[b].conf = s
         /\ v.bundle[b].cached = u.bundle[b].cached /\ v.bundle[b].lag = u.bundle[b].lag
         /\ v.rifHandle = u.rifHandle /\ v.hw = u.hw /\ v.past = u.past
         /\ v.error = u.error /\ v.crash = u.crash
<1> DEFINE B == [u.bundle[b] EXCEPT !.conf = s, !.changed = changed]
<1>1. u.bundle[b] \in Records
  BY WorldParts
<1>2. B \in Records /\ SameButLag(u.bundle[b], B) /\ B.conf = s /\ B.lag = u.bundle[b].lag
      /\ B.cached = u.bundle[b].cached
  BY <1>1 DEF Records, SameButLag, SameIp
<1>3. v = Put(u, b, B, u.rifHandle, u.hw, u.past, u.error, u.crash)
  <2>1. [u.bundle EXCEPT ![b] = B]
          = [u.bundle EXCEPT ![b].conf = s, ![b].changed = changed]
    BY WorldParts DEF Records
  <2>2. v = [u EXCEPT !.bundle = [u.bundle EXCEPT ![b].conf = s, ![b].changed = changed]]
    BY DEF Kept, Worlds
  <2> HIDE DEF B
  <2> QED
    BY <2>1, <2>2 DEF Put, Worlds
<1> HIDE DEF B
<1>4. IsPut(u, v, b, B, u.rifHandle, u.hw, u.past, u.error, u.crash)
  BY <1>2, <1>3, WorldParts, PutIs
<1> QED
  BY <1>2, <1>4 DEF IsPut

LEMMA KeptKeeps ==
  ASSUME NEW u, Fine(u, {}), NEW b \in DOMAIN u.bundle, NEW s \in Configs[b],
         NEW changed \in SUBSET Changes, NEW want, NEW on, NEW v, v = Kept(u, b, s, changed),
         Confs(u, {b}), Asked(u, want), Lanes(u, on)
  PROVE  Sure(v, want, on)
<1> DEFINE X == {}
<1>1. u \in Worlds /\ b \in Bundles /\ s \in Settings
  BY FineIn, WorldParts, SettingsAddresses
<1>2. /\ Only(u, v, b) /\ SameButLag(u.bundle[b], v.bundle[b]) /\ v.bundle[b].conf = s
      /\ v.bundle[b].cached = u.bundle[b].cached /\ v.bundle[b].lag = u.bundle[b].lag
      /\ v.rifHandle = u.rifHandle /\ v.hw = u.hw /\ v.past = u.past
  BY <1>1, KeptIs
<1>3. v \in Worlds /\ Idle(v.bundle[b])
  BY <1>2 DEF Only, Idle, SameButLag, SameIp, Fine, Base
<1>4. Fine(u, X)
  OBVIOUS
<1> HIDE DEF X
<1>5. Fine(v, X)
  BY <1>2, <1>3, <1>4, SameButLagKeeps
<1>6. Confs(v, {}) /\ Asked(v, want) /\ Lanes(v, on)
  BY <1>2 DEF Only, SameButLag, Confs, Asked, Lanes
<1> QED
  BY <1>5, <1>6 DEF Sure, X

\* A bundle that is set: at once, or when it is enabled.
LEMMA SettingKeeps ==
  ASSUME NEW w, NEW b, NEW s \in Configs[b], NEW want, NEW on, NEW u, NEW v,
         NEW changed \in SUBSET Changes,
         Confs(w, {b}), Asked(w, want), Lanes(w, on), Set(w, u, b, s), b \in Bundles,
         v = Kept(u, b, s, changed)
  PROVE  v.crash \/ Sure(v, want, on)
<1>1. Confs(u, {b}) /\ Asked(u, want) /\ Lanes(u, on)
  BY DEF Set, Keeps, Confs, Asked, Lanes
<1>2. u \in Worlds /\ b \in DOMAIN u.bundle /\ s \in Settings
  BY FineIn, SettingsAddresses DEF Set
<1>3. v.crash = u.crash
  BY <1>2, KeptIs
<1>4. CASE ~u.crash
  <2>1. Fine(u, {})
    BY <1>4, SetIsFine
  <2> QED
    BY <1>1, <1>2, <2>1, KeptKeeps
<1> QED
  BY <1>3, <1>4

\* World v is world w with bundle b cached or no longer cached.
CachedAs(w, v, b, y) ==
  /\ Only(w, v, b) /\ SameButLag(w.bundle[b], v.bundle[b]) /\ v.bundle[b].conf = w.bundle[b].conf
  /\ v.bundle[b].cached = y /\ v.bundle[b].lag = w.bundle[b].lag
  /\ v.rifHandle = w.rifHandle /\ v.hw = w.hw /\ v.past = w.past
  /\ v.error = w.error /\ v.crash = w.crash

LEMMA CachedIs ==
  ASSUME NEW w \in Worlds, NEW b \in DOMAIN w.bundle, NEW y \in BOOLEAN,
         NEW v, v = [w EXCEPT !.bundle[b].cached = y]
  PROVE  CachedAs(w, v, b, y)
<1> DEFINE B == [w.bundle[b] EXCEPT !.cached = y]
<1>1. w.bundle[b] \in Records
  BY WorldParts
<1>2. B \in Records /\ SameButLag(w.bundle[b], B) /\ B.conf = w.bundle[b].conf
      /\ B.lag = w.bundle[b].lag /\ B.cached = y
  BY <1>1 DEF Records, SameButLag, SameIp
<1>3. v = Put(w, b, B, w.rifHandle, w.hw, w.past, w.error, w.crash)
  BY DEF Put, Worlds
<1>4. B \in Records
  BY <1>2
<1> HIDE DEF B
<1>5. IsPut(w, v, b, B, w.rifHandle, w.hw, w.past, w.error, w.crash)
  BY <1>3, <1>4, WorldParts, PutIs
<1> QED
  BY <1>2, <1>5 DEF IsPut, CachedAs

LEMMA CachedAsKeeps ==
  ASSUME NEW w, NEW v, NEW b \in DOMAIN w.bundle, NEW y, Fine(w, {b}), CachedAs(w, v, b, y),
         Idle(v.bundle[b]), y /\ ~w.past.failed => ~w.bundle[b].rif.made
  PROVE  Fine(v, {b})
<1>1. /\ Only(w, v, b) /\ v.hw = w.hw /\ SameIp(w.bundle[b], v.bundle[b])
      /\ v.bundle[b].linked = w.bundle[b].linked /\ v.past = w.past
      /\ v.bundle[b].rif = w.bundle[b].rif /\ v.bundle[b].neighbors = w.bundle[b].neighbors
      /\ v.bundle[b].local_routes = w.bundle[b].local_routes /\ v.bundle[b].cached = y
  BY DEF CachedAs, SameButLag
<1>2. LinkedOnce(v)
  BY <1>1, SameLinks DEF Fine, Base
<1>3. Base(v)
  BY <1>1, <1>2, BaseKept DEF Fine
<1>4. ~w.past.failed => Sound(v)
  BY <1>1, SoundKept DEF Fine
<1>5. \A c \in DOMAIN v.bundle \ {b} : /\ LinksItself(w, c) => LinksItself(v, c)
                                       /\ HandlesOf(w, c) => HandlesOf(v, c)
  BY DEF CachedAs, Only, LinksItself, HandlesOf
<1> QED
  BY <1>1, <1>3, <1>4, <1>5 DEF Fine, Only

\* World v is world w with a new bundle b.
Born(w, v, b, y) ==
  /\ v \in Worlds /\ DOMAIN v.bundle = DOMAIN w.bundle \cup {b}
  /\ v.bundle[b] = [FreshBundle EXCEPT !.cached = y]
  /\ \A c \in DOMAIN w.bundle : c # b => v.bundle[c] = w.bundle[c]
  /\ v.rifHandle = w.rifHandle /\ v.hw = w.hw /\ v.past = w.past
  /\ v.error = w.error /\ v.crash = w.crash

LEMMA BornIs ==
  ASSUME NEW w \in Worlds, NEW b \in Bundles, NEW y \in BOOLEAN,
         NEW v, v = [w EXCEPT !.bundle = With(@, b, [FreshBundle EXCEPT !.cached = y])]
  PROVE  Born(w, v, b, y)
<1> DEFINE B == [FreshBundle EXCEPT !.cached = y]
           f == w.bundle
           g == With(f, b, B)
<1>1. B \in Records
  <2> DEFINE N == Partial(Hosts, {"mac", "empty"})
             n == [z \in {} |-> "mac"]
  <2>1. n \in N
    <3> DEFINE M == {"mac", "empty"}
    <3>1. {} \in SUBSET Hosts /\ n \in [{} -> M]
      OBVIOUS
    <3> HIDE DEF M, n
    <3> QED
      BY <3>1, PartialIntro DEF M
  <2>2. NoRif \in Rifs
    BY DEF NoRif, Rifs
  <2>3. FreshBundle = [cached |-> FALSE, conf |-> None, changed |-> {}, linked |-> {},
                       lag |-> "none", rif |-> NoRif, ipv4_primary |-> None, freed |-> FALSE,
                       ipv4_secondary |-> {}, local_routes |-> {}, neighbors |-> n]
    BY DEF FreshBundle
  <2> HIDE DEF N, n
  <2>4. FreshBundle \in Records
    BY <2>1, <2>2, <2>3 DEF Records, N
  <2> QED
    BY <2>4 DEF Records
<1>2. f \in Partial(Bundles, Records)
  BY WorldParts
<1>3. g = With(f, b, B) /\ v = [w EXCEPT !.bundle = g]
  OBVIOUS
<1> HIDE DEF B, f, g
<1>4. /\ g \in Partial(Bundles, Records) /\ DOMAIN g = DOMAIN f \cup {b}
      /\ g[b] = B /\ \A z \in DOMAIN f : z # b => g[z] = f[z]
  <2> DEFINE A == Bundles
             R == Records
  <2>1. f \in Partial(A, R) /\ b \in A /\ B \in R
    BY <1>1, <1>2
  <2> HIDE DEF A, R
  <2>2. IsWith(f, b, B, g, A, R)
    BY <1>3, <2>1, WithIs
  <2> QED
    BY <2>2 DEF A, R, IsWith
<1>5. v \in Worlds
  BY <1>3, <1>4 DEF Worlds
<1> QED
  BY <1>3, <1>4, <1>5 DEF Born, Worlds, f, B

Newborn(w, v, b, y) ==
  /\ Fine(v, {b}) /\ Calm(v) /\ (y => Fine(v, {})) /\ b \in DOMAIN v.bundle
  /\ v.bundle[b].cached = y /\ v.bundle[b].local_routes = {} /\ ~v.bundle[b].rif.made
  /\ v.hw = w.hw

LEMMA BornKeeps ==
  ASSUME NEW w, Fine(w, {}), Calm(w), NEW b \in Bundles, b \notin DOMAIN w.bundle,
         NEW y \in BOOLEAN, NEW v, Born(w, v, b, y)
  PROVE  Newborn(w, v, b, y)
<1> DEFINE B == v.bundle[b]
<1>1. /\ B.cached = y /\ B.linked = {} /\ B.rif = NoRif /\ B.ipv4_primary = None
      /\ B.freed = FALSE /\ B.ipv4_secondary = {} /\ B.local_routes = {}
      /\ B.lag = "none" /\ DOMAIN B.neighbors = {}
  BY DEF Born, FreshBundle
<1>2. /\ v \in Worlds /\ DOMAIN v.bundle = DOMAIN w.bundle \cup {b} /\ v.hw = w.hw
      /\ \A c \in DOMAIN w.bundle : v.bundle[c] = w.bundle[c]
      /\ v.rifHandle = w.rifHandle /\ v.past = w.past /\ v.error = w.error
  BY DEF Born
<1>3. Sent(B) = {} /\ ~B.rif.made
  BY <1>1 DEF Sent, NoRif
<1> HIDE DEF B
<1>4. LinkedOnce(v)
  <2>1. LinkedOnce(w)
    BY DEF Fine, Base
  <2>2. v.bundle[b].linked = {}
    BY <1>1 DEF B
  <2> QED
    BY <1>2, <2>1, <2>2 DEF LinkedOnce
<1>5. OwnIsOwned(v) /\ \A c \in DOMAIN v.bundle : Idle(v.bundle[c])
  <2>1. OwnIsOwned(w) /\ \A c \in DOMAIN w.bundle : Idle(w.bundle[c])
    BY DEF Fine, Base
  <2>2. Idle(v.bundle[b])
    BY <1>1 DEF Idle, B
  <2> QED
    BY <1>2, <2>1, <2>2 DEF OwnIsOwned
<1>6. ASSUME NEW c \in Bundles PROVE AddressesOf(v, c)
  <2>1. AddressesOf(w, c)
    BY DEF Fine, Base
  <2>2. CASE c # b
    BY <1>2, <2>1, <2>2 DEF AddressesOf
  <2>3. CASE c = b
    <3>1. \A a \in OwnOf(b) : ~Recorded(v.bundle[b], a)
      BY <1>1 DEF Recorded, OwnOf, B
    <3>2. \A a \in OwnOf(b) \ w.past.doubled : a \notin w.hw.own
      BY <2>1, <2>3 DEF AddressesOf
    <3> QED
      BY <1>1, <1>2, <2>3, <3>1, <3>2 DEF AddressesOf, B
  <2> QED
    BY <2>2, <2>3
<1>7. Base(v)
  BY <1>2, <1>4, <1>5, <1>6 DEF Base
<1>8. ~v.past.failed => Sound(v)
  <2> SUFFICES ASSUME ~v.past.failed PROVE Sound(v)
    OBVIOUS
  <2>1. Sound(w)
    BY <1>2 DEF Fine
  <2>2. RifsRight(v)
    BY <1>1, <1>2, <1>3, <2>1 DEF Sound, RifsRight, RifOf, B
  <2>3. RoutesRight(v)
    BY <1>1, <1>2, <2>1 DEF Sound, RoutesRight, B
  <2>4. HostsRight(v)
    BY <1>2, <1>3, <2>1 DEF Sound, HostsRight, B
  <2> QED
    BY <2>2, <2>3, <2>4 DEF Sound
<1>9. Fine(v, {b})
  BY <1>2, <1>7, <1>8 DEF Fine, LinksItself, HandlesOf
<1>10. HandlesOf(v, b) /\ (y => LinksItself(v, b))
  BY <1>1 DEF HandlesOf, LinksItself, B
<1>11. y => Fine(v, {})
  BY <1>9, <1>10 DEF Fine
<1>12. Calm(v)
  BY <1>2 DEF Calm
<1> QED
  BY <1>1, <1>2, <1>3, <1>9, <1>11, <1>12 DEF B, Newborn

LEMMA BundleSetKeeps ==
  ASSUME L3Inv, NEW b \in Bundles, NEW s \in Configs[b], BundleSet(b, s)
  PROVE  L3Inv'
<1>1. PICK m \in Met({"rif", "lag"}), r \in NewRifs :
        LET w0      == World(m)
            changed == ChangesFrom(b, s)
            w1      == IF b \in DOMAIN bundle THEN w0
                       ELSE [w0 EXCEPT !.bundle = With(@, b, [FreshBundle EXCEPT
                                                                !.cached = ~IsActive(b)])]
            w2      == IF w1.bundle[b].cached THEN w1 ELSE Applied(w1, b, s, changed, r)
        IN /\ Does(Kept(w2, b, s, changed))
           /\ UNCHANGED <<lane, asked>>
  BY DEF BundleSet
<1> DEFINE w0      == World(m)
           changed == ChangesFrom(b, s)
           y       == ~IsActive(b)
           w1      == IF b \in DOMAIN bundle THEN w0
                      ELSE [w0 EXCEPT !.bundle = With(@, b, [FreshBundle EXCEPT !.cached = y])]
           w2      == IF w1.bundle[b].cached THEN w1 ELSE Applied(w1, b, s, changed, r)
           v       == Kept(w2, b, s, changed)
<1>2. Does(v) /\ lane' = lane /\ asked' = asked
  BY <1>1
<1>3. v = Kept(w2, b, s, changed)
  OBVIOUS
<1>4. changed \in SUBSET Changes
  BY DEF ChangesFrom
<1>5. w2 = IF w1.bundle[b].cached THEN w1 ELSE Applied(w1, b, s, changed, r)
  OBVIOUS
<1>6. /\ b \in DOMAIN bundle => w1 = w0
      /\ b \notin DOMAIN bundle =>
           w1 = [w0 EXCEPT !.bundle = With(@, b, [FreshBundle EXCEPT !.cached = y])]
  OBVIOUS
<1>7. y \in BOOLEAN /\ r \in RifIds /\ r \notin hw.rifs
  BY DEF IsActive, NewRifs
<1>8. m \in Meetings
  BY MetIs
<1>9. y <=> ~(b \in Lags \/ lane[b])
  BY DEF IsActive
<1> HIDE DEF y, w1, w2, v, changed
<1>10. /\ w0 \in Worlds /\ Sure(w0, asked, lane) /\ Fine(w0, {}) /\ Fine(w0, {b}) /\ Calm(w0)
       /\ w0.bundle = bundle /\ w0.hw = hw
  BY <1>8, WorldIsSure, HereIs
<1> HIDE DEF w0
<1>11. /\ Fine(w1, {b}) /\ b \in DOMAIN w1.bundle
       /\ Confs(w1, {b}) /\ Asked(w1, asked) /\ Lanes(w1, lane)
       /\ w1.bundle[b].cached => Fine(w1, {})
       /\ ~w1.bundle[b].cached => Settable(w1, b, s)
       /\ w1.hw = hw
  <2>1. CASE b \in DOMAIN bundle
    <3>1. w1 = w0
      BY <1>6, <2>1
    <3>2. Confs(w1, {b}) /\ Asked(w1, asked) /\ Lanes(w1, lane)
      BY <1>10, <3>1 DEF Sure, Confs
    <3>3. Known(w1, b)
      BY <1>10, <2>1, <3>1 DEF Known, Fine
    <3>4. ~w1.bundle[b].cached => b \in Lags \/ s.slaves \subseteq w1.bundle[b].linked
      <4>1. LinksItself(w1, b)
        BY <1>10, <2>1, <3>1 DEF Fine
      <4> QED
        BY <4>1, SlavesAre DEF LinksItself
    <3>5. ~w1.bundle[b].cached => Settable(w1, b, s)
      BY <1>10, <2>1, <3>1, <3>3, <3>4 DEF Settable
    <3> QED
      BY <1>10, <2>1, <3>1, <3>2, <3>5
  <2>2. CASE b \notin DOMAIN bundle
    <3>1. Born(w0, w1, b, y)
      BY <1>6, <1>7, <1>10, <2>2, BornIs
    <3>2. Newborn(w0, w1, b, y)
      BY <1>7, <1>10, <2>2, <3>1, BornKeeps
    <3>3. Confs(w1, {b}) /\ Asked(w1, asked)
      BY <1>10, <3>1, <3>2 DEF Sure, Confs, Asked, Born, Newborn
    <3>4. Lanes(w1, lane)
      <4>1. b \in Netdevs => b \notin Lags
        BY KindsAssumption
      <4> QED
        BY <1>9, <1>10, <3>1, <3>2, <4>1 DEF Sure, Lanes, Born, Newborn
    <3>5. ~y => Settable(w1, b, s)
      BY <3>2 DEF Settable, Known, Newborn
    <3> QED
      BY <1>10, <3>2, <3>3, <3>4, <3>5 DEF Newborn
  <2> QED
    BY <2>1, <2>2
<1>12. v.crash \/ Sure(v, asked, lane)
  <2>1. CASE w1.bundle[b].cached
    <3>1. v = Kept(w1, b, s, changed)
      BY <1>3, <1>5, <2>1
    <3> QED
      BY <1>4, <1>11, <2>1, <3>1, KeptKeeps
  <2>2. CASE ~w1.bundle[b].cached
    <3>1. w2 = Applied(w1, b, s, changed, r) /\ r \notin w1.hw.rifs
      BY <1>5, <1>7, <1>11, <2>2
    <3>2. Set(w1, w2, b, s)
      BY <1>7, <1>11, <2>2, <3>1, AppliedKeeps
    <3> QED
      BY <1>3, <1>4, <1>11, <3>2, SettingKeeps
  <2> QED
    BY <2>1, <2>2
<1> QED
  BY <1>2, <1>12, DoesKeeps DEF L3Inv

LEMMA BundleDestroyKeeps ==
  ASSUME L3Inv, NEW b \in Bundles, BundleDestroy(b)
  PROVE  L3Inv'
<1>1. PICK m \in Met({}) : Does(Destroyed(World(m), b))
  BY DEF BundleDestroy
<1> DEFINE w == World(m)
           v == Destroyed(w, b)
           X == {}
<1>2. v = Destroyed(w, b) /\ Does(v) /\ lane' = lane /\ asked' = asked
  BY <1>1 DEF BundleDestroy
<1>3. Sure(w, asked, lane) /\ Fine(w, X \cup {b}) /\ b \in DOMAIN w.bundle
  BY WorldIsSure, MetIs, HereIs DEF BundleDestroy
<1> HIDE DEF v, w, X
<1>4. Gone(w, v, b, X)
  BY <1>2, <1>3, DestroyedKeeps
<1>5. Sure(v, asked, lane)
  BY <1>3, <1>4, SureKept DEF Gone, Shrinks, X
<1> QED
  BY <1>2, <1>5, DoesKeeps DEF L3Inv

LEMMA BundleRemoveKeeps ==
  ASSUME L3Inv, NEW p \in Netdevs, BundleRemove(p)
  PROVE  L3Inv'
<1>1. PICK m \in Met({}), b \in Links(bundle, p) : Does(Removed(World(m), b, p))
  BY DEF BundleRemove
<1> DEFINE w == World(m)
           v == Removed(w, b, p)
           X == {}
<1>2. v = Removed(w, b, p) /\ Does(v) /\ lane' = lane /\ asked' = asked
  BY <1>1 DEF BundleRemove
<1>3. Sure(w, asked, lane) /\ Fine(w, X) /\ b \in DOMAIN w.bundle \ X
      /\ p \in w.bundle[b].linked
  BY WorldIsSure, MetIs, HereIs DEF Links
<1> HIDE DEF v, w, X
<1>4. Left(w, v, b, p, X)
  BY <1>2, <1>3, RemovedKeeps
<1>5. Sure(v, asked, lane)
  BY <1>3, <1>4, SureKept DEF Left, Shrinks, X
<1> QED
  BY <1>2, <1>5, DoesKeeps DEF L3Inv

LEMMA BundleDisableKeeps ==
  ASSUME L3Inv, NEW p \in Neighbors, BundleDisable(p)
  PROVE  L3Inv'
<1> DEFINE L == Links(bundle, p)
           v(m) == IF L = {} THEN World(m)
                   ELSE LET b == CHOOSE c \in L : TRUE
                        IN [Stripped(World(m), b) EXCEPT !.bundle[b].cached = TRUE]
<1>1. PICK m \in Met({}) : Does(v(m))
  BY DEF BundleDisable
<1>2. /\ p \in Netdevs /\ lane[p] /\ lane' = [lane EXCEPT ![p] = FALSE]
      /\ lane' \in [Netdevs -> BOOLEAN] /\ asked' = asked
  BY KindsAssumption DEF BundleDisable, Netdevs, L3Inv
<1> DEFINE w == World(m)
<1>3. /\ w \in Worlds /\ Sure(w, asked, lane) /\ Fine(w, {}) /\ w.bundle = bundle
  BY MetIs, WorldIsSure, HereIs
<1>4. \A c : c \in L <=> c \in DOMAIN w.bundle /\ p \in w.bundle[c].linked
  BY <1>3 DEF Links
<1>5. p \in DOMAIN w.bundle => ~w.bundle[p].cached /\ w.bundle[p].linked = {p}
  BY <1>2, <1>3 DEF Sure, Lanes, Fine, LinksItself
<1>6. lane'[p] = FALSE /\ \A c \in Netdevs : c # p => lane'[c] = lane[c]
  BY <1>2 DEF L3Inv
<1>7. CASE L = {}
  <2>1. v(m) = w
    BY <1>7
  <2>2. p \notin DOMAIN w.bundle
    BY <1>4, <1>5, <1>7
  <2> HIDE DEF w
  <2>3. Sure(w, asked, lane')
    BY <1>3, <1>6, <2>2 DEF Sure, Lanes
  <2> QED
    BY <1>1, <1>2, <2>1, <2>3, DoesKeeps DEF L3Inv
<1>8. CASE L # {}
  <2> DEFINE b == CHOOSE c \in L : TRUE
             u == Stripped(w, b)
             z == [u EXCEPT !.bundle[b].cached = TRUE]
             X == {}
             Y == {b}
  <2>1. v(m) = z /\ b \in L
    BY <1>8
  <2>2. b \in DOMAIN w.bundle /\ p \in w.bundle[b].linked
    BY <1>4, <2>1
  <2>3. ~w.bundle[b].cached
    BY <1>3, <2>2 DEF Fine, Base, Idle
  <2>4. p \in DOMAIN w.bundle => b = p
    BY <1>3, <1>5, <2>2 DEF Fine, Base, LinkedOnce
  <2>5. b \in Netdevs => b = p
    BY <1>3, <2>2, <2>3 DEF Fine, LinksItself
  <2> HIDE DEF w, b
  <2>6. Emptied(w, u, b, X)
    <3>1. Fine(w, X) /\ u = Stripped(w, b)
      BY <1>3
    <3> HIDE DEF X, u
    <3> QED
      BY <2>2, <3>1, StrippedKeeps
  <2>7. z = [u EXCEPT !.bundle[b].cached = TRUE]
    OBVIOUS
  <2> HIDE DEF u, z
  <2>8. /\ Fine(u, X \cup {b}) /\ Shrinks(w, u) /\ Only(w, u, b) /\ u.bundle[b].linked = {}
        /\ u.bundle[b].lag # "made" /\ Hollow(u, b)
    BY <2>6 DEF Emptied
  <2>9. Fine(u, {b}) /\ u \in Worlds /\ b \in DOMAIN u.bundle /\ DOMAIN u.bundle = DOMAIN w.bundle
    BY <2>2, <2>8 DEF X, Fine, Base, Only
  <2>10. CachedAs(u, z, b, TRUE)
    BY <2>7, <2>9, CachedIs
  <2>11. Idle(z.bundle[b])
    BY <2>8, <2>10 DEF CachedAs, Idle, Hollow, SameButLag, SameIp
  <2>12. ~u.past.failed => ~u.bundle[b].rif.made
    BY <2>8 DEF Hollow
  <2>13. Fine(z, {b})
    BY <2>9, <2>10, <2>11, <2>12, CachedAsKeeps
  <2>14. LinksItself(z, b) /\ HandlesOf(z, b)
    BY <2>8, <2>10 DEF CachedAs, LinksItself, HandlesOf, SameButLag
  <2>15. Fine(z, {})
    BY <2>13, <2>14 DEF Fine
  <2>16. Confs(z, {}) /\ Asked(z, asked)
    BY <1>3, <2>8, <2>9, <2>10 DEF Sure, Confs, Asked, Shrinks, Keeps, CachedAs, Only, SameButLag
  <2>17. Lanes(z, lane')
    <3>1. \A c \in DOMAIN z.bundle : c # b => z.bundle[c] = w.bundle[c]
      BY <2>8, <2>10 DEF CachedAs, Only
    <3>2. z.bundle[b].cached = TRUE /\ DOMAIN z.bundle = DOMAIN w.bundle
      BY <2>9, <2>10 DEF CachedAs, Only
    <3> QED
      BY <1>3, <1>6, <2>4, <2>5, <3>1, <3>2 DEF Sure, Lanes
  <2>18. Sure(z, asked, lane')
    BY <2>15, <2>16, <2>17 DEF Sure
  <2> QED
    BY <1>1, <1>2, <2>1, <2>18, DoesKeeps DEF L3Inv
<1> QED
  BY <1>7, <1>8

\* No local routes are added to hardware h.
LEMMA NoRoutesAdded ==
  ASSUME NEW h \in Hardware, NEW r
  PROVE  RoutesAdded(h, {}, r) = h
<1>1. h.routes \in [DOMAIN h.routes -> RouteEntries]
  BY PartialElim DEF Hardware, RouteEntries
<1>2. RoutesAdded(h, {}, r) = [h EXCEPT !.routes = h.routes]
  BY <1>1 DEF RoutesAdded
<1> QED
  BY <1>2 DEF Hardware

LEMMA BundleEnableKeeps ==
  ASSUME L3Inv, NEW p \in Neighbors, BundleEnable(p)
  PROVE  L3Inv'
<1>1. /\ p \in Netdevs /\ ~lane[p] /\ lane' = [lane EXCEPT ![p] = TRUE]
      /\ lane' \in [Netdevs -> BOOLEAN] /\ asked' = asked
  BY KindsAssumption DEF BundleEnable, Netdevs, L3Inv
<1>2. lane'[p] = TRUE /\ \A c \in Netdevs : c # p => lane'[c] = lane[c]
  BY <1>1 DEF L3Inv
<1>3. CASE p \notin DOMAIN bundle
  <2>1. UNCHANGED <<bundle, rifHandle, hw, past, crashed>>
    BY <1>3 DEF BundleEnable
  <2>2. Here' = Here
    BY <2>1 DEF Here, World
  <2>3. Sure(Here, asked, lane')
    BY <1>2, <1>3, HereIs DEF L3Inv, Sure, Lanes
  <2> QED
    BY <1>1, <2>1, <2>2, <2>3 DEF L3Inv
<1>4. CASE p \in DOMAIN bundle
  <2>1. PICK m \in Met({"rif", "lag"}), r \in NewRifs, intact \in BOOLEAN :
          LET B  == bundle[p]
              w1 == Applied([World(m) EXCEPT !.bundle[p].cached = FALSE],
                            p, B.conf, B.changed, r)
              w2 == [Kept(w1, p, B.conf, B.changed) EXCEPT !.crash = @ \/ ~intact]
          IN Does(LocalRoutesRestored(w2, p))
    BY <1>4 DEF BundleEnable
  <2> DEFINE w  == World(m)
             s  == bundle[p].conf
             changed == bundle[p].changed
             w0 == [w EXCEPT !.bundle[p].cached = FALSE]
             w1 == Applied(w0, p, s, changed, r)
             wk == Kept(w1, p, s, changed)
             w2 == [wk EXCEPT !.crash = @ \/ ~intact]
             v  == LocalRoutesRestored(w2, p)
  <2>2. Does(v)
    BY <2>1
  <2>3. v = LocalRoutesRestored(w2, p)
    OBVIOUS
  <2>4. w2 = [wk EXCEPT !.crash = @ \/ ~intact]
    OBVIOUS
  <2>5. wk = Kept(w1, p, s, changed)
    OBVIOUS
  <2>6. w1 = Applied(w0, p, s, changed, r)
    OBVIOUS
  <2>7. w0 = [w EXCEPT !.bundle[p].cached = FALSE]
    OBVIOUS
  <2>8. /\ w \in Worlds /\ Sure(w, asked, lane) /\ Fine(w, {p}) /\ Fine(w, {}) /\ Calm(w)
        /\ w.bundle = bundle /\ w.hw = hw
    BY MetIs, WorldIsSure, HereIs
  <2> HIDE DEF v, w2, wk, w1, w0, w
  <2>9. s \in Configs[p] /\ changed \in SUBSET Changes
    <3>1. w.bundle[p] \in Records
      BY <1>4, <2>8, WorldParts
    <3>2. s \in Configs[p]
      BY <1>4, <2>8 DEF Sure, Confs
    <3> QED
      BY <2>8, <3>1, <3>2 DEF Records
  <2> HIDE DEF s, changed
  <2>10. /\ w.bundle[p].cached /\ w.bundle[p].linked = {} /\ w.bundle[p].local_routes = {}
         /\ p \in DOMAIN w.bundle /\ p \in Bundles
    BY <1>1, <1>4, <2>8, WorldParts DEF Sure, Lanes, Fine, Base, Idle
  <2>11. ~w.past.failed => ~w.bundle[p].rif.made
    BY <2>8, <2>10 DEF Fine, Sound, RifsRight, RifOf
  <2>12. CachedAs(w, w0, p, FALSE)
    BY <2>7, <2>8, <2>10, CachedIs
  <2>13. Idle(w0.bundle[p])
    BY <2>12 DEF CachedAs, Idle
  <2>14. Fine(w0, {p})
    BY <2>8, <2>10, <2>12, <2>13, CachedAsKeeps
  <2>15. /\ Settable(w0, p, s) /\ w0.bundle[p].local_routes = {} /\ w0.hw = hw
         /\ Confs(w0, {p}) /\ Asked(w0, asked)
    BY <2>8, <2>10, <2>11, <2>12, <2>14
       DEF CachedAs, Only, SameButLag, Settable, Known, Calm, Sure, Confs, Asked
  <2>16. Lanes(w0, lane')
    BY <1>2, <2>8, <2>12 DEF CachedAs, Only, Sure, Lanes
  <2>17. r \in RifIds /\ r \notin w0.hw.rifs
    BY <2>15 DEF NewRifs
  <2>18. Set(w0, w1, p, s)
    BY <2>6, <2>9, <2>15, <2>17, AppliedKeeps
  <2>19. wk.crash \/ Sure(wk, asked, lane')
    BY <2>5, <2>9, <2>10, <2>15, <2>16, <2>18, SettingKeeps
  <2>20. w1 \in Worlds /\ p \in DOMAIN w1.bundle /\ w1.bundle[p].local_routes = {}
    BY <2>15, <2>18, FineIn DEF Set, Keeps
  <2>21. wk \in Worlds /\ wk.bundle[p].local_routes = {}
    <3>1. s \in Settings
      BY <2>9, <2>10, SettingsAddresses
    <3> QED
      BY <2>5, <2>9, <2>20, <3>1, KeptIs DEF Only, SameButLag
  <2>22. /\ w2 \in Worlds /\ SameState(wk, w2) /\ (w2.crash <=> wk.crash \/ ~intact)
    <3>1. wk.crash \in BOOLEAN
      BY <2>21, WorldParts
    <3>2. w2 = [wk EXCEPT !.crash = wk.crash \/ ~intact]
      BY <2>4
    <3> QED
      BY <2>21, <3>1, <3>2 DEF Worlds, SameState
  <2>23. v = w2
    <3>1. w2.bundle[p].local_routes = {}
      BY <2>21, <2>22 DEF SameState
    <3>2. RoutesAdded(w2.hw, {}, w2.bundle[p].rif.id) = w2.hw
      BY <2>22, WorldParts, NoRoutesAdded
    <3>3. [w2 EXCEPT !.hw = w2.hw] = w2
      BY <2>22 DEF Worlds
    <3> QED
      BY <2>3, <3>1, <3>2, <3>3 DEF LocalRoutesRestored
  <2>24. v.crash \/ Sure(v, asked, lane')
    BY <2>19, <2>22, <2>23, SameStateSure
  <2> QED
    BY <1>1, <2>2, <2>24, DoesKeeps DEF L3Inv
<1> QED
  BY <1>3, <1>4

\* World v is world w with other routes and neighbours for bundle b.
Hung(w, v, b) ==
  /\ Only(w, v, b)
  /\ v.bundle[b].cached = w.bundle[b].cached /\ v.bundle[b].conf = w.bundle[b].conf
  /\ v.bundle[b].linked = w.bundle[b].linked /\ v.bundle[b].lag = w.bundle[b].lag
  /\ v.bundle[b].rif = w.bundle[b].rif /\ SameIp(w.bundle[b], v.bundle[b])
  /\ v.rifHandle = w.rifHandle /\ v.hw.rifs = w.hw.rifs /\ v.hw.own = w.hw.own
  /\ v.past.doubled = w.past.doubled /\ (w.past.failed => v.past.failed)

LEMMA HungKeeps ==
  ASSUME NEW w, NEW v, NEW b \in DOMAIN w.bundle, Fine(w, {}), Hung(w, v, b),
         ~w.bundle[b].cached, ~v.past.failed => RoutesRight(v) /\ HostsRight(v)
  PROVE  Fine(v, {})
<1>1. LinkedOnce(v)
  BY SameLinks DEF Fine, Base, Hung
<1>2. Idle(v.bundle[b])
  BY DEF Hung, Idle
<1>3. Base(v)
  BY <1>1, <1>2, BaseKept DEF Fine, Hung
<1>4. /\ DOMAIN v.bundle = DOMAIN w.bundle
      /\ \A c \in DOMAIN w.bundle : v.bundle[c].rif = w.bundle[c].rif
      /\ \A c \in DOMAIN w.bundle : v.bundle[c].linked = w.bundle[c].linked
      /\ \A c \in DOMAIN w.bundle : v.bundle[c].cached = w.bundle[c].cached
  BY DEF Hung, Only
<1>5. ~v.past.failed => RifsRight(v)
  BY <1>4 DEF Fine, Sound, RifsRight, RifOf, Hung
<1>6. \A c \in DOMAIN v.bundle : LinksItself(w, c) => LinksItself(v, c)
  BY <1>4 DEF LinksItself
<1>7. \A c \in DOMAIN v.bundle : HandlesOf(w, c) => HandlesOf(v, c)
  BY <1>4 DEF HandlesOf, Hung
<1> QED
  BY <1>3, <1>4, <1>5, <1>6, <1>7 DEF Fine, Sound, Hung

\* A step leaves record B for bundle b, and perhaps other routes and neighbours.
BundleChanged(b, B) ==
  /\ Only(Here, Here', b) /\ Here'.bundle[b] = B /\ Here'.rifHandle = Here.rifHandle
  /\ Here'.hw = hw' /\ Here'.past = Here.past

LEMMA BundleChangedIs ==
  ASSUME L3Inv, NEW b \in DOMAIN bundle, NEW B \in Records, bundle' = [bundle EXCEPT ![b] = B],
         hw' \in Hardware, rifHandle' = rifHandle, past' = past
  PROVE  BundleChanged(b, B)
<1>1. Here \in Worlds
  BY DEF L3Inv, Sure, Fine, Base
<1>2. Typed
  BY <1>1, HereTyped
<1>3. bundle' \in Partial(Bundles, Records)
  <2> DEFINE A == Bundles
             R == Records
  <2>1. bundle \in Partial(A, R) /\ B \in R
    BY <1>2 DEF Typed
  <2> HIDE DEF A, R
  <2>2. bundle' \in Partial(A, R)
    BY <2>1, PartialExcept
  <2> QED
    BY <2>2 DEF A, R
<1>4. Typed'
  BY <1>2, <1>3 DEF Typed
<1>5. (Here \in Worlds)'
  BY <1>4, HereTyped, PTL
<1>6. /\ Here'.bundle = bundle' /\ Here'.rifHandle = rifHandle' /\ Here'.hw = hw'
      /\ Here'.past = past'
  BY DEF Here, World
<1>7. bundle \in [DOMAIN bundle -> Records]
  BY <1>1, WorldParts, HereIs
<1> QED
  BY <1>5, <1>6, <1>7, HereIs DEF BundleChanged, Only

\* A bundle that is found by the name of its netdev, and its local route.
LEMMA FoundIs ==
  ASSUME L3Inv, NEW b \in Bundles, NEW c \in Found(b)
  PROVE  c \in DOMAIN bundle
BY DEF Found, Links

LEMMA RouteAddKeeps ==
  ASSUME L3Inv, NEW b \in Bundles, NEW x \in Prefixes, RouteAdd(b, x)
  PROVE  L3Inv'
<1>1. /\ asked[x] = None /\ asked' = [asked EXCEPT ![x] = b] /\ lane' = lane
      /\ asked' \in [Prefixes -> Bundles \cup {None}] /\ crashed \in BOOLEAN
      /\ lane' \in [Netdevs -> BOOLEAN]
  BY DEF RouteAdd, L3Inv
<1>2. asked'[x] = b /\ \A y \in Prefixes : y # x => asked'[y] = asked[y]
  BY <1>1 DEF L3Inv
<1>3. CASE b \notin Found(b) \/ ~bundle[b].rif.made
  BY <1>1, <1>3, StopsKeeps DEF RouteAdd
<1>4. CASE b \in Found(b) /\ bundle[b].rif.made
  <2> DEFINE w == Here
  <2>1. b \in DOMAIN bundle
    BY <1>4, FoundIs
  <2>2. w \in Worlds /\ Fine(w, {}) /\ Sure(w, asked, lane)
    BY DEF L3Inv, Sure, Fine, Base
  <2>3. \A c \in DOMAIN bundle : bundle[c].local_routes \subseteq Prefixes
    BY <2>2, HereIs, WorldParts DEF Records
  <2>4. \A c \in DOMAIN bundle : x \notin bundle[c].local_routes
    <3>1. None \notin Bundles /\ DOMAIN bundle \subseteq Bundles
      BY <2>2, HereIs, WorldParts, NoneAssumption
    <3> QED
      BY <1>1, <2>2, <3>1, HereIs DEF Sure, Asked
  <2>5. CASE bundle[b].cached
    <3>1. UNCHANGED <<bundle, rifHandle, hw, past, crashed>>
      BY <1>4, <2>5 DEF RouteAdd
    <3>2. Here' = Here
      BY <3>1 DEF Here, World
    <3>3. Asked(w, asked')
      BY <1>2, <2>2, <2>3, <2>4, HereIs DEF Sure, Asked
    <3> QED
      BY <1>1, <2>2, <3>1, <3>2, <3>3 DEF L3Inv, Sure
  <2>6. CASE ~bundle[b].cached
    <3>1. /\ hw' = RoutesAdded(hw, {x}, bundle[b].rif.id)
          /\ bundle' = [bundle EXCEPT ![b].local_routes = @ \cup {x}]
          /\ UNCHANGED <<rifHandle, past, crashed>>
      BY <1>4, <2>6 DEF RouteAdd
    <3> DEFINE v == Here'
               B == [bundle[b] EXCEPT !.local_routes = bundle[b].local_routes \cup {x}]
               X == {x}
               k == hw'
               r == bundle[b].rif.id
    <3>2. bundle[b] \in Records /\ hw \in Hardware
      BY <2>1, <2>2, HereIs, WorldParts
    <3>3. Routed(hw, k, X, r)
      <4>1. X \in SUBSET Prefixes /\ k = RoutesAdded(hw, X, r)
        BY <3>1
      <4> HIDE DEF X, k, r
      <4> QED
        BY <3>2, <4>1, RoutesAddedIs
    <3>4. /\ B \in Records /\ B.cached = bundle[b].cached /\ B.conf = bundle[b].conf
          /\ B.linked = bundle[b].linked /\ B.lag = bundle[b].lag /\ B.rif = bundle[b].rif
          /\ SameIp(bundle[b], B) /\ B.neighbors = bundle[b].neighbors
          /\ B.local_routes = bundle[b].local_routes \cup {x}
      BY <3>2 DEF Records, SameIp
    <3>5. bundle' = [bundle EXCEPT ![b] = B]
      BY <3>1
    <3> HIDE DEF B
    <3>6. BundleChanged(b, B)
      BY <2>1, <3>1, <3>3, <3>4, <3>5, BundleChangedIs DEF Routed
    <3>7. /\ w.bundle = bundle /\ w.hw = hw
      BY HereIs
    <3> HIDE DEF w, v
    <3>8. /\ Only(w, v, b) /\ v.bundle[b] = B /\ v.rifHandle = w.rifHandle /\ v.hw = hw'
          /\ v.past = w.past
      BY <3>6 DEF BundleChanged, w, v
    <3>9. Hung(w, v, b)
      BY <3>3, <3>4, <3>7, <3>8 DEF Hung, Routed
    <3>10. ASSUME ~v.past.failed PROVE RoutesRight(v) /\ HostsRight(v)
      <4>1. Sound(w) /\ bundle[b].rif.made /\ bundle[b].rif.id \in hw.rifs
        BY <1>4, <2>1, <2>2, <3>7, <3>8, <3>10 DEF Fine, Sound, RifsRight, RifOf
      <4>2. x \notin DOMAIN hw.routes
        BY <2>4, <3>7, <4>1 DEF Sound, RoutesRight
      <4>3. RoutesRight(v)
        <5>1. /\ DOMAIN v.bundle = DOMAIN bundle /\ v.bundle[b] = B
              /\ \A c \in DOMAIN bundle : c # b => v.bundle[c] = bundle[c]
          BY <3>7, <3>8 DEF Only
        <5>2. /\ v.hw.routes[x].refer = 1 /\ v.hw.routes[x].rif = bundle[b].rif.id
              /\ DOMAIN v.hw.routes = DOMAIN hw.routes \cup {x}
              /\ \A y \in DOMAIN hw.routes : v.hw.routes[y] = hw.routes[y]
          BY <3>3, <3>8, <4>1, <4>2 DEF Routed
        <5>3. RoutesRight(w)
          BY <4>1 DEF Sound
        <5> QED
          BY <2>1, <2>4, <3>4, <3>7, <4>1, <5>1, <5>2, <5>3 DEF RoutesRight
      <4>4. HostsRight(v)
        <5>1. HostsRight(w) /\ v.hw.hosts = w.hw.hosts
          BY <3>3, <3>7, <3>8, <4>1 DEF Sound, Routed
        <5>2. /\ \A c \in DOMAIN w.bundle : Sent(v.bundle[c]) = Sent(w.bundle[c])
              /\ \A c \in DOMAIN w.bundle : v.bundle[c].rif = w.bundle[c].rif
              /\ DOMAIN v.bundle = DOMAIN w.bundle
          BY <3>4, <3>7, <3>8 DEF Only, Sent
        <5> QED
          BY <5>1, <5>2 DEF HostsRight
      <4> QED
        BY <4>3, <4>4
    <3>11. Fine(v, {})
      BY <2>1, <2>2, <2>6, <3>7, <3>9, <3>10, HungKeeps
    <3>12. Asked(v, asked')
      BY <1>2, <2>2, <2>3, <2>4, <3>4, <3>7, <3>8 DEF Sure, Asked, Only
    <3>13. Confs(v, {}) /\ Lanes(v, lane)
      BY <2>2, <3>4, <3>7, <3>8 DEF Sure, Confs, Lanes, Only
    <3> QED
      BY <1>1, <3>1, <3>11, <3>12, <3>13 DEF L3Inv, Sure, v
  <2> QED
    BY <2>5, <2>6
<1> QED
  BY <1>3, <1>4

LEMMA RouteDeleteKeeps ==
  ASSUME L3Inv, NEW x \in Prefixes, RouteDelete(x)
  PROVE  L3Inv'
<1> DEFINE w == Here
           b == asked[x]
           C == {c \in Found(b) : ~bundle[c].cached /\ x \in bundle[c].local_routes}
<1>1. /\ b # None /\ asked' = [asked EXCEPT ![x] = None] /\ lane' = lane
      /\ asked' \in [Prefixes -> Bundles \cup {None}]
      /\ lane' \in [Netdevs -> BOOLEAN] /\ rifHandle' = rifHandle /\ past' = past
      /\ crashed' \in BOOLEAN
      /\ hw' = (IF C = {} THEN hw ELSE RoutesRemoved(hw, {x}))
      /\ bundle' = [c \in DOMAIN bundle |->
           IF c \in C THEN [bundle[c] EXCEPT !.local_routes = @ \ {x}] ELSE bundle[c]]
  BY DEF RouteDelete, L3Inv
<1>2. b \in Bundles /\ \A y \in Prefixes : y # x => asked'[y] = asked[y]
  BY <1>1 DEF L3Inv
<1>3. w \in Worlds /\ Fine(w, {}) /\ Sure(w, asked, lane) /\ w.bundle = bundle /\ w.hw = hw
  BY HereIs DEF L3Inv, Sure, Fine, Base
<1>4. \A c \in DOMAIN bundle : /\ bundle[c].local_routes \subseteq Prefixes
                               /\ x \in bundle[c].local_routes => c = b /\ ~bundle[c].cached
  BY <1>3, WorldParts DEF Records, Sure, Asked, Fine, Base, Idle
<1>5. \A c \in DOMAIN bundle : x \in bundle[c].local_routes => c \in Found(b)
  <2> SUFFICES ASSUME NEW c \in DOMAIN bundle, x \in bundle[c].local_routes PROVE c \in Found(b)
    OBVIOUS
  <2>1. c = b /\ ~bundle[b].cached /\ LinksItself(w, b)
    BY <1>3, <1>4 DEF Fine
  <2>2. b \in Lags \/ b \in Netdevs
    BY <1>2 DEF Bundles, Netdevs
  <2> HIDE DEF b, w
  <2> QED
    BY <1>3, <2>1, <2>2 DEF LinksItself, Found, Links
<1>6. C \subseteq DOMAIN bundle
  BY <1>2, FoundIs
<1>7. CASE C = {}
  <2>1. hw' = hw
    BY <1>1, <1>7
  <2>2. bundle' = bundle
    <3>1. bundle \in [DOMAIN bundle -> Records]
      BY <1>3, WorldParts
    <3> HIDE DEF C
    <3>2. bundle' = [c \in DOMAIN bundle |-> bundle[c]]
      BY <1>1, <1>7
    <3> QED
      BY <3>1, <3>2
  <2>3. Here' = Here
    BY <1>1, <2>1, <2>2 DEF Here, World
  <2>4. \A c \in DOMAIN bundle : x \notin bundle[c].local_routes
    BY <1>4, <1>5, <1>7
  <2>5. Asked(w, asked')
    BY <1>2, <1>3, <1>4, <2>4 DEF Sure, Asked
  <2> QED
    BY <1>1, <1>3, <2>3, <2>5 DEF L3Inv, Sure
<1>8. CASE C # {}
  <2> DEFINE B == [bundle[b] EXCEPT !.local_routes = bundle[b].local_routes \ {x}]
             X == {x}
             k == hw'
             v == Here'
  <2>1. /\ C = {b} /\ b \in DOMAIN bundle /\ ~bundle[b].cached /\ x \in bundle[b].local_routes
    BY <1>4, <1>6, <1>8
  <2>2. bundle[b] \in Records /\ hw \in Hardware
    BY <1>3, <2>1, WorldParts
  <2>3. /\ B \in Records /\ B.cached = bundle[b].cached /\ B.conf = bundle[b].conf
        /\ B.linked = bundle[b].linked /\ B.lag = bundle[b].lag /\ B.rif = bundle[b].rif
        /\ SameIp(bundle[b], B) /\ B.neighbors = bundle[b].neighbors
        /\ B.local_routes = bundle[b].local_routes \ {x}
    BY <2>2 DEF Records, SameIp
  <2>4. bundle' = [bundle EXCEPT ![b] = B]
    <3>1. bundle \in [DOMAIN bundle -> Records]
      BY <1>3, WorldParts
    <3>2. bundle' = [c \in DOMAIN bundle |-> IF c = b THEN B ELSE bundle[c]]
      <4>1. \A c \in DOMAIN bundle : c \in C <=> c = b
        BY <2>1
      <4> HIDE DEF C, b
      <4> QED
        BY <1>1, <4>1
    <3> HIDE DEF B, b
    <3> QED
      BY <3>1, <3>2
  <2>5. /\ k \in Hardware /\ k.rifs = hw.rifs /\ k.hosts = hw.hosts /\ k.own = hw.own
        /\ \A y : y \in DOMAIN k.routes <=>
                    y \in DOMAIN hw.routes /\ ~(y \in X /\ hw.routes[y].refer = 1)
        /\ \A y \in DOMAIN k.routes \ X : k.routes[y] = hw.routes[y]
    <3>1. k = RoutesRemoved(hw, X)
      BY <1>1, <1>8
    <3> HIDE DEF k, X
    <3> QED
      BY <2>2, <3>1, RoutesRemovedIs
  <2> HIDE DEF B, C, b
  <2>6. BundleChanged(b, B)
    BY <1>1, <2>1, <2>3, <2>4, <2>5, BundleChangedIs
  <2>7. /\ Only(w, v, b) /\ v.bundle[b] = B /\ v.rifHandle = w.rifHandle /\ v.hw = hw'
        /\ v.past = w.past
    BY <2>6 DEF BundleChanged
  <2> HIDE DEF w, v
  <2>8. Hung(w, v, b)
    BY <1>3, <2>3, <2>5, <2>7 DEF Hung
  <2>9. ASSUME ~v.past.failed PROVE RoutesRight(v) /\ HostsRight(v)
    <3>1. RoutesRight(w) /\ HostsRight(w)
      BY <1>3, <2>7, <2>9 DEF Fine, Sound
    <3>2. x \in DOMAIN hw.routes /\ hw.routes[x].refer = 1
      BY <1>3, <2>1, <3>1 DEF RoutesRight
    <3>3. /\ x \notin DOMAIN v.hw.routes
          /\ \A y : y \in DOMAIN v.hw.routes <=> y \in DOMAIN hw.routes /\ y # x
          /\ \A y \in DOMAIN v.hw.routes : v.hw.routes[y] = hw.routes[y]
      BY <2>5, <2>7, <3>2
    <3>4. /\ DOMAIN v.bundle = DOMAIN bundle
          /\ \A c \in DOMAIN bundle : v.bundle[c].rif = bundle[c].rif
          /\ \A c \in DOMAIN bundle : \A y : y \in v.bundle[c].local_routes <=>
                                              y \in bundle[c].local_routes /\ y # x
          /\ \A c \in DOMAIN bundle : Sent(v.bundle[c]) = Sent(bundle[c])
      BY <1>3, <1>4, <2>3, <2>7 DEF Only, Sent
    <3>5. RoutesRight(v)
      BY <1>3, <3>1, <3>3, <3>4 DEF RoutesRight
    <3>6. HostsRight(v)
      BY <1>3, <2>5, <2>7, <3>1, <3>4 DEF HostsRight
    <3> QED
      BY <3>5, <3>6
  <2>10. Fine(v, {})
    BY <1>3, <2>1, <2>8, <2>9, HungKeeps
  <2>11. Asked(v, asked')
    <3>1. \A c \in DOMAIN bundle : \A y \in bundle[c].local_routes : asked[y] = c
      BY <1>3 DEF Sure, Asked
    <3>2. \A c \in DOMAIN v.bundle : c \in DOMAIN bundle /\
             \A y \in v.bundle[c].local_routes : y \in bundle[c].local_routes /\ y # x
      BY <1>3, <1>4, <2>3, <2>7 DEF Only, b
    <3> QED
      BY <1>2, <1>4, <3>1, <3>2 DEF Asked
  <2>12. Confs(v, {}) /\ Lanes(v, lane)
    BY <1>3, <2>3, <2>7 DEF Sure, Confs, Lanes, Only
  <2> QED
    BY <1>1, <2>10, <2>11, <2>12 DEF L3Inv, Sure, v
<1> QED
  BY <1>7, <1>8

LEMMA HostDeleteKeeps ==
  ASSUME L3Inv, NEW b \in Bundles, NEW n \in Hosts, HostDelete(b, n)
  PROVE  L3Inv'
<1> DEFINE w == Here
           r == bundle[b].rif.id
           found == /\ n \in DOMAIN bundle[b].neighbors
                    /\ bundle[b].neighbors[n] = "empty" \/ <<n, r>> \in hw.hosts
<1>1. /\ b \in DOMAIN bundle /\ ~bundle[b].cached /\ lane' = lane /\ asked' = asked
      /\ crashed \in BOOLEAN /\ lane' \in [Netdevs -> BOOLEAN]
      /\ asked' \in [Prefixes -> Bundles \cup {None}]
  BY DEF HostDelete, L3Inv
<1>2. w \in Worlds /\ Fine(w, {}) /\ Sure(w, asked, lane) /\ w.bundle = bundle /\ w.hw = hw
  BY HereIs DEF L3Inv, Sure, Fine, Base
<1>3. CASE ~bundle[b].rif.made
  BY <1>1, <1>3, StopsKeeps DEF HostDelete
<1>4. CASE bundle[b].rif.made /\ ~found
  <2>1. UNCHANGED <<bundle, rifHandle, hw, past, crashed>>
    BY <1>4 DEF HostDelete
  <2>2. Here' = Here
    BY <2>1 DEF Here, World
  <2> QED
    BY <1>1, <1>2, <2>1, <2>2 DEF L3Inv
<1>5. CASE bundle[b].rif.made /\ found
  <2> DEFINE N == bundle[b].neighbors
             F == Without(N, {n})
             B == [bundle[b] EXCEPT !.neighbors = F]
             v == Here'
  <2>1. /\ bundle' = [bundle EXCEPT ![b].neighbors = Without(@, {n})]
        /\ hw' = [hw EXCEPT !.hosts = @ \ {<<n, r>>}]
        /\ rifHandle' = rifHandle /\ past' = past /\ crashed' = crashed
    BY <1>5 DEF HostDelete
  <2>2. bundle[b] \in Records /\ hw \in Hardware
    BY <1>1, <1>2, WorldParts
  <2>3. F \in Partial(Hosts, {"mac", "empty"}) /\ DOMAIN F = DOMAIN N \ {n}
        /\ \A z \in DOMAIN N \ {n} : F[z] = N[z]
    <3> DEFINE M == {"mac", "empty"}
               Z == {n}
    <3>1. N \in Partial(Hosts, M)
      BY <2>2 DEF Records
    <3>2. F = Without(N, Z)
      OBVIOUS
    <3> HIDE DEF F, N, M, Z
    <3>3. IsWithout(N, Z, F, Hosts, M)
      BY <3>1, <3>2, WithoutIs
    <3> QED
      BY <3>3 DEF M, Z, IsWithout
  <2>4. /\ B \in Records /\ B.cached = bundle[b].cached /\ B.conf = bundle[b].conf
        /\ B.linked = bundle[b].linked /\ B.lag = bundle[b].lag /\ B.rif = bundle[b].rif
        /\ SameIp(bundle[b], B) /\ B.neighbors = F
        /\ B.local_routes = bundle[b].local_routes
    BY <2>2, <2>3 DEF Records, SameIp
  <2>5. bundle' = [bundle EXCEPT ![b] = B]
    BY <2>1
  <2>6. /\ hw' \in Hardware /\ hw'.rifs = hw.rifs /\ hw'.own = hw.own /\ hw'.routes = hw.routes
        /\ hw'.hosts = hw.hosts \ {<<n, r>>}
    BY <2>1, <2>2 DEF Hardware
  <2>7. /\ DOMAIN B.neighbors = DOMAIN N \ {n}
        /\ \A z \in DOMAIN N \ {n} : B.neighbors[z] = N[z]
    BY <2>3, <2>4
  <2>8. Sent(B) = Sent(bundle[b]) \ {n}
    BY <2>7 DEF Sent
  <2> HIDE DEF B
  <2>9. BundleChanged(b, B)
    BY <1>1, <2>1, <2>4, <2>5, <2>6, BundleChangedIs
  <2>10. /\ Only(w, v, b) /\ v.bundle[b] = B /\ v.rifHandle = w.rifHandle /\ v.hw = hw'
         /\ v.past = w.past
    BY <2>9 DEF BundleChanged
  <2> HIDE DEF w, v
  <2>11. Hung(w, v, b)
    BY <1>2, <2>4, <2>6, <2>10 DEF Hung
  <2>12. ASSUME ~v.past.failed PROVE RoutesRight(v) /\ HostsRight(v)
    <3>1. RoutesRight(w) /\ HostsRight(w) /\ RifsRight(w)
      BY <1>2, <2>10, <2>12 DEF Fine, Sound
    <3>2. /\ DOMAIN v.bundle = DOMAIN w.bundle
          /\ \A c \in DOMAIN w.bundle : v.bundle[c].rif = w.bundle[c].rif
          /\ \A c \in DOMAIN w.bundle : v.bundle[c].local_routes = w.bundle[c].local_routes
          /\ \A c \in DOMAIN w.bundle : c # b => Sent(v.bundle[c]) = Sent(w.bundle[c])
          /\ Sent(v.bundle[b]) = Sent(w.bundle[b]) \ {n} /\ w.bundle[b].rif.id = r
      BY <1>2, <2>4, <2>8, <2>10 DEF Only
    <3>3. RoutesRight(v)
      BY <1>2, <2>6, <2>10, <3>1, <3>2 DEF RoutesRight
    <3>4. \A c \in DOMAIN w.bundle : c # b /\ w.bundle[c].rif.made => w.bundle[c].rif.id # r
      BY <1>1, <1>2, <1>5, <3>1 DEF RifsRight
    <3>5. \A c \in DOMAIN v.bundle : \A z \in Sent(v.bundle[c]) :
            v.bundle[c].rif.made /\ <<z, v.bundle[c].rif.id>> \in v.hw.hosts
      BY <1>2, <2>6, <2>10, <3>1, <3>2, <3>4 DEF HostsRight
    <3>6. \A z \in Hosts : \A q \in RifIds : <<z, q>> \in v.hw.hosts =>
            \E c \in DOMAIN v.bundle : z \in Sent(v.bundle[c]) /\ v.bundle[c].rif.id = q
      <4> SUFFICES ASSUME NEW z \in Hosts, NEW q \in RifIds, <<z, q>> \in v.hw.hosts
                   PROVE  \E c \in DOMAIN v.bundle :
                            z \in Sent(v.bundle[c]) /\ v.bundle[c].rif.id = q
        OBVIOUS
      <4>1. <<z, q>> \in w.hw.hosts /\ ~(z = n /\ q = r)
        BY <1>2, <2>6, <2>10
      <4>2. PICK c \in DOMAIN w.bundle : z \in Sent(w.bundle[c]) /\ w.bundle[c].rif.id = q
        BY <3>1, <4>1 DEF HostsRight
      <4> QED
        BY <3>2, <4>1, <4>2
    <3> QED
      BY <3>3, <3>5, <3>6 DEF HostsRight
  <2>13. Fine(v, {})
    BY <1>1, <1>2, <2>11, <2>12, HungKeeps
  <2>14. Confs(v, {}) /\ Asked(v, asked) /\ Lanes(v, lane)
    BY <1>2, <2>4, <2>10 DEF Sure, Confs, Asked, Lanes, Only
  <2> QED
    BY <1>1, <2>1, <2>13, <2>14 DEF L3Inv, Sure, v
<1> QED
  BY <1>3, <1>4, <1>5

\* World w after neighbour n of bundle b was sent, or was not to be.
HostSent(w, b, n, mac) ==
  LET N   == w.bundle[b].neighbors
      had == IF n \in DOMAIN N THEN N[n] ELSE "none"
      r   == w.bundle[b].rif.id
      w1  == IF mac = "empty" \/ had = mac THEN w
             ELSE [Failed(w, "neighbor") EXCEPT
                     !.hw.hosts = IF r \in w.hw.rifs /\ ~Refuses(w, "neighbor")
                                  THEN @ \cup {<<n, r>>} ELSE @]
  IN IF had = "mac" THEN w1
     ELSE [w1 EXCEPT !.bundle[b].neighbors = With(@, n, mac)]

LEMMA HostSentKeeps ==
  ASSUME NEW w, NEW b \in DOMAIN w.bundle, Fine(w, {}), ~w.bundle[b].cached,
         w.bundle[b].rif.made, NEW n \in Hosts, NEW mac \in {"mac", "empty"},
         \A c \in DOMAIN w.bundle \ {b} : n \notin DOMAIN w.bundle[c].neighbors,
         NEW v, v = HostSent(w, b, n, mac)
  PROVE  Fine(v, {}) /\ Keeps(w, v)
<1> DEFINE N   == w.bundle[b].neighbors
           had == IF n \in DOMAIN N THEN N[n] ELSE "none"
           r   == w.bundle[b].rif.id
           wF  == Failed(w, "neighbor")
           H   == IF r \in w.hw.rifs /\ ~Refuses(w, "neighbor")
                  THEN w.hw.hosts \cup {<<n, r>>} ELSE w.hw.hosts
           w1  == IF mac = "empty" \/ had = mac THEN w ELSE [wF EXCEPT !.hw.hosts = H]
<1>1. w \in Worlds /\ Keeps(w, w)
  BY FineIn DEF Keeps
<1>2. w.bundle[b] \in Records /\ w.hw \in Hardware
  BY <1>1, WorldParts
<1>3. /\ wF \in Worlds /\ wF.bundle = w.bundle /\ wF.rifHandle = w.rifHandle /\ wF.hw = w.hw
      /\ wF.error = w.error /\ wF.crash = w.crash /\ wF.past.doubled = w.past.doubled
      /\ wF.past.failed <=> w.past.failed \/ Refuses(w, "neighbor")
  BY <1>1, FailedDoes
<1>4. had \in {"none", "mac", "empty"} /\ (n \in DOMAIN N => N[n] \in {"mac", "empty"})
  <2>1. N \in Partial(Hosts, {"mac", "empty"})
    BY <1>2 DEF Records
  <2>2. N \in [DOMAIN N -> {"mac", "empty"}]
    BY <2>1, PartialElim
  <2> HIDE DEF N
  <2> QED
    BY <2>2
<1>5. v = IF had = "mac" THEN w1 ELSE [w1 EXCEPT !.bundle[b].neighbors = With(@, n, mac)]
  BY <1>3 DEF HostSent
<1>6. CASE had = "mac"
  <2>1. v = w
    BY <1>5, <1>6
  <2> QED
    BY <1>1, <2>1
<1>7. CASE had # "mac"
  <2> DEFINE F == With(N, n, mac)
             B == [w.bundle[b] EXCEPT !.neighbors = F]
             k == [w.hw EXCEPT !.hosts = H]
  <2>1. /\ F \in Partial(Hosts, {"mac", "empty"}) /\ DOMAIN F = DOMAIN N \cup {n}
        /\ F[n] = mac /\ \A z \in DOMAIN N : z # n => F[z] = N[z]
    <3> DEFINE M == {"mac", "empty"}
    <3>1. N \in Partial(Hosts, M) /\ mac \in M
      BY <1>2 DEF Records
    <3>2. F = With(N, n, mac)
      OBVIOUS
    <3> HIDE DEF F, N, M
    <3>3. IsWith(N, n, mac, F, Hosts, M)
      BY <3>1, <3>2, WithIs
    <3> QED
      BY <3>3 DEF M, IsWith
  <2>2. /\ B \in Records /\ B.cached = w.bundle[b].cached /\ B.conf = w.bundle[b].conf
        /\ B.linked = w.bundle[b].linked /\ B.lag = w.bundle[b].lag /\ B.rif = w.bundle[b].rif
        /\ SameIp(w.bundle[b], B) /\ B.neighbors = F
        /\ B.local_routes = w.bundle[b].local_routes
    BY <1>2, <2>1 DEF Records, SameIp
  <2>3. /\ w1 \in Worlds /\ w1.bundle = w.bundle /\ w1.rifHandle = w.rifHandle
        /\ w1.hw.rifs = w.hw.rifs /\ w1.hw.own = w.hw.own /\ w1.hw.routes = w.hw.routes
        /\ w1.past.doubled = w.past.doubled /\ (w.past.failed => w1.past.failed)
        /\ w1.error = w.error /\ w1.crash = w.crash
        /\ mac = "empty" => w1.hw.hosts = w.hw.hosts
        /\ ~w1.past.failed /\ r \in w.hw.rifs /\ mac = "mac" =>
             w1.hw.hosts = w.hw.hosts \cup {<<n, r>>}
    <3>1. CASE mac = "empty" \/ had = mac
      <4>1. w1 = w /\ mac = "empty"
        BY <1>7, <3>1
      <4> HIDE DEF w1
      <4> QED
        BY <1>1, <4>1
    <3>2. CASE ~(mac = "empty" \/ had = mac)
      <4>1. w1 = [wF EXCEPT !.hw = k]
        BY <1>3, <3>2
      <4>2. k \in Hardware /\ k.rifs = w.hw.rifs /\ k.own = w.hw.own /\ k.routes = w.hw.routes
            /\ k.hosts = H
        <5>1. H \subseteq Hosts \X RifIds
          BY <1>2 DEF Hardware
        <5> HIDE DEF H
        <5> QED
          BY <1>2, <5>1 DEF Hardware
      <4> HIDE DEF w1, wF, k
      <4>3. /\ w1 \in Worlds /\ w1.bundle = wF.bundle /\ w1.rifHandle = wF.rifHandle
            /\ w1.hw = k /\ w1.past = wF.past /\ w1.error = wF.error /\ w1.crash = wF.crash
        BY <1>3, <4>1, <4>2 DEF Worlds
      <4> QED
        BY <1>3, <3>2, <4>2, <4>3
    <3> QED
      BY <3>1, <3>2
  <2>4. v = Put(w1, b, B, w1.rifHandle, w1.hw, w1.past, w1.error, w1.crash)
    <3>1. v = [w1 EXCEPT !.bundle[b].neighbors = With(@, n, mac)]
      BY <1>5, <1>7
    <3> HIDE DEF w1
    <3> QED
      BY <2>3, <3>1 DEF Put, Worlds
  <2>5. DOMAIN B.neighbors = DOMAIN N \cup {n} /\ B.neighbors[n] = mac
        /\ \A z \in DOMAIN N : z # n => B.neighbors[z] = N[z]
    BY <2>1, <2>2
  <2> HIDE DEF w1, B
  <2>6. IsPut(w1, v, b, B, w1.rifHandle, w1.hw, w1.past, w1.error, w1.crash)
    <3>1. b \in DOMAIN w1.bundle /\ B \in Records
      BY <2>2, <2>3
    <3> QED
      BY <2>3, <2>4, <3>1, WorldParts, PutIs
  <2>7. /\ Only(w, v, b) /\ v.bundle[b] = B /\ v.rifHandle = w.rifHandle /\ v.hw = w1.hw
        /\ v.past = w1.past /\ v.crash = w.crash
    BY <2>3, <2>6 DEF IsPut, Only
  <2>8. Hung(w, v, b)
    BY <2>2, <2>3, <2>7 DEF Hung
  <2>9. ASSUME ~v.past.failed PROVE RoutesRight(v) /\ HostsRight(v)
    <3>1. RoutesRight(w) /\ HostsRight(w) /\ r \in w.hw.rifs
      BY <2>3, <2>7, <2>9 DEF Fine, Sound, RifsRight, RifOf
    <3>2. /\ DOMAIN v.bundle = DOMAIN w.bundle
          /\ \A c \in DOMAIN w.bundle : v.bundle[c].rif = w.bundle[c].rif
          /\ \A c \in DOMAIN w.bundle : v.bundle[c].local_routes = w.bundle[c].local_routes
          /\ \A c \in DOMAIN w.bundle : c # b => Sent(v.bundle[c]) = Sent(w.bundle[c])
      BY <2>2, <2>7 DEF Only
    <3>3. RoutesRight(v)
      BY <2>3, <2>7, <3>1, <3>2 DEF RoutesRight
    <3>4. Sent(v.bundle[b]) = Sent(w.bundle[b]) \cup (IF mac = "mac" THEN {n} ELSE {})
      <4>1. n \notin Sent(w.bundle[b])
        BY <1>4, <1>7 DEF Sent
      <4> HIDE DEF had
      <4> QED
        BY <2>5, <2>7, <4>1 DEF Sent
    <3>5. CASE mac = "empty"
      <4>1. Sent(v.bundle[b]) = Sent(w.bundle[b]) /\ v.hw.hosts = w.hw.hosts
        BY <2>3, <2>7, <3>4, <3>5
      <4> QED
        BY <3>1, <3>2, <3>3, <4>1 DEF HostsRight
    <3>6. CASE mac = "mac"
      <4>1. /\ Sent(v.bundle[b]) = Sent(w.bundle[b]) \cup {n}
            /\ v.hw.hosts = w.hw.hosts \cup {<<n, r>>} /\ v.bundle[b].rif.id = r
            /\ v.bundle[b].rif.made
        BY <2>3, <2>7, <2>9, <3>1, <3>2, <3>4, <3>6
      <4> QED
        BY <3>1, <3>2, <3>3, <4>1 DEF HostsRight
    <3> QED
      BY <3>5, <3>6
  <2>10. Fine(v, {})
    BY <2>8, <2>9, HungKeeps
  <2>11. Keeps(w, v)
    BY <2>2, <2>3, <2>7 DEF Keeps, Only
  <2> QED
    BY <2>10, <2>11
<1> QED
  BY <1>6, <1>7

LEMMA HostAddKeeps ==
  ASSUME L3Inv, NEW b \in Bundles, NEW n \in Hosts, NEW mac \in {"mac", "empty"},
         HostAdd(b, n, mac)
  PROVE  L3Inv'
<1>1. /\ b \in DOMAIN bundle /\ ~bundle[b].cached /\ lane' = lane /\ asked' = asked
      /\ crashed \in BOOLEAN /\ lane' \in [Netdevs -> BOOLEAN]
      /\ asked' \in [Prefixes -> Bundles \cup {None}]
      /\ \A c \in DOMAIN bundle \ {b} : n \notin DOMAIN bundle[c].neighbors
  BY DEF HostAdd, L3Inv
<1>2. CASE ~bundle[b].rif.made
  BY <1>1, <1>2, StopsKeeps DEF HostAdd
<1>3. CASE bundle[b].rif.made
  <2>1. PICK m \in Met({"neighbor"}) :
          LET w   == World(m)
              N   == bundle[b].neighbors
              had == IF n \in DOMAIN N THEN N[n] ELSE "none"
              r   == bundle[b].rif.id
              w1  == IF mac = "empty" \/ had = mac THEN w
                     ELSE [Failed(w, "neighbor") EXCEPT
                             !.hw.hosts = IF r \in hw.rifs /\ ~Refuses(w, "neighbor")
                                          THEN @ \cup {<<n, r>>} ELSE @]
          IN Does(IF had = "mac" THEN w1
                  ELSE [w1 EXCEPT !.bundle[b].neighbors = With(@, n, mac)])
    BY <1>3 DEF HostAdd
  <2> DEFINE w == World(m)
             v == HostSent(w, b, n, mac)
  <2>2. Sure(w, asked, lane) /\ Fine(w, {}) /\ w.bundle = bundle /\ w.hw = hw
    BY MetIs, WorldIsSure, HereIs
  <2>3. Does(v) /\ v = HostSent(w, b, n, mac)
    <3> HIDE DEF w
    <3> QED
      BY <2>1, <2>2 DEF HostSent, w
  <2> HIDE DEF w, v
  <2>4. Fine(v, {}) /\ Keeps(w, v)
    BY <1>1, <1>3, <2>2, <2>3, HostSentKeeps
  <2>5. Sure(v, asked, lane)
    BY <2>2, <2>4, SureKept
  <2> QED
    BY <1>1, <2>3, <2>5, DoesKeeps
<1> QED
  BY <1>2, <1>3

-----------------------------------------------------------------------------
(* Theorems *)

LEMMA InitInv ==
  ASSUME Init
  PROVE  L3Inv
<1>1. IsNothing
  BY DEF Init, Nothing, IsNothing
<1>2. Sure(Here, asked, lane)
  BY <1>1, NothingIsSure
<1> QED
  BY <1>2 DEF Init, L3Inv

LEMMA NextInv ==
  ASSUME L3Inv, [Next]_vars
  PROVE  L3Inv'
<1>1. ASSUME NEW b \in Bundles, NEW s \in Configs[b], BundleSet(b, s) PROVE L3Inv'
  BY <1>1, BundleSetKeeps
<1>2. ASSUME NEW b \in Bundles, BundleDestroy(b) PROVE L3Inv'
  BY <1>2, BundleDestroyKeeps
<1>3. ASSUME NEW b \in Bundles, NEW x \in Prefixes, RouteAdd(b, x) PROVE L3Inv'
  BY <1>3, RouteAddKeeps
<1>4. ASSUME NEW b \in Bundles, NEW n \in Hosts, HostDelete(b, n) PROVE L3Inv'
  BY <1>4, HostDeleteKeeps
<1>5. ASSUME NEW b \in Bundles, NEW n \in Hosts, NEW mac \in {"mac", "empty"}, HostAdd(b, n, mac)
      PROVE  L3Inv'
  BY <1>5, HostAddKeeps
<1>6. ASSUME NEW p \in Netdevs, BundleRemove(p) PROVE L3Inv'
  BY <1>6, BundleRemoveKeeps
<1>7. ASSUME NEW p \in Neighbors, BundleDisable(p) PROVE L3Inv'
  BY <1>7, BundleDisableKeeps
<1>8. ASSUME NEW p \in Neighbors, BundleEnable(p) PROVE L3Inv'
  BY <1>8, BundleEnableKeeps
<1>9. ASSUME NEW x \in Prefixes, RouteDelete(x) PROVE L3Inv'
  BY <1>9, RouteDeleteKeeps
<1>10. CASE UNCHANGED vars
  <2>1. /\ bundle' = bundle /\ rifHandle' = rifHandle /\ hw' = hw /\ past' = past
        /\ lane' = lane /\ asked' = asked /\ crashed' = crashed
    BY <1>10 DEF vars
  <2>2. Here' = Here
    BY <2>1 DEF Here, World
  <2> QED
    BY <2>1, <2>2 DEF L3Inv
<1> QED
  BY <1>1, <1>2, <1>3, <1>4, <1>5, <1>6, <1>7, <1>8, <1>9, <1>10 DEF Next

\* The invariant behind the others: while SAI refuses nothing, router interfaces,
\* routes, neighbours and the pointers of netdevs are those of the bundles; whatever
\* it refuses, the addresses are, a port is in one bundle, and a bundle of a netdev
\* that is not cached has its netdev.
THEOREM L3Invariant == Spec => []L3Inv
<1>1. Init => L3Inv
  BY InitInv
<1>2. L3Inv /\ [Next]_vars => L3Inv'
  BY NextInv
<1> QED
  BY <1>1, <1>2, PTL DEF Spec

\* What the invariant says of the variables.
LEMMA InvParts ==
  ASSUME L3Inv
  PROVE  /\ bundle \in [DOMAIN bundle -> Records] /\ DOMAIN bundle \subseteq Bundles
         /\ hw \in Hardware /\ rifHandle \in [Netdevs -> Bundles \cup {None}]
         /\ past \in History /\ Here \in Worlds /\ Fine(Here, {}) /\ Sure(Here, asked, lane)
<1>1. Here \in Worlds /\ Fine(Here, {}) /\ Sure(Here, asked, lane)
  BY DEF L3Inv, Sure, Fine, Base
<1> QED
  BY <1>1, HereIs, WorldParts

LEMMA InvTypeOK == L3Inv => TypeOK
<1> SUFFICES ASSUME L3Inv PROVE TypeOK
  OBVIOUS
<1>1. /\ bundle \in [DOMAIN bundle -> Records] /\ DOMAIN bundle \subseteq Bundles
      /\ hw \in Hardware /\ rifHandle \in [Netdevs -> Bundles \cup {None}]
      /\ Fine(Here, {}) /\ Sure(Here, asked, lane)
  BY InvParts
<1>2. ASSUME NEW b \in DOMAIN bundle
      PROVE  LET B == bundle[b]
             IN /\ B.cached \in BOOLEAN /\ B.freed \in BOOLEAN
                /\ B.conf \in Configs[b] /\ B.changed \subseteq Changes
                /\ B.linked \subseteq Netdevs
                /\ B.lag \in {"none", "made", "gone"}
                /\ B.rif.made \in BOOLEAN /\ B.rif.id \in RifIds \cup {None}
                /\ B.ipv4_primary \in Addresses \cup {None}
                /\ B.ipv4_secondary \subseteq Addresses
                /\ B.local_routes \subseteq Prefixes
                /\ DOMAIN B.neighbors \subseteq Hosts
  <2>1. bundle[b] \in Records
    BY <1>1
  <2>2. bundle[b].conf \in Configs[b]
    BY <1>1, HereIs DEF Sure, Confs
  <2>3. DOMAIN bundle[b].neighbors \subseteq Hosts
    <3> DEFINE M == {"mac", "empty"}
               N == bundle[b].neighbors
    <3>1. N \in Partial(Hosts, M)
      BY <2>1 DEF Records
    <3> HIDE DEF M, N
    <3>2. DOMAIN N \subseteq Hosts
      BY <3>1, PartialElim
    <3> QED
      BY <3>2 DEF N
  <2> QED
    BY <2>1, <2>2, <2>3 DEF Records, Rifs
<1>3. /\ hw.rifs \subseteq RifIds /\ hw.hosts \subseteq Hosts \X RifIds
      /\ DOMAIN hw.routes \subseteq Prefixes /\ hw.own \subseteq Addresses
  <2>1. hw.own \subseteq Addresses
    BY <1>1 DEF Hardware
  <2> QED
    BY <1>1, <2>1, HardwareParts
<1>4. ASSUME NEW p \in Netdevs PROVE Cardinality(Links(bundle, p)) <= 1
  <2> DEFINE L == Links(bundle, p)
  <2>1. \A c \in L : \A d \in L : c = d
    <3>1. LinkedOnce(Here)
      BY <1>1 DEF Fine, Base
    <3>2. \A c \in L : c \in DOMAIN bundle /\ p \in bundle[c].linked
      BY DEF Links
    <3> HIDE DEF L
    <3> QED
      BY <3>1, <3>2, HereIs DEF LinkedOnce
  <2>2. CASE L = {}
    BY <2>2, FS_EmptySet
  <2>3. CASE L # {}
    <3>1. PICK c \in L : L = {c}
      BY <2>1, <2>3
    <3> HIDE DEF L
    <3>2. Cardinality(L) = 1
      BY <3>1, FS_Singleton
    <3> QED
      BY <3>2 DEF L
  <2> QED
    BY <2>2, <2>3
<1>5. lane \in [Netdevs -> BOOLEAN] /\ asked \in [Prefixes -> Bundles \cup {None}]
  BY DEF L3Inv
<1> QED
  BY <1>1, <1>2, <1>3, <1>4, <1>5 DEF TypeOK

\* The types of the C declarations, and a netdev is never linked to two bundles,
\* however they are set, moved, disabled and destroyed.
THEOREM L3TypeCorrect == Spec => []TypeOK
BY L3Invariant, InvTypeOK, PTL

LEMMA InvHardware == L3Inv => HardwareFollowsBundles
<1> SUFFICES ASSUME L3Inv PROVE HardwareFollowsBundles
  OBVIOUS
<1>1. /\ bundle \in [DOMAIN bundle -> Records] /\ DOMAIN bundle \subseteq Bundles
      /\ hw \in Hardware /\ Fine(Here, {}) /\ past \in History
  BY InvParts
<1>2. RifsFollowBundles
  BY <1>1, HereIs DEF RifsFollowBundles, Fine, Sound, RifsRight, RifOf
<1>3. RoutesFollowBundles
  <2> SUFFICES ASSUME ~past.failed PROVE RoutesFollowBundles
    BY DEF RoutesFollowBundles
  <2>1. RoutesRight(Here) /\ HostsRight(Here)
    BY <1>1, HereIs DEF Fine, Sound
  <2>2. \A x \in DOMAIN hw.routes :
          \E b \in DOMAIN bundle : x \in bundle[b].local_routes
                                   /\ hw.routes[x] = [refer |-> 1, rif |-> bundle[b].rif.id]
    <3> SUFFICES ASSUME NEW x \in DOMAIN hw.routes
                 PROVE  \E b \in DOMAIN bundle : x \in bundle[b].local_routes
                          /\ hw.routes[x] = [refer |-> 1, rif |-> bundle[b].rif.id]
      OBVIOUS
    <3>1. PICK b \in DOMAIN bundle : x \in bundle[b].local_routes
      BY <2>1, HereIs DEF RoutesRight
    <3>2. hw.routes[x].refer = 1 /\ hw.routes[x].rif = bundle[b].rif.id
      BY <2>1, <3>1, HereIs DEF RoutesRight
    <3>3. hw.routes[x] \in RouteEntries
      BY <1>1, HardwareParts
    <3> QED
      BY <3>1, <3>2, <3>3 DEF RouteEntries
  <2>3. \A b \in DOMAIN bundle : bundle[b].local_routes \subseteq DOMAIN hw.routes
    BY <2>1, HereIs DEF RoutesRight
  <2>4. hw.hosts = UNION {{n \in DOMAIN bundle[b].neighbors : bundle[b].neighbors[n] # "empty"}
                            \X {bundle[b].rif.id} : b \in DOMAIN bundle}
    <3> DEFINE S(b) == Sent(bundle[b]) \X {bundle[b].rif.id}
               U == UNION {S(b) : b \in DOMAIN bundle}
    <3>1. hw.hosts \subseteq Hosts \X RifIds
      BY <1>1, HardwareParts
    <3>2. ASSUME NEW h \in hw.hosts PROVE h \in U
      <4>1. PICK n \in Hosts, r \in RifIds : h = <<n, r>>
        BY <3>1, <3>2
      <4>2. PICK c \in DOMAIN bundle : n \in Sent(bundle[c]) /\ bundle[c].rif.id = r
        BY <2>1, <3>2, <4>1, HereIs DEF HostsRight
      <4>3. h \in S(c)
        BY <4>1, <4>2
      <4> QED
        BY <4>2, <4>3
    <3>3. ASSUME NEW h \in U PROVE h \in hw.hosts
      <4>1. PICK c \in DOMAIN bundle : h \in S(c)
        BY <3>3
      <4>2. PICK n \in Sent(bundle[c]) : h = <<n, bundle[c].rif.id>>
        BY <4>1
      <4> QED
        BY <2>1, <4>2, HereIs DEF HostsRight
    <3>4. hw.hosts = U
      BY <3>2, <3>3
    <3> QED
      BY <3>4 DEF Sent
  <2> QED
    BY <2>2, <2>3, <2>4 DEF RoutesFollowBundles
<1>4. AddressesFollowBundles
  <2> DEFINE R(b) == bundle[b].ipv4_secondary
                     \cup (IF bundle[b].freed THEN {} ELSE {bundle[b].ipv4_primary} \ {None})
             U == UNION {R(b) : b \in DOMAIN bundle}
  <2>1. \A c \in Bundles : AddressesOf(Here, c)
    BY <1>1 DEF Fine, Base
  <2>2. \A c \in DOMAIN bundle : \A a : a \in R(c) => a \in OwnOf(c) /\ Recorded(bundle[c], a)
    BY <1>1, <2>1, HereIs DEF AddressesOf, Recorded
  <2>3. \A c \in DOMAIN bundle : \A a \in OwnOf(c) : Recorded(bundle[c], a) => a \in R(c)
    BY DEF Recorded, OwnOf
  <2>4. ASSUME NEW a \in hw.own, a \notin past.doubled PROVE a \in U
    <3>1. PICK c \in Bundles : a \in OwnOf(c)
      BY <1>1, <2>4, HereIs DEF Fine, Base, OwnIsOwned
    <3>2. c \in DOMAIN bundle /\ Recorded(bundle[c], a)
      BY <2>1, <2>4, <3>1, HereIs DEF AddressesOf
    <3> QED
      BY <2>3, <3>1, <3>2
  <2>5. ASSUME NEW a \in U, a \notin past.doubled PROVE a \in hw.own
    <3>1. PICK c \in DOMAIN bundle : a \in R(c)
      BY <2>5
    <3>2. c \in Bundles /\ a \in OwnOf(c) /\ Recorded(bundle[c], a)
      BY <1>1, <2>2, <3>1
    <3> QED
      BY <2>1, <2>5, <3>1, <3>2, HereIs DEF AddressesOf
  <2>6. hw.own \ past.doubled = U \ past.doubled
    BY <2>4, <2>5
  <2> QED
    BY <2>6 DEF AddressesFollowBundles
<1> QED
  BY <1>2, <1>3, <1>4 DEF HardwareFollowsBundles

\* Router interfaces, local routes, neighbours and addresses of SAI are those the
\* bundles record: none outlives its bundle, none is shared and none is missing.
THEOREM HardwareFollowsBundlesHolds == Spec => []HardwareFollowsBundles
BY L3Invariant, InvHardware, PTL

LEMMA InvCached == L3Inv => CachedHasNothing
<1> SUFFICES ASSUME L3Inv, NEW b \in DOMAIN bundle, bundle[b].cached, ~past.failed
             PROVE  /\ ~bundle[b].rif.made /\ bundle[b].lag # "made" /\ bundle[b].linked = {}
                    /\ bundle[b].local_routes = {} /\ bundle[b].ipv4_secondary = {}
  BY DEF CachedHasNothing
<1>1. Fine(Here, {})
  BY InvParts
<1>2. Idle(bundle[b]) /\ RifOf(Here, b)
  BY <1>1, HereIs DEF Fine, Base, Sound, RifsRight
<1> QED
  BY <1>2, HereIs DEF Idle, RifOf

\* A bundle that was disabled with its netdev keeps nothing in hardware, no port
\* and no LAG until it is enabled again.
THEOREM CachedHasNothingHolds == Spec => []CachedHasNothing
BY L3Invariant, InvCached, PTL

LEMMA InvHandles == L3Inv => HandlesAreLive
<1> SUFFICES ASSUME L3Inv, ~past.failed, NEW b \in DOMAIN bundle, NEW p \in bundle[b].linked
             PROVE  rifHandle[p] = IF bundle[b].rif.made THEN b ELSE None
  BY DEF HandlesAreLive
<1>1. Fine(Here, {})
  BY InvParts
<1>2. HandlesOf(Here, b)
  BY <1>1, HereIs DEF Fine
<1> QED
  BY <1>2, HereIs DEF HandlesOf

\* A netdev that is linked never points to a router interface that is gone, nor to
\* that of a bundle it left: through every move of ports between bundles.
THEOREM HandlesAreLiveHolds == Spec => []HandlesAreLive
BY L3Invariant, InvHandles, PTL
=============================================================================
