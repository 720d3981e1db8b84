------------------------------ MODULE BundleL3 ------------------------------
(***************************************************************************)
(* The layer 3 half of the provider's bundles                              *)
(* (src/src/sai-ofproto-provider.c) and the router interfaces they own     *)
(* (src/src/sai-router-intf.c): how settings make and remove router        *)
(* interfaces, own addresses, local routes and neighbours, and how a       *)
(* bundle is disabled and enabled with the netdev it is named after        *)
(* (ofproto_sai_bundle_disable, ofproto_sai_bundle_enable).                *)
(*                                                                         *)
(* A bundle and its netdev have one name, but for a LAG, whose slaves are  *)
(* ports.  BundleVlan and SaiLag have the layer 2 half; here linking a     *)
(* port always works.  Loopback and subinterfaces never get a router       *)
(* interface and are left out.  SAI may refuse to create what is Refusable, *)
(* once; the rest it refuses only when an object is missing or in use.     *)
(*                                                                         *)
(* The code reads memory it has freed.  What it held may still be there,   *)
(* and the model goes on; otherwise the process has stopped, as it has     *)
(* when an assertion fails, and nothing more is said of it.                *)
(***************************************************************************)
EXTENDS Naturals, FiniteSetsExt

CONSTANTS
  Ports,      \* physical ports, and the bundles named after them
  VlanIntfs,  \* internal interfaces of VLANs, and their bundles
  Lags,       \* bundles that are LAGs
  Neighbors,  \* the ports that a split of another port switches off
  Configs,    \* what switchd may set for each bundle
  Addresses,  \* addresses of the switch
  Prefixes,   \* prefixes of local routes
  Hosts,      \* IP addresses of neighbours
  RifIds,     \* SAI's ids of router interfaces
  None,       \* no address, no bundle, no id
  Refusable   \* what SAI may refuse to make

Bundles == Ports \cup VlanIntfs \cup Lags
Netdevs == Ports \cup VlanIntfs

\* struct ofproto_bundle_settings: the slaves, what a VLAN interface is for,
\* enable, the IPv4 addresses, the one a LAG finds in the database, and whether
\* there is a primary IPv6 address.
Settings == [slaves : SUBSET Netdevs, vlan : Nat, enable : BOOLEAN,
             ip4 : Addresses \cup {None}, secondary : SUBSET Addresses,
             db : Addresses \cup {None}, ip6 : BOOLEAN]

OwnOf(b) == (UNION {{s.ip4, s.db} \cup s.secondary : s \in Configs[b]}) \ {None}

ASSUME ConfigsAssumption ==
  /\ Configs \in [Bundles -> SUBSET Settings]
  /\ \A b \in Netdevs : \A s \in Configs[b] : s.slaves = {b}
  /\ \A b \in Lags : \A s \in Configs[b] : s.slaves \subseteq Ports
  /\ \A b, c \in Bundles : b # c => OwnOf(b) \cap OwnOf(c) = {}
ASSUME NoneAssumption == None \notin Bundles \cup Addresses \cup RifIds
ASSUME KindsAssumption ==
  /\ Ports \cap VlanIntfs = {} /\ Lags \cap Netdevs = {}
  /\ Neighbors \subseteq Ports
ASSUME PortsAssumption == IsFiniteSet(Ports)
ASSUME RefusableAssumption == Refusable \subseteq {"rif", "neighbor", "lag"}

VARIABLES
  bundle,    \* the bundles there are, a function on their names
  rifHandle, \* netdev_sai.rif_handle: the bundle whose rifid it points to
  hw,        \* the plugin's table of routes, and SAI's objects
  lane,      \* split_info.is_hw_lane_active of each netdev
  asked,     \* the bundle switchd asked for each local route
  crashed,   \* an assertion failed, or freed memory did not hold what it had held
  past       \* history, see History

vars == <<bundle, rifHandle, hw, lane, asked, crashed, past>>

\* ip_change: the addresses that are others than before.
Changes == {"ip4", "ip6", "secondary"}

NoRif == [made |-> FALSE, handle |-> None, id |-> None, on |-> FALSE]

\* struct ofbundle_sai, the fields of layer 3; freed: ipv4_primary points to
\* freed memory that held the address.
FreshBundle ==
  [cached |-> FALSE, conf |-> None, changed |-> {}, linked |-> {}, lag |-> "none",
   rif |-> NoRif, ipv4_primary |-> None, freed |-> FALSE, ipv4_secondary |-> {},
   local_routes |-> {}, neighbors |-> [n \in {} |-> "mac"]]

\* What happened: SAI refused; the addresses that were added while SAI had them, or
\* while they were the primary address, which may have been freed.
History == [failed : BOOLEAN, doubled : SUBSET Addresses]

With(f, x, y) == [z \in DOMAIN f \cup {x} |-> IF z = x THEN y ELSE f[z]]
Without(f, X) == [z \in DOMAIN f \ X |-> f[z]]

-----------------------------------------------------------------------------
(* A call goes through several steps, each of which may return an error.   *)
(* A world w is what a step finds and leaves: the variables, whether it    *)
(* failed, and what this call meets.                                       *)

World(meets) ==
  [bundle |-> bundle, rifHandle |-> rifHandle, hw |-> hw, past |-> past,
   error |-> FALSE, crash |-> FALSE, meets |-> meets]

Refuses(w, what) == w.meets.refused = what
Failed(w, what)  == [w EXCEPT !.past.failed = @ \/ Refuses(w, what)]

-----------------------------------------------------------------------------
(* The route class and SAI *)

\* __route_local_add of prefixes X: one that has an entry is counted up.
RoutesAdded(h, X, r) ==
  LET new  == [refer |-> 1, rif |-> IF r \in h.rifs THEN r ELSE None]
      with == [x \in DOMAIN h.routes \cup X |->
                 IF x \notin X THEN h.routes[x]
                 ELSE IF x \in DOMAIN h.routes THEN [h.routes[x] EXCEPT !.refer = @ + 1]
                 ELSE new]
  IN [h EXCEPT !.routes = with]

\* An entry that keeps other references.
CountedDown(entry) == [entry EXCEPT !.refer = @ - 1]

\* __route_remove of local routes X, each once: it never fails.
RoutesRemoved(h, X) ==
  LET gone == {x \in X \cap DOMAIN h.routes : h.routes[x].refer = 1}
  IN [h EXCEPT !.routes =
        [x \in DOMAIN @ \ gone |-> IF x \in X THEN CountedDown(@[x]) ELSE @[x]]]

\* ops_sai_neighbor_remove of neighbours N of router interface r.
HostsRemoved(h, N, r) == [h EXCEPT !.hosts = @ \ (N \X {r})]

\* SAI's router interface r has a route or a neighbour.
InUse(h, r) == \/ \E x \in DOMAIN h.routes : h.routes[x].rif = r
               \/ \E n \in Hosts : <<n, r>> \in h.hosts

-----------------------------------------------------------------------------
(* Router interfaces *)

\* Faulty variant of RoutesAndHostsRemoved: the neighbours are forgotten.
RoutesRemovedOnly(w, b) ==
  [w EXCEPT !.hw = RoutesRemoved(@, w.bundle[b].local_routes),
            !.bundle[b].local_routes = {}]

\* The first half of __ofbundle_router_intf_remove.  Neighbours with an empty
\* MAC address stay in the map.
RoutesAndHostsRemoved(w, b) ==
  LET B     == w.bundle[b]
      sent  == {n \in DOMAIN B.neighbors : B.neighbors[n] # "empty"}
      inHw  == {n \in sent : <<n, B.rif.id>> \in w.hw.hosts}
      gone  == IF inHw = sent THEN sent ELSE inHw \cap w.meets.walked
  IN [w EXCEPT !.hw = HostsRemoved(RoutesRemoved(@, B.local_routes), gone, B.rif.id),
               !.bundle[b].local_routes = {},
               !.bundle[b].neighbors = Without(@, gone),
               !.error = inHw # sent]

\* The netdevs of b are told.
Told(w, b, x) ==
  [w EXCEPT !.rifHandle = [p \in Netdevs |-> IF p \in w.bundle[b].linked THEN x ELSE @[p]]]

\* __ofbundle_router_intf_remove, __router_intf_remove
RifRemoved(w, b) ==
  LET w1 == RoutesAndHostsRemoved(w, b)
      w2 == Told(w1, b, None)
      r  == w.bundle[b].rif.id
  IN IF w1.error \/ ~w.bundle[b].rif.made THEN w1
     ELSE IF r \notin w2.hw.rifs \/ InUse(w2.hw, r) THEN [w2 EXCEPT !.error = TRUE]
     ELSE [w2 EXCEPT !.hw.rifs = @ \ {r}, !.bundle[b].rif = NoRif]

\* __router_intf_create returns 0 whatever SAI says; r is the id SAI gives.
RifCreated(w, b, handle, r) ==
  LET no == Refuses(w, "rif")
      w1 == [w EXCEPT !.hw.rifs = IF no THEN @ ELSE @ \cup {r},
                      !.bundle[b].rif = [made |-> TRUE, handle |-> handle,
                                         id |-> IF no THEN None ELSE r, on |-> FALSE]]
  IN Told(Failed(w1, "rif"), b, b)

\* __router_intf_set_state
RifEnabled(w, b, on) ==
  IF w.bundle[b].rif.on = on THEN w
  ELSE IF w.bundle[b].rif.id \notin w.hw.rifs THEN [w EXCEPT !.error = TRUE]
  ELSE [w EXCEPT !.bundle[b].rif.on = on]

-----------------------------------------------------------------------------
(* Addresses *)

\* __ofproto_ip_add, __route_ip_to_me_add: SAI refuses an address it has, which
\* nobody looks at.
AddressesAdded(w, A) ==
  [w EXCEPT !.hw.own = @ \cup A, !.past.doubled = @ \cup (A \cap w.hw.own)]

\* ipv4_primary is read.
PrimaryRead(w, b) == [w EXCEPT !.crash = @ \/ (w.bundle[b].freed /\ ~w.meets.intact)]

\* __ofbundle_ip_remove: the primary address is freed, not forgotten.
IpRemoved(w, b) ==
  [PrimaryRead(w, b) EXCEPT
     !.hw.own = @ \ ({w.bundle[b].ipv4_primary} \cup w.bundle[b].ipv4_secondary),
     !.bundle[b].freed = w.bundle[b].ipv4_primary # None,
     !.bundle[b].ipv4_secondary = {}]

\* The primary IPv4 address becomes a, or none.
PrimaryChanged(w, b, a) ==
  LET old == w.bundle[b].ipv4_primary
      w1  == IF old = a THEN PrimaryRead(w, b)
             ELSE [PrimaryRead(w, b) EXCEPT !.hw.own = @ \ {old}]
  IN [AddressesAdded(w1, {a} \ {None}) EXCEPT !.bundle[b].ipv4_primary = a,
                                             !.bundle[b].freed = FALSE]

\* __ofbundle_ip_secondary_reconfigure: the removed ones first.
SecondaryChanged(w, b, A) ==
  LET old == w.bundle[b].ipv4_secondary
      w1  == [w EXCEPT !.hw.own = @ \ (old \ A),
                       !.past.doubled = @ \cup ({w.bundle[b].ipv4_primary} \cap (A \ old))]
  IN [AddressesAdded(w1, A \ old) EXCEPT !.bundle[b].ipv4_secondary = A]

\* __ofbundle_ip_reconfigure.  The route class takes no IPv6 address: adding one
\* is an error, and the secondary addresses are not looked at.
IpReconfigured(w, b, s, changed) ==
  LET B  == w.bundle[b]
      w1 == IF b \in Lags /\ B.ipv4_primary = None /\ s.ip4 = None /\ s.db # None
            THEN [AddressesAdded(w, {s.db}) EXCEPT !.bundle[b].ipv4_primary = s.db]
            ELSE w
      w2 == IF "ip4" \in changed THEN PrimaryChanged(w1, b, s.ip4) ELSE w1
  IN IF "ip6" \in changed THEN [w2 EXCEPT !.error = TRUE]
     ELSE IF "secondary" \in changed THEN SecondaryChanged(w2, b, s.secondary)
     ELSE w2

-----------------------------------------------------------------------------
(* Bundles *)

\* The bundle netdev p is linked to, none or one.
Links(bundles, p) == {b \in DOMAIN bundles : p \in bundles[b].linked}

\* __ofbundle_port_del of each of P: only the members of a LAG are told.
PortsDeleted(w, b, P) ==
  [w EXCEPT !.bundle[b].linked = @ \ P,
            !.rifHandle = [p \in Netdevs |->
               IF p \in P /\ w.bundle[b].lag = "made" /\ w.bundle[b].rif.made
               THEN None ELSE @[p]]]

\* Faulty variant of Stripped: the LAG stays.
StrippedButLag(w, b) ==
  IF w.bundle[b].cached THEN w
  ELSE LET w1 == [RifRemoved(IpRemoved(w, b), b) EXCEPT !.error = FALSE]
       IN PortsDeleted(w1, b, w1.bundle[b].linked)

\* The first half of __ofbundle_destroy: everything the bundle has in hardware
\* goes, errors are logged.  lag_id gets 1, which asks for no new LAG.
Stripped(w, b) ==
  IF w.bundle[b].cached THEN w
  ELSE LET w1 == [RifRemoved(IpRemoved(w, b), b) EXCEPT !.error = FALSE]
           w2 == PortsDeleted(w1, b, w1.bundle[b].linked)
       IN [w2 EXCEPT !.bundle[b].lag = IF @ = "made" THEN "gone" ELSE @]

\* __ofbundle_destroy of the whole bundle.
Destroyed(w, b) == [Stripped(w, b) EXCEPT !.bundle = Without(@, {b})]

\* __bundle_remove: the bundle whose last port goes is destroyed.  If it is no
\* LAG, the netdev keeps its pointer to the router interface.
Removed(w, b, p) ==
  LET w1 == PortsDeleted(w, b, {p})
  IN IF w1.bundle[b].linked = {} THEN Destroyed(w1, b) ELSE w1

\* Faulty variant of PortAdded: the port stays in the bundle it was in.
PortAddedTwice(w, b, p) ==
  [w EXCEPT !.bundle[b].linked = @ \cup {p},
            !.rifHandle[p] = IF w.bundle[b].lag = "made" /\ w.bundle[b].rif.made
                             THEN b ELSE @]

\* Faulty variant of PortAdded: the netdev is not told of the router interface.
PortAddedUntold(w, b, p) ==
  LET L  == Links(w.bundle, p)
      w1 == IF L = {} THEN w ELSE Removed(w, CHOOSE c \in L : TRUE, p)
  IN [w1 EXCEPT !.bundle[b].linked = @ \cup {p}]

\* __ofbundle_port_add of a port some bundle may have.
PortAdded(w, b, p) ==
  LET L  == Links(w.bundle, p)
      w1 == IF L = {} THEN w ELSE Removed(w, CHOOSE c \in L : TRUE, p)
  IN [w1 EXCEPT !.bundle[b].linked = @ \cup {p},
                !.rifHandle[p] = IF w1.bundle[b].lag = "made" /\ w1.bundle[b].rif.made
                                 THEN b ELSE @]

PortsReconfigured(w, b, P) ==
  LET w1 == PortsDeleted(w, b, w.bundle[b].linked \ P)
  IN FoldSet(LAMBDA p, v : PortAdded(v, b, p), w1, P \ w.bundle[b].linked)

\* __ofbundle_lag_reconfigure
LagReconfigured(w, b) ==
  IF b \in Lags /\ w.bundle[b].lag = "none"
  THEN [Failed(w, "lag") EXCEPT
          !.bundle[b].lag = IF Refuses(w, "lag") THEN @ ELSE "made"]
  ELSE w

\* __ofbundle_router_intf_reconfigure; a LAG bundle without a LAG is taken for a
\* port, and its port is NULL.
RifReconfigured(w, b, s, r) ==
  LET B      == w.bundle[b]
      handle == IF b \in VlanIntfs THEN s.vlan ELSE b
      w1     == IF B.rif.made /\ B.rif.handle # handle THEN RifRemoved(w, b) ELSE w
      w2     == IF w1.error \/ w1.bundle[b].rif.made THEN w1 ELSE RifCreated(w1, b, handle, r)
  IN IF b \in Lags /\ B.lag # "made" THEN [w EXCEPT !.crash = TRUE]
     ELSE IF w2.error THEN w2 ELSE RifEnabled(w2, b, s.enable)

\* __bundle_set of a bundle that is not cached, but for the last lines.
Applied(w, b, s, changed, r) ==
  LET w1 == PortsReconfigured(LagReconfigured(w, b), b, s.slaves)
      w2 == RifReconfigured(w1, b, s, r)
  IN IF w2.error THEN w2 ELSE IpReconfigured(w2, b, s, changed)

\* The last lines of __bundle_set, after an error too.
Kept(w, b, s, changed) ==
  [w EXCEPT !.bundle[b].conf = s, !.bundle[b].changed = changed]

\* __is_bundle_active of a new bundle
IsActive(b) == b \in Lags \/ lane[b]

\* What a process has when it starts, and is left of one that stopped.
Nothing ==
  [bundle |-> [b \in {} |-> FreshBundle], rifHandle |-> [p \in Netdevs |-> None],
   hw |-> [rifs |-> {}, routes |-> [x \in {} |-> 0], hosts |-> {}, own |-> {}],
   past |-> [failed |-> FALSE, doubled |-> {}]]

Becomes(w) ==
  /\ bundle' = w.bundle
  /\ rifHandle' = w.rifHandle
  /\ hw' = w.hw
  /\ past' = w.past

Stops == Becomes(Nothing) /\ crashed' = TRUE

Does(w) == IF w.crash THEN Stops ELSE Becomes(w) /\ UNCHANGED crashed

\* The id SAI gives a new router interface, perhaps one that was given back.
\* Bound: a call that may make one has one left.
NewRifs == RifIds \ hw.rifs

\* What a call that SAI may refuse X may meet: does freed memory still hold what it
\* held, what does SAI refuse, and which neighbours are walked before one that SAI
\* does not have?  Bound: SAI refuses once.
Met(X) ==
  [intact : IF \E b \in DOMAIN bundle : bundle[b].freed THEN BOOLEAN ELSE {TRUE},
   refused : {"nothing"} \cup (IF past.failed THEN {} ELSE X \cap Refusable),
   walked : IF past.failed THEN SUBSET Hosts ELSE {{}}]

-----------------------------------------------------------------------------
(* The calls of switchd and of the netdev class *)

\* What switchd says changed, of the settings it gave last.
ChangesFrom(b, s) ==
  LET new(x, none) == s[x] # IF b \in DOMAIN bundle THEN bundle[b].conf[x] ELSE none
  IN {x \in Changes : \/ x = "ip4" /\ new("ip4", None)
                      \/ x = "secondary" /\ new("secondary", {})
                      \/ x = "ip6" /\ s.ip6 /\ new("ip6", FALSE)}

BundleSet(b, s) ==
  /\ ~crashed
  /\ \E m \in Met({"rif", "lag"}), r \in NewRifs :
       LET w0      == World(m)
           changed == ChangesFrom(b, s)
           w1      == IF b \in DOMAIN bundle THEN w0
                      ELSE [w0 EXCEPT !.bundle = With(@, b, [FreshBundle EXCEPT
                                                               !.cached = ~IsActive(b)])]
           w2      == IF w1.bundle[b].cached THEN w1 ELSE Applied(w1, b, s, changed, r)
       IN /\ Does(Kept(w2, b, s, changed))
          /\ UNCHANGED <<lane, asked>>

\* __bundle_set without settings.
BundleDestroy(b) ==
  /\ ~crashed
  /\ b \in DOMAIN bundle
  /\ \E m \in Met({}) : Does(Destroyed(World(m), b))
  /\ UNCHANGED <<lane, asked>>

\* __bundle_remove, called when the port of a netdev goes.
BundleRemove(p) ==
  /\ ~crashed
  /\ \E m \in Met({}), b \in Links(bundle, p) : Does(Removed(World(m), b, p))
  /\ UNCHANGED <<lane, asked>>

\* ofproto_sai_bundle_disable, by the split of the neighbour port: the bundle is
\* found through the ports it has.
BundleDisable(p) ==
  /\ ~crashed
  /\ lane[p]
  /\ lane' = [lane EXCEPT ![p] = FALSE]
  /\ \E m \in Met({}) :
       LET w0 == World(m)
       IN Does(IF Links(bundle, p) = {} THEN w0
               ELSE LET b == CHOOSE c \in Links(bundle, p) : TRUE
                    IN [Stripped(w0, b) EXCEPT !.bundle[b].cached = TRUE])
  /\ UNCHANGED asked

\* The local routes of the bundle again, with the new router interface.
LocalRoutesRestored(w, b) ==
  IF w.error THEN w
  ELSE [w EXCEPT !.hw = RoutesAdded(@, w.bundle[b].local_routes, w.bundle[b].rif.id)]

\* ofproto_sai_bundle_enable, by the unsplit of the neighbour port: the bundle is
\* found by its name, so never a LAG.  The settings are freed and then copied.
BundleEnable(p) ==
  /\ ~crashed
  /\ ~lane[p]
  /\ lane' = [lane EXCEPT ![p] = TRUE]
  /\ IF p \in DOMAIN bundle
     THEN \E m \in Met({"rif", "lag"}), r \in NewRifs, intact \in BOOLEAN :
            LET B  == bundle[p]
                w1 == Applied([World(m) EXCEPT !.bundle[p].cached = FALSE],
                              p, B.conf, B.changed, r)
                w2 == [Kept(w1, p, B.conf, B.changed) EXCEPT !.crash = @ \/ ~intact]
            IN Does(LocalRoutesRestored(w2, p))
     ELSE UNCHANGED <<bundle, rifHandle, hw, past, crashed>>
  /\ UNCHANGED asked

\* __ofbundle_lookup_by_netdev_name
Found(b) == IF b \in Lags THEN {b} \cap DOMAIN bundle
            ELSE Links(bundle, b)

\* __l3_route_action adding a local route, __l3_local_route_attach_to_bundle.
\* switchd asks for none on a member of a LAG.
RouteAdd(b, x) ==
  /\ ~crashed
  /\ asked[x] = None /\ Found(b) \subseteq {b}
  /\ asked' = [asked EXCEPT ![x] = b]
  /\ IF b \notin Found(b) \/ ~bundle[b].rif.made THEN Stops
     ELSE /\ IF bundle[b].cached THEN UNCHANGED <<bundle, hw>>
             ELSE /\ hw' = RoutesAdded(hw, {x}, bundle[b].rif.id)
                  /\ bundle' = [bundle EXCEPT ![b].local_routes = @ \cup {x}]
          /\ UNCHANGED <<rifHandle, past, crashed>>
  /\ UNCHANGED lane

\* __l3_route_action deleting it; a bundle that is not found has no routes left.
RouteDelete(x) ==
  /\ ~crashed
  /\ asked[x] # None
  /\ asked' = [asked EXCEPT ![x] = None]
  /\ LET C == {c \in Found(asked[x]) : ~bundle[c].cached /\ x \in bundle[c].local_routes}
     IN /\ hw' = IF C = {} THEN hw ELSE RoutesRemoved(hw, {x})
        /\ bundle' = [c \in DOMAIN bundle |->
             IF c \in C THEN [bundle[c] EXCEPT !.local_routes = @ \ {x}] ELSE bundle[c]]
  /\ UNCHANGED <<rifHandle, lane, crashed, past>>

\* __add_l3_host_entry: an entry with an empty MAC address is not sent; the
\* status of SAI is not looked at.  switchd resolves an address on one bundle.
HostAdd(b, n, mac) ==
  /\ ~crashed
  /\ b \in DOMAIN bundle /\ ~bundle[b].cached
  /\ \A c \in DOMAIN bundle \ {b} : n \notin DOMAIN bundle[c].neighbors
  /\ IF ~bundle[b].rif.made THEN Stops
     ELSE \E m \in Met({"neighbor"}) :
       LET w   == World(m)
           N   == bundle[b].neighbors
           had == IF n \in DOMAIN N THEN N[n] ELSE "none"
           r   == bundle[b].rif.id
           w1  == IF mac = "empty" \/ had = mac THEN w
                  ELSE [Failed(w, "neighbor") EXCEPT
                          !.hw.hosts = IF r \in hw.rifs /\ ~Refuses(w, "neighbor")
                                       THEN @ \cup {<<n, r>>} ELSE @]
       IN Does(IF had = "mac" THEN w1
               ELSE [w1 EXCEPT !.bundle[b].neighbors = With(@, n, mac)])
  /\ UNCHANGED <<lane, asked>>

\* __delete_l3_host_entry
HostDelete(b, n) ==
  /\ ~crashed
  /\ b \in DOMAIN bundle /\ ~bundle[b].cached
  /\ IF ~bundle[b].rif.made THEN Stops
     ELSE /\ IF /\ n \in DOMAIN bundle[b].neighbors
                /\ bundle[b].neighbors[n] = "empty" \/ <<n, bundle[b].rif.id>> \in hw.hosts
             THEN /\ bundle' = [bundle EXCEPT ![b].neighbors = Without(@, {n})]
                  /\ hw' = [hw EXCEPT !.hosts = @ \ {<<n, bundle[b].rif.id>>}]
             ELSE UNCHANGED <<bundle, hw>>
          /\ UNCHANGED <<rifHandle, past, crashed>>
  /\ UNCHANGED <<lane, asked>>

Init ==
  /\ bundle = Nothing.bundle
  /\ rifHandle = Nothing.rifHandle
  /\ hw = Nothing.hw
  /\ past = Nothing.past
  /\ lane \in [Netdevs -> BOOLEAN]
  /\ \A p \in Netdevs : p \in Neighbors \cup VlanIntfs => lane[p]
  /\ asked = [x \in Prefixes |-> None]
  /\ crashed = FALSE

Next ==
  \/ \E b \in Bundles :
       \/ \E s \in Configs[b] : BundleSet(b, s)
       \/ BundleDestroy(b)
       \/ \E x \in Prefixes : RouteAdd(b, x)
       \/ \E n \in Hosts : HostDelete(b, n) \/ \E mac \in {"mac", "empty"} : HostAdd(b, n, mac)
  \/ \E p \in Netdevs : BundleRemove(p)
  \/ \E p \in Neighbors : BundleDisable(p) \/ BundleEnable(p)
  \/ \E x \in Prefixes : RouteDelete(x)

Spec == Init /\ [][Next]_vars

-----------------------------------------------------------------------------
(* Properties *)

\* The variables have the types of the C declarations, and a port is linked to
\* one bundle.
TypeOK ==
  /\ DOMAIN bundle \subseteq Bundles
  /\ \A b \in DOMAIN bundle :
       LET B == bundle[b]
       IN /\ B.cached \in BOOLEAN /\ B.freed \in BOOLEAN
          /\ B.conf \in Configs[b] /\ B.changed \subseteq Changes
          /\ B.linked \subseteq Netdevs
          /\ B.lag \in {"none", "made", "gone"}
          /\ B.rif.made \in BOOLEAN /\ B.rif.id \in RifIds \cup {None}
          /\ B.ipv4_primary \in Addresses \cup {None}
          /\ B.ipv4_secondary \subseteq Addresses
          /\ B.local_routes \subseteq Prefixes
          /\ DOMAIN B.neighbors \subseteq Hosts
  /\ rifHandle \in [Netdevs -> Bundles \cup {None}]
  /\ hw.rifs \subseteq RifIds /\ hw.hosts \subseteq Hosts \X RifIds
  /\ DOMAIN hw.routes \subseteq Prefixes /\ hw.own \subseteq Addresses
  /\ lane \in [Netdevs -> BOOLEAN]
  /\ asked \in [Prefixes -> Bundles \cup {None}]
  /\ \A p \in Netdevs : Cardinality(Links(bundle, p)) <= 1

\* Every router interface of SAI is one bundle's, and no bundle is left with the
\* id of one that is gone: bundles that are set, disabled, enabled, moved and
\* destroyed in any order leak none and share none, while SAI refuses nothing.
RifsFollowBundles ==
  ~past.failed /\ ~crashed =>
    /\ \A r \in hw.rifs : \E b \in DOMAIN bundle : bundle[b].rif.id = r
    /\ \A b \in DOMAIN bundle : bundle[b].rif.made => bundle[b].rif.id \in hw.rifs
    /\ \A b, c \in DOMAIN bundle :
         bundle[b].rif.made /\ bundle[c].rif.made /\ bundle[b].rif.id = bundle[c].rif.id => b = c

\* What hangs on a router interface is what its bundle lists: no local route and
\* no neighbour outlives the listing, and none is on the router interface of
\* another bundle or on one that was replaced.
RoutesFollowBundles ==
  ~past.failed /\ ~crashed =>
    /\ \A x \in DOMAIN hw.routes :
         \E b \in DOMAIN bundle : x \in bundle[b].local_routes
                                  /\ hw.routes[x] = [refer |-> 1, rif |-> bundle[b].rif.id]
    /\ \A b \in DOMAIN bundle : bundle[b].local_routes \subseteq DOMAIN hw.routes
    /\ hw.hosts = UNION {{n \in DOMAIN bundle[b].neighbors : bundle[b].neighbors[n] # "empty"}
                           \X {bundle[b].rif.id} : b \in DOMAIN bundle}

\* SAI has exactly the addresses the bundles record, but for those that were
\* added while it had them or became secondary while primary, which the next
\* change of the primary address removes; whatever SAI refused of the rest.
AddressesFollowBundles ==
  ~crashed =>
    hw.own \ past.doubled =
      (UNION {bundle[b].ipv4_secondary
              \cup (IF bundle[b].freed THEN {} ELSE {bundle[b].ipv4_primary} \ {None}) :
              b \in DOMAIN bundle}) \ past.doubled

\* Router interfaces, routes, neighbours and addresses of SAI are those of the
\* bundles, each under its own conditions.
HardwareFollowsBundles == RifsFollowBundles /\ RoutesFollowBundles /\ AddressesFollowBundles

\* A bundle that is cached has nothing in hardware, no port and no LAG.
CachedHasNothing ==
  \A b \in DOMAIN bundle : bundle[b].cached /\ ~past.failed /\ ~crashed =>
    /\ ~bundle[b].rif.made /\ bundle[b].lag # "made" /\ bundle[b].linked = {}
    /\ bundle[b].local_routes = {} /\ bundle[b].ipv4_secondary = {}

\* The pointer of a netdev that is linked leads to the router interface of the
\* bundle it is linked to, never to that of a bundle it left or to one that is
\* gone: through moves into and out of LAGs, and bundles destroyed under a port.
HandlesAreLive ==
  ~past.failed /\ ~crashed =>
    \A b \in DOMAIN bundle : \A p \in bundle[b].linked :
      rifHandle[p] = IF bundle[b].rif.made THEN b ELSE None

\* Enabling a bundle restores its configuration ("Restore bundle configuration"):
\* one that has its router interface again has the local routes it was asked for.
RoutesAreRestored ==
  [][\A p \in Neighbors \cap DOMAIN bundle, x \in Prefixes :
       BundleEnable(p) /\ ~crashed' /\ bundle'[p].rif.made /\ asked[x] = p
         => x \in DOMAIN hw'.routes]_vars
=============================================================================
