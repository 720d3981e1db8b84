# Formal models of the OpenSwitch SAI plugin

`ops-switchd-sai-plugin` is the part of OpenSwitch's `ops-vswitchd` that drives a
switch through the Switch Abstraction Interface (SAI). `switchd` (the bridge code,
outside the repository) calls the plugin through three Open vSwitch provider
interfaces -- `netdev`, `ofproto` and plugin extensions -- and the plugin turns each
call into calls of *SAI class* methods (`sai-vlan.c`, `sai-lag.c`, ...), each of
which keeps tables of its own beside what SAI keeps.

This directory holds TLA+ models of the plugin, the TLC configurations that check
them on small instances, and TLAPS proofs about them.

* [Inventory](#inventory)
* [Modules](#modules)
* [Runs](#runs)
* [Fairness](#fairness)
* [Proofs](#proofs)
* [What the code does otherwise than it says](#what-the-code-does-otherwise-than-it-says)
* [Limits](#limits)
* [Plan](#plan)

## Inventory

Everything `switchd` asks for is executed by its main thread, one call at a time;
the plugin adds two threads of its own (SAI's notification callbacks and the MAC
learning timer) and one optional one (sFlow's receiver). So the hard behaviours
are of three kinds: a call that *stops half way* because SAI refuses one of the
many operations it is made of; a *long sequence of legal calls* after which the
plugin's tables, the bundles' recorded settings and the hardware no longer agree;
and, around MAC learning, true *interleavings*.

| Component (source) | State | Operations | Interacts with | What makes it correct |
|---|---|---|---|---|
| VLAN class (`sai-vlan.c`) | `all_vlan_member[vid]`: port -> tagging mode | add/del access port, add/del trunks, create/destroy VLAN, host interface VLAN | SAI VLANs; port class (PVID, filters); called by the bundle code | the table is a copy of the hardware, also over a VLAN that is destroyed and created again; PVID and membership move together |
| Port class (`sai-port.c`) | previous configuration of a port (caller's) | config set, MTU, PVID, VLAN attributes, statistics, split/unsplit | SAI ports; netdev | changes are applied once; PVID as VLAN class |
| Bundles (`sai-ofproto-provider.c`) | `struct ofbundle_sai`: VLAN settings, port list, LAG, router interface, IPs, local routes, neighbours, cached configuration | `bundle_set`, `bundle_remove`, `set_vlan`, enable/disable of a bundle | VLAN, LAG, router interface, route, neighbour, mirror classes | hardware follows the recorded settings however they were reached; a port belongs to one bundle; a port that left carries nothing over |
| Bundle configuration cache (same file) | `config_cache` of a bundle whose port is split away | `ofproto_sai_bundle_enable`, `_disable` | netdev | a cached bundle has nothing in hardware; settings made meanwhile are applied when it is enabled |
| MAC learning (`sai-mac-learning.c`) | ring of hash tables, write and read index, trigger | FDB event callback, timer, `get_hmap`, flush | SAI FDB callback thread, timer thread, main thread, database | buffers are handed out whole, once, in order; the database follows the FDB |
| FDB class (`sai-fdb.c`) | none | flush, ageing time | MAC learning | -- |
| LAG class (`sai-lag.c`) | pool of ids, `all_lag`: id -> handle, members | create, remove, add/del member, tx enable, balance mode | bundles | pool, table and hardware agree whatever failed; LAGs are not shared |
| Netdev class (`sai-netdev.c`) | per port: configuration, default configuration, hardware id, enabled lanes | construct, `set_hw_intf_info`, `set_hw_intf_config`, split/unsplit of lanes, loopback and VLAN interfaces | port, host interface, bundle cache | lanes are the parent's or the children's, also after a refused split; a neighbour that was switched off comes back; the remembered configuration is that of hardware |
| Routes and next hops (`sai-route.c`) | prefix -> next hops, references, ECMP group; next hop -> references | add/del local and remote routes, IP-to-me | SAI routes, next hops, groups; neighbours | next hop counts are exact; the hardware route goes where the table says |
| Neighbours (`sai-neighbor.c`, provider) | `neighbors` of a bundle: IP -> MAC; shares next hop counts | create, remove, activity | SAI neighbours; routes | SAI has the neighbours with a MAC; a reference each |
| Router, router interfaces (`sai-router.c`, `sai-router-intf.c`, provider) | table of router interfaces; addresses, local routes and neighbours of a bundle; a pointer in the netdev | create, remove, admin state, `ip_reconfigure`, `add_l3_host_entry`, `l3_route_action` | bundles, routes, neighbours, netdev | an interface is one bundle's and what hangs on it is what that bundle lists; no pointer to a bundle that is gone |
| STP groups (`sai-stp.c`) | instance table, index bitmap, default instance | create, remove, add/del VLAN, port state, show | VLANs, port | a group is one instance, and its VLANs and port states are what was asked |
| Host interfaces, traps, policers (`sai-host-intf.c`, `sai-policer.c`) | host interface table, trap groups, policers | create/remove interface, register/unregister traps | netdev | no leak over create/remove |
| Mirrors (`sai-mirror.c`, provider) | sessions, sources per direction | `mirror_set`, and the bundles that come and go | bundles, LAGs | no pointer between a mirror and a bundle outlives either; only sources mirror |
| sFlow (`sai-ofproto-sflow.c`, `sai-sflow.c`) | agent, pollers and samplers per port | set options, poll, receive | sFlow library, own thread | options applied once |
| Classifier (`sai-classifier.c`) | tables, their indices and bindings, accounts of rules and counters | apply, remove, replace, list update, statistics | provider (placeholders of rules) | the accounts are what the tables take; a table is there as long as a port has it |
| Hash (`sai-hash.c`) | field mask | set, reset | SAI hash | -- |
| API class, notifications, common (`sai-api-class.c`, ...) | switch and label maps | init, uninit, port map | all | -- |
| Vendor code (`vendor/mlnx`, `vendor/centec`) | SDK handles | replacements of single methods | SAI classes | -- |

The hazards of this code -- each at its line, with the property that guards it or the
reason none does -- are listed in `PROJECT.json`.

## Modules

```
SaiVlan  <--- BundleVlan  <--- MCBundleVlan      SaiLag  <--- SaiMirror  <--- MCSaiMirror
   ^              ^                                 ^            ^---- SaiMirrorProofs
   |              |                                 +-- MCSaiLag
   +--------------+---- BundleVlanProofs         SaiRoute  <--- MCSaiRoute, SaiRouteProofs
                                                 Netdev    <--- MCNetdev, NetdevProofs
MacLearning --INSTANCE--> BatchQueue             SaiStp    <--- MCSaiStp, SaiStpProofs
   ^--- MCMacLearning, MacLearningProofs         SaiClassifier <--- MCSaiClassifier, SaiClassifierProofs
BundleL3  <--- MCBundleL3, BundleL3Proofs
```

**SaiVlan** is `sai-vlan.c` with the port attributes it writes. The state is `vlans`,
SAI's VLANs, and one record per port: SAI's tagging mode on each VLAN (`member`), the
entry in `all_vlan_member` (`remembered`), PVID and filter attributes. Each method
(`AccessPortAdd`, `AccessPortDel`, `TrunksPortAdd`, `TrunksPortDel`) is an operator from a
port's record to `[ok, port]`, the status returned and the record left behind. A walk over
a bitmap that stops at the first VLAN SAI refuses is `WalkedBefore`: the VLANs below the
first refused one. `VlanCreate`, `VlanDestroy` and `VlanIntfUpdate` are the VLAN calls, with the
replay of remembered members. `SaiRefuses` changes at most one VLAN SAI refuses to work on, so
that calls fail in the middle; `StrictRemove` chooses whether SAI also refuses to remove
a port that is not a member.

**BundleVlan** extends it with the provider's bundles: `BundleSet` is all of `bundle_set` as far as
VLANs, ports and LAG membership go -- first the ports that leave
(`SetStopsLeaving` when one fails), then `__vlan_reconfigure` on those that stay
(`SetStopsReconfiguring`), then the ports that join, each taken from the bundle it was in
(`SetJoins`). `LeaveOld` and `JoinNew` are the two halves of `__vlan_reconfigure` on one port, `PortAdd` and
`PortDel` the VLAN half of `__ofbundle_port_add` and `_del`. Since a VLAN method touches
one port only, a walk over a port list is the result it has on each port together with the ports
it reaches (`Walked`, `ReachedPorts`). `BundleDestroy`, `BundleRemove` and `VlanStep` are the other entry points. `Disciplined` restricts the client to
VLANs that exist, and to destroying those no bundle uses; `NativeInTrunks` allows a native
VLAN among the trunks.

**MacLearning** is the three threads of MAC learning. Each action is one section under
`mlearn_mutex`, or one unlocked read, with program counters `cbPc`, `timerPc` and `mainPc`
between them: the callback adds an event (`Receive`), tests fullness after it released
the mutex (`CheckFull`), publishes (`CallbackRun`); the timer looks at the indices unlocked
(`TimerWakes`) and then publishes (`TimerRun`); the main thread flushes (`Flush`, `FlushRun`), takes a buffer
(`Take`) and only later reads what it points to (`UpdateDb`). SAI's FDB, the
extension that reads the buffers and the database are external. `taken` and `damaged` are
history variables: what the buffer held when it was taken, and whether an event was
dropped, or a buffer cleared while it was read.

**BatchQueue** is what the ring promises: a current batch that grows or changes, a bounded
queue of batches, and a hand-over of the oldest. `MacLearning!RingIsAQueue` is its
specification under the mapping that unrolls the ring.

**SaiLag** is `sai-lag.c` with the life of a bundle's LAG in the provider: the pool of ids,
`all_lag`, SAI's LAGs, and `lag_info` and port list of each bundle. Any SAI call may be refused
(`Fails`), and the variants the code has for that are disjuncts.

**SaiRoute** is `sai-route.c` and `sai-neighbor.c`: the tables `nexthop` (`all_nexthop`, only the counts) and `route`
(`all_route`), the MACs a bundle remembers of its neighbours, and SAI's next hops, groups,
routes and neighbours in one record `sai`. An operator from `sai` to `sai` is one call of SAI, which does
nothing when SAI refuses; what it refuses to *create* during a call is chosen from
`Refusals`, what it refuses because an object is missing or in use follows from `sai`. The cases
of `__sai_route_remote_action` are actions of their own: first next hops (`AddFails`, `AddSingle`, `AddGroup`), more next hops
(`AddKnown`, `AddToEcmp`), and what a removal leaves (`LeaveOne`, `LeaveSeveral`, `LeaveLocal`, `LastHopsRemove`).
`rstate` and `nh_ecmp` come out of `malloc`, so a route that was never settled has `"unset"` for them,
and `IsEcmp` and `GroupOf` are any value. Removing a router interface removes its neighbours one by
one: that is a sequence of `NeighborDelete`. `clean` and `leaked` are history variables:
whether nothing was refused and calls named next hops as they are, and what the two paths that forget
next hops and groups (`LeaveLocal`, `LastHopsRemove`) left.

**BundleL3** is the layer 3 half of the same bundles, and their configuration cache: router
interfaces (`sai-router-intf.c`), own addresses, local routes and neighbours. The state is `bundle`, a function
on the bundles there are, `rifHandle`, the pointer `sai-netdev.c` keeps into one of them, `hw`, the plugin's table of
routes with SAI's objects, and `lane`, whether the netdev of a bundle has its lanes. A step of a call is an operator from
worlds to worlds (`World`), so that a call is read in the order of the code: `Applied` is `bundle_set` past its
early returns, `Stripped` the half of `__ofbundle_destroy` that disabling shares, `RifReconfigured` and `IpReconfigured` the two calls of
the same name. `w.error` is the status on the way, `w.crash` an assertion that failed. The actions are the entry points: `BundleSet`,
`BundleDestroy`, `BundleRemove`, `BundleDisable`, `BundleEnable`, `RouteAdd`, `RouteDelete`, `HostAdd`, `HostDelete`. The code reads
`ipv4_primary` after it freed it (`freed`); what it held may be there still or not (`intact`).

**Netdev** is `sai-netdev.c` with what it calls of the port and host interface classes: `Construct` and `Destruct`, `SetInfo` and
`SetInfoInternal` (hardware information of ports, VLAN interfaces), `SetConfig` with the split and unsplit in it (`SplitOf`, `UnsplitOf`), and `BundleSet`
and `BundleDestroy` as much as a neighbour needs, whose bundle a split disables (`NeighborDisabled`). A configuration is a member of a small set, applied as the
difference to what the netdev remembers (`Applied`); `Mixed` is what SAI has when a difference met something else.
`past` records which informations, splits and host interfaces failed, for the properties to name.

**SaiStp** is `sai-stp.c` behind the entry points of the provider: `all_stp`, the bitmap of ids, SAI's
instances with the port states in each, and what the caller believes (`groups`). `Show` is in it since the
command that shows an instance creates an entry for it. SAI may refuse each call.

**SaiMirror** extends `SaiLag`: the bundle of that module, a LAG or not, and a bundle of its own for each port, as
sources and outputs of mirrors. `MirrorSet` is `mirror_set` in all its branches, `MirrorDestroy` the one without settings; `PortJoins`,
`PortLeaves`, `BundleDestroy`, `PlainSet` and `PlainDestroy` are the steps of the provider after which mirrors lose a source or their output, each
together with what `SaiLag` says of the LAG. The mirrors that have a bundle which goes as their output go in the order of a hash table
(`MirrorsGone`), which decides which sessions SAI lets go.

**SaiClassifier** is `sai-classifier.c` without the translation of match fields: `Apply`, `Remove`, `Replace` and `ListUpdate` over the tables, the
indices they take (`AssignedIndex`) and the accounts (`use` and `total`). A list is how many entries it has and how many
of them count. The provider's rule and container calls are placeholders that always succeed.
`crowded`, `lost` and `crashed` are history variables that the properties name.

Operators whose comment says *Faulty variant* are not used by any specification. Each is what
the operator that follows would be after a plausible slip in the code (a dropped guard, a missing
reset, an off-by-one), and documents which property notices; `PROJECT.json` pairs
them.

## Runs

| Run | Configuration | Instance | Question |
|---|---|---|---|
| `bundle_vlan` | `MCBundleVlan.cfg` | 2 ports, 2 VLANs, an ordinary bundle and a LAG, disciplined client, SAI that accepts | does hardware follow the recorded settings? |
| `bundle_errors` | `MCBundleVlanErrors.cfg` | 1 port, 1 VLAN, 2 bundles, any client, SAI that refuses | what survives calls that stop half way, and does the member table stay a copy of the hardware? |
| `mac_ring` | `MCMacLearningLive.cfg` | 3 buffers of 2 nodes, 1 MAC, 1 port, with fairness | is the ring a queue, and does everything arrive? |
| `mac_moves` | `MCMacLearningMoves.cfg` | 2 buffers of 2 nodes, 1 MAC, 2 ports, unnamed ports | does the database follow the FDB? |
| `mac_read` | `MCMacLearningRead.cfg` | as `mac_ring` | a violation: see below |
| `lag` | `MCSaiLag.cfg` | 3 bundles, 3 ports, 2 ids, 3 handles, SAI that refuses | do pool, table, hardware and bundles agree? |
| `route` | `MCSaiRoute.cfg` | 2 prefixes, 3 next hops, 2 groups, 2 MACs, 1 own address, one refusal a call, any next hops named | do counts, tables and SAI agree, and does anything stay behind? |
| `bundle_l3` | `MCBundleL3.cfg` | a port, a VLAN interface and a LAG, 2 addresses, 1 prefix, 1 neighbour, a SAI that may refuse neighbours | do interfaces, routes, neighbours and addresses follow the bundles, also through the cache? |
| `netdev` | `MCNetdev.cfg` | a port with one child, a neighbour, a VLAN interface, 3 configurations, SAI that refuses any step | who has the lanes, and does the configuration remembered stay that of hardware? |
| `stp` | `MCSaiStp.cfg` | 3 ids, 4 instances, 1 VLAN, 1 port, SAI that refuses, ids asked for in and out of range | is a group an instance, and is in it what was asked? |
| `mirror` | `MCSaiMirror.cfg` | a LAG bundle, 2 ports with bundles of their own, 2 mirrors, 2 sessions, one direction | do pointers and sessions survive bundles that come and go? |
| `classifier` | `MCSaiClassifier.cfg` | 3 lists of 4 contents, 2 ports, an L3 interface, 4 indices, 2 rules a table, 3 counters | do the accounts add up, and do tables follow the ports? |

**Why the bounds are enough.** The VLAN code treats ports independently and, but for the order
of a walk, VLANs too: two VLANs give a walk that stops after the first, a native VLAN beside a trunk,
and a change from one to the other; two ports give a port list where one stays and one leaves, and
a move that empties a bundle or does not. Pool and LAGs need one bundle more than ids for a pool
that runs out, and three handles so that SAI has a free one besides. The ring needs two
buffers to be full after one is published, three to have a backlog of two and an order
to keep; a buffer of two nodes can be partly and completely full. One MAC suffices
for the database since events of different MACs only share slots, which one MAC's cancelled nodes
fill too. Three next hops give groups of two and of three, which a removal leaves with three, two, one or none;
two prefixes share next hops and compete for groups, and a count of two is the first that is not
freed; `MaxRef` bounds counts by 2. `MCBound` says which states `route` goes on from: up to nine objects, which is
everything that fits with one neighbour, as long as the history is clean; three once something was
refused, and two beside an own address, which touches no table.

`bundle_l3` has one bundle of each kind the code tells apart; a VLAN interface that changes its VLAN is what replaces a router interface,
a port named by a LAG's slaves what moves between bundles, an address that is primary or secondary what is promoted. A larger instance, in which the port has
addresses too, the LAG gets an IPv6 address (an error in this code) and SAI refuses interfaces, neighbours and LAGs, has 301,924 states and passes as well. In `netdev` one child is enough: children are split and unsplit
as one, and the refusals choose any subset they are reached in; with two children 534,000 states were
searched without an error. `stp` has an id more than it can fill with a default instance and two groups; with
two VLANs (2,652,674 states) it passes as well. `mirror` has a session each for the two mirrors, and ports enough for a LAG that loses one; with a
SAI that refuses LAG calls (`MayFail`, 359,416 states) it passes as well. `classifier` has room for one table more than the two
that are accounted for exactly, rules that fill a table, and counters that two lists together exceed; `MinBound` bounds the one
counter that can fall for ever, below zero after a failed replacement.

**What the runs show.** With a client that uses VLANs while they exist and a SAI that
accepts them, `LinkedPortsConverge` holds for every sequence of calls: recorded settings,
list changes, mode changes and moves between bundles always end in exactly the VLANs, tagging modes
and filters of the last settings, and `UnlinkedPortsAreFresh` says a port that left is
as if never touched. When SAI refuses, neither holds (`__ofbundle_port_del` leaves early and the port
keeps VLANs); what does hold is that no port is in two bundles, and that PVID and member table stay with the hardware.
Next hop counts are exact, and SAI routes where the tables say, for every order of
calls that name the next hops a route has, with two exceptions in the code: the last next hops of a route
without local references are removed by a path that returns before it gives their references back,
and neither that path nor the one that leaves local references removes the group. `leaked` is exactly what they left.
Whatever is refused or named, a route can be removed from the table, entries have their
objects, and SAI routes no prefix behind the table's back.
Router interfaces, local routes, neighbours and addresses follow the bundles whatever is disabled,
cached, moved and enabled again, as long as SAI refuses no neighbour (addresses even then); a cached bundle has nothing in
hardware, and the pointer of a linked netdev is live. The lanes of a port are its own or its
children's through all refusals, but for ports whose information failed; neighbours come back unless a split or unsplit was
refused. A group is an instance until create is called with the id of an entry. Mirrors and bundles point to each other or not
at all. The classifier's accounts always add up and keep to the counters there are, and are exact as long as there are at most two tables.
`damaged` bounds what is claimed of MAC learning: dropped events are allowed for, silent
divergence is not.

Deadlock is checked in every run but `bundle_l3`, `netdev`, `stp`, `mirror` and `classifier`, whose models have states
in which the process has stopped (`crashed`, `stopped`): an assertion of the code failed, or memory was read of which nothing can be said. `VIEW` drops the history `taken` in the MAC runs whose
properties do not depend on it, and `leaked` in `route` once the history is not clean, when no property reads it. `SYMMETRY` is used over ports (and bundles and handles) only
in runs without liveness properties; no specification orders those constants.

## Fairness

Only `mac_ring` needs it (`Fairness` in `MacLearning`). Each thread's step has weak
fairness: pthreads are scheduled, and nothing holds `mlearn_mutex` for ever. `Take` has
strong fairness: the main loop of `switchd` returns to the extension's trigger again and again,
but may have other work (flushes) in between. `Plug` (the registration of the extension at
startup) happens. Nothing is assumed of SAI: it need not learn or age anything.

## Proofs

| Module | Theorems | Argument |
|---|---|---|
| `BundleVlanProofs`, VLAN class | `VlanTypeCorrect`, `RememberedIsHwHolds`, `PvidIsRememberedHolds`, `VlanClassIsFaithfulHolds`, `FrozenWhileAbsentHolds` | `Coherent` is a property of one port's record (the table agrees with the members of existing VLANs, the PVID has a remembered member); every operator from records to results preserves it, one lemma each. `VlanInv` is type correctness with `Coherent` of every port. |
| `MacLearningProofs` | `LearningTypeCorrect`, `PublishedIsNotEmptyHolds`, `RingIsAQueueHolds`, `DatabaseFollowsFdbHolds` | `RingInv` adds to the types that published buffers are not empty, and that `taken` is as the program counters say (`TakenWhileReading`); the arithmetic of indices that wrap around is in lemmas of its own. The refinement is shown step by step: publishing maps to Publish, taking to Take, coalescing to a change of the current batch, all else to a stutter. `DatabaseFollowsFdb` is a fold over the outstanding buffers, each of them a fold over its nodes, and not inductive: a buffer that is applied backwards need not commute with the next event. What is inductive is `DbInv`: there are databases between the outstanding buffers (`Leads`) such that each buffer is `Exact`, that is, says of each MAC at most that it left the one port and came to the other. An exact buffer applied newest first gives what the events gave in their order (`ExactApplied`), and coalescing an event into it keeps it exact (`ExactAdded`); publishing, taking, applying and flushing split and join the chain. What the two folds compute is unfolded by well-founded induction over the finite sets of indices they go through (`SetInduction`, `FoldThere`). |
| `SaiMirrorProofs`, LAGs | `LagTypeCorrect`, `PoolMatchesTableHolds`, `TableMatchesHwHolds`, `LagClassIsFaithfulHolds`, `BundlesOwnTheirLagHolds`, `LagsFollowBundlesHolds` | `LagInv` joins the four facts, none of which is inductive alone: that an id given out is fresh needs the pool, that a member change reaches one LAG needs distinct handles. `FollowInv` adds that no port is linked twice (`LinkedOnce`), without which a port of another bundle's LAG could be refused. |
| `SaiMirrorProofs`, mirrors | `MirrorsImplementLags`, `MirrorTypeCorrect`, `MirrorsAndBundlesAgreeHolds`, `OnlySourcesMirrorHolds` | Every step of `SaiMirror` is a step of `SaiLag` or leaves its variables alone, so that a behaviour of the one is a behaviour of the other and `LagInv` and `FollowInv` hold. `MirrorInv` says of the session of a mirror that it is of its output's port or LAG (`MonitorsRight`), which is live because the bundle owns it, and of a port that mirrors that a bundle *lists* it: the members of LAGs are those ports while nothing failed (`Tidy`). Calls walk from world to world; each step of the walk leaves a world as right as it found it (`Keeps`), whatever the order in which a hash table yields the mirrors that go, and the last world is right for the lists the provider leaves (`StepKeeps`). |
| `SaiRouteProofs` | `RouteTypeCorrect`, `RoutesCanGoHolds`, `TableCoversSaiHolds`, `ExactInvariant`, `CountsAreExactHolds`, `SaiFollowsTablesHolds`, `NothingIsLeftBehindHolds` | The first three are inductive together (`RouteInv`): a count is positive because an entry whose count is one goes, an entry has its object because a call creates next hops before it refers to them and removes only those whose entries it freed, and the routes of SAI and of the table change together or not. Exactness holds while the history is clean, and its three parts need each other (`ExactInv`): a next hop may go only because no route's group still holds it, a group only because it is no other route's, and a count is the number of routes and neighbours that list the next hop. Calls on a prefix are facts about one route (`Touches`, `Regroups`), all others being as before; there is a lemma for each action. |
| `BundleVlanProofs`, bundles | `BundleTypeCorrect`, `OneBundlePerPortHolds`, `BundlesKeepVlanClassFaithful`, `BundlesLeaveAbsentVlans`, `LinkedPortsConvergeHolds`, `UnlinkedPortsAreFreshHolds`, `ListsAndLagsAgreeHolds` | `BundleInv` is `VlanInv` with the port lists: `bundle_set` and the rest reach ports through the operators of `SaiVlan` alone, so the lemmas of the class carry over, and with them what the class promises. The last three are about a client that keeps to existing VLANs with natives outside the trunks and a SAI that refuses nothing (`Disciplined`, `~NativeInTrunks`, `~MayRefuse`; removal of a stranger may be refused or not). `LinkedPortsConverge` speaks of hardware, and is not inductive: a method consults the table. `Converged` states of each port the remembered *and* the hardware membership of every VLAN, and leaves out the PVID and egress filter of native VLANs, which `LeaveOld` resets on the way. What a port list keeps (`Kept`) is counted along the list; that every count is met takes a least element (`LeastIsIn`). |
| `BundleL3Proofs` | `L3Invariant`, `L3TypeCorrect`, `HardwareFollowsBundlesHolds`, `CachedHasNothingHolds`, `HandlesAreLiveHolds` | A call is a walk from world to world, and in the middle of it a bundle may have no port, a route no interface. So there are three strengths: `Base` is what every world satisfies whatever SAI refuses (types, a port in one bundle at most, addresses that are those of the bundles); `Sound` adds what holds as long as it refuses nothing; `Fine(w, X)` lets the call that is running set the bundles of X right only at its end. Each step of a call has a lemma that says what it changes and that it keeps the three; the result of an operator is described once (`Put`) and used by that description. Ports of a LAG are taken one by one by a fold over a set: that the fold takes them all, and in the order it chooses, is shown by well-founded induction over the finite set (`FoldThere`, `SetInduction`). Between calls `L3Inv` adds that each bundle is set up as its configuration says, who asked for a route, and that a netdev's bundle which is not cached has its netdev: without the last, disabling and enabling a bundle could lose a pointer. |
| `NetdevProofs` | `NetdevInvariant`, `NetdevTypeCorrect`, `LanesHaveOneUserHolds`, `NeighborsComeBackHolds`, `ConfigIsHwHolds` | Each call takes a *world*, the record of every netdev and port, to a world, in steps that may be cut short. A sound world says who uses which lanes by the enabled flags of parents and children, what has no hardware information yet takes no part in a split, and a neighbour that is off has a reason. A split is sound as a whole, not after each half of it, so the lemmas are about split and unsplit with every point at which SAI may refuse. |
| `SaiStpProofs` | `StpInvariant`, `StpTypeCorrect`, `GroupsAreInstancesHolds`, `GroupsFollowCallsHolds` | `StpInv` adds that an entry of the table with a handle is a group, with a handle of its own (`EntriesAreGroups`), that SAI never loses the default instance (`DefaultIsFirst`), and that a VLAN SAI does not have is in no group (`AbsentInNone`): so the VLAN that is created again starts where the properties say. |
| `SaiClassifierProofs` | `ClassInvariant`, `ClassTypeCorrect`, `AccountsAddUpHolds`, `TwoTablesAreExactHolds`, `TablesFollowPortsHolds` | A sum of amounts over tables is the cardinality of a set of units, so that to change one summand is to add or remove finitely many elements, and no induction is needed. Apply, remove and replace are sequences of steps on a world of tables and bindings; one lemma says of each step what it does to the accounts and to who has which table, and the calls follow from these. |

The theorems hold for all values of the constants, under the `ASSUME`s of the modules: VLAN
ids and the default PVID are numbers, ring sizes are positive with at least two buffers, `Macs` is
finite, as are prefixes and next hop addresses (both have a fixed number of bits), the handle of an empty entry and the absent port are not real ones, own addresses of the switch are not
prefixes of routes, and handles of next hops and groups differ; the kinds of ports are disjoint, no two parents share a neighbour, bundles are not ports, a VLAN interface is no LAG and no port, ports are finite, the addresses of two bundles differ, and there are the two directions of mirroring at most;
the classifier has finitely many ports and two tables at least. TLC
evaluates each on the instances it checks.

Four theorems assume more: `Disciplined`, `~NativeInTrunks` and `~MayRefuse` in the last three about bundles, and
`MovesAreAged`, that SAI reports a move as AGED and then LEARNED, in `DatabaseFollowsFdbHolds`: without it the property
fails (`MCMacLearningMoved.cfg`, below).

Only model-checked is liveness (`EventsArePublished`, `BuffersAreTaken`, `DatabaseSettles`), which needs fairness and ENABLED.

## What the code does otherwise than it says

One run is expected to find a violation; `PROJECT.json` quotes the comment.

* `mac_read`: the buffer the main thread reads without the mutex is the first the writer reaches when
  it wraps around; `MACS_TABLES_IS_FULL` protects the buffer *after* it.

More configurations, which are no runs, each check one property that the code does not have; TLC shows how it comes about.

* `MCBundleVlanPriority.cfg` (`NativeTakesPriority`): a port that joins a bundle whose native VLAN is also among its trunks is added
  to that VLAN untagged and then, by the trunk walk, tagged. `__vlan_reconfigure` takes care of this case,
  `__ofbundle_port_add` does not.
* `MCBundleVlanPvid.cfg` (`NativeTaggedPvid`): when a native tagged bundle loses a trunk, removing its ports from the trunk resets
  their PVID, and nothing sets it to the native VLAN again.
* `MCMacLearningMoved.cfg` (`DatabaseFollowsFdb`): if SAI reports a move as a LEARNED event alone, a following AGED event in the same
  buffer cancels it, and the database keeps the port the MAC left.
* `MCBundleL3Restore.cfg` (`RoutesAreRestored`): enabling a bundle restores local routes from the table that disabling it emptied.
* `MCNetdevDefaults.cfg` (`DefaultsAreKept`): the information of a port that is set again reads its default configuration again, by then
  the one that was applied.
* `MCSaiClassifierIndex.cfg` (`AccountsAreExact`): a table takes every free index and keeps the last, so that the third one shares index 0 with the second.
* `MCSaiClassifierUpdate.cfg` (`RulesAreOneList`): "removes rules and installs the new list", but `active_rules`, which bounds the
  removal, is never counted up.

What the models have besides, because the code does, and what properties exempt:

* Layer 3: a neighbour that SAI refused, and so does not have, ends `__ofbundle_router_intf_remove` early, so that the interface leaks and the netdev keeps its
  pointer into a bundle that is freed. `bundle_remove` of a port with a router interface leaves that pointer too. A secondary address that becomes the primary one
  loses its route, and so does a primary address that becomes secondary once the next one replaces it: both had one route between them (`past.doubled`). A primary IPv6 address is always an error and ends
  `ip_reconfigure` before the secondary addresses. A bundle that is disabled and enabled again never gets a LAG (`lag_id` is not reset). Changing the VLAN of an internal interface
  drops its local routes and neighbours. A route for a cached bundle, which has no interface, fails an assertion. A bundle made while the lanes of its child port are inactive stays cached for ever.
* Netdevs: a refused split leaves the neighbour off, and no later call enables it; information that is set again splits and unsplits again; a failed information
  leaves the lanes active; a child that is registered after the split stays off; a refused unsplit creates the children's host interfaces again
  with a handle nobody initialised.
* Spanning tree: an instance SAI refused keeps its entry and id; create with an id that has an entry overwrites the handle (`over`); a VLAN taken out
  of any group goes to the default instance (`adrift`).
* Mirrors: a port that is moved from a bundle without a LAG goes on mirroring (`stale`); `mirror_set` that meets a source of another
  mirror leaves the earlier sources attached; what SAI refuses of sessions is ignored; a bundle that is no LAG and has not exactly one port fails an assertion.
* Classifier: interfaces that are L3 only are not counted, so that a table may go under them; a replacement that fails its second check leaves the port without
  a list (`lost`).

## Limits

SAI is modelled from how the plugin calls it. What it refuses is nondeterministic, within
what the comment of each module says; that a port is in one LAG at most, that destroying a VLAN drops its members
that handles are unique, and that it has one next hop object for an IP address are assumptions on it. A handle that `SaiRoute`
reads uninitialized is any group or none. A `prefix` of a route is parsed by every call alike, so that it is an
abstract value; IPv6, which the neighbour code does not support, is left out.

The three models of a bundle -- VLANs and port list, LAG, layer 3 -- are not composed into one: each has the calls whole, with the other halves taken as
succeeding. Mirrors of cached bundles are left out. One virtual router is taken as there. NULL arguments and out-of-memory aborts are
not modelled: `xmalloc` aborts the process. In `MacLearning` the length of sleeps is abstracted to
fair waking. `ops_sai_lag_set_tx_enable` and the balance mode are not in `SaiLag`. A configuration of a port is one value, not its six fields.
Logging, statistics read-outs and unixctl dumps change no state and are left out, but for the one of `sai-stp.c` that does.

Not modelled: sFlow (agent and option handling around an external library), the hash class (no state of its own), the API class, initialisation and
notification glue, traps and policers (registered once from a table at start), the translation of ACL match fields, and vendor code over the vendors' own SDKs.

## Plan

Every part in which state lives in several places and calls are many-step is modelled: VLANs with
bundles, MAC learning, LAGs, routes with their next hops and neighbours, the layer 3 half and the cache of bundles, netdevs, spanning tree groups, mirrors, and the classifier's tables. Next:

1. The sampler table of sFlow.
