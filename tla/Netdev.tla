------------------------------- MODULE Netdev -------------------------------
(***************************************************************************)
(* The netdevs of ports and of internal interfaces (src/src/sai-netdev.c): *)
(* their information and configuration, the split of a port into its      *)
(* children and back, and the neighbour port a split switches off.  With   *)
(* them the parts of the port class (src/src/sai-port.c) and of the host   *)
(* interface class (src/src/sai-host-intf.c) they call.                    *)
(*                                                                         *)
(* The generic port class refuses every split, and so does the Mellanox    *)
(* class, which calls it but names neighbours; SAI accepts one here only   *)
(* when MaySplit, as another vendor's class may.  SAI may refuse to        *)
(* read a port, to set an attribute and to create a host interface.        *)
(*                                                                         *)
(* switchd keeps the netdev of a port for as long as it runs.  A failed    *)
(* assertion stops the process, as does unlocking a mutex that is not      *)
(* locked, and nothing more is said of it.                                 *)
(***************************************************************************)
EXTENDS FiniteSets

CONSTANTS
  Splitable,   \* ports that may be split
  Children,    \* ports that there are while their parent is split
  Fixed,       \* other ports
  Internals,   \* netdevs of VLAN interfaces
  ParentOf,    \* the parent of each child
  NeighborOf,  \* the fixed port that a split switches off, or None
  Configs,     \* struct ops_sai_port_config: its values
  Enabled,     \* those with hw_enable
  Zero,        \* the value of no bytes set
  HwDefault,   \* the configuration of a port SAI starts with
  Mixed,       \* in SAI: what the netdev of the port has not set as a whole
  MaySplit,    \* does SAI ever split a port?
  None

Ports   == Splitable \cup Children \cup Fixed
Netdevs == Ports \cup Internals

ASSUME KindsAssumption ==
  /\ Splitable \cap (Children \cup Fixed \cup Internals) = {}
  /\ Children \cap (Fixed \cup Internals) = {} /\ Fixed \cap Internals = {}
  /\ None \notin Netdevs /\ None \notin Configs
ASSUME SplitAssumption ==
  /\ ParentOf \in [Children -> Splitable] /\ MaySplit \in BOOLEAN
  /\ NeighborOf \in [Splitable -> Fixed \cup {None}]
ASSUME NeighborAssumption ==
  \A p, q \in Splitable : NeighborOf[p] # None /\ NeighborOf[p] = NeighborOf[q] => p = q
ASSUME ConfigAssumption ==
  /\ {Zero, HwDefault} \subseteq Configs /\ Mixed \notin Configs
  /\ Enabled \subseteq Configs /\ Zero \notin Enabled

VARIABLES
  state,   \* "absent", "new", "half" (its information failed) or "ready"
  lane,    \* split_info.is_hw_lane_active
  default, \* default_config
  config,  \* config, what was applied last
  hw,      \* SAI: the configuration of each port
  hif,     \* sai_host_intf: the netdevs that have a host interface
  bundle,  \* the provider's bundle of each fixed port: "none", "live", "cached"
  stopped, \* an assertion failed
  past     \* history, see History

vars == <<state, lane, default, config, hw, hif, bundle, stopped, past>>

\* What happened: ports whose information failed, parents of which a split or
\* unsplit did not go through, and netdevs for which SAI refused a host interface;
\* trouble: SAI refused something other than a split.
History == [half : SUBSET Ports, torn : SUBSET Splitable, refused : SUBSET Netdevs,
            trouble : BOOLEAN]

With(f, X, y) == [z \in DOMAIN f |-> IF z \in X THEN y ELSE f[z]]

\* __netdev_sai_from_name, and the children of p the list has
Listed(p)     == state[p] # "absent"
ChildrenOf(p) == {c \in Children : ParentOf[c] = p /\ state[c] = "ready"}

-----------------------------------------------------------------------------
(* A call goes through several steps; a world is what a step finds and     *)
(* leaves.                                                                 *)

\* What a call meets.  SAI accepts a split; or refuses it, and an uninitialized
\* handle names some port or none; or refuses a host interface, after those of the
\* children walked before; or refuses to read or to set a port.
\* Bounds: one refusal in a call, and one in all of what is no split.
Smooth == [split |-> TRUE, named |-> TRUE, refused |-> None, walked |-> {}, port |-> FALSE]

Meets ==
  (IF MaySplit THEN {Smooth} ELSE {})
  \cup {[Smooth EXCEPT !.split = FALSE, !.named = b] : b \in BOOLEAN}
  \cup (IF past.trouble THEN {}
        ELSE {[Smooth EXCEPT !.split = MaySplit, !.port = TRUE]}
             \cup {[Smooth EXCEPT !.split = MaySplit, !.refused = n] : n \in Netdevs}
             \cup UNION {{[Smooth EXCEPT !.split = MaySplit, !.refused = c, !.walked = W] :
                            W \in SUBSET (Children \ {c})} : c \in Children})

World(m) ==
  [state |-> state, lane |-> lane, default |-> default, config |-> config, hw |-> hw,
   hif |-> hif, bundle |-> bundle, past |-> past, stop |-> FALSE, error |-> FALSE, meets |-> m]

\* __host_intf_netdev_create of each of X: a name that is there is enough.
HifsCreated(w, X) ==
  LET no  == w.meets.refused
      err == no \in X \ w.hif
  IN [w EXCEPT !.hif = @ \cup (IF err THEN (X \cap w.meets.walked) \ {no} ELSE X),
               !.past.refused = IF err THEN @ \cup {no} ELSE @,
               !.past.trouble = @ \/ err,
               !.error = err]

\* Faulty variant of HifsRemoved: the entries stay.
HifsKept(w, X) == w

\* __host_intf_netdev_remove of each of X: the entry goes, and nothing else.
HifsRemoved(w, X) == [w EXCEPT !.hif = @ \ X]

\* Faulty variant of Applied: the first configuration is recorded only.
AppliedLater(w, p, old, new) ==
  [w EXCEPT !.hw[p] = IF old = new \/ old = Zero THEN @
                      ELSE IF ~w.meets.port /\ @ = old THEN new ELSE Mixed,
            !.past.trouble = @ \/ (w.meets.port /\ old # new),
            !.error = w.meets.port /\ old # new]

\* __set_hw_intf_config_full and what is around it, up to what SAI refuses: only
\* what differs between old and new is set.  SAI starts with ports that are off,
\* so that what zero does not set is as new has it.
Written(w, p, old, new) ==
  IF old = new THEN w.hw[p]
  ELSE IF ~w.meets.port /\ w.hw[p] = IF old = Zero THEN HwDefault ELSE old THEN new
  ELSE Mixed

\* __port_config_set of port p
Applied(w, p, old, new) ==
  [w EXCEPT !.hw[p] = Written(w, p, old, new),
            !.past.trouble = @ \/ (w.meets.port /\ old # new),
            !.error = w.meets.port /\ old # new]

\* __disable_neighbor_netdev_config, ofproto_sai_bundle_disable
NeighborDisabled(w, p) ==
  LET q == NeighborOf[p]
  IN IF q = None \/ w.state[q] \notin {"half", "ready"} THEN w
     ELSE [w EXCEPT !.bundle[q] = IF @ = "live" THEN "cached" ELSE @, !.lane[q] = FALSE]

\* Faulty variant of NeighborEnabled: nothing is done.
NeighborLeft(w, p) == w

\* __enable_neighbor_netdev_config, ofproto_sai_bundle_enable: the neighbour is
\* given the configuration of p, as a change of the default configuration of p,
\* which is overwritten.
NeighborEnabled(w, p) ==
  LET q  == NeighborOf[p]
      w1 == Applied([w EXCEPT !.lane[q] = TRUE], q, w.default[p], w.config[p])
  IN IF q = None \/ w.state[q] \notin {"half", "ready"} THEN w
     ELSE IF w1.error THEN w1
     ELSE [w1 EXCEPT !.hw[q] = IF w.default[p] = w.config[p] THEN @ ELSE Mixed,
                     !.default[p] = w.config[p],
                     !.bundle[q] = IF @ = "cached" THEN "live" ELSE @]

Torn(w, p) == [w EXCEPT !.past.torn = IF w.error THEN @ \cup {p} ELSE @ \ {p}]

\* The lanes when SAI has split p, of the children on, and when it has unsplit p.
LanesToChildren(w, p, on) == [w EXCEPT !.lane = With([@ EXCEPT ![p] = FALSE], on, TRUE)]
LanesToParent(w, p) == [w EXCEPT !.lane = With([@ EXCEPT ![p] = TRUE], ChildrenOf(p), FALSE)]

\* __split: a port that is refused gets its host interface back.
SplitOf(w, p) ==
  LET C  == ChildrenOf(p)
      w1 == HifsRemoved(NeighborDisabled(w, p), {p})
      w2 == HifsCreated(w1, C)
      on == IF w2.error THEN C \cap (w.meets.walked \cup {w.meets.refused}) ELSE C
  IN IF ~w.lane[p] THEN w
     ELSE IF ~w.meets.split THEN Torn([HifsCreated(w1, {p}) EXCEPT !.error = TRUE], p)
     ELSE Torn(LanesToChildren(w2, p, on), p)

\* __unsplit: when it is refused, the children get host interfaces that are bound
\* to the port an uninitialized handle names.
UnsplitOf(w, p) ==
  LET C  == ChildrenOf(p)
      w1 == HifsRemoved(w, C)
      w2 == HifsCreated(w1, C)
      w3 == HifsCreated(LanesToParent(w1, p), {p})
  IN IF w.lane[p] THEN w
     ELSE IF ~w.meets.split
     THEN Torn([w2 EXCEPT !.error = TRUE, !.stop = C # {} /\ ~w.meets.named], p)
     ELSE Torn(IF w3.error THEN w3 ELSE NeighborEnabled(w3, p), p)

\* __update_split_config: errors are not returned.
SplitUpdated(w, p) ==
  LET w1 == IF p \in Children
            THEN IF Listed(ParentOf[p]) THEN SplitOf(w, ParentOf[p]) ELSE [w EXCEPT !.stop = TRUE]
            ELSE IF p \in Splitable THEN UnsplitOf(w, p)
            ELSE w
  IN [w1 EXCEPT !.error = FALSE]

Does(w) ==
  /\ stopped' = w.stop
  /\ state' = w.state /\ lane' = w.lane /\ default' = w.default /\ config' = w.config
  /\ hw' = w.hw /\ hif' = w.hif /\ bundle' = w.bundle /\ past' = w.past

-----------------------------------------------------------------------------
(* The calls of switchd *)

\* __construct
Construct(n) ==
  /\ ~stopped /\ state[n] = "absent"
  /\ state' = [state EXCEPT ![n] = "new"]
  /\ UNCHANGED <<lane, default, config, hw, hif, bundle, stopped, past>>

\* __destruct, of a VLAN interface.
Destruct(n) ==
  /\ ~stopped /\ n \in Internals /\ state[n] # "absent"
  /\ state' = [state EXCEPT ![n] = "absent"]
  /\ lane' = [lane EXCEPT ![n] = FALSE]
  /\ hif' = IF state[n] = "ready" THEN hif \ {n} ELSE hif
  /\ UNCHANGED <<default, config, hw, bundle, stopped, past>>

\* __port_config_get: the configuration of p in SAI becomes its default.
DefaultRead(w, p) == [w EXCEPT !.default[p] = w.hw[p]]

\* __set_hw_intf_info of a port that has it already, or for the first time.
SetInfo(p) ==
  /\ ~stopped /\ p \in Ports /\ Listed(p)
  /\ \E m \in Meets :
       LET w0 == World(m)
           w1 == [w0 EXCEPT !.lane[p] = TRUE]
           w2 == HifsCreated(DefaultRead(w1, p), {p})
           w3 == IF m.port THEN [w1 EXCEPT !.error = TRUE, !.past.trouble = TRUE] ELSE w2
       IN Does(IF state[p] = "ready" THEN SplitUpdated(w0, p)
               ELSE IF p \in Children
               THEN [w0 EXCEPT !.state[p] = "ready"]
               ELSE IF w3.error
               THEN [w3 EXCEPT !.state[p] = "half", !.past.half = @ \cup {p}]
               ELSE [w3 EXCEPT !.state[p] = "ready"])

\* __set_hw_intf_info_internal
SetInfoInternal(n) ==
  /\ ~stopped /\ n \in Internals /\ Listed(n) /\ state[n] # "ready"
  /\ \E m \in Meets :
       LET w == HifsCreated(World(m), {n})
       IN Does(IF w.error THEN w ELSE [w EXCEPT !.state[n] = "ready", !.lane[n] = TRUE])

\* Faulty variant of Asked: there is no default.
AskedOnly(p, c) == c

\* What switchd does not give is the default.
Asked(p, c) == IF c # None THEN c ELSE default[IF p \in Children THEN ParentOf[p] ELSE p]

\* __set_hw_intf_config: a netdev without information unlocks what it never locked.
SetConfig(p, c) ==
  /\ ~stopped /\ p \in Ports /\ Listed(p)
  /\ \E m \in Meets :
       LET w0  == World(m)
           new == Asked(p, c)
           w1  == IF new \in Enabled THEN SplitUpdated(w0, p) ELSE w0
           w2  == Applied(w1, p, w1.config[p], new)
       IN Does(IF state[p] # "ready" \/ (p \in Children /\ ~Listed(ParentOf[p]))
               THEN [w0 EXCEPT !.stop = TRUE]
               ELSE IF w1.stop \/ ~w1.lane[p] THEN w1
               ELSE IF w2.error THEN w2
               ELSE [w2 EXCEPT !.config[p] = new])

\* __set_mtu, __update_flags: SAI has it, config does not.
SetAround(p) ==
  /\ ~stopped /\ p \in Ports /\ state[p] = "ready" /\ lane[p]
  /\ hw' = [hw EXCEPT ![p] = Mixed]
  /\ UNCHANGED <<state, lane, default, config, hif, bundle, stopped, past>>

\* __bundle_set of a new bundle on a port, and its destruction: the provider asks
\* for the lane (netdev_sai_get_lane_state).
BundleSet(p) ==
  /\ ~stopped /\ bundle[p] = "none" /\ state[p] = "ready"
  /\ bundle' = [bundle EXCEPT ![p] = IF lane[p] THEN "live" ELSE "cached"]
  /\ UNCHANGED <<state, lane, default, config, hw, hif, stopped, past>>

BundleDestroy(p) ==
  /\ ~stopped /\ bundle[p] # "none"
  /\ bundle' = [bundle EXCEPT ![p] = "none"]
  /\ UNCHANGED <<state, lane, default, config, hw, hif, stopped, past>>

Init ==
  /\ state = [n \in Netdevs |-> "absent"]
  /\ lane = [n \in Netdevs |-> FALSE]
  /\ default = [p \in Ports |-> Zero]
  /\ config = [p \in Ports |-> Zero]
  /\ hw = [p \in Ports |-> HwDefault]
  /\ hif = {}
  /\ bundle = [p \in Fixed |-> "none"]
  /\ stopped = FALSE
  /\ past = [half |-> {}, torn |-> {}, refused |-> {}, trouble |-> FALSE]

Next ==
  \/ \E n \in Netdevs : Construct(n) \/ Destruct(n) \/ SetInfo(n) \/ SetInfoInternal(n)
  \/ \E p \in Ports :
       \/ \E c \in (Configs \ {Zero}) \cup {None} : SetConfig(p, c)
       \/ SetAround(p)
  \/ \E p \in Fixed : BundleSet(p) \/ BundleDestroy(p)

Spec == Init /\ [][Next]_vars

-----------------------------------------------------------------------------
(* Properties *)

\* The variables have the types of the C declarations.
TypeOK ==
  /\ state \in [Netdevs -> {"absent", "new", "half", "ready"}]
  /\ lane \in [Netdevs -> BOOLEAN]
  /\ default \in [Ports -> Configs \cup {Mixed}] /\ config \in [Ports -> Configs \cup {Mixed}]
  /\ hw \in [Ports -> Configs \cup {Mixed}]
  /\ hif \subseteq Netdevs
  /\ bundle \in [Fixed -> {"none", "live", "cached"}]
  /\ stopped \in BOOLEAN /\ past \in History

\* A parent and its child never use their common lanes together, whatever SAI
\* refuses between the steps of a split, unless the information of the parent
\* failed: it is then set active again although it may have been split meanwhile.
LanesAreExclusive ==
  \A c \in Children : lane[c] /\ lane[ParentOf[c]] => ParentOf[c] \in past.half

\* A port that can be used has its host interface, bound to itself, and a parent
\* that is split or a child that is not there has none, through refused splits
\* and roll backs; SAI refused the host interface, or refused the unsplit, if not.
HostIntfsFollowLanes ==
  ~stopped => \A p \in Ports :
    state[p] = "ready" /\ p \notin past.refused \cup past.half =>
      \/ p \in Fixed
      \/ p \in Splitable /\ (lane[p] <=> p \in hif)
      \/ p \in Children /\ (\/ lane[p] <=> p \in hif
                            \/ ParentOf[p] \in past.torn)

\* The lanes, and the host interfaces that go with them, are the parent's or the
\* child's.
LanesHaveOneUser == LanesAreExclusive /\ HostIntfsFollowLanes

\* A neighbour that is off comes back: it is off while the port that switched it
\* off is split, and not afterwards, and so is its bundle.  A split or an unsplit
\* that did not go through leaves it off.
NeighborsComeBack ==
  ~stopped => \A p \in Splitable \ (past.torn \cup past.half) :
    LET q == NeighborOf[p]
    IN q # None /\ state[q] = "ready" /\ q \notin past.half =>
         /\ ~lane[q] => ~lane[p]
         /\ bundle[q] = "live" => lane[q]
         /\ bundle[q] = "cached" => ~lane[q]

\* SAI has the configuration that was applied last to each port, so that the
\* differences that are sent next are all there are: through splits, failures and
\* defaults taken from the parent, but for ports that something was set on
\* outside of a whole configuration.
ConfigIsHw ==
  \A p \in Ports : hw[p] # Mixed /\ config[p] # Zero => hw[p] = config[p]

\* The default configuration that is read from a port once stays what it was.
DefaultsAreKept ==
  [][\A p \in Ports : state[p] = "ready" => default'[p] = default[p]]_vars
=============================================================================
