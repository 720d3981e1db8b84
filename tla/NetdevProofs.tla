---------------------------- MODULE NetdevProofs ----------------------------
(* What holds of the netdevs (Netdev) for any ports, parents, neighbours   *)
(* and configurations: the types, one user of the lanes of a split port,   *)
(* the neighbour that comes back, and that SAI has what was applied last.  *)
(*                                                                         *)
(* A call is a composition of steps on worlds, so the inductive invariant  *)
(* is stated of a world (Sound), and the variables are one (Now).  A lemma *)
(* for each step says what it changes; the split and the unsplit are sound *)
(* as a whole, not in between.                                             *)
EXTENDS Netdev, TLAPS

States == {"absent", "new", "half", "ready"}
Values == Configs \cup {Mixed}

Met == [split : BOOLEAN, named : BOOLEAN, refused : Netdevs \cup {None},
        walked : SUBSET Children, port : BOOLEAN]

Worlds ==
  [state : [Netdevs -> States], lane : [Netdevs -> BOOLEAN],
   default : [Ports -> Values], config : [Ports -> Values], hw : [Ports -> Values],
   hif : SUBSET Netdevs, bundle : [Fixed -> {"none", "live", "cached"}],
   past : History, stop : BOOLEAN, error : BOOLEAN, meets : Met]

\* The variables as a world.
Now ==
  [state |-> state, lane |-> lane, default |-> default, config |-> config, hw |-> hw,
   hif |-> hif, bundle |-> bundle, past |-> past, stop |-> stopped, error |-> FALSE,
   meets |-> Smooth]

-----------------------------------------------------------------------------
(* The inductive invariant *)

\* LanesAreExclusive of a world.
LanesDiffer(w) ==
  \A c \in Children : w.lane[c] /\ w.lane[ParentOf[c]] => ParentOf[c] \in w.past.half

HalvesArePast(w) == \A p \in Ports : w.state[p] = "half" => p \in w.past.half

\* What has no information yet takes no part in a split: a child has no lanes and
\* no host interface, a neighbour no bundle, and a parent was not split, so that
\* its children have no lanes and its neighbour has not lost them.
ChildrenWait(w) ==
  \A c \in Children : w.state[c] # "ready" => ~w.lane[c] /\ c \notin w.hif

BundlesWait(w) == \A q \in Fixed : w.state[q] # "ready" => w.bundle[q] = "none"

ParentsWait(w) ==
  \A p \in Splitable : w.state[p] \in {"absent", "new"} =>
    /\ ~w.lane[p]
    /\ \A c \in Children : ParentOf[c] = p => ~w.lane[c]
    /\ NeighborOf[p] # None /\ w.state[NeighborOf[p]] = "ready" => w.lane[NeighborOf[p]]

\* HostIntfsFollowLanes, for the parents and for the children of a world.
ParentHosts(w) ==
  ~w.stop => \A p \in Splitable :
    w.state[p] = "ready" /\ p \notin w.past.refused \cup w.past.half =>
      (w.lane[p] <=> p \in w.hif)

ChildHosts(w) ==
  ~w.stop => \A c \in Children :
    w.state[c] = "ready" /\ c \notin w.past.refused =>
      (w.lane[c] <=> c \in w.hif) \/ ParentOf[c] \in w.past.torn

\* NeighborsComeBack of a world.
NeighborsFollow(w) ==
  ~w.stop => \A p \in Splitable : \A q \in Fixed :
    p \notin w.past.torn \cup w.past.half /\ q = NeighborOf[p] /\ w.state[q] = "ready"
      /\ q \notin w.past.half =>
         /\ ~w.lane[q] => ~w.lane[p]
         /\ w.bundle[q] = "live" => w.lane[q]
         /\ w.bundle[q] = "cached" => ~w.lane[q]

\* ConfigIsHw of a world.
ConfigsFollow(w) ==
  \A p \in Ports : w.hw[p] # Mixed /\ w.config[p] # Zero => w.hw[p] = w.config[p]

Sound(w) ==
  /\ LanesDiffer(w) /\ HalvesArePast(w)
  /\ ChildrenWait(w) /\ BundlesWait(w) /\ ParentsWait(w)
  /\ ParentHosts(w) /\ ChildHosts(w) /\ NeighborsFollow(w) /\ ConfigsFollow(w)

NetdevInv == Now \in Worlds /\ Sound(Now)

-----------------------------------------------------------------------------
(* What the steps of a call change *)

USE DEF States, Values

\* No call meets anything else.
LEMMA MeetsAreMet ==
  Meets \subseteq Met /\ Smooth \in Met
PROOF
<1>1. Smooth \in Met
  BY DEF Smooth, Met
<1>2. \A b \in BOOLEAN : [Smooth EXCEPT !.split = FALSE, !.named = b] \in Met
  BY DEF Smooth, Met
<1>3. [Smooth EXCEPT !.split = MaySplit, !.port = TRUE] \in Met
  BY SplitAssumption DEF Smooth, Met
<1>4. \A n \in Netdevs : [Smooth EXCEPT !.split = MaySplit, !.refused = n] \in Met
  BY SplitAssumption DEF Smooth, Met
<1>5. \A c \in Children : \A W \in SUBSET (Children \ {c}) :
        [Smooth EXCEPT !.split = MaySplit, !.refused = c, !.walked = W] \in Met
  BY SplitAssumption DEF Smooth, Met, Netdevs, Ports
<1>6. ASSUME NEW m \in Meets PROVE m \in Met
  <2> DEFINE Kinds1 == {[Smooth EXCEPT !.split = FALSE, !.named = b] : b \in BOOLEAN}
             Kinds2 == {[Smooth EXCEPT !.split = MaySplit, !.refused = n] : n \in Netdevs}
             Kinds3 == UNION {{[Smooth EXCEPT !.split = MaySplit, !.refused = c, !.walked = W] :
                                 W \in SUBSET (Children \ {c})} : c \in Children}
             portly == [Smooth EXCEPT !.split = MaySplit, !.port = TRUE]
  <2>1. m = Smooth \/ m \in Kinds1 \/ m = portly \/ m \in Kinds2 \/ m \in Kinds3
    <3> HIDE DEF Kinds1, Kinds2, Kinds3, portly
    <3>1. Meets = (IF MaySplit THEN {Smooth} ELSE {}) \cup Kinds1
                  \cup (IF past.trouble THEN {} ELSE {portly} \cup Kinds2 \cup Kinds3)
      BY Zenon DEF Meets, Kinds1, Kinds2, Kinds3, portly
    <3> QED
      BY <3>1
  <2>2. Kinds1 \subseteq Met /\ Kinds2 \subseteq Met
    <3> HIDE DEF portly, Kinds3
    <3> QED
      BY <1>2, <1>4
  <2>3. Kinds3 \subseteq Met
    <3> DEFINE kind(c, W) == [Smooth EXCEPT !.split = MaySplit, !.refused = c, !.walked = W]
    <3>1. Kinds3 = UNION {{kind(c, W) : W \in SUBSET (Children \ {c})} : c \in Children}
      BY Zenon
    <3>2. \A c \in Children : \A W \in SUBSET (Children \ {c}) : kind(c, W) \in Met
      BY <1>5, Zenon
    <3> HIDE DEF kind, portly, Kinds1, Kinds2, Kinds3
    <3> QED
      BY <3>1, <3>2
  <2> QED
    BY <1>1, <1>3, <2>1, <2>2, <2>3, Zenon
<1> QED
  BY <1>1, <1>6

\* The parts of a world.
LEMMA WorldParts ==
  ASSUME NEW w \in Worlds
  PROVE  /\ w.state \in [Netdevs -> States] /\ w.lane \in [Netdevs -> BOOLEAN]
         /\ w.default \in [Ports -> Values] /\ w.config \in [Ports -> Values]
         /\ w.hw \in [Ports -> Values] /\ w.hif \in SUBSET Netdevs
         /\ w.bundle \in [Fixed -> {"none", "live", "cached"}]
         /\ w.past \in History /\ w.stop \in BOOLEAN /\ w.error \in BOOLEAN
         /\ w.meets \in Met
BY DEF Worlds

\* Creating host interfaces adds those of X only, all of them unless one of X
\* was refused.
LEMMA HifsCreatedAdds ==
  ASSUME NEW w \in Worlds, NEW X \in SUBSET Netdevs, NEW v, v = HifsCreated(w, X)
  PROVE  /\ v \in Worlds
         /\ v.state = w.state /\ v.lane = w.lane /\ v.default = w.default
         /\ v.config = w.config /\ v.hw = w.hw /\ v.bundle = w.bundle
         /\ v.stop = w.stop /\ v.meets = w.meets
         /\ v.past.half = w.past.half /\ v.past.torn = w.past.torn
         /\ v.error <=> w.meets.refused \in X \ w.hif
         /\ v.hif = w.hif \cup (IF v.error THEN (X \cap w.meets.walked) \ {w.meets.refused} ELSE X)
         /\ v.past.refused = w.past.refused \cup (IF v.error THEN {w.meets.refused} ELSE {})
PROOF
<1> DEFINE no  == w.meets.refused
           err == no \in X \ w.hif
           hi  == w.hif \cup (IF err THEN (X \cap w.meets.walked) \ {no} ELSE X)
           pa  == [w.past EXCEPT !.refused = IF err THEN @ \cup {no} ELSE @,
                                 !.trouble = @ \/ err]
<1>1. v = [w EXCEPT !.hif = hi, !.past = pa, !.error = err]
  <2>1. v = [w EXCEPT !.hif = hi,
                      !.past.refused = IF err THEN @ \cup {no} ELSE @,
                      !.past.trouble = @ \/ err,
                      !.error = err]
    BY Zenon DEF HifsCreated
  <2> QED
    BY <2>1 DEF Worlds, History
<1>2. hi \in SUBSET Netdevs /\ err \in BOOLEAN
  BY WorldParts
<1>3. pa \in History /\ pa.half = w.past.half /\ pa.torn = w.past.torn
      /\ pa.refused = w.past.refused \cup (IF err THEN {no} ELSE {})
  <2> DEFINE R == IF err THEN w.past.refused \cup {no} ELSE w.past.refused
             t == w.past.trouble \/ err
  <2>1. pa = [w.past EXCEPT !.refused = R, !.trouble = t]
    BY Zenon
  <2>2. w.past.refused \in SUBSET Netdevs /\ w.past.trouble \in BOOLEAN
    BY WorldParts DEF History
  <2>3. R \in SUBSET Netdevs /\ t \in BOOLEAN
    BY <2>2
  <2> HIDE DEF R, t, pa
  <2>4. pa \in History /\ pa.half = w.past.half /\ pa.torn = w.past.torn /\ pa.refused = R
    <3>1. w.past \in History
      BY WorldParts
    <3> QED
      BY <2>1, <2>3, <3>1 DEF History
  <2> QED
    BY <2>4 DEF R
<1> HIDE DEF hi, pa, err
<1>4. /\ v \in Worlds
      /\ v.state = w.state /\ v.lane = w.lane /\ v.default = w.default
      /\ v.config = w.config /\ v.hw = w.hw /\ v.bundle = w.bundle
      /\ v.stop = w.stop /\ v.meets = w.meets
      /\ v.past = pa /\ v.hif = hi /\ v.error = err
  BY <1>1, <1>2, <1>3 DEF Worlds
<1> QED
  BY <1>3, <1>4 DEF hi, err

\* Removing them removes those of X.
LEMMA HifsRemovedLeaves ==
  ASSUME NEW w \in Worlds, NEW X, NEW v, v = HifsRemoved(w, X)
  PROVE  /\ v \in Worlds
         /\ v.state = w.state /\ v.lane = w.lane /\ v.default = w.default
         /\ v.config = w.config /\ v.hw = w.hw /\ v.bundle = w.bundle
         /\ v.stop = w.stop /\ v.meets = w.meets /\ v.past = w.past
         /\ v.hif = w.hif \ X
BY DEF HifsRemoved, Worlds

\* v is w but for the configuration of p in SAI, which is new, unless it was
\* so before, or is left mixed.
Writes(w, p, old, new, v) ==
  /\ v \in Worlds
  /\ v.state = w.state /\ v.lane = w.lane /\ v.default = w.default
  /\ v.config = w.config /\ v.hif = w.hif /\ v.bundle = w.bundle
  /\ v.stop = w.stop /\ v.meets = w.meets
  /\ v.past.half = w.past.half /\ v.past.torn = w.past.torn
  /\ v.past.refused = w.past.refused
  /\ \A r \in Ports : r # p => v.hw[r] = w.hw[r]
  /\ old = new => v.hw[p] = w.hw[p]
  /\ old # new => v.hw[p] \in {new, Mixed}
  /\ v.error => v.hw[p] = Mixed

\* A configuration is written to SAI as a whole, or the port is left mixed.
LEMMA AppliedWrites ==
  ASSUME NEW w \in Worlds, NEW p \in Ports, NEW old \in Values, NEW new \in Values,
         NEW v, v = Applied(w, p, old, new)
  PROVE  Writes(w, p, old, new, v)
PROOF
<1> DEFINE err == w.meets.port /\ old # new
           pa  == [w.past EXCEPT !.trouble = @ \/ err]
           h   == [w.hw EXCEPT ![p] = Written(w, p, old, new)]
<1>1. v = [w EXCEPT !.hw = h, !.past = pa, !.error = err]
  BY DEF Applied, Worlds, History
<1>2. /\ Written(w, p, old, new) \in Values
      /\ old = new => Written(w, p, old, new) = w.hw[p]
      /\ old # new => Written(w, p, old, new) \in {new, Mixed}
      /\ err => Written(w, p, old, new) = Mixed
  BY DEF Written, Worlds
<1>3. err \in BOOLEAN
  BY DEF Worlds, Met
<1>4. pa \in History /\ pa.half = w.past.half /\ pa.torn = w.past.torn
      /\ pa.refused = w.past.refused
  BY <1>3 DEF Worlds, History
<1>5. /\ h \in [Ports -> Values] /\ h[p] = Written(w, p, old, new)
      /\ \A r \in Ports : r # p => h[r] = w.hw[r]
  BY <1>2 DEF Worlds
<1> HIDE DEF h, pa, err
<1>6. /\ v \in Worlds
      /\ v.state = w.state /\ v.lane = w.lane /\ v.default = w.default
      /\ v.config = w.config /\ v.hif = w.hif /\ v.bundle = w.bundle
      /\ v.stop = w.stop /\ v.meets = w.meets
      /\ v.past = pa /\ v.hw = h /\ v.error = err
  BY <1>1, <1>3, <1>4, <1>5 DEF Worlds
<1> QED
  BY <1>2, <1>4, <1>5, <1>6 DEF Writes

\* v is w but for the note of p.
Noted(w, p, v) ==
  /\ v \in Worlds
  /\ v.state = w.state /\ v.lane = w.lane /\ v.default = w.default
  /\ v.config = w.config /\ v.hw = w.hw /\ v.hif = w.hif /\ v.bundle = w.bundle
  /\ v.stop = w.stop /\ v.meets = w.meets
  /\ v.past.half = w.past.half /\ v.past.refused = w.past.refused
  /\ v.past.torn = IF w.error THEN w.past.torn \cup {p} ELSE w.past.torn \ {p}

\* What is noted of a split that went through or did not.
LEMMA TornNotes ==
  ASSUME NEW w \in Worlds, NEW p \in Splitable, NEW v, v = Torn(w, p)
  PROVE  Noted(w, p, v)
PROOF
<1> DEFINE T  == IF w.error THEN w.past.torn \cup {p} ELSE w.past.torn \ {p}
           pa == [w.past EXCEPT !.torn = T]
<1>1. v = [w EXCEPT !.past = pa]
  BY DEF Torn, Worlds, History
<1>2. w.past \in History
  BY WorldParts
<1>3. pa \in History /\ pa.half = w.past.half /\ pa.refused = w.past.refused /\ pa.torn = T
  BY <1>2 DEF History
<1> HIDE DEF pa
<1>4. /\ v \in Worlds /\ v.past = pa
      /\ v.state = w.state /\ v.lane = w.lane /\ v.default = w.default
      /\ v.config = w.config /\ v.hw = w.hw /\ v.hif = w.hif /\ v.bundle = w.bundle
      /\ v.stop = w.stop /\ v.meets = w.meets
  BY <1>1, <1>3 DEF Worlds
<1> QED
  BY <1>3, <1>4 DEF Noted

\* v is w but for the lanes: they are those of X when b, and otherwise those of p.
Moved(w, p, X, b, v) ==
  /\ v \in Worlds
  /\ v.state = w.state /\ v.default = w.default
  /\ v.config = w.config /\ v.hw = w.hw /\ v.hif = w.hif /\ v.bundle = w.bundle
  /\ v.stop = w.stop /\ v.meets = w.meets /\ v.past = w.past /\ v.error = w.error
  /\ v.lane[p] = ~b
  /\ \A c \in X : v.lane[c] = b
  /\ \A n \in Netdevs : n # p /\ n \notin X => v.lane[n] = w.lane[n]

\* The lanes go to the children of X, or back to the parent.
LEMMA LanesMove ==
  ASSUME NEW w \in Worlds, NEW p \in Splitable, NEW X \in SUBSET Children, NEW b \in BOOLEAN,
         NEW v, v = [w EXCEPT !.lane = With([@ EXCEPT ![p] = ~b], X, b)]
  PROVE  Moved(w, p, X, b, v)
PROOF
<1> DEFINE l1 == [w.lane EXCEPT ![p] = ~b]
           l2 == With(l1, X, b)
<1>1. p \in Netdevs /\ X \subseteq Netdevs /\ p \notin X
  BY KindsAssumption DEF Netdevs, Ports
<1>2. w.lane \in [Netdevs -> BOOLEAN]
  BY WorldParts
<1>3. /\ l1 \in [Netdevs -> BOOLEAN] /\ l1[p] = ~b
      /\ \A n \in Netdevs : n # p => l1[n] = w.lane[n]
  BY <1>1, <1>2
<1> HIDE DEF l1
<1>4. /\ l2 \in [Netdevs -> BOOLEAN] /\ l2[p] = ~b
      /\ \A c \in X : l2[c] = b
      /\ \A n \in Netdevs : n # p /\ n \notin X => l2[n] = w.lane[n]
  BY <1>1, <1>3 DEF With
<1>5. v = [w EXCEPT !.lane = l2]
  BY Zenon DEF l1
<1> HIDE DEF l2
<1>6. /\ v \in Worlds /\ v.lane = l2
      /\ v.state = w.state /\ v.default = w.default
      /\ v.config = w.config /\ v.hw = w.hw /\ v.hif = w.hif /\ v.bundle = w.bundle
      /\ v.stop = w.stop /\ v.meets = w.meets /\ v.past = w.past /\ v.error = w.error
  BY <1>4, <1>5 DEF Worlds
<1> QED
  BY <1>4, <1>6 DEF Moved

\* What is split and unsplit in the two ways.
LEMMA LanesToChildrenMoves ==
  ASSUME NEW w \in Worlds, NEW p \in Splitable, NEW X \in SUBSET Children,
         NEW v, v = LanesToChildren(w, p, X)
  PROVE  Moved(w, p, X, TRUE, v)
PROOF
<1>1. v = [w EXCEPT !.lane = With([@ EXCEPT ![p] = ~TRUE], X, TRUE)]
  BY DEF LanesToChildren
<1> QED
  BY <1>1, LanesMove, Zenon

LEMMA LanesToParentMoves ==
  ASSUME NEW w \in Worlds, NEW p \in Splitable, ChildrenOf(p) \in SUBSET Children,
         NEW v, v = LanesToParent(w, p)
  PROVE  Moved(w, p, ChildrenOf(p), FALSE, v)
PROOF
<1>1. v = [w EXCEPT !.lane = With([@ EXCEPT ![p] = ~FALSE], ChildrenOf(p), FALSE)]
  BY DEF LanesToParent
<1> QED
  BY <1>1, LanesMove, Zenon

\* The neighbour of p can be reached: it is in the list of netdevs with a handle.
HasNeighbor(w, p) == NeighborOf[p] # None /\ w.state[NeighborOf[p]] \in {"half", "ready"}

\* A neighbour that is switched off loses its lane, and its bundle the hardware.
LEMMA NeighborLoses ==
  ASSUME NEW w \in Worlds, NEW p \in Splitable, NEW v, v = NeighborDisabled(w, p)
  PROVE  /\ v \in Worlds
         /\ v.state = w.state /\ v.default = w.default
         /\ v.config = w.config /\ v.hw = w.hw /\ v.hif = w.hif
         /\ v.stop = w.stop /\ v.meets = w.meets /\ v.past = w.past
         /\ \A n \in Netdevs : n # NeighborOf[p] => v.lane[n] = w.lane[n]
         /\ \A q \in Fixed : q # NeighborOf[p] => v.bundle[q] = w.bundle[q]
         /\ ~HasNeighbor(w, p) => v = w
         /\ HasNeighbor(w, p) =>
              /\ ~v.lane[NeighborOf[p]]
              /\ v.bundle[NeighborOf[p]] = IF w.bundle[NeighborOf[p]] = "live" THEN "cached"
                                           ELSE w.bundle[NeighborOf[p]]
PROOF
<1>1. CASE ~HasNeighbor(w, p)
  BY <1>1 DEF HasNeighbor, NeighborDisabled
<1>2. CASE HasNeighbor(w, p)
  <2> DEFINE q == NeighborOf[p]
             l == [w.lane EXCEPT ![q] = FALSE]
             b == [w.bundle EXCEPT ![q] = IF w.bundle[q] = "live" THEN "cached" ELSE w.bundle[q]]
  <2>1. q \in Fixed /\ q \in Netdevs
    BY <1>2, SplitAssumption DEF HasNeighbor, Netdevs, Ports
  <2>2. w.lane \in [Netdevs -> BOOLEAN] /\ w.bundle \in [Fixed -> {"none", "live", "cached"}]
    BY WorldParts
  <2>3. v = [w EXCEPT !.bundle = b, !.lane = l]
    BY <1>2 DEF HasNeighbor, NeighborDisabled, Worlds
  <2>4. /\ l \in [Netdevs -> BOOLEAN] /\ ~l[q]
        /\ \A n \in Netdevs : n # q => l[n] = w.lane[n]
    BY <2>1, <2>2
  <2>5. /\ b \in [Fixed -> {"none", "live", "cached"}]
        /\ b[q] = IF w.bundle[q] = "live" THEN "cached" ELSE w.bundle[q]
        /\ \A r \in Fixed : r # q => b[r] = w.bundle[r]
    BY <2>1, <2>2
  <2> HIDE DEF l, b
  <2>6. /\ v \in Worlds /\ v.lane = l /\ v.bundle = b
        /\ v.state = w.state /\ v.default = w.default
        /\ v.config = w.config /\ v.hw = w.hw /\ v.hif = w.hif
        /\ v.stop = w.stop /\ v.meets = w.meets /\ v.past = w.past
    BY <2>3, <2>4, <2>5 DEF Worlds
  <2> QED
    BY <1>2, <2>4, <2>5, <2>6
<1> QED
  BY <1>1, <1>2

\* A neighbour that is switched on again regains both, unless SAI refuses the
\* port: its bundle is then left cached.
LEMMA NeighborRegains ==
  ASSUME NEW w \in Worlds, NEW p \in Splitable, ~w.error, NEW v, v = NeighborEnabled(w, p)
  PROVE  /\ v \in Worlds
         /\ v.state = w.state /\ v.config = w.config /\ v.hif = w.hif
         /\ v.stop = w.stop /\ v.meets = w.meets
         /\ v.past.half = w.past.half /\ v.past.torn = w.past.torn
         /\ v.past.refused = w.past.refused
         /\ \A n \in Netdevs : n # NeighborOf[p] => v.lane[n] = w.lane[n]
         /\ \A q \in Fixed : q # NeighborOf[p] => v.bundle[q] = w.bundle[q]
         /\ \A r \in Ports : v.hw[r] \in {w.hw[r], Mixed}
         /\ ~HasNeighbor(w, p) => v = w
         /\ HasNeighbor(w, p) =>
              /\ v.lane[NeighborOf[p]]
              /\ v.bundle[NeighborOf[p]] =
                   IF w.bundle[NeighborOf[p]] = "cached" /\ ~v.error THEN "live"
                   ELSE w.bundle[NeighborOf[p]]
PROOF
<1>1. CASE ~HasNeighbor(w, p)
  <2>1. v = w
    BY <1>1 DEF HasNeighbor, NeighborEnabled
  <2> QED
    BY <1>1, <2>1
<1>2. CASE HasNeighbor(w, p)
  <2> DEFINE q  == NeighborOf[p]
             l  == [w.lane EXCEPT ![q] = TRUE]
             w0 == [w EXCEPT !.lane = l]
             w1 == Applied(w0, q, w.default[p], w.config[p])
             b  == [w1.bundle EXCEPT ![q] = IF @ = "cached" THEN "live" ELSE @]
             h  == [w1.hw EXCEPT ![q] = IF w.default[p] = w.config[p] THEN @ ELSE Mixed]
             d  == [w1.default EXCEPT ![p] = w.config[p]]
             w2 == [w1 EXCEPT !.hw = h, !.default = d, !.bundle = b]
  <2>1. q \in Fixed /\ q \in Ports /\ q \in Netdevs /\ p \in Ports
    BY <1>2, SplitAssumption DEF HasNeighbor, Netdevs, Ports
  <2>2. /\ w.lane \in [Netdevs -> BOOLEAN] /\ w.default[p] \in Values /\ w.config[p] \in Values
        /\ w.hw \in [Ports -> Values]
    BY <2>1, WorldParts
  <2>3. v = IF w1.error THEN w1 ELSE w2
    <3>1. w0 = [w EXCEPT !.lane[q] = TRUE]
      BY Zenon
    <3>2. v = LET u == Applied([w EXCEPT !.lane[q] = TRUE], q, w.default[p], w.config[p])
              IN IF u.error THEN u
                 ELSE [u EXCEPT !.hw[q] = IF w.default[p] = w.config[p] THEN @ ELSE Mixed,
                                !.default[p] = w.config[p],
                                !.bundle[q] = IF @ = "cached" THEN "live" ELSE @]
      BY <1>2 DEF HasNeighbor, NeighborEnabled
    <3>3. v = IF w1.error THEN w1
              ELSE [w1 EXCEPT !.hw[q] = IF w.default[p] = w.config[p] THEN @ ELSE Mixed,
                              !.default[p] = w.config[p],
                              !.bundle[q] = IF @ = "cached" THEN "live" ELSE @]
      BY <3>1, <3>2, Zenon
    <3>4. [w1 EXCEPT !.hw[q] = IF w.default[p] = w.config[p] THEN @ ELSE Mixed,
                     !.default[p] = w.config[p],
                     !.bundle[q] = IF @ = "cached" THEN "live" ELSE @] = w2
      BY Zenon
    <3> QED
      BY <3>3, <3>4, Zenon
  <2>4. /\ l \in [Netdevs -> BOOLEAN] /\ l[q]
        /\ \A n \in Netdevs : n # q => l[n] = w.lane[n]
    BY <2>1, <2>2
  <2> HIDE DEF l
  <2>5. /\ w0 \in Worlds /\ w0.lane = l
        /\ w0.state = w.state /\ w0.default = w.default
        /\ w0.config = w.config /\ w0.hw = w.hw /\ w0.hif = w.hif /\ w0.bundle = w.bundle
        /\ w0.stop = w.stop /\ w0.meets = w.meets /\ w0.past = w.past
    BY <2>4 DEF Worlds
  <2> HIDE DEF w0
  <2>6. /\ w1 \in Worlds
        /\ w1.state = w0.state /\ w1.lane = w0.lane /\ w1.default = w0.default
        /\ w1.config = w0.config /\ w1.hif = w0.hif /\ w1.bundle = w0.bundle
        /\ w1.stop = w0.stop /\ w1.meets = w0.meets
        /\ w1.past.half = w0.past.half /\ w1.past.torn = w0.past.torn
        /\ w1.past.refused = w0.past.refused
        /\ \A r \in Ports : r # q => w1.hw[r] = w0.hw[r]
        /\ w.default[p] = w.config[p] => w1.hw[q] = w0.hw[q]
        /\ w1.error => w1.hw[q] = Mixed
    <3> DEFINE old == w.default[p]
               new == w.config[p]
    <3>1. w1 = Applied(w0, q, old, new)
      OBVIOUS
    <3>2. old \in Values /\ new \in Values /\ q \in Ports /\ w0 \in Worlds
      BY <2>1, <2>2, <2>5
    <3> HIDE DEF w1, old, new, q, Values
    <3>3. Writes(w0, q, old, new, w1)
      BY <3>1, <3>2, AppliedWrites
    <3> QED
      BY <3>3, Zenon DEF old, new, Writes
  <2> HIDE DEF w1
  <2>7. /\ w1.hw \in [Ports -> Values] /\ w1.default \in [Ports -> Values]
        /\ w1.bundle \in [Fixed -> {"none", "live", "cached"}]
    BY <2>6, WorldParts
  <2>8. /\ h \in [Ports -> Values]
        /\ \A r \in Ports : h[r] \in {w.hw[r], Mixed}
    BY <2>1, <2>2, <2>5, <2>6, <2>7
  <2>9. d \in [Ports -> Values]
    BY <2>1, <2>2, <2>7
  <2>10. /\ b \in [Fixed -> {"none", "live", "cached"}]
         /\ b[q] = IF w.bundle[q] = "cached" THEN "live" ELSE w.bundle[q]
         /\ \A r \in Fixed : r # q => b[r] = w.bundle[r]
    BY <2>1, <2>5, <2>6, <2>7
  <2> HIDE DEF h, d, b
  <2>11. /\ w2 \in Worlds /\ w2.hw = h /\ w2.bundle = b
         /\ w2.state = w1.state /\ w2.lane = w1.lane /\ w2.config = w1.config
         /\ w2.hif = w1.hif /\ w2.stop = w1.stop /\ w2.meets = w1.meets
         /\ w2.past = w1.past /\ w2.error = w1.error
    BY <2>6, <2>8, <2>9, <2>10 DEF Worlds
  <2> HIDE DEF w2
  <2>12. CASE w1.error
    <3>1. \A r \in Ports : w1.hw[r] \in {w.hw[r], Mixed}
      BY <2>5, <2>6, <2>12
    <3>2. v = w1
      BY <2>3, <2>12
    <3> QED
      BY <1>2, <2>4, <2>5, <2>6, <2>12, <3>1, <3>2
  <2>13. CASE ~w1.error
    <3>1. v = w2 /\ ~v.error
      BY <2>3, <2>11, <2>13
    <3> QED
      BY <1>2, <2>4, <2>5, <2>6, <2>8, <2>10, <2>11, <3>1
  <2> QED
    BY <2>12, <2>13
<1> QED
  BY <1>1, <1>2

-----------------------------------------------------------------------------
(* The split and the unsplit *)

\* What neither of them changes, of a port p that is split or unsplit.
Around(w, p, v) ==
  /\ v \in Worlds
  /\ v.state = w.state /\ v.config = w.config /\ v.meets = w.meets
  /\ v.past.half = w.past.half /\ w.past.refused \subseteq v.past.refused
  /\ \A r \in Splitable : r # p => (r \in v.past.torn <=> r \in w.past.torn)
  /\ \A n \in Netdevs : n # p /\ n \notin ChildrenOf(p) /\ n # NeighborOf[p] =>
       v.lane[n] = w.lane[n]
  /\ \A n \in Netdevs : n # p /\ n \notin ChildrenOf(p) => (n \in v.hif <=> n \in w.hif)
  /\ \A q \in Fixed : q # NeighborOf[p] => v.bundle[q] = w.bundle[q]
  /\ ~HasNeighbor(w, p) /\ NeighborOf[p] # None =>
       /\ v.lane[NeighborOf[p]] = w.lane[NeighborOf[p]]
       /\ v.bundle[NeighborOf[p]] = w.bundle[NeighborOf[p]]
  /\ \A r \in Ports : v.hw[r] \in {w.hw[r], Mixed}

\* The split of p is refused, and p noted: its lanes and those of its children are
\* as they were, and its host interface is back or was refused.
SplitRefused(w, p, v) ==
  /\ v.lane[p] /\ (p \in v.hif \/ p \in v.past.refused) /\ p \in v.past.torn
  /\ \A c \in ChildrenOf(p) : v.lane[c] = w.lane[c] /\ (c \in v.hif <=> c \in w.hif)

\* The split is done: the lanes are the children's, with a host interface for each
\* unless p is noted.
SplitDone(p, v) ==
  /\ ~v.lane[p] /\ p \notin v.hif
  /\ p \notin v.past.torn => \A c \in ChildrenOf(p) : v.lane[c] /\ c \in v.hif

\* The neighbour of p lost its lane and its bundle the hardware.
NeighborLost(w, p, v) ==
  HasNeighbor(w, p) =>
    /\ ~v.lane[NeighborOf[p]]
    /\ v.bundle[NeighborOf[p]] = IF w.bundle[NeighborOf[p]] = "live" THEN "cached"
                                 ELSE w.bundle[NeighborOf[p]]

LEMMA ChildrenOfAre ==
  ASSUME NEW p \in Splitable
  PROVE  /\ ChildrenOf(p) \in SUBSET Children /\ ChildrenOf(p) \in SUBSET Netdevs
         /\ p \notin ChildrenOf(p) /\ p \in Netdevs /\ p \in Ports
         /\ NeighborOf[p] \notin ChildrenOf(p) /\ NeighborOf[p] # p
         /\ NeighborOf[p] # None => NeighborOf[p] \in Fixed /\ NeighborOf[p] \in Netdevs
         /\ NeighborOf[p] # None => NeighborOf[p] \in Ports
BY KindsAssumption, SplitAssumption DEF ChildrenOf, Netdevs, Ports

LEMMA SplitMoves ==
  ASSUME NEW w \in Worlds, NEW p \in Splitable, w.lane[p], NEW v, v = SplitOf(w, p)
  PROVE  /\ Around(w, p, v) /\ v.stop = w.stop /\ v.hw = w.hw /\ NeighborLost(w, p, v)
         /\ SplitRefused(w, p, v) \/ SplitDone(p, v)
PROOF
<1> DEFINE C  == ChildrenOf(p)
           w0 == NeighborDisabled(w, p)
           w1 == HifsRemoved(w0, {p})
<1>1. /\ w0 \in Worlds
      /\ w0.state = w.state /\ w0.default = w.default
      /\ w0.config = w.config /\ w0.hw = w.hw /\ w0.hif = w.hif
      /\ w0.stop = w.stop /\ w0.meets = w.meets /\ w0.past = w.past
      /\ \A n \in Netdevs : n # NeighborOf[p] => w0.lane[n] = w.lane[n]
      /\ \A q \in Fixed : q # NeighborOf[p] => w0.bundle[q] = w.bundle[q]
      /\ ~HasNeighbor(w, p) => w0 = w
      /\ NeighborLost(w, p, w0)
  <2> HIDE DEF w0
  <2>1. w0 = NeighborDisabled(w, p)
    BY DEF w0
  <2> QED
    BY <2>1, NeighborLoses DEF NeighborLost
<1>2. /\ w1 \in Worlds
      /\ w1.state = w0.state /\ w1.lane = w0.lane /\ w1.default = w0.default
      /\ w1.config = w0.config /\ w1.hw = w0.hw /\ w1.bundle = w0.bundle
      /\ w1.stop = w0.stop /\ w1.meets = w0.meets /\ w1.past = w0.past
      /\ w1.hif = w0.hif \ {p}
  <2> HIDE DEF w0, w1
  <2>1. w1 = HifsRemoved(w0, {p})
    BY DEF w1
  <2> QED
    BY <1>1, <2>1, HifsRemovedLeaves
<1>3. CASE ~w.meets.split
  <2> DEFINE w2 == HifsCreated(w1, {p})
             w3 == [w2 EXCEPT !.error = TRUE]
  <2>1. v = Torn(w3, p)
    BY <1>3, Zenon DEF SplitOf
  <2> HIDE DEF w0, w1
  <2>2. p \in Netdevs /\ {p} \in SUBSET Netdevs
    BY ChildrenOfAre
  <2>3. /\ w2 \in Worlds
        /\ w2.state = w1.state /\ w2.lane = w1.lane /\ w2.default = w1.default
        /\ w2.config = w1.config /\ w2.hw = w1.hw /\ w2.bundle = w1.bundle
        /\ w2.stop = w1.stop /\ w2.meets = w1.meets
        /\ w2.past.half = w1.past.half /\ w2.past.torn = w1.past.torn
        /\ w2.error <=> w1.meets.refused \in {p} \ w1.hif
        /\ w2.hif = w1.hif \cup (IF w2.error THEN ({p} \cap w1.meets.walked) \ {w1.meets.refused} ELSE {p})
        /\ w2.past.refused = w1.past.refused \cup (IF w2.error THEN {w1.meets.refused} ELSE {})
    <3> HIDE DEF w2
    <3>1. w2 = HifsCreated(w1, {p})
      BY DEF w2
    <3> QED
      BY <1>2, <2>2, <3>1, HifsCreatedAdds
  <2> HIDE DEF w2
  <2>4. /\ w3 \in Worlds /\ w3.error
        /\ w3.state = w2.state /\ w3.lane = w2.lane /\ w3.default = w2.default
        /\ w3.config = w2.config /\ w3.hw = w2.hw /\ w3.hif = w2.hif /\ w3.bundle = w2.bundle
        /\ w3.stop = w2.stop /\ w3.meets = w2.meets /\ w3.past = w2.past
    BY <2>3 DEF Worlds
  <2> HIDE DEF w3
  <2>5. Noted(w3, p, v)
    BY <2>1, <2>4, TornNotes
  <2>6. w2.hif \subseteq w.hif \cup {p} /\ w.hif \subseteq w2.hif \cup {p}
        /\ (p \in w2.hif \/ p \in w2.past.refused) /\ w.past.refused \subseteq w2.past.refused
    BY <1>1, <1>2, <2>3
  <2>7. \A n \in Netdevs : n # NeighborOf[p] => v.lane[n] = w.lane[n]
    BY <1>1, <1>2, <2>3, <2>4, <2>5 DEF Noted
  <2>8. Around(w, p, v)
    BY <1>1, <1>2, <2>3, <2>4, <2>5, <2>6, <2>7 DEF Around, Noted
  <2>9. SplitRefused(w, p, v)
    BY <2>4, <2>3, <2>5, <2>6, <2>7, ChildrenOfAre DEF SplitRefused, Noted
  <2> QED
    BY <1>1, <1>2, <2>3, <2>4, <2>5, <2>8, <2>9 DEF NeighborLost, Noted
<1>4. CASE w.meets.split
  <2> DEFINE w2 == HifsCreated(w1, C)
             on == IF w2.error THEN C \cap (w.meets.walked \cup {w.meets.refused}) ELSE C
             w3 == LanesToChildren(w2, p, on)
  <2>1. v = Torn(w3, p)
    BY <1>4, Zenon DEF SplitOf
  <2> HIDE DEF w0, w1
  <2>2. p \in Netdevs /\ C \in SUBSET Netdevs /\ C \in SUBSET Children /\ p \notin C
        /\ NeighborOf[p] \notin C /\ NeighborOf[p] # p
    BY ChildrenOfAre
  <2> HIDE DEF C
  <2>3. /\ w2 \in Worlds
        /\ w2.state = w1.state /\ w2.lane = w1.lane /\ w2.default = w1.default
        /\ w2.config = w1.config /\ w2.hw = w1.hw /\ w2.bundle = w1.bundle
        /\ w2.stop = w1.stop /\ w2.meets = w1.meets
        /\ w2.past.half = w1.past.half /\ w2.past.torn = w1.past.torn
        /\ w2.hif = w1.hif \cup (IF w2.error THEN (C \cap w1.meets.walked) \ {w1.meets.refused} ELSE C)
        /\ w2.past.refused = w1.past.refused \cup (IF w2.error THEN {w1.meets.refused} ELSE {})
    <3> HIDE DEF w2
    <3>1. w2 = HifsCreated(w1, C)
      BY DEF w2
    <3> QED
      BY <1>2, <2>2, <3>1, HifsCreatedAdds
  <2> HIDE DEF w2
  <2>4. on \in SUBSET Children /\ on \subseteq C /\ (~w2.error => on = C)
    BY <2>2
  <2> HIDE DEF on
  <2>5. w3 = LanesToChildren(w2, p, on)
    OBVIOUS
  <2> HIDE DEF w3
  <2>6. Moved(w2, p, on, TRUE, w3)
    BY <2>3, <2>4, <2>5, LanesToChildrenMoves
  <2>7. Noted(w3, p, v)
    BY <2>1, <2>6, TornNotes DEF Moved
  <2>8. /\ w2.hif \subseteq (w.hif \ {p}) \cup C /\ w.hif \subseteq w2.hif \cup {p}
        /\ w.past.refused \subseteq w2.past.refused
        /\ ~w2.error => C \subseteq w2.hif
    BY <1>1, <1>2, <2>3
  <2>9. \A n \in Netdevs : n # p /\ n \notin C /\ n # NeighborOf[p] => v.lane[n] = w.lane[n]
    BY <1>1, <1>2, <2>3, <2>4, <2>6, <2>7 DEF Noted, Moved
  <2>10. NeighborOf[p] # None => v.lane[NeighborOf[p]] = w0.lane[NeighborOf[p]]
    BY <1>2, <2>2, <2>3, <2>4, <2>6, <2>7, ChildrenOfAre DEF Noted, Moved
  <2>11. Around(w, p, v)
    BY <1>1, <1>2, <2>3, <2>6, <2>7, <2>8, <2>9, <2>10 DEF Around, Noted, Moved, C
  <2>12. SplitDone(p, v)
    <3>1. ~v.lane[p] /\ v.hif = w2.hif /\ \A c \in on : v.lane[c]
      BY <2>6, <2>7 DEF Noted, Moved
    <3>2. p \notin v.past.torn => ~w2.error
      BY <2>6, <2>7 DEF Noted, Moved
    <3>3. p \notin w2.hif
      BY <2>2, <2>8
    <3> QED
      BY <2>4, <2>8, <3>1, <3>2, <3>3 DEF SplitDone, C
  <2> QED
    BY <1>1, <1>2, <2>3, <2>6, <2>7, <2>10, <2>11, <2>12 DEF NeighborLost, HasNeighbor, Noted, Moved
<1> QED
  BY <1>3, <1>4

\* The unsplit of p is refused, and p noted: no lane changes.
UnsplitRefused(w, p, v) ==
  /\ p \in v.past.torn /\ (p \in v.hif <=> p \in w.hif)
  /\ \A n \in Netdevs : v.lane[n] = w.lane[n]
  /\ \A q \in Fixed : v.bundle[q] = w.bundle[q]

\* The unsplit is done: the lanes are those of p, which has its host interface
\* or was refused it, and the children have none.
UnsplitDone(p, v) ==
  /\ v.lane[p] /\ (p \in v.hif \/ p \in v.past.refused)
  /\ \A c \in ChildrenOf(p) : ~v.lane[c] /\ c \notin v.hif

\* The neighbour of p regained its lane and its bundle the hardware, unless p is
\* noted.
NeighborGained(w, p, v) ==
  HasNeighbor(w, p) =>
    /\ w.bundle[NeighborOf[p]] = "none" => v.bundle[NeighborOf[p]] = "none"
    /\ p \notin v.past.torn =>
         /\ v.lane[NeighborOf[p]]
         /\ v.bundle[NeighborOf[p]] = IF w.bundle[NeighborOf[p]] = "cached" THEN "live"
                                      ELSE w.bundle[NeighborOf[p]]

LEMMA UnsplitMoves ==
  ASSUME NEW w \in Worlds, NEW p \in Splitable, ~w.lane[p], NEW v, v = UnsplitOf(w, p)
  PROVE  /\ Around(w, p, v)
         /\ \/ UnsplitRefused(w, p, v)
            \/ UnsplitDone(p, v) /\ NeighborGained(w, p, v) /\ v.stop = w.stop
PROOF
<1> DEFINE C  == ChildrenOf(p)
           w1 == HifsRemoved(w, C)
<1>1. /\ w1 \in Worlds
      /\ w1.state = w.state /\ w1.lane = w.lane /\ w1.default = w.default
      /\ w1.config = w.config /\ w1.hw = w.hw /\ w1.bundle = w.bundle
      /\ w1.stop = w.stop /\ w1.meets = w.meets /\ w1.past = w.past
      /\ w1.hif = w.hif \ C
  <2> HIDE DEF w1, C
  <2>1. w1 = HifsRemoved(w, C)
    BY DEF w1
  <2> QED
    BY <2>1, HifsRemovedLeaves
<1>2. /\ p \in Netdevs /\ C \in SUBSET Netdevs /\ C \in SUBSET Children /\ p \notin C
      /\ NeighborOf[p] \notin C /\ NeighborOf[p] # p /\ {p} \in SUBSET Netdevs
      /\ NeighborOf[p] # None => NeighborOf[p] \in Fixed /\ NeighborOf[p] \in Netdevs
  BY ChildrenOfAre
<1>3. CASE ~w.meets.split
  <2> DEFINE w2 == HifsCreated(w1, C)
             s  == C # {} /\ ~w.meets.named
             w3 == [w2 EXCEPT !.error = TRUE, !.stop = s]
  <2>1. v = Torn(w3, p)
    BY <1>3, Zenon DEF UnsplitOf
  <2> HIDE DEF w1, C
  <2>2. /\ w2 \in Worlds
        /\ w2.state = w1.state /\ w2.lane = w1.lane /\ w2.default = w1.default
        /\ w2.config = w1.config /\ w2.hw = w1.hw /\ w2.bundle = w1.bundle
        /\ w2.stop = w1.stop /\ w2.meets = w1.meets
        /\ w2.past.half = w1.past.half /\ w2.past.torn = w1.past.torn
        /\ w2.hif = w1.hif \cup (IF w2.error THEN (C \cap w1.meets.walked) \ {w1.meets.refused} ELSE C)
        /\ w2.past.refused = w1.past.refused \cup (IF w2.error THEN {w1.meets.refused} ELSE {})
    <3> HIDE DEF w2
    <3>1. w2 = HifsCreated(w1, C)
      BY DEF w2
    <3> QED
      BY <1>1, <1>2, <3>1, HifsCreatedAdds
  <2> HIDE DEF w2
  <2>3. s \in BOOLEAN
    OBVIOUS
  <2> HIDE DEF s
  <2>4. /\ w3 \in Worlds /\ w3.error
        /\ w3.state = w2.state /\ w3.lane = w2.lane /\ w3.default = w2.default
        /\ w3.config = w2.config /\ w3.hw = w2.hw /\ w3.hif = w2.hif /\ w3.bundle = w2.bundle
        /\ w3.meets = w2.meets /\ w3.past = w2.past
    BY <2>2, <2>3 DEF Worlds
  <2> HIDE DEF w3
  <2>5. Noted(w3, p, v)
    BY <2>1, <2>4, TornNotes
  <2>6. /\ w2.hif \subseteq w.hif \cup C /\ w.hif \subseteq w2.hif \cup C
        /\ w.past.refused \subseteq w2.past.refused
    BY <1>1, <2>2
  <2>7. v.lane = w.lane /\ v.bundle = w.bundle /\ v.hw = w.hw
    BY <1>1, <2>2, <2>4, <2>5 DEF Noted
  <2>8. Around(w, p, v)
    BY <1>1, <1>2, <2>2, <2>4, <2>5, <2>6, <2>7 DEF Around, Noted, C
  <2>9. UnsplitRefused(w, p, v)
    BY <1>2, <2>4, <2>5, <2>6, <2>7 DEF UnsplitRefused, Noted
  <2> QED
    BY <2>8, <2>9
<1>4. CASE w.meets.split
  <2> DEFINE w2 == LanesToParent(w1, p)
             w3 == HifsCreated(w2, {p})
             w4 == IF w3.error THEN w3 ELSE NeighborEnabled(w3, p)
  <2>1. v = Torn(w4, p)
    BY <1>4, Zenon DEF UnsplitOf
  <2> HIDE DEF w1
  <2>2. Moved(w1, p, C, FALSE, w2)
    <3> HIDE DEF w2
    <3>1. w2 = LanesToParent(w1, p)
      BY DEF w2
    <3> QED
      BY <1>1, <1>2, <3>1, LanesToParentMoves
  <2> HIDE DEF w2, C
  <2>3. /\ w3 \in Worlds
        /\ w3.state = w2.state /\ w3.lane = w2.lane /\ w3.default = w2.default
        /\ w3.config = w2.config /\ w3.hw = w2.hw /\ w3.bundle = w2.bundle
        /\ w3.stop = w2.stop /\ w3.meets = w2.meets
        /\ w3.past.half = w2.past.half /\ w3.past.torn = w2.past.torn
        /\ w3.error <=> w2.meets.refused \in {p} \ w2.hif
        /\ w3.hif = w2.hif \cup (IF w3.error THEN ({p} \cap w2.meets.walked) \ {w2.meets.refused} ELSE {p})
        /\ w3.past.refused = w2.past.refused \cup (IF w3.error THEN {w2.meets.refused} ELSE {})
    <3> HIDE DEF w3
    <3>1. w3 = HifsCreated(w2, {p}) /\ w2 \in Worlds
      BY <2>2 DEF w3, Moved
    <3> QED
      BY <1>2, <3>1, HifsCreatedAdds
  <2> HIDE DEF w3
  <2>4. /\ w3.state = w.state /\ w3.config = w.config /\ w3.hw = w.hw /\ w3.bundle = w.bundle
        /\ w3.stop = w.stop /\ w3.meets = w.meets
        /\ w3.past.half = w.past.half /\ w3.past.torn = w.past.torn
        /\ w.past.refused \subseteq w3.past.refused
        /\ w3.lane[p] /\ (p \in w3.hif \/ p \in w3.past.refused)
        /\ \A c \in C : ~w3.lane[c] /\ c \notin w3.hif
        /\ \A n \in Netdevs : n # p /\ n \notin C => w3.lane[n] = w.lane[n]
        /\ \A n \in Netdevs : n # p /\ n \notin C => (n \in w3.hif <=> n \in w.hif)
    <3>1. /\ w2.state = w1.state /\ w2.config = w1.config /\ w2.hw = w1.hw
          /\ w2.bundle = w1.bundle /\ w2.hif = w1.hif
          /\ w2.stop = w1.stop /\ w2.meets = w1.meets /\ w2.past = w1.past
          /\ w2.lane[p] /\ \A c \in C : ~w2.lane[c]
          /\ \A n \in Netdevs : n # p /\ n \notin C => w2.lane[n] = w1.lane[n]
      BY <2>2 DEF Moved
    <3>2. /\ p \in w3.hif \/ p \in w3.past.refused
          /\ w2.past.refused \subseteq w3.past.refused
          /\ w3.hif \subseteq w2.hif \cup {p} /\ w2.hif \subseteq w3.hif
      BY <2>3
    <3>3. \A c \in C : c \notin w3.hif
      BY <1>1, <1>2, <3>1, <3>2
    <3> QED
      BY <1>1, <2>3, <3>1, <3>2, <3>3
  <2>5. /\ w4 \in Worlds
        /\ w4.state = w3.state /\ w4.config = w3.config /\ w4.hif = w3.hif
        /\ w4.stop = w3.stop /\ w4.meets = w3.meets
        /\ w4.past.half = w3.past.half /\ w4.past.torn = w3.past.torn
        /\ w4.past.refused = w3.past.refused
        /\ \A n \in Netdevs : n # NeighborOf[p] => w4.lane[n] = w3.lane[n]
        /\ \A q \in Fixed : q # NeighborOf[p] => w4.bundle[q] = w3.bundle[q]
        /\ \A r \in Ports : w4.hw[r] \in {w3.hw[r], Mixed}
        /\ ~HasNeighbor(w3, p) => w4.lane = w3.lane /\ w4.bundle = w3.bundle
        /\ HasNeighbor(w3, p) =>
             /\ w3.bundle[NeighborOf[p]] = "none" => w4.bundle[NeighborOf[p]] = "none"
             /\ ~w4.error =>
                  /\ w4.lane[NeighborOf[p]]
                  /\ w4.bundle[NeighborOf[p]] = IF w3.bundle[NeighborOf[p]] = "cached" THEN "live"
                                                ELSE w3.bundle[NeighborOf[p]]
    <3>1. CASE w3.error
      <4>1. w4 = w3
        BY <3>1
      <4> HIDE DEF w4
      <4> QED
        BY <2>3, <3>1, <4>1
    <3>2. CASE ~w3.error
      <4>1. w4 = NeighborEnabled(w3, p)
        BY <3>2
      <4> HIDE DEF w4
      <4> QED
        BY <2>3, <3>2, <4>1, NeighborRegains
    <3> QED
      BY <3>1, <3>2
  <2> HIDE DEF w4
  <2>6. Noted(w4, p, v)
    BY <2>1, <2>5, TornNotes
  <2>7. HasNeighbor(w3, p) <=> HasNeighbor(w, p)
    BY <2>4 DEF HasNeighbor
  <2>8. /\ v.lane = w4.lane /\ v.bundle = w4.bundle /\ v.hif = w4.hif
        /\ v.past.refused = w4.past.refused /\ v.stop = w4.stop
        /\ p \notin v.past.torn => ~w4.error
    BY <2>6 DEF Noted
  <2>9. Around(w, p, v)
    <3>1. /\ v \in Worlds
          /\ v.state = w.state /\ v.config = w.config /\ v.meets = w.meets
          /\ v.past.half = w.past.half /\ w.past.refused \subseteq v.past.refused
          /\ \A r \in Ports : v.hw[r] \in {w.hw[r], Mixed}
      BY <2>4, <2>5, <2>6 DEF Noted
    <3>2. \A r \in Splitable : r # p => (r \in v.past.torn <=> r \in w.past.torn)
      BY <2>4, <2>5, <2>6 DEF Noted
    <3>3. \A n \in Netdevs : n # p /\ n \notin C /\ n # NeighborOf[p] =>
            v.lane[n] = w.lane[n]
      BY <2>4, <2>5, <2>8
    <3>4. \A n \in Netdevs : n # p /\ n \notin C => (n \in v.hif <=> n \in w.hif)
      BY <2>4, <2>5, <2>8
    <3>5. \A q \in Fixed : q # NeighborOf[p] => v.bundle[q] = w.bundle[q]
      BY <2>4, <2>5, <2>8
    <3>6. ~HasNeighbor(w, p) /\ NeighborOf[p] # None =>
            /\ v.lane[NeighborOf[p]] = w.lane[NeighborOf[p]]
            /\ v.bundle[NeighborOf[p]] = w.bundle[NeighborOf[p]]
      BY <1>2, <2>4, <2>5, <2>7, <2>8
    <3> QED
      BY <3>1, <3>2, <3>3, <3>4, <3>5, <3>6 DEF Around, C
  <2>10. UnsplitDone(p, v)
    BY <1>2, <2>4, <2>5, <2>8 DEF UnsplitDone, C
  <2>11. NeighborGained(w, p, v)
    BY <2>4, <2>5, <2>7, <2>8 DEF NeighborGained
  <2> QED
    BY <2>4, <2>5, <2>8, <2>9, <2>10, <2>11
<1> QED
  BY <1>3, <1>4

-----------------------------------------------------------------------------
(* Both are sound *)

\* What a split or an unsplit needs of the other ports.
LEMMA AroundIsSound ==
  ASSUME NEW w \in Worlds, w.state = state, Sound(w), NEW p \in Splitable,
         NEW v, Around(w, p, v), w.state[p] \in {"half", "ready"}
  PROVE  /\ \A c \in Children : ParentOf[c] # p =>
              v.lane[c] = w.lane[c] /\ v.lane[ParentOf[c]] = w.lane[ParentOf[c]]
         /\ HalvesArePast(v) /\ ChildrenWait(v) /\ ParentsWait(v) /\ ConfigsFollow(v)
PROOF
<1> USE DEF Around
<1>1. \A c \in Children :
        /\ c \in Netdevs /\ c # p /\ c # NeighborOf[p]
        /\ ParentOf[c] \in Splitable /\ ParentOf[c] \in Netdevs /\ ParentOf[c] # NeighborOf[p]
        /\ ParentOf[c] \notin ChildrenOf(p)
        /\ c \in ChildrenOf(p) <=> ParentOf[c] = p /\ w.state[c] = "ready"
  BY KindsAssumption, SplitAssumption DEF ChildrenOf, Netdevs, Ports
<1>2. \A c \in Children : ParentOf[c] # p =>
        v.lane[c] = w.lane[c] /\ v.lane[ParentOf[c]] = w.lane[ParentOf[c]]
  BY <1>1
<1>3. HalvesArePast(v)
  BY DEF Sound, HalvesArePast
<1>4. ChildrenWait(v)
  BY <1>1 DEF Sound, ChildrenWait
<1>5. ParentsWait(v)
  <2> SUFFICES ASSUME NEW r \in Splitable, w.state[r] \in {"absent", "new"}
               PROVE  /\ ~v.lane[r]
                      /\ \A c \in Children : ParentOf[c] = r => ~v.lane[c]
                      /\ NeighborOf[r] # None /\ w.state[NeighborOf[r]] = "ready" =>
                           v.lane[NeighborOf[r]]
    BY DEF ParentsWait
  <2>1. /\ ~w.lane[r]
        /\ \A c \in Children : ParentOf[c] = r => ~w.lane[c]
        /\ NeighborOf[r] # None /\ w.state[NeighborOf[r]] = "ready" => w.lane[NeighborOf[r]]
    BY DEF Sound, ParentsWait
  <2>2. r # p /\ r \in Netdevs /\ r \notin ChildrenOf(p) /\ r # NeighborOf[p]
    BY KindsAssumption, SplitAssumption DEF ChildrenOf, Netdevs, Ports
  <2>3. ~v.lane[r]
    BY <2>1, <2>2
  <2>4. \A c \in Children : ParentOf[c] = r => ~v.lane[c]
    BY <1>2, <2>1, <2>2
  <2>5. NeighborOf[r] # None =>
          /\ NeighborOf[r] \in Netdevs /\ NeighborOf[r] # NeighborOf[p]
          /\ NeighborOf[r] # p /\ NeighborOf[r] \notin ChildrenOf(p)
    BY <2>2, KindsAssumption, SplitAssumption, NeighborAssumption DEF ChildrenOf, Netdevs, Ports
  <2> QED
    BY <2>1, <2>3, <2>4, <2>5
<1>6. ConfigsFollow(v)
  BY DEF Sound, ConfigsFollow
<1> QED
  BY <1>2, <1>3, <1>4, <1>5, <1>6

LEMMA SplitIsSound ==
  ASSUME NEW w \in Worlds, w.state = state, Sound(w), ~w.stop, NEW p \in Splitable,
         NEW v, v = SplitOf(w, p)
  PROVE  v \in Worlds /\ Sound(v) /\ v.state = w.state
PROOF
<1>1. CASE ~w.lane[p]
  <2>1. v = w
    BY <1>1 DEF SplitOf
  <2> QED
    BY <2>1
<1>2. CASE w.lane[p]
  <2>1. /\ Around(w, p, v) /\ v.stop = w.stop /\ NeighborLost(w, p, v)
        /\ SplitRefused(w, p, v) \/ SplitDone(p, v)
    BY <1>2, SplitMoves
  <2>2. v \in Worlds /\ v.state = w.state
    BY <2>1 DEF Around
  <2>3. w.state[p] \in {"half", "ready"}
    <3>1. w.state[p] \in States
      BY WorldParts, ChildrenOfAre
    <3> QED
      BY <1>2, <3>1 DEF Sound, ParentsWait
  <2>4. /\ \A c \in Children : ParentOf[c] # p =>
             v.lane[c] = w.lane[c] /\ v.lane[ParentOf[c]] = w.lane[ParentOf[c]]
        /\ HalvesArePast(v) /\ ChildrenWait(v) /\ ParentsWait(v) /\ ConfigsFollow(v)
    BY <2>1, <2>3, AroundIsSound
  <2>5. \A c \in Children : c \in Netdevs /\ ParentOf[c] \in Splitable /\ c # p /\ c # NeighborOf[p]
        /\ (c \in ChildrenOf(p) <=> ParentOf[c] = p /\ w.state[c] = "ready")
    BY KindsAssumption, SplitAssumption DEF ChildrenOf, Netdevs, Ports
  <2>6. LanesDiffer(v)
    <3> SUFFICES ASSUME NEW c \in Children, v.lane[c], v.lane[ParentOf[c]]
                 PROVE  ParentOf[c] \in v.past.half
      BY DEF LanesDiffer
    <3>1. CASE ParentOf[c] # p
      BY <2>1, <2>4, <3>1 DEF Sound, LanesDiffer, Around
    <3>2. CASE ParentOf[c] = p /\ w.state[c] = "ready"
      BY <1>2, <2>1, <2>5, <3>2 DEF Sound, LanesDiffer, Around, SplitRefused, SplitDone
    <3>3. CASE w.state[c] # "ready"
      BY <2>2, <2>4, <3>3 DEF ChildrenWait
    <3> QED
      BY <3>1, <3>2, <3>3
  <2>7. BundlesWait(v)
    <3> SUFFICES ASSUME NEW q \in Fixed, w.state[q] # "ready"
                 PROVE  v.bundle[q] = "none"
      BY <2>2 DEF BundlesWait
    <3>1. w.bundle[q] = "none" /\ q # None
      BY KindsAssumption DEF Sound, BundlesWait, Netdevs, Ports
    <3>2. q # NeighborOf[p] \/ ~HasNeighbor(w, p) => v.bundle[q] = w.bundle[q]
      BY <2>1, <3>1 DEF Around
    <3>3. q = NeighborOf[p] /\ HasNeighbor(w, p) => v.bundle[q] = "none"
      BY <2>1, <3>1 DEF NeighborLost
    <3> QED
      BY <3>1, <3>2, <3>3
  <2>8. ParentHosts(v)
    <3> SUFFICES ASSUME NEW r \in Splitable, w.state[r] = "ready",
                        r \notin v.past.refused \cup v.past.half
                 PROVE  v.lane[r] <=> r \in v.hif
      BY <2>2 DEF ParentHosts
    <3>1. CASE r = p
      BY <2>1, <3>1 DEF SplitRefused, SplitDone
    <3>2. CASE r # p
      <4>1. r \in Netdevs /\ r \notin ChildrenOf(p) /\ r # NeighborOf[p]
        BY KindsAssumption, SplitAssumption DEF ChildrenOf, Netdevs, Ports
      <4> QED
        BY <2>1, <3>2, <4>1 DEF Sound, ParentHosts, Around
    <3> QED
      BY <3>1, <3>2
  <2>9. ChildHosts(v)
    <3> SUFFICES ASSUME NEW c \in Children, w.state[c] = "ready", c \notin v.past.refused,
                        ParentOf[c] \notin v.past.torn
                 PROVE  v.lane[c] <=> c \in v.hif
      BY <2>2 DEF ChildHosts
    <3>1. CASE ParentOf[c] = p
      BY <2>1, <2>5, <3>1 DEF SplitRefused, SplitDone
    <3>2. CASE ParentOf[c] # p
      <4>1. c \notin w.past.refused /\ ParentOf[c] \notin w.past.torn
        BY <2>1, <2>5, <3>2 DEF Around
      <4>2. v.lane[c] = w.lane[c] /\ (c \in v.hif <=> c \in w.hif)
        BY <2>1, <2>4, <2>5, <3>2 DEF Around
      <4> QED
        BY <4>1, <4>2 DEF Sound, ChildHosts
    <3> QED
      BY <3>1, <3>2
  <2>10. NeighborsFollow(v)
    <3> SUFFICES ASSUME NEW r \in Splitable, NEW q \in Fixed,
                        r \notin v.past.torn \cup v.past.half, q = NeighborOf[r],
                        w.state[q] = "ready", q \notin v.past.half
                 PROVE  /\ ~v.lane[q] => ~v.lane[r]
                        /\ v.bundle[q] = "live" => v.lane[q]
                        /\ v.bundle[q] = "cached" => ~v.lane[q]
      BY <2>2 DEF NeighborsFollow
    <3>1. CASE r = p
      <4>1. HasNeighbor(w, p)
        BY <3>1, KindsAssumption DEF HasNeighbor, Netdevs, Ports
      <4>2. ~v.lane[p] /\ ~v.lane[q] /\ v.bundle[q] # "live"
        BY <2>1, <3>1, <4>1 DEF NeighborLost, SplitRefused, SplitDone
      <4> QED
        BY <3>1, <4>2
    <3>2. CASE r # p
      <4>1. /\ r \in Netdevs /\ r \notin ChildrenOf(p) /\ r # NeighborOf[p]
            /\ q \in Netdevs /\ q \notin ChildrenOf(p) /\ q # NeighborOf[p] /\ q # p
        BY <3>2, KindsAssumption, SplitAssumption, NeighborAssumption DEF ChildrenOf, Netdevs, Ports
      <4>2. /\ v.lane[q] = w.lane[q] /\ v.lane[r] = w.lane[r] /\ v.bundle[q] = w.bundle[q]
            /\ r \notin w.past.torn \cup w.past.half /\ q \notin w.past.half
        BY <2>1, <3>2, <4>1 DEF Around
      <4> QED
        BY <4>2 DEF Sound, NeighborsFollow
    <3> QED
      BY <3>1, <3>2
  <2> QED
    BY <2>2, <2>4, <2>6, <2>7, <2>8, <2>9, <2>10 DEF Sound
<1> QED
  BY <1>1, <1>2

LEMMA UnsplitIsSound ==
  ASSUME NEW w \in Worlds, w.state = state, Sound(w), ~w.stop, NEW p \in Splitable,
         w.state[p] \in {"half", "ready"}, NEW v, v = UnsplitOf(w, p)
  PROVE  v \in Worlds /\ Sound(v) /\ v.state = w.state
PROOF
<1>1. CASE w.lane[p]
  <2>1. v = w
    BY <1>1 DEF UnsplitOf
  <2> QED
    BY <2>1
<1>2. CASE ~w.lane[p]
  <2>1. /\ Around(w, p, v)
        /\ \/ UnsplitRefused(w, p, v)
           \/ UnsplitDone(p, v) /\ NeighborGained(w, p, v) /\ v.stop = w.stop
    BY <1>2, UnsplitMoves
  <2>2. v \in Worlds /\ v.state = w.state
    BY <2>1 DEF Around
  <2>3. /\ \A c \in Children : ParentOf[c] # p =>
             v.lane[c] = w.lane[c] /\ v.lane[ParentOf[c]] = w.lane[ParentOf[c]]
        /\ HalvesArePast(v) /\ ChildrenWait(v) /\ ParentsWait(v) /\ ConfigsFollow(v)
    BY <2>1, AroundIsSound
  <2>4. \A c \in Children : c \in Netdevs /\ ParentOf[c] \in Splitable /\ c # p /\ c # NeighborOf[p]
        /\ (c \in ChildrenOf(p) <=> ParentOf[c] = p /\ w.state[c] = "ready")
    BY KindsAssumption, SplitAssumption DEF ChildrenOf, Netdevs, Ports
  <2>5. LanesDiffer(v)
    <3> SUFFICES ASSUME NEW c \in Children, v.lane[c], v.lane[ParentOf[c]]
                 PROVE  ParentOf[c] \in v.past.half
      BY DEF LanesDiffer
    <3>1. CASE ParentOf[c] # p
      BY <2>1, <2>3, <3>1 DEF Sound, LanesDiffer, Around
    <3>2. CASE ParentOf[c] = p /\ w.state[c] = "ready"
      <4>1. p \in Netdevs
        BY ChildrenOfAre
      <4> QED
        BY <1>2, <2>1, <2>4, <3>2, <4>1 DEF UnsplitRefused, UnsplitDone
    <3>3. CASE w.state[c] # "ready"
      BY <2>2, <2>3, <3>3 DEF ChildrenWait
    <3> QED
      BY <3>1, <3>2, <3>3
  <2>6. BundlesWait(v)
    <3> SUFFICES ASSUME NEW q \in Fixed, w.state[q] # "ready"
                 PROVE  v.bundle[q] = "none"
      BY <2>2 DEF BundlesWait
    <3>1. w.bundle[q] = "none" /\ q # None
      BY KindsAssumption DEF Sound, BundlesWait, Netdevs, Ports
    <3>2. q # NeighborOf[p] \/ ~HasNeighbor(w, p) => v.bundle[q] = w.bundle[q]
      BY <2>1, <3>1 DEF Around
    <3>3. q = NeighborOf[p] /\ HasNeighbor(w, p) => v.bundle[q] = "none"
      BY <2>1, <3>1 DEF NeighborGained, UnsplitRefused
    <3> QED
      BY <3>1, <3>2, <3>3
  <2>7. ParentHosts(v)
    <3> SUFFICES ASSUME ~v.stop, NEW r \in Splitable, w.state[r] = "ready",
                        r \notin v.past.refused \cup v.past.half
                 PROVE  v.lane[r] <=> r \in v.hif
      BY <2>2 DEF ParentHosts
    <3>1. r \in Netdevs /\ r \notin ChildrenOf(p) /\ r # NeighborOf[p]
      BY KindsAssumption, SplitAssumption DEF ChildrenOf, Netdevs, Ports
    <3>2. r \notin w.past.refused \cup w.past.half
      BY <2>1 DEF Around
    <3>3. w.lane[r] <=> r \in w.hif
      BY <3>2 DEF Sound, ParentHosts
    <3>4. CASE r = p
      BY <2>1, <3>1, <3>3, <3>4 DEF UnsplitRefused, UnsplitDone
    <3>5. CASE r # p
      BY <2>1, <3>1, <3>3, <3>5 DEF Around
    <3> QED
      BY <3>4, <3>5
  <2>8. ChildHosts(v)
    <3> SUFFICES ASSUME NEW c \in Children, w.state[c] = "ready", c \notin v.past.refused,
                        ParentOf[c] \notin v.past.torn
                 PROVE  v.lane[c] <=> c \in v.hif
      BY <2>2 DEF ChildHosts
    <3>1. CASE ParentOf[c] = p
      BY <2>1, <2>4, <3>1 DEF UnsplitRefused, UnsplitDone
    <3>2. CASE ParentOf[c] # p
      <4>1. c \notin w.past.refused /\ ParentOf[c] \notin w.past.torn
        BY <2>1, <2>4, <3>2 DEF Around
      <4>2. v.lane[c] = w.lane[c] /\ (c \in v.hif <=> c \in w.hif)
        BY <2>1, <2>3, <2>4, <3>2 DEF Around
      <4> QED
        BY <4>1, <4>2 DEF Sound, ChildHosts
    <3> QED
      BY <3>1, <3>2
  <2>9. NeighborsFollow(v)
    <3> SUFFICES ASSUME NEW r \in Splitable, NEW q \in Fixed,
                        r \notin v.past.torn \cup v.past.half, q = NeighborOf[r],
                        w.state[q] = "ready", q \notin v.past.half
                 PROVE  /\ ~v.lane[q] => ~v.lane[r]
                        /\ v.bundle[q] = "live" => v.lane[q]
                        /\ v.bundle[q] = "cached" => ~v.lane[q]
      BY <2>2 DEF NeighborsFollow
    <3>1. CASE r = p
      <4>1. HasNeighbor(w, p)
        BY <3>1, KindsAssumption DEF HasNeighbor, Netdevs, Ports
      <4>2. v.lane[q] /\ v.bundle[q] # "cached"
        BY <2>1, <3>1, <4>1 DEF NeighborGained, UnsplitRefused
      <4> QED
        BY <4>2
    <3>2. CASE r # p
      <4>1. /\ r \in Netdevs /\ r \notin ChildrenOf(p) /\ r # NeighborOf[p]
            /\ q \in Netdevs /\ q \notin ChildrenOf(p) /\ q # NeighborOf[p] /\ q # p
        BY <3>2, KindsAssumption, SplitAssumption, NeighborAssumption DEF ChildrenOf, Netdevs, Ports
      <4>2. /\ v.lane[q] = w.lane[q] /\ v.lane[r] = w.lane[r] /\ v.bundle[q] = w.bundle[q]
            /\ r \notin w.past.torn \cup w.past.half /\ q \notin w.past.half
        BY <2>1, <3>2, <4>1 DEF Around
      <4> QED
        BY <4>2 DEF Sound, NeighborsFollow
    <3> QED
      BY <3>1, <3>2
  <2> QED
    BY <2>2, <2>3, <2>5, <2>6, <2>7, <2>8, <2>9 DEF Sound
<1> QED
  BY <1>1, <1>2

\* The error flag of a world is no part of what is sound.
LEMMA ErrorIsApart ==
  ASSUME NEW w \in Worlds, Sound(w), NEW e \in BOOLEAN, NEW v, v = [w EXCEPT !.error = e]
  PROVE  v \in Worlds /\ Sound(v) /\ v.state = w.state /\ v.stop = w.stop
PROOF
<1>1. /\ v \in Worlds
      /\ v.state = w.state /\ v.lane = w.lane /\ v.config = w.config /\ v.hw = w.hw
      /\ v.hif = w.hif /\ v.bundle = w.bundle /\ v.stop = w.stop /\ v.past = w.past
  BY DEF Worlds
<1> QED
  BY <1>1 DEF Sound, LanesDiffer, HalvesArePast, ChildrenWait, BundlesWait, ParentsWait,
     ParentHosts, ChildHosts, NeighborsFollow, ConfigsFollow

\* A port that is informed again is split, unsplit or left alone (SplitUpdated).
LEMMA UpdateIsSound ==
  ASSUME NEW w \in Worlds, w.state = state, Sound(w), ~w.stop, NEW p \in Ports,
         w.state[p] \in {"half", "ready"}, NEW v, v = SplitUpdated(w, p)
  PROVE  v \in Worlds /\ Sound(v) /\ v.state = w.state
PROOF
<1> DEFINE w1 == IF p \in Children
                 THEN IF Listed(ParentOf[p]) THEN SplitOf(w, ParentOf[p])
                      ELSE [w EXCEPT !.stop = TRUE]
                 ELSE IF p \in Splitable THEN UnsplitOf(w, p)
                 ELSE w
<1>1. v = [w1 EXCEPT !.error = FALSE]
  BY DEF SplitUpdated
<1>2. w1 \in Worlds /\ Sound(w1) /\ w1.state = w.state
  <2>1. CASE p \in Children /\ Listed(ParentOf[p])
    <3>1. w1 = SplitOf(w, ParentOf[p]) /\ ParentOf[p] \in Splitable
      BY <2>1, SplitAssumption
    <3> HIDE DEF w1
    <3> QED
      BY <3>1, SplitIsSound
  <2>2. CASE p \in Children /\ ~Listed(ParentOf[p])
    <3>1. w1 = [w EXCEPT !.stop = TRUE]
      BY <2>2
    <3> HIDE DEF w1
    <3>2. /\ w1 \in Worlds /\ w1.stop
          /\ w1.state = w.state /\ w1.lane = w.lane /\ w1.config = w.config /\ w1.hw = w.hw
          /\ w1.hif = w.hif /\ w1.bundle = w.bundle /\ w1.past = w.past
      BY <3>1 DEF Worlds
    <3> QED
      BY <3>2 DEF Sound, LanesDiffer, HalvesArePast, ChildrenWait, BundlesWait, ParentsWait,
         ParentHosts, ChildHosts, NeighborsFollow, ConfigsFollow
  <2>3. CASE p \in Splitable
    <3>1. w1 = UnsplitOf(w, p)
      BY <2>3, KindsAssumption
    <3> HIDE DEF w1
    <3> QED
      BY <2>3, <3>1, UnsplitIsSound
  <2>4. CASE p \notin Children /\ p \notin Splitable
    <3>1. w1 = w
      BY <2>4
    <3> HIDE DEF w1
    <3> QED
      BY <3>1
  <2> QED
    BY <2>1, <2>2, <2>3, <2>4
<1> HIDE DEF w1
<1> QED
  BY <1>1, <1>2, ErrorIsApart

-----------------------------------------------------------------------------
(* The calls of switchd *)

USE DEF Sound, LanesDiffer, HalvesArePast, ChildrenWait, BundlesWait, ParentsWait,
        ParentHosts, ChildHosts, NeighborsFollow, ConfigsFollow

\* The kinds of netdevs are apart.
LEMMA KindsAreApart ==
  /\ \A p \in Splitable : p \notin Children /\ p \notin Fixed /\ p \notin Internals
  /\ \A c \in Children : c \notin Splitable /\ c \notin Fixed /\ c \notin Internals
                         /\ ParentOf[c] \in Splitable
  /\ \A q \in Fixed : q \notin Splitable /\ q \notin Children /\ q \notin Internals
  /\ Ports \subseteq Netdevs /\ Splitable \subseteq Ports /\ Children \subseteq Ports
  /\ Fixed \subseteq Ports /\ Internals \subseteq Netdevs
  /\ \A p \in Ports : p \in Splitable \/ p \in Children \/ p \in Fixed
  /\ \A n \in Internals : n \notin Ports
BY KindsAssumption, SplitAssumption DEF Netdevs, Ports

\* The type of the variables, from that of the world they are.
LEMMA NowParts ==
  ASSUME Now \in Worlds
  PROVE  TypeOK
BY DEF Now, Worlds, TypeOK

\* A call starts from a sound world.
LEMMA CallsStartSound ==
  ASSUME NetdevInv, ~stopped, NEW m \in Meets, NEW w, w = World(m)
  PROVE  /\ w \in Worlds /\ Sound(w) /\ ~w.stop /\ w.meets = m
         /\ w.state = state /\ w.lane = lane /\ w.default = default /\ w.config = config
         /\ w.hw = hw /\ w.hif = hif /\ w.bundle = bundle /\ w.past = past
PROOF
<1>1. /\ ~w.stop /\ ~w.error /\ w.meets = m
      /\ w.state = state /\ w.lane = lane /\ w.default = default /\ w.config = config
      /\ w.hw = hw /\ w.hif = hif /\ w.bundle = bundle /\ w.past = past
  BY DEF World
<1>2. w \in Worlds
  <2>1. TypeOK /\ m \in Met
    BY NowParts, MeetsAreMet DEF NetdevInv
  <2> QED
    BY <2>1 DEF TypeOK, World, Worlds
<1>3. Sound(w)
  BY <1>1 DEF NetdevInv, Now
<1> QED
  BY <1>1, <1>2, <1>3

\* And what it leaves is sound if its last world is.
LEMMA CallsEndSound ==
  ASSUME NEW w \in Worlds, Sound(w), Does(w)
  PROVE  NetdevInv'
PROOF
<1>1. (Now \in Worlds)'
  BY MeetsAreMet DEF Does, Now, Worlds
<1>2. Sound(Now)'
  BY DEF Does, Now
<1> QED
  BY <1>1, <1>2 DEF NetdevInv

\* Nothing has happened yet.
LEMMA InitIsSound ==
  Init => NetdevInv
PROOF
<1> SUFFICES ASSUME Init PROVE NetdevInv
  OBVIOUS
<1>1. Now \in Worlds
  BY MeetsAreMet, ConfigAssumption DEF Init, Now, Worlds, History
<1>2. /\ \A n \in Netdevs : state[n] = "absent" /\ ~lane[n]
      /\ \A q \in Fixed : bundle[q] = "none"
      /\ \A p \in Ports : config[p] = Zero
      /\ hif = {}
  BY DEF Init
<1>3. \A p \in Ports : p \in Netdevs
  BY KindsAreApart
<1>4. \A p \in Splitable : p \in Netdevs
  BY KindsAreApart
<1>5. \A c \in Children : c \in Netdevs /\ ParentOf[c] \in Netdevs
  BY KindsAreApart
<1>6. \A q \in Fixed : q \in Netdevs
  BY KindsAreApart
<1>7. \A p \in Splitable : NeighborOf[p] # None => NeighborOf[p] \in Netdevs
  BY <1>6, SplitAssumption
<1>8. Sound(Now)
  BY <1>2, <1>3, <1>4, <1>5, <1>6, <1>7 DEF Now
<1> QED
  BY <1>1, <1>8 DEF NetdevInv

LEMMA ConstructIsSound ==
  ASSUME NetdevInv, NEW n \in Netdevs, Construct(n)
  PROVE  NetdevInv'
PROOF
<1>1. TypeOK
  BY NowParts DEF NetdevInv
<1>2. (Now \in Worlds)'
  BY <1>1, MeetsAreMet DEF Construct, TypeOK, Now, Worlds
<1>3. Sound(Now)'
  BY <1>1, KindsAreApart DEF Construct, TypeOK, NetdevInv, Now
<1> QED
  BY <1>2, <1>3 DEF NetdevInv

LEMMA DestructIsSound ==
  ASSUME NetdevInv, NEW n \in Netdevs, Destruct(n)
  PROVE  NetdevInv'
PROOF
<1>1. TypeOK
  BY NowParts DEF NetdevInv
<1>2. (Now \in Worlds)'
  BY <1>1, MeetsAreMet DEF Destruct, TypeOK, Now, Worlds
<1>3. Sound(Now)'
  BY <1>1, KindsAreApart DEF Destruct, TypeOK, NetdevInv, Now
<1> QED
  BY <1>2, <1>3 DEF NetdevInv

LEMMA SetAroundIsSound ==
  ASSUME NetdevInv, NEW p \in Ports, SetAround(p)
  PROVE  NetdevInv'
PROOF
<1>1. TypeOK
  BY NowParts DEF NetdevInv
<1>2. (Now \in Worlds)'
  BY <1>1, MeetsAreMet DEF SetAround, TypeOK, Now, Worlds
<1>3. Sound(Now)'
  BY <1>1 DEF SetAround, TypeOK, NetdevInv, Now
<1> QED
  BY <1>2, <1>3 DEF NetdevInv

LEMMA BundleSetIsSound ==
  ASSUME NetdevInv, NEW p \in Fixed, BundleSet(p)
  PROVE  NetdevInv'
PROOF
<1>1. TypeOK
  BY NowParts DEF NetdevInv
<1>2. (Now \in Worlds)'
  BY <1>1, MeetsAreMet DEF BundleSet, TypeOK, Now, Worlds
<1>3. Sound(Now)'
  BY <1>1 DEF BundleSet, TypeOK, NetdevInv, Now
<1> QED
  BY <1>2, <1>3 DEF NetdevInv

LEMMA BundleDestroyIsSound ==
  ASSUME NetdevInv, NEW p \in Fixed, BundleDestroy(p)
  PROVE  NetdevInv'
PROOF
<1>1. TypeOK
  BY NowParts DEF NetdevInv
<1>2. (Now \in Worlds)'
  BY <1>1, MeetsAreMet DEF BundleDestroy, TypeOK, Now, Worlds
<1>3. Sound(Now)'
  BY <1>1 DEF BundleDestroy, TypeOK, NetdevInv, Now
<1> QED
  BY <1>2, <1>3 DEF NetdevInv

LEMMA SetInfoInternalIsSound ==
  ASSUME NetdevInv, NEW n \in Netdevs, SetInfoInternal(n)
  PROVE  NetdevInv'
PROOF
<1>1. PICK m \in Meets :
        LET w == HifsCreated(World(m), {n})
        IN Does(IF w.error THEN w ELSE [w EXCEPT !.state[n] = "ready", !.lane[n] = TRUE])
  BY DEF SetInfoInternal
<1> DEFINE w0 == World(m)
           w  == HifsCreated(w0, {n})
           s  == [w.state EXCEPT ![n] = "ready"]
           l  == [w.lane EXCEPT ![n] = TRUE]
           u  == [w EXCEPT !.state = s, !.lane = l]
<1>2. Does(IF w.error THEN w ELSE u)
  BY <1>1, Zenon
<1>3. n \in Internals /\ ~stopped /\ n \notin Ports /\ n \in Netdevs
  BY KindsAreApart DEF SetInfoInternal
<1>4. w0 \in Worlds /\ Sound(w0)
  <2> HIDE DEF w0
  <2>1. w0 = World(m)
    BY DEF w0
  <2> QED
    BY <1>3, <2>1, CallsStartSound DEF SetInfoInternal
<1> HIDE DEF w0
<1>5. /\ w \in Worlds
      /\ w.state = w0.state /\ w.lane = w0.lane /\ w.default = w0.default
      /\ w.config = w0.config /\ w.hw = w0.hw /\ w.bundle = w0.bundle
      /\ w.stop = w0.stop
      /\ w.past.half = w0.past.half /\ w.past.torn = w0.past.torn
      /\ w.hif \subseteq w0.hif \cup {n} /\ w0.hif \subseteq w.hif
      /\ w0.past.refused \subseteq w.past.refused
  <2> HIDE DEF w
  <2>1. w = HifsCreated(w0, {n})
    BY DEF w
  <2> QED
    BY <1>3, <1>4, <2>1, HifsCreatedAdds
<1> HIDE DEF w
<1>6. /\ \A r \in Ports : r \in w.hif <=> r \in w0.hif
      /\ w.state \in [Netdevs -> States] /\ w.lane \in [Netdevs -> BOOLEAN]
  BY <1>3, <1>5, WorldParts
<1>7. Sound(w)
  BY <1>4, <1>5, <1>6, KindsAreApart
<1>8. /\ s \in [Netdevs -> States] /\ l \in [Netdevs -> BOOLEAN]
      /\ \A r \in Ports : s[r] = w.state[r] /\ l[r] = w.lane[r]
  <2>1. \A r \in Ports : r \in Netdevs /\ r # n
    BY <1>3, KindsAreApart
  <2> QED
    BY <1>3, <1>6, <2>1
<1> HIDE DEF s, l
<1>9. /\ u \in Worlds
      /\ u.state = s /\ u.lane = l /\ u.default = w.default
      /\ u.config = w.config /\ u.hw = w.hw /\ u.bundle = w.bundle
      /\ u.stop = w.stop /\ u.past = w.past /\ u.hif = w.hif
  BY <1>5, <1>8 DEF Worlds
<1> HIDE DEF u
<1>10. Sound(u)
  <2>1. \A r \in Ports : u.state[r] = w.state[r] /\ u.lane[r] = w.lane[r]
    BY <1>8, <1>9
  <2>2. \A p \in Splitable : p \in Ports /\ (NeighborOf[p] # None => NeighborOf[p] \in Ports)
    BY KindsAreApart, SplitAssumption
  <2>3. \A c \in Children : c \in Ports /\ ParentOf[c] \in Ports /\ ParentOf[c] \in Splitable
    BY KindsAreApart
  <2>4. \A q \in Fixed : q \in Ports
    BY KindsAreApart
  <2>5. LanesDiffer(u) /\ HalvesArePast(u) /\ ChildrenWait(u) /\ BundlesWait(u)
    BY <1>7, <1>9, <2>1, <2>3, <2>4
  <2>6. ParentsWait(u)
    BY <1>7, <2>1, <2>2, <2>3
  <2>7. ParentHosts(u) /\ ChildHosts(u)
    BY <1>7, <1>9, <2>1, <2>2, <2>3
  <2>8. NeighborsFollow(u) /\ ConfigsFollow(u)
    BY <1>7, <1>9, <2>1, <2>2, <2>4
  <2> QED
    BY <2>5, <2>6, <2>7, <2>8
<1> QED
  BY <1>2, <1>5, <1>7, <1>9, <1>10, CallsEndSound

\* v is w but for the information of p, which is set for the first time or again
\* after it failed, and for the host interface it needs.
Informed(w, p, v) ==
  /\ v \in Worlds
  /\ v.config = w.config /\ v.hw = w.hw /\ v.bundle = w.bundle /\ v.stop = w.stop
  /\ v.past.torn = w.past.torn /\ w.past.refused \subseteq v.past.refused
  /\ v.lane[p] /\ \A n \in Netdevs : n # p => v.lane[n] = w.lane[n]
  /\ \A n \in Netdevs : n # p => (n \in v.hif <=> n \in w.hif)
  /\ \A n \in Netdevs : n # p => v.state[n] = w.state[n]
  /\ \/ v.state[p] = "half" /\ v.past.half = w.past.half \cup {p}
     \/ v.state[p] = "ready" /\ v.past.half = w.past.half /\ p \in v.hif

LEMMA InformedIsSound ==
  ASSUME NEW w \in Worlds, Sound(w), NEW p \in Splitable \cup Fixed,
         w.state[p] # "ready", w.state[p] # "absent", NEW v, Informed(w, p, v)
  PROVE  Sound(v)
PROOF
<1> USE DEF Informed
<1>1. /\ p \in Ports /\ p \in Netdevs /\ w.state[p] \in {"new", "half"}
      /\ w.past.half \subseteq v.past.half
      /\ w.state[p] = "half" => p \in v.past.half
  <2>1. p \in Ports /\ p \in Netdevs
    BY KindsAreApart
  <2>2. w.state[p] \in States
    BY <2>1, WorldParts
  <2> QED
    BY <2>1, <2>2
<1>2. LanesDiffer(v)
  <2> SUFFICES ASSUME NEW c \in Children, v.lane[c], v.lane[ParentOf[c]]
               PROVE  ParentOf[c] \in v.past.half
    OBVIOUS
  <2>1. c # p /\ c \in Netdevs /\ ParentOf[c] \in Netdevs
    BY KindsAreApart
  <2>2. w.lane[c]
    BY <2>1
  <2>3. CASE ParentOf[c] = p
    BY <1>1, <2>2, <2>3, KindsAreApart
  <2>4. CASE ParentOf[c] # p
    BY <1>1, <2>1, <2>2, <2>4
  <2> QED
    BY <2>3, <2>4
<1>3. HalvesArePast(v)
  BY <1>1, KindsAreApart
<1>4. ChildrenWait(v)
  BY KindsAreApart
<1>5. BundlesWait(v)
  BY KindsAreApart
<1>6. ParentsWait(v)
  <2> SUFFICES ASSUME NEW r \in Splitable, v.state[r] \in {"absent", "new"}
               PROVE  /\ ~v.lane[r]
                      /\ \A c \in Children : ParentOf[c] = r => ~v.lane[c]
                      /\ NeighborOf[r] # None /\ v.state[NeighborOf[r]] = "ready" =>
                           v.lane[NeighborOf[r]]
    OBVIOUS
  <2>1. r # p /\ r \in Netdevs /\ \A c \in Children : c # p /\ c \in Netdevs
    BY KindsAreApart
  <2>2. w.state[r] \in {"absent", "new"}
    BY <2>1
  <2>3. /\ ~w.lane[r] /\ \A c \in Children : ParentOf[c] = r => ~w.lane[c]
        /\ NeighborOf[r] # None /\ w.state[NeighborOf[r]] = "ready" => w.lane[NeighborOf[r]]
    BY <2>2
  <2>4. NeighborOf[r] # None => NeighborOf[r] \in Netdevs
    BY SplitAssumption, KindsAreApart
  <2> QED
    BY <2>1, <2>3, <2>4
<1>7. ParentHosts(v)
  BY KindsAreApart
<1>8. ChildHosts(v)
  BY KindsAreApart
<1>9. NeighborsFollow(v)
  <2> SUFFICES ASSUME ~v.stop, NEW r \in Splitable, NEW q \in Fixed,
                      r \notin v.past.torn \cup v.past.half, q = NeighborOf[r],
                      v.state[q] = "ready", q \notin v.past.half
               PROVE  /\ ~v.lane[q] => ~v.lane[r]
                      /\ v.bundle[q] = "live" => v.lane[q]
                      /\ v.bundle[q] = "cached" => ~v.lane[q]
    OBVIOUS
  <2>1. /\ r \in Netdevs /\ q \in Netdevs /\ q # r /\ q # None
        /\ r \notin w.past.torn \cup w.past.half /\ q \notin w.past.half
    BY <1>1, KindsAreApart, KindsAssumption
  <2>2. CASE q = p
    BY <1>5, <2>2
  <2>3. CASE r = p
    <3>1. w.state[r] = "new" /\ w.state[q] = "ready" /\ v.lane[q] = w.lane[q]
      BY <1>1, <2>1, <2>3
    <3>2. w.lane[q]
      BY <2>1, <3>1
    <3>3. w.bundle[q] # "cached"
      BY <2>1, <3>1, <3>2
    <3> QED
      BY <3>1, <3>2, <3>3
  <2>4. CASE q # p /\ r # p
    BY <2>1, <2>4
  <2> QED
    BY <2>2, <2>3, <2>4
<1>10. ConfigsFollow(v)
  OBVIOUS
<1> QED
  BY <1>2, <1>3, <1>4, <1>5, <1>6, <1>7, <1>8, <1>9, <1>10

LEMMA SetInfoIsSound ==
  ASSUME NetdevInv, NEW p \in Netdevs, SetInfo(p)
  PROVE  NetdevInv'
PROOF
<1>1. p \in Ports /\ ~stopped /\ state[p] # "absent"
  BY DEF SetInfo, Listed
<1>2. PICK m \in Meets :
        LET w0 == World(m)
            w1 == [w0 EXCEPT !.lane[p] = TRUE]
            w2 == HifsCreated(DefaultRead(w1, p), {p})
            w3 == IF m.port THEN [w1 EXCEPT !.error = TRUE, !.past.trouble = TRUE] ELSE w2
        IN Does(IF state[p] = "ready" THEN SplitUpdated(w0, p)
                ELSE IF p \in Children
                THEN [w0 EXCEPT !.state[p] = "ready"]
                ELSE IF w3.error
                THEN [w3 EXCEPT !.state[p] = "half", !.past.half = @ \cup {p}]
                ELSE [w3 EXCEPT !.state[p] = "ready"])
  BY DEF SetInfo
<1> DEFINE w0 == World(m)
           w1 == [w0 EXCEPT !.lane[p] = TRUE]
           w2 == HifsCreated(DefaultRead(w1, p), {p})
           w3 == IF m.port THEN [w1 EXCEPT !.error = TRUE, !.past.trouble = TRUE] ELSE w2
           split == SplitUpdated(w0, p)
           child == [w0 EXCEPT !.state[p] = "ready"]
           half  == [w3 EXCEPT !.state[p] = "half", !.past.half = @ \cup {p}]
           ready == [w3 EXCEPT !.state[p] = "ready"]
<1>3. Does(IF state[p] = "ready" THEN split ELSE IF p \in Children THEN child
           ELSE IF w3.error THEN half ELSE ready)
  BY <1>2, Zenon
<1>4. /\ w0 \in Worlds /\ Sound(w0) /\ ~w0.stop /\ w0.meets = m
      /\ w0.state = state
  <2> HIDE DEF w0
  <2>1. w0 = World(m)
    BY DEF w0
  <2> QED
    BY <1>1, <2>1, CallsStartSound
<1> HIDE DEF w0
<1>5. p \in Netdevs /\ w0.lane \in [Netdevs -> BOOLEAN] /\ w0.state \in [Netdevs -> States]
      /\ w0.default \in [Ports -> Values] /\ w0.hw \in [Ports -> Values] /\ w0.past \in History
  BY <1>4, WorldParts
<1>6. CASE state[p] = "ready"
  <2> HIDE DEF split
  <2>1. split \in Worlds /\ Sound(split)
    BY <1>1, <1>4, <1>6, UpdateIsSound DEF split
  <2>2. Does(split)
    BY <1>3, <1>6
  <2> QED
    BY <2>1, <2>2, CallsEndSound
<1>7. CASE state[p] # "ready" /\ p \in Children
  <2> DEFINE s == [w0.state EXCEPT ![p] = "ready"]
  <2>1. Does(child)
    BY <1>3, <1>7
  <2>2. child = [w0 EXCEPT !.state = s]
    BY Zenon
  <2>3. s \in [Netdevs -> States] /\ s[p] = "ready" /\ \A n \in Netdevs : n # p => s[n] = w0.state[n]
    BY <1>5
  <2> HIDE DEF child, s
  <2>4. /\ child \in Worlds
        /\ child.state = s /\ child.lane = w0.lane /\ child.config = w0.config
        /\ child.hw = w0.hw /\ child.hif = w0.hif /\ child.bundle = w0.bundle
        /\ child.stop = w0.stop /\ child.past = w0.past
    BY <1>4, <2>2, <2>3 DEF Worlds
  <2>5. /\ ~w0.lane[p] /\ p \notin w0.hif
        /\ \A n \in Netdevs : n # p => child.state[n] = w0.state[n]
    BY <1>4, <1>7, <2>3, <2>4
  <2>6. /\ \A r \in Splitable : r # p /\ r \in Netdevs /\ (NeighborOf[r] # None =>
             NeighborOf[r] # p /\ NeighborOf[r] \in Netdevs)
        /\ \A q \in Fixed : q # p /\ q \in Netdevs
        /\ \A c \in Children : c \in Netdevs
        /\ \A r \in Ports : r \in Netdevs
    BY <1>7, KindsAreApart, SplitAssumption
  <2>7. LanesDiffer(child) /\ ConfigsFollow(child)
    BY <1>4, <2>4
  <2>8. HalvesArePast(child) /\ BundlesWait(child) /\ ChildrenWait(child)
    BY <1>4, <2>3, <2>4, <2>6
  <2>9. ParentsWait(child)
    BY <1>4, <2>4, <2>5, <2>6
  <2>10. ParentHosts(child) /\ NeighborsFollow(child)
    BY <1>4, <2>4, <2>5, <2>6
  <2>11. ChildHosts(child)
    BY <1>4, <2>4, <2>5, <2>6
  <2>12. Sound(child)
    BY <2>7, <2>8, <2>9, <2>10, <2>11
  <2> QED
    BY <2>1, <2>4, <2>12, CallsEndSound
<1>8. CASE state[p] # "ready" /\ p \notin Children
  <2>1. Does(IF w3.error THEN half ELSE ready)
    BY <1>3, <1>8
  <2>2. /\ w3 \in Worlds
        /\ w3.state = w0.state /\ w3.config = w0.config /\ w3.hw = w0.hw
        /\ w3.bundle = w0.bundle /\ w3.stop = w0.stop
        /\ w3.past.half = w0.past.half /\ w3.past.torn = w0.past.torn
        /\ w0.past.refused \subseteq w3.past.refused
        /\ w3.lane[p] /\ \A n \in Netdevs : n # p => w3.lane[n] = w0.lane[n]
        /\ \A n \in Netdevs : n # p => (n \in w3.hif <=> n \in w0.hif)
        /\ ~w3.error => p \in w3.hif
    <3> DEFINE l  == [w0.lane EXCEPT ![p] = TRUE]
               wd == DefaultRead(w1, p)
    <3>1. w1 = [w0 EXCEPT !.lane = l]
      BY Zenon
    <3>2. l \in [Netdevs -> BOOLEAN] /\ l[p] /\ \A n \in Netdevs : n # p => l[n] = w0.lane[n]
      BY <1>5
    <3> HIDE DEF w1, l
    <3>3. /\ w1 \in Worlds /\ w1.lane = l
          /\ w1.state = w0.state /\ w1.default = w0.default
          /\ w1.config = w0.config /\ w1.hw = w0.hw /\ w1.hif = w0.hif /\ w1.bundle = w0.bundle
          /\ w1.stop = w0.stop /\ w1.meets = w0.meets /\ w1.past = w0.past
      BY <1>4, <3>1, <3>2 DEF Worlds
    <3>4. CASE m.port
      <4> DEFINE t  == [w1.past EXCEPT !.trouble = TRUE]
      <4>1. w3 = [w1 EXCEPT !.error = TRUE, !.past = t]
        BY <3>4, Zenon
      <4>2. t \in History /\ t.half = w1.past.half /\ t.torn = w1.past.torn
            /\ t.refused = w1.past.refused
        BY <1>5, <3>3 DEF History
      <4> HIDE DEF w3, t
      <4>3. /\ w3 \in Worlds /\ w3.past = t /\ w3.error
            /\ w3.lane = w1.lane /\ w3.state = w1.state
            /\ w3.config = w1.config /\ w3.hw = w1.hw /\ w3.hif = w1.hif /\ w3.bundle = w1.bundle
            /\ w3.stop = w1.stop
        BY <3>3, <4>1, <4>2 DEF Worlds
      <4> QED
        BY <3>2, <3>3, <4>2, <4>3
    <3>5. CASE ~m.port
      <4> DEFINE d == [w1.default EXCEPT ![p] = w1.hw[p]]
      <4>1. w3 = HifsCreated(wd, {p})
        BY <3>5
      <4>2. wd = [w1 EXCEPT !.default = d]
        BY Zenon DEF DefaultRead
      <4>3. d \in [Ports -> Values]
        BY <1>1, <1>5, <3>3
      <4> HIDE DEF w3, wd, d
      <4>4. /\ wd \in Worlds
            /\ wd.lane = w1.lane /\ wd.state = w1.state
            /\ wd.config = w1.config /\ wd.hw = w1.hw /\ wd.hif = w1.hif /\ wd.bundle = w1.bundle
            /\ wd.stop = w1.stop /\ wd.meets = w1.meets /\ wd.past = w1.past
        BY <3>3, <4>2, <4>3 DEF Worlds
      <4>5. /\ w3 \in Worlds
            /\ w3.state = wd.state /\ w3.lane = wd.lane
            /\ w3.config = wd.config /\ w3.hw = wd.hw /\ w3.bundle = wd.bundle
            /\ w3.stop = wd.stop
            /\ w3.past.half = wd.past.half /\ w3.past.torn = wd.past.torn
            /\ w3.hif \subseteq wd.hif \cup {p} /\ wd.hif \subseteq w3.hif
            /\ wd.past.refused \subseteq w3.past.refused
            /\ ~w3.error => p \in w3.hif
        BY <1>5, <4>1, <4>4, HifsCreatedAdds
      <4> QED
        BY <3>2, <3>3, <4>4, <4>5
    <3> QED
      BY <3>4, <3>5
  <2> HIDE DEF w3
  <2>3. p \in Splitable \cup Fixed /\ w0.state[p] # "ready" /\ w0.state[p] # "absent"
    BY <1>1, <1>4, <1>8, KindsAreApart
  <2>4. CASE w3.error
    <3> DEFINE s  == [w3.state EXCEPT ![p] = "half"]
               pa == [w3.past EXCEPT !.half = @ \cup {p}]
    <3>1. half = [w3 EXCEPT !.state = s, !.past = pa]
      BY Zenon
    <3>2. s \in [Netdevs -> States] /\ s[p] = "half" /\ \A n \in Netdevs : n # p => s[n] = w3.state[n]
      BY <1>5, <2>2
    <3>3. pa \in History /\ pa.half = w3.past.half \cup {p} /\ pa.torn = w3.past.torn
          /\ pa.refused = w3.past.refused
      <4>1. w3.past \in History
        BY <2>2, WorldParts
      <4> QED
        BY <1>1, <4>1 DEF History
    <3> HIDE DEF half, s, pa
    <3>4. /\ half \in Worlds /\ half.state = s /\ half.past = pa
          /\ half.lane = w3.lane /\ half.config = w3.config /\ half.hw = w3.hw
          /\ half.hif = w3.hif /\ half.bundle = w3.bundle /\ half.stop = w3.stop
      BY <2>2, <3>1, <3>2, <3>3 DEF Worlds
    <3>5. Informed(w0, p, half)
      BY <2>2, <3>2, <3>3, <3>4 DEF Informed
    <3>6. Sound(half)
      <4> HIDE DEF Sound, LanesDiffer, HalvesArePast, ChildrenWait, BundlesWait, ParentsWait,
                ParentHosts, ChildHosts, NeighborsFollow, ConfigsFollow
      <4> QED
        BY <1>4, <2>3, <3>5, InformedIsSound
    <3>7. Does(half)
      BY <2>1, <2>4
    <3> QED
      BY <3>4, <3>6, <3>7, CallsEndSound
  <2>5. CASE ~w3.error
    <3> DEFINE s == [w3.state EXCEPT ![p] = "ready"]
    <3>1. ready = [w3 EXCEPT !.state = s]
      BY Zenon
    <3>2. s \in [Netdevs -> States] /\ s[p] = "ready" /\ \A n \in Netdevs : n # p => s[n] = w3.state[n]
      BY <1>5, <2>2
    <3> HIDE DEF ready, s
    <3>3. /\ ready \in Worlds /\ ready.state = s /\ ready.past = w3.past
          /\ ready.lane = w3.lane /\ ready.config = w3.config /\ ready.hw = w3.hw
          /\ ready.hif = w3.hif /\ ready.bundle = w3.bundle /\ ready.stop = w3.stop
      BY <2>2, <3>1, <3>2 DEF Worlds
    <3>4. Informed(w0, p, ready)
      BY <1>5, <2>2, <2>5, <3>2, <3>3 DEF Informed
    <3>5. Sound(ready)
      <4> HIDE DEF Sound, LanesDiffer, HalvesArePast, ChildrenWait, BundlesWait, ParentsWait,
                ParentHosts, ChildHosts, NeighborsFollow, ConfigsFollow
      <4> QED
        BY <1>4, <2>3, <3>4, InformedIsSound
    <3>6. Does(ready)
      BY <2>1, <2>5
    <3> QED
      BY <3>3, <3>5, <3>6, CallsEndSound
  <2> QED
    BY <2>4, <2>5
<1> QED
  BY <1>6, <1>7, <1>8

LEMMA SetConfigIsSound ==
  ASSUME NetdevInv, NEW p \in Ports, NEW c \in Configs \cup {None}, SetConfig(p, c)
  PROVE  NetdevInv'
PROOF
<1>1. ~stopped
  BY DEF SetConfig
<1>2. PICK m \in Meets :
        LET w0  == World(m)
            new == Asked(p, c)
            w1  == IF new \in Enabled THEN SplitUpdated(w0, p) ELSE w0
            w2  == Applied(w1, p, w1.config[p], new)
        IN Does(IF state[p] # "ready" \/ (p \in Children /\ ~Listed(ParentOf[p]))
                THEN [w0 EXCEPT !.stop = TRUE]
                ELSE IF w1.stop \/ ~w1.lane[p] THEN w1
                ELSE IF w2.error THEN w2
                ELSE [w2 EXCEPT !.config[p] = new])
  BY DEF SetConfig
<1> DEFINE w0  == World(m)
           new == Asked(p, c)
           w1  == IF new \in Enabled THEN SplitUpdated(w0, p) ELSE w0
           w2  == Applied(w1, p, w1.config[p], new)
           bad == state[p] # "ready" \/ (p \in Children /\ ~Listed(ParentOf[p]))
           stop == [w0 EXCEPT !.stop = TRUE]
           done == [w2 EXCEPT !.config[p] = new]
<1>3. Does(IF bad THEN stop ELSE IF w1.stop \/ ~w1.lane[p] THEN w1
           ELSE IF w2.error THEN w2 ELSE done)
  BY <1>2, Zenon
<1>4. w0 \in Worlds /\ Sound(w0) /\ ~w0.stop /\ w0.state = state
  <2> HIDE DEF w0
  <2>1. w0 = World(m)
    BY DEF w0
  <2> QED
    BY <1>1, <2>1, CallsStartSound
<1> HIDE DEF w0
<1>5. new \in Values
  <2>1. TypeOK
    BY NowParts DEF NetdevInv
  <2>2. (IF p \in Children THEN ParentOf[p] ELSE p) \in Ports
    BY KindsAreApart
  <2> QED
    BY <2>1, <2>2 DEF Asked, TypeOK
<1> HIDE DEF new
<1>6. CASE bad
  <2>1. Does(stop)
    BY <1>3, <1>6
  <2> HIDE DEF stop
  <2>2. stop = [w0 EXCEPT !.stop = TRUE]
    BY DEF stop
  <2>3. /\ stop \in Worlds /\ stop.stop
        /\ stop.state = w0.state /\ stop.lane = w0.lane /\ stop.config = w0.config
        /\ stop.hw = w0.hw /\ stop.hif = w0.hif /\ stop.bundle = w0.bundle /\ stop.past = w0.past
    BY <1>4, <2>2 DEF Worlds
  <2>4. Sound(stop)
    BY <1>4, <2>3
  <2> QED
    BY <2>1, <2>3, <2>4, CallsEndSound
<1>7. CASE ~bad
  <2>1. w1 \in Worlds /\ Sound(w1) /\ w1.state = w0.state
    <3>1. CASE new \in Enabled
      <4>1. w1 = SplitUpdated(w0, p) /\ w0.state[p] \in {"half", "ready"}
        BY <1>4, <1>7, <3>1
      <4> HIDE DEF w1
      <4> QED
        BY <1>4, <4>1, UpdateIsSound
    <3>2. CASE new \notin Enabled
      <4>1. w1 = w0
        BY <3>2
      <4> HIDE DEF w1
      <4> QED
        BY <1>4, <4>1
    <3> QED
      BY <3>1, <3>2
  <2> HIDE DEF w1
  <2>2. CASE w1.stop \/ ~w1.lane[p]
    <3>1. Does(w1)
      BY <1>3, <1>7, <2>2
    <3> QED
      BY <2>1, <3>1, CallsEndSound
  <2>3. CASE ~(w1.stop \/ ~w1.lane[p])
    <3> DEFINE old == w1.config[p]
    <3>1. w1.config \in [Ports -> Values] /\ old \in Values
      BY <2>1, WorldParts
    <3>2. Writes(w1, p, old, new, w2)
      <4> HIDE DEF w2, old
      <4>1. w2 = Applied(w1, p, old, new)
        BY DEF w2, old
      <4> QED
        BY <1>5, <2>1, <3>1, <4>1, AppliedWrites
    <3> HIDE DEF w2
    <3>3. CASE w2.error
      <4>1. \A r \in Ports : w2.hw[r] \in {w1.hw[r], Mixed}
        BY <3>2, <3>3 DEF Writes
      <4>2. Sound(w2)
        BY <2>1, <3>2, <4>1 DEF Writes
      <4>3. Does(w2)
        BY <1>3, <1>7, <2>3, <3>3
      <4> QED
        BY <3>2, <4>2, <4>3, CallsEndSound DEF Writes
    <3>4. CASE ~w2.error
      <4> DEFINE k == [w2.config EXCEPT ![p] = new]
      <4>1. done = [w2 EXCEPT !.config = k]
        BY Zenon
      <4>2. k \in [Ports -> Values] /\ k[p] = new /\ \A r \in Ports : r # p => k[r] = w1.config[r]
        BY <1>5, <3>1, <3>2 DEF Writes
      <4> HIDE DEF done, k
      <4>3. /\ done \in Worlds /\ done.config = k /\ done.hw = w2.hw
            /\ done.state = w2.state /\ done.lane = w2.lane /\ done.hif = w2.hif
            /\ done.bundle = w2.bundle /\ done.stop = w2.stop /\ done.past = w2.past
        BY <3>2, <4>1, <4>2 DEF Writes, Worlds
      <4>4. ConfigsFollow(done)
        <5> SUFFICES ASSUME NEW r \in Ports, done.hw[r] # Mixed, done.config[r] # Zero
                     PROVE  done.hw[r] = done.config[r]
          OBVIOUS
        <5>1. CASE r = p
          BY <2>1, <3>2, <4>2, <4>3, <5>1 DEF Writes
        <5>2. CASE r # p
          BY <2>1, <3>2, <4>2, <4>3, <5>2 DEF Writes
        <5> QED
          BY <5>1, <5>2
      <4>5. Sound(done)
        BY <2>1, <3>2, <4>3, <4>4 DEF Writes
      <4>6. Does(done)
        BY <1>3, <1>7, <2>3, <3>4
      <4> QED
        BY <4>3, <4>5, <4>6, CallsEndSound
    <3> QED
      BY <3>3, <3>4
  <2> QED
    BY <2>2, <2>3
<1> QED
  BY <1>6, <1>7

-----------------------------------------------------------------------------
(* The theorems *)

\* The inductive invariant: what the variables are is a sound world, whatever
\* SAI refused on the way.
THEOREM NetdevInvariant ==
  Spec => []NetdevInv
PROOF
<1>1. NetdevInv /\ [Next]_vars => NetdevInv'
  <2> SUFFICES ASSUME NetdevInv, [Next]_vars
               PROVE  NetdevInv'
    OBVIOUS
  <2>1. ASSUME NEW n \in Netdevs, Construct(n) PROVE NetdevInv'
    BY <2>1, ConstructIsSound
  <2>2. ASSUME NEW n \in Netdevs, Destruct(n) PROVE NetdevInv'
    BY <2>2, DestructIsSound
  <2>3. ASSUME NEW n \in Netdevs, SetInfo(n) PROVE NetdevInv'
    BY <2>3, SetInfoIsSound
  <2>4. ASSUME NEW n \in Netdevs, SetInfoInternal(n) PROVE NetdevInv'
    BY <2>4, SetInfoInternalIsSound
  <2>5. ASSUME NEW p \in Ports, NEW c \in (Configs \ {Zero}) \cup {None}, SetConfig(p, c)
        PROVE  NetdevInv'
    BY <2>5, SetConfigIsSound
  <2>6. ASSUME NEW p \in Ports, SetAround(p) PROVE NetdevInv'
    BY <2>6, SetAroundIsSound
  <2>7. ASSUME NEW p \in Fixed, BundleSet(p) PROVE NetdevInv'
    BY <2>7, BundleSetIsSound
  <2>8. ASSUME NEW p \in Fixed, BundleDestroy(p) PROVE NetdevInv'
    BY <2>8, BundleDestroyIsSound
  <2>9. CASE UNCHANGED vars
    <3>1. Now' = Now
      BY <2>9 DEF vars, Now
    <3> QED
      BY <3>1 DEF NetdevInv
  <2> QED
    BY <2>1, <2>2, <2>3, <2>4, <2>5, <2>6, <2>7, <2>8, <2>9 DEF Next
<1> QED
  BY <1>1, InitIsSound, PTL DEF Spec

\* The types hold of any ports, children and configurations.
THEOREM NetdevTypeCorrect ==
  Spec => []TypeOK
PROOF
<1>1. NetdevInv => TypeOK
  BY NowParts DEF NetdevInv
<1> QED
  BY <1>1, NetdevInvariant, PTL

\* A parent and its children never use their lanes together, and the host
\* interfaces go with the lanes, however many children a port is split into.
THEOREM LanesHaveOneUserHolds ==
  Spec => []LanesHaveOneUser
PROOF
<1>1. NetdevInv => LanesHaveOneUser
  <2> SUFFICES ASSUME NetdevInv PROVE LanesHaveOneUser
    OBVIOUS
  <2>1. LanesAreExclusive
    BY DEF NetdevInv, Now, LanesAreExclusive
  <2>2. HostIntfsFollowLanes
    <3> SUFFICES ASSUME ~stopped, NEW p \in Ports, state[p] = "ready",
                        p \notin past.refused \cup past.half, p \notin Fixed
                 PROVE  \/ p \in Splitable /\ (lane[p] <=> p \in hif)
                        \/ p \in Children /\ ((lane[p] <=> p \in hif)
                                              \/ ParentOf[p] \in past.torn)
      BY DEF HostIntfsFollowLanes
    <3>1. CASE p \in Splitable
      BY <3>1 DEF NetdevInv, Now
    <3>2. CASE p \in Children
      BY <3>2 DEF NetdevInv, Now
    <3> QED
      BY <3>1, <3>2, KindsAreApart
  <2> QED
    BY <2>1, <2>2 DEF LanesHaveOneUser
<1> QED
  BY <1>1, NetdevInvariant, PTL

\* The neighbour that a split switches off is off while the port is split, and
\* its bundle follows, for any number of ports with neighbours of their own.
THEOREM NeighborsComeBackHolds ==
  Spec => []NeighborsComeBack
PROOF
<1>1. NetdevInv => NeighborsComeBack
  <2> SUFFICES ASSUME NetdevInv, ~stopped, NEW p \in Splitable \ (past.torn \cup past.half),
                      NeighborOf[p] # None, state[NeighborOf[p]] = "ready",
                      NeighborOf[p] \notin past.half
               PROVE  /\ ~lane[NeighborOf[p]] => ~lane[p]
                      /\ bundle[NeighborOf[p]] = "live" => lane[NeighborOf[p]]
                      /\ bundle[NeighborOf[p]] = "cached" => ~lane[NeighborOf[p]]
    BY DEF NeighborsComeBack
  <2>1. NeighborOf[p] \in Fixed
    BY SplitAssumption
  <2> QED
    BY <2>1 DEF NetdevInv, Now
<1> QED
  BY <1>1, NetdevInvariant, PTL

\* SAI has what was applied last to each port, whatever it refused on the way.
THEOREM ConfigIsHwHolds ==
  Spec => []ConfigIsHw
PROOF
<1>1. NetdevInv => ConfigIsHw
  BY DEF NetdevInv, Now, ConfigIsHw
<1> QED
  BY <1>1, NetdevInvariant, PTL
=============================================================================
