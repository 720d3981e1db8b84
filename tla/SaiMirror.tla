------------------------------ MODULE SaiMirror ------------------------------
(***************************************************************************)
(* Mirror sessions (src/src/sai-mirror.c) and the bundles that are their   *)
(* sources and outputs (src/src/sai-ofproto-provider.c), composed with the *)
(* LAGs of SaiLag: the ports of a bundle come, go and move between bundles *)
(* while mirrors refer to it.                                              *)
(*                                                                         *)
(* Every port may also have a bundle of its own, named after it, which     *)
(* does not ask for a LAG.  Bundles that are cached (BundleL3) are left    *)
(* out.  SAI keeps a session per direction with each port; for a LAG it    *)
(* does so with the members.  It has so many sessions, and removes none    *)
(* that a port mirrors to.  A failed assertion stops the process.          *)
(***************************************************************************)
EXTENDS SaiLag, SequencesExt

CONSTANTS
  Mirrors,     \* aux: switchd's mirrors
  Sessions,    \* SAI's ids of mirror sessions
  Directions,  \* SAI_MIRROR_DATA_DIR_INGRESS, SAI_MIRROR_DATA_DIR_EGRESS
  None         \* no mirror, no session

ASSUME MirrorAssumption ==
  /\ None \notin Mirrors \cup Sessions /\ Bundles \cap Ports = {}
  /\ Directions \subseteq {"ingress", "egress"}

VARIABLES
  plain,    \* the ports that have a bundle of their own
  mirror,   \* struct ofmirror_sai: out and hid, a function on the mirrors there are
  owner,    \* ingress_owner, egress_owner of each bundle
  attr,     \* SAI: the session each port mirrors to, in each direction
  monitors, \* SAI: the port or LAG of each session
  stale,    \* history: ports that left a source that was no LAG, and mirror still
  stopped   \* an assertion failed

mirrorVars == <<plain, mirror, owner, attr, monitors, stale, stopped>>
allVars == <<vars, mirrorVars>>

AllBundles == Ports \cup Bundles

\* The ports a bundle lists; a LAG that lists none and has none is not there.
ListedBy(x) == IF x \in Ports THEN plain \cap {x} ELSE linked[x]
IsLag(x)    == x \in Bundles /\ isLag[x]
Exists(x)   == ListedBy(x) # {} \/ IsLag(x)

\* The ports a call of the mirror class is about, and the object it names:
\* __mirror_get_bundle_port_info, __get_oid.  There is none for a bundle that is
\* no LAG and has not exactly one port.
HandleOf(b) == lag[lagId[b]].handle
PortsOf(x)  == IF IsLag(x) THEN hw[HandleOf(x)] ELSE ListedBy(x)
ObjectOf(x) == IF IsLag(x) THEN HandleOf(x) ELSE CHOOSE p \in ListedBy(x) : TRUE
HasObject(x) == IsLag(x) \/ Cardinality(ListedBy(x)) = 1

-----------------------------------------------------------------------------
(* The mirror class.  A world is what a step of a call finds and leaves.   *)

World ==
  [mirror |-> mirror, owner |-> owner, attr |-> attr, monitors |-> monitors,
   stop |-> FALSE, busy |-> FALSE]

\* __mirror_src_add: SAI refuses a session it does not have.
SourceAdded(w, s, d, P) ==
  IF s \notin DOMAIN w.monitors THEN w
  ELSE [w EXCEPT !.attr[d] = [p \in Ports |-> IF p \in P THEN s ELSE @[p]]]

\* __mirror_destroy: nobody looks at what SAI says.
SessionRemoved(w, s) ==
  IF s \notin DOMAIN w.monitors \/ \E d \in Directions, p \in Ports : w.attr[d][p] = s
  THEN w
  ELSE [w EXCEPT !.monitors = Without(@, s)]

\* The sources S of a mirror are its no more, as in __ofmirror_destroy and
\* __ofbundle_destroy: SAI is asked for those that list a port.
SourcesLeave(w, S) ==
  LET listed == {q \in S : ListedBy(q[2]) # {}}
      P(d)   == UNION {PortsOf(q[2]) : q \in {r \in listed : r[1] = d}}
  IN IF \E q \in listed : ~HasObject(q[2]) THEN [w EXCEPT !.stop = TRUE]
     ELSE [w EXCEPT
             !.owner = [d \in Directions |->
               [x \in AllBundles |-> IF <<d, x>> \in S THEN None ELSE @[d][x]]],
             !.attr = [d \in Directions |->
               [p \in Ports |-> IF p \in P(d) THEN None ELSE @[d][p]]]]

SourcesOf(w, M) == {q \in Directions \X AllBundles : w.owner[q[1]][q[2]] \in M}
SourceIn(w, x)  == {q \in Directions \X {x} : w.owner[q[1]][x] # None}

-----------------------------------------------------------------------------
(* The provider *)

\* __ofmirror_destroy of all of mirror m.
MirrorGone(w, m) ==
  LET w1 == SourcesLeave(w, SourcesOf(w, {m}))
  IN [SessionRemoved(w1, w.mirror[m].hid) EXCEPT !.mirror = Without(@, m)]

\* Mirrors M are destroyed one after the other, in the order of a hash table: a
\* session that has a port when its turn comes stays.
MirrorsGone(w, M) ==
  LET without(N) == SourcesLeave(w, SourcesOf(w, N))
      removed(order) ==
        {w.mirror[order[i]].hid : i \in {j \in DOMAIN order :
           \A d \in Directions, p \in Ports :
             without({order[k] : k \in 1..j}).attr[d][p] # w.mirror[order[j]].hid}}
  IN {[without(M) EXCEPT
         !.mirror   = [m \in DOMAIN @ \ M |-> @[m]],
         !.monitors = [s \in DOMAIN @ \ removed(order) |-> @[s]]] : order \in SetToSeqs(M)}

\* The worlds left when the mirrors with output x are destroyed.
OutputGone(w, x) == MirrorsGone(w, {m \in DOMAIN w.mirror : w.mirror[m].out = x})

\* Faulty variant of BundleGone: the mirrors that have it as output stay.
BundleGoneAsSource(w, x) == {SourcesLeave(w, SourceIn(w, x))}

\* The mirror half of __ofbundle_destroy of bundle x.
BundleGone(w, x) == OutputGone(SourcesLeave(w, SourceIn(w, x)), x)

\* The same of a bundle that has lost its only port to another.
EmptyBundleGone(w, x) ==
  OutputGone([w EXCEPT !.owner = [d \in Directions |-> [@[d] EXCEPT ![x] = None]]], x)

\* Faulty variant of MirrorMade: the session is taken as made although SAI has none.
MirrorMadeAnyway(w, m, out, s) ==
  IF ~HasObject(out) THEN [w EXCEPT !.stop = TRUE]
  ELSE [w EXCEPT !.mirror = With(@, m, [out |-> out, hid |-> s]),
                 !.monitors = With(@, s, ObjectOf(out))]

\* __ofmirror_create: SAI may have no session left, and hid stays what it was.
MirrorMade(w, m, out, s) ==
  IF ~HasObject(out) THEN [w EXCEPT !.stop = TRUE]
  ELSE [w EXCEPT !.mirror = With(@, m, [out |-> out, hid |-> s]),
                 !.monitors = IF s = None THEN @ ELSE With(@, s, ObjectOf(out))]

\* The mirror that mirror_set goes on with: a new one, or the old one without its
\* sources.
MirrorReady(w, m, out, s) ==
  IF m \notin DOMAIN w.mirror THEN MirrorMade(w, m, out, s)
  ELSE IF w.mirror[m].out # out THEN MirrorMade(MirrorGone(w, m), m, out, s)
  ELSE SourcesLeave(w, SourcesOf(w, {m}))

\* Sources X of mirror m in direction d.
SourcesJoin(w, m, d, X) ==
  IF \E x \in X : ~HasObject(x) THEN [w EXCEPT !.stop = TRUE]
  ELSE SourceAdded([w EXCEPT !.owner[d] = [x \in AllBundles |-> IF x \in X THEN m ELSE @[x]]],
                   w.mirror[m].hid, d, UNION {PortsOf(x) : x \in X})

\* The ports of X that mirror to a session in world w.
Left(w, X) == {p \in X : \E d \in Directions : w.attr[d][p] # None}

\* What mirror_set may be given as sources: bundles there are.
Sources == [Directions -> SUBSET {x \in AllBundles : Exists(x)}]

MirrorDoes(w) ==
  /\ stopped' = w.stop
  /\ mirror' = w.mirror /\ owner' = w.owner /\ attr' = w.attr /\ monitors' = w.monitors

-----------------------------------------------------------------------------
(* The calls of switchd *)

\* The sources of mirror m in direction d are walked, in any order.  The walk stops
\* at the first that another mirror has, those before it taken.
Walks(w, m, d, sources) ==
  IF w.stop \/ d \notin Directions THEN {w}
  ELSE LET X    == sources[d]
           busy == {x \in X : w.owner[d][x] \notin {None, m}}
       IN IF busy = {} THEN {SourcesJoin(w, m, d, X)}
          ELSE {[SourcesJoin(w, m, d, W) EXCEPT !.busy = TRUE] : W \in SUBSET (X \ busy)}

\* __mirror_set: ingress before egress.
MirrorSet(m, out, sources) ==
  /\ ~stopped
  /\ Exists(out)
  /\ \E s \in (Sessions \ DOMAIN monitors) \cup {None} :
       /\ s = None => DOMAIN monitors = Sessions
       /\ \E w1 \in Walks(MirrorReady(World, m, out, s), m, "ingress", sources) :
          \E w2 \in IF w1.busy THEN {w1} ELSE Walks(w1, m, "egress", sources) :
            MirrorDoes(w2) /\ stale' = Left(w2, stale)
  /\ UNCHANGED <<vars, plain>>

\* __mirror_set without settings.
MirrorDestroy(m) ==
  /\ ~stopped
  /\ m \in DOMAIN mirror
  /\ LET w == MirrorGone(World, m)
     IN MirrorDoes(w) /\ stale' = Left(w, stale)
  /\ UNCHANGED <<vars, plain>>

\* A bundle gets its LAG, or none: nothing is said to the mirrors.
LagSet(b) ==
  /\ ~stopped
  /\ BundleGetsLag(b) \/ BundleGetsNoLag(b)
  /\ UNCHANGED mirrorVars

\* __ofbundle_port_add to a LAG bundle of a port that may have had its own bundle.
\* That goes without a word to SAI, because it has no port any more.
PortJoins(b, p) ==
  /\ ~stopped
  /\ LinkPort(b, p)
  /\ plain' = plain \ {p}
  /\ \E w \in IF p \in plain THEN EmptyBundleGone(World, p) ELSE {World} :
       MirrorDoes(w) /\ stale' = Left(w, stale \cup {p})

\* Faulty variant of MemberLeaves: SAI is not asked.
MemberLeavesUntold(w, b, p) == w

\* The mirror half of __ofbundle_port_del: only the member of a LAG is seen to.
MemberLeaves(w, b, p) ==
  [w EXCEPT !.attr = [d \in Directions |->
     IF isLag[b] /\ w.owner[d][b] # None THEN [@[d] EXCEPT ![p] = None] ELSE @[d]]]

\* A port that leaves a bundle without a LAG is not seen to.
Forgotten(b, p) == IF isLag[b] THEN {} ELSE {p}

\* __ofbundle_port_del, which leaves before it gets there when a VLAN of the port
\* fails.
PortLeaves(b, p) ==
  /\ ~stopped
  /\ UnlinkPort(b, p)
  /\ UNCHANGED plain
  /\ \/ LET w == MemberLeaves(World, b, p)
        IN MirrorDoes(w) /\ stale' = Left(w, stale \cup Forgotten(b, p))
     \/ /\ failed' /\ hw' = hw
        /\ UNCHANGED <<mirror, owner, attr, monitors, stale, stopped>>

\* __ofbundle_destroy
BundleDestroy(b) ==
  /\ ~stopped
  /\ DestroyBundle(b)
  /\ UNCHANGED plain
  /\ \E w \in BundleGone(World, b) : MirrorDoes(w) /\ stale' = Left(w, stale)

\* A port gets its own bundle, and leaves the LAG bundle it may be in, which goes
\* when it was the last.
PlainSet(p) ==
  /\ ~stopped
  /\ p \notin plain
  /\ plain' = plain \cup {p}
  /\ \/ Unlinked(p) /\ UNCHANGED <<vars, mirror, owner, attr, monitors, stale, stopped>>
     \/ \E b \in Bundles :
          /\ p \in linked[b]
          /\ IF linked[b] = {p} THEN DestroyBundle(b) ELSE UnlinkPort(b, p)
          /\ LET w1 == MemberLeaves(World, b, p)
             IN \E w \in IF linked[b] = {p} THEN EmptyBundleGone(w1, b) ELSE {w1} :
                  MirrorDoes(w) /\ stale' = Left(w, stale \cup Forgotten(b, p))

PlainDestroy(p) ==
  /\ ~stopped
  /\ p \in plain
  /\ plain' = plain \ {p}
  /\ \E w \in BundleGone(World, p) : MirrorDoes(w) /\ stale' = Left(w, stale)
  /\ UNCHANGED vars

MirrorInit ==
  /\ Init
  /\ plain = {}
  /\ mirror = [m \in {} |-> None]
  /\ owner = [d \in Directions |-> [x \in AllBundles |-> None]]
  /\ attr = [d \in Directions |-> [p \in Ports |-> None]]
  /\ monitors = [s \in {} |-> None]
  /\ stale = {}
  /\ stopped = FALSE

MirrorNext ==
  \/ \E b \in Bundles :
       \/ LagSet(b)
       \/ \E p \in Ports : PortJoins(b, p) \/ PortLeaves(b, p)
       \/ BundleDestroy(b)
  \/ \E p \in Ports : PlainSet(p) \/ PlainDestroy(p)
  \/ \E m \in Mirrors :
       \/ \E out \in AllBundles, sources \in Sources : MirrorSet(m, out, sources)
       \/ MirrorDestroy(m)

MirrorSpec == MirrorInit /\ [][MirrorNext]_allVars

-----------------------------------------------------------------------------
(* Properties *)

\* The variables have the types of the C declarations.
MirrorTypeOK ==
  /\ TypeOK
  /\ plain \subseteq Ports
  /\ DOMAIN mirror \subseteq Mirrors
  /\ \A m \in DOMAIN mirror : mirror[m].out \in AllBundles
                              /\ mirror[m].hid \in Sessions \cup {None}
  /\ owner \in [Directions -> [AllBundles -> Mirrors \cup {None}]]
  /\ attr \in [Directions -> [Ports -> Sessions \cup {None}]]
  /\ DOMAIN monitors \subseteq Sessions
  /\ stale \subseteq Ports /\ stopped \in BOOLEAN

\* No bundle is left with a mirror that is gone, no mirror with a bundle that is
\* gone, and no mirror with a session that is another's or gone: whichever of them
\* goes first, and wherever mirror_set gave up.
MirrorsAndBundlesAgree ==
  ~stopped =>
    /\ \A d \in Directions, x \in AllBundles :
         owner[d][x] # None => owner[d][x] \in DOMAIN mirror
    /\ \A m \in DOMAIN mirror :
         /\ mirror[m].hid \in DOMAIN monitors \cup {None}
         /\ mirror[m].hid # None => monitors[mirror[m].hid] \in Ports \cup DOMAIN hw
         /\ mirror[m].out \in Ports => mirror[m].out \in plain
    /\ \A m, n \in DOMAIN mirror : mirror[m].hid = mirror[n].hid /\ m # n => mirror[m].hid = None

\* A port mirrors only to the session of a mirror that has its bundle as a source,
\* unless it left a bundle without a LAG: not after its mirror was destroyed, was
\* set anew, or gave up half way, nor after the port changed bundles.
OnlySourcesMirror ==
  ~stopped /\ ~failed =>
    \A d \in Directions, p \in Ports \ stale :
      attr[d][p] # None =>
        \E x \in AllBundles : /\ p \in PortsOf(x) /\ owner[d][x] # None
                              /\ attr[d][p] = mirror[owner[d][x]].hid
=============================================================================
