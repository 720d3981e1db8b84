------------------------ MODULE SaiClassifierProofs ------------------------
(***************************************************************************)
(* Proofs about SaiClassifier for any number of lists, ports, tables,      *)
(* rules and counters: types, that the accounts add up and keep to the     *)
(* counters there are, that two tables at a time are accounted for         *)
(* exactly, and that a table counts its ports and goes with the last.      *)
(*                                                                         *)
(* A call is a few steps from worlds to worlds: a port is unbound and its  *)
(* table goes or not, a table is written, a port is bound.  Each step has  *)
(* a lemma for each of the four facts; ClassInv is their conjunction.      *)
(***************************************************************************)
EXTENDS SaiClassifier, FiniteSetTheorems, WellFoundedInduction, TLAPS

-----------------------------------------------------------------------------
(* Sums and maxima *)

\* Raising one value of f by n raises its sum by n.
LEMMA UnitsAdded ==
  ASSUME NEW D, NEW f \in [D -> Nat], NEW i \in D, NEW n \in Nat, NEW g \in [D -> Nat],
         g[i] = f[i] + n, \A j \in D \ {i} : g[j] = f[j],
         IsFiniteSet(Units(f))
  PROVE  IsFiniteSet(Units(g)) /\ Cardinality(Units(g)) = Cardinality(Units(f)) + n
<1> DEFINE N == {i} \X ((f[i] + 1)..(f[i] + n))
<1>1. IsFiniteSet(N) /\ Cardinality(N) = n
  <2> DEFINE lo == f[i] + 1
             hi == f[i] + n
  <2>1. lo \in Int /\ hi \in Int /\ (IF lo > hi THEN 0 ELSE hi - lo + 1) = n
    OBVIOUS
  <2>2. IsFiniteSet({i}) /\ Cardinality({i}) = 1
    BY FS_Singleton
  <2> HIDE DEF lo, hi
  <2>3. IsFiniteSet(lo..hi) /\ Cardinality(lo..hi) = IF lo > hi THEN 0 ELSE hi - lo + 1
    BY <2>1, FS_Interval
  <2>4. /\ IsFiniteSet({i} \X (lo..hi))
        /\ Cardinality({i} \X (lo..hi)) = Cardinality({i}) * Cardinality(lo..hi)
    BY <2>2, <2>3, FS_Product
  <2>5. Cardinality({i} \X (lo..hi)) = n
    BY <2>1, <2>2, <2>3, <2>4
  <2> QED
    BY <2>4, <2>5 DEF lo, hi
<1>2. Units(g) = Units(f) \cup N
  <2>1. ASSUME NEW u PROVE u \in Units(g) <=> \E j \in D : \E k \in 1..g[j] : u = <<j, k>>
    BY DEF Units
  <2>2. ASSUME NEW u PROVE u \in Units(f) <=> \E j \in D : \E k \in 1..f[j] : u = <<j, k>>
    BY DEF Units
  <2>3. ASSUME NEW u PROVE u \in N <=> \E k \in (f[i] + 1)..(f[i] + n) : u = <<i, k>>
    OBVIOUS
  <2>4. \A k : k \in 1..g[i] <=> k \in 1..f[i] \/ k \in (f[i] + 1)..(f[i] + n)
    OBVIOUS
  <2> HIDE DEF N
  <2>5. ASSUME NEW u \in Units(g) PROVE u \in Units(f) \cup N
    BY <2>1, <2>2, <2>3, <2>4
  <2>6. ASSUME NEW u \in Units(f) PROVE u \in Units(g)
    BY <2>1, <2>2, <2>4
  <2>7. ASSUME NEW u \in N PROVE u \in Units(g)
    BY <2>1, <2>3, <2>4
  <2> QED
    BY <2>5, <2>6, <2>7
<1>3. Units(f) \cap N = {}
  BY DEF Units
<1> HIDE DEF N
<1>4. Cardinality(Units(f) \cap N) = 0
  BY <1>3, FS_EmptySet
<1>5. Cardinality(Units(f)) \in Nat
  BY FS_CardinalityType
<1> QED
  BY <1>1, <1>2, <1>4, <1>5, FS_Union

\* Setting one value of f to 0 lowers its sum by that value, which it covered.
LEMMA UnitsCleared ==
  ASSUME NEW D, NEW f \in [D -> Nat], NEW i \in D, NEW g \in [D -> Nat],
         g[i] = 0, \A j \in D \ {i} : g[j] = f[j],
         IsFiniteSet(Units(f))
  PROVE  /\ IsFiniteSet(Units(g)) /\ Cardinality(Units(g)) = Cardinality(Units(f)) - f[i]
         /\ f[i] <= Cardinality(Units(f))
<1>1. \A j \in D : f[j] = IF j = i THEN g[i] + f[i] ELSE g[j]
  OBVIOUS
<1>2. Units(g) \subseteq Units(f)
  BY DEF Units
<1>3. IsFiniteSet(Units(g))
  BY <1>2, FS_Subset
<1>4. Cardinality(Units(f)) = Cardinality(Units(g)) + f[i]
  BY <1>1, <1>3, UnitsAdded
<1>5. Cardinality(Units(g)) \in Nat
  BY <1>3, FS_CardinalityType
<1> QED
  BY <1>3, <1>4, <1>5

\* A set of indices that is not empty has a greatest one.
LEMMA MaxIsIn ==
  ASSUME NEW S \in SUBSET Index, S # {}
  PROVE  Max(S) \in S /\ \A y \in S : Max(S) >= y
<1>1. \E x \in S : \A y \in S : x >= y
  <2> DEFINE Above(x) == {y \in S : y > x}
             T == {Above(x) : x \in S}
  <2>1. S \subseteq Int
    BY ClassifierAssumption DEF Index
  <2>2. IsFiniteSet(S)
    <3>1. IsFiniteSet(0..(MaxTables - 1))
      BY ClassifierAssumption, FS_Interval
    <3> QED
      BY <3>1, FS_Subset DEF Index
  <2>3. T \subseteq FiniteSubsetsOf(S) /\ T # {}
    <3>1. FiniteSubsetsOf(S) = SUBSET S
      BY <2>2, FS_FiniteSubsetsOfFinite
    <3>2. T \subseteq SUBSET S /\ T # {}
      OBVIOUS
    <3> HIDE DEF T
    <3> QED
      BY <3>1, <3>2
  <2>4. PICK U \in T : \A V \in T : <<V, U>> \notin StrictSubsetOrdering(S)
    BY <2>3, WFMin, FS_StrictSubsetOrderingWellFounded
  <2>5. PICK x \in S : U = Above(x)
    BY <2>4
  <2>6. ASSUME NEW y \in S, y > x PROVE FALSE
    <3>1. Above(y) \in T
      OBVIOUS
    <3>2. Above(y) \subseteq Above(x)
      <4>1. \A z \in S : z > y => z > x
        BY <2>1, <2>6
      <4> QED
        BY <4>1
    <3>3. y \in Above(x) /\ y \notin Above(y)
      BY <2>1, <2>6
    <3> QED
      BY <2>4, <2>5, <3>1, <3>2, <3>3 DEF StrictSubsetOrdering
  <2> QED
    BY <2>1, <2>6
<1> QED
  BY <1>1 DEF Max

-----------------------------------------------------------------------------
(* Worlds *)

\* The functions from lists to rows.
Tables == UNION {[D -> Row] : D \in SUBSET Lists}

Worlds == [table : Tables, taken : SUBSET Index, use : [Index -> Usage], total : Usage]

\* What membership in Tables means.
LEMMA TablesElim ==
  ASSUME NEW t \in Tables
  PROVE  /\ DOMAIN t \subseteq Lists /\ t \in [DOMAIN t -> Row]
         /\ \A l \in DOMAIN t : t[l] \in Row
BY DEF Tables

LEMMA TablesIntro ==
  ASSUME NEW D \in SUBSET Lists, NEW t \in [D -> Row]
  PROVE  t \in Tables
BY DEF Tables

\* The binding of a port changes the count of one table.
LEMMA BoundIs ==
  ASSUME NEW w \in Worlds, NEW p \in Ports, NEW l \in DOMAIN w.table
  PROVE  LET v == Bound(w, p, l)
         IN  /\ v \in Worlds /\ DOMAIN v.table = DOMAIN w.table
             /\ v.taken = w.taken /\ v.use = w.use /\ v.total = w.total
             /\ \A k \in DOMAIN w.table :
                  /\ v.table[k].index = w.table[k].index /\ v.table[k].made = w.table[k].made
                  /\ v.table[k].bound = IF k = l /\ p \notin L3Only
                                        THEN w.table[k].bound + 1 ELSE w.table[k].bound
<1>1. CASE p \in L3Only
  BY <1>1 DEF Bound
<1>2. CASE p \notin L3Only
  <2> DEFINE t == [w.table EXCEPT ![l].bound = @ + 1]
  <2>1. w.table \in Tables
    BY DEF Worlds
  <2>2. DOMAIN w.table \subseteq Lists /\ w.table \in [DOMAIN w.table -> Row]
    BY <2>1, TablesElim
  <2>3. /\ t \in [DOMAIN w.table -> Row]
        /\ \A k \in DOMAIN w.table :
             /\ t[k].index = w.table[k].index /\ t[k].made = w.table[k].made
             /\ t[k].bound = IF k = l THEN w.table[k].bound + 1 ELSE w.table[k].bound
    BY <2>2 DEF Row
  <2>4. t \in Tables
    BY <2>2, <2>3, TablesIntro
  <2>5. Bound(w, p, l) = [w EXCEPT !.table = t]
    BY <1>2 DEF Bound, Worlds
  <2> HIDE DEF t
  <2> QED
    BY <1>2, <2>3, <2>4, <2>5 DEF Worlds
<1> QED
  BY <1>1, <1>2

\* So does its end.
LEMMA UnboundIs ==
  ASSUME NEW w \in Worlds, NEW p \in Ports, NEW l \in DOMAIN w.table
  PROVE  LET v == Unbound(w, p, l)
         IN  /\ v \in Worlds /\ DOMAIN v.table = DOMAIN w.table
             /\ v.taken = w.taken /\ v.use = w.use /\ v.total = w.total
             /\ \A k \in DOMAIN w.table :
                  /\ v.table[k].index = w.table[k].index /\ v.table[k].made = w.table[k].made
                  /\ v.table[k].bound = IF k = l /\ p \notin L3Only
                                        THEN w.table[k].bound - 1 ELSE w.table[k].bound
<1>1. CASE p \in L3Only
  BY <1>1 DEF Unbound
<1>2. CASE p \notin L3Only
  <2> DEFINE t == [w.table EXCEPT ![l].bound = @ - 1]
  <2>1. w.table \in Tables
    BY DEF Worlds
  <2>2. DOMAIN w.table \subseteq Lists /\ w.table \in [DOMAIN w.table -> Row]
    BY <2>1, TablesElim
  <2>3. /\ t \in [DOMAIN w.table -> Row]
        /\ \A k \in DOMAIN w.table :
             /\ t[k].index = w.table[k].index /\ t[k].made = w.table[k].made
             /\ t[k].bound = IF k = l THEN w.table[k].bound - 1 ELSE w.table[k].bound
    BY <2>2 DEF Row
  <2>4. t \in Tables
    BY <2>2, <2>3, TablesIntro
  <2>5. Unbound(w, p, l) = [w EXCEPT !.table = t]
    BY <1>2 DEF Unbound, Worlds
  <2> HIDE DEF t
  <2> QED
    BY <1>2, <2>3, <2>4, <2>5 DEF Worlds
<1> QED
  BY <1>1, <1>2

\* What AccountsAddUp says of the accounts u and their total t.
RulesOf(u)    == [i \in Index |-> u[i].rules]
CountersOf(u) == [i \in Index |-> u[i].counters]
Sums(u, t) ==
  /\ IsFiniteSet(Units(RulesOf(u))) /\ t.rules = Cardinality(Units(RulesOf(u)))
  /\ IsFiniteSet(Units(CountersOf(u))) /\ t.counters = Cardinality(Units(CountersOf(u)))

\* One account and the total grow by the same.
LEMMA SumsPlus ==
  ASSUME NEW u \in [Index -> Usage], NEW t \in Usage, Sums(u, t), NEW i \in Index, NEW c \in Usage
  PROVE  /\ Plus(u[i], c) \in Usage /\ Plus(t, c) \in Usage
         /\ Sums([u EXCEPT ![i] = Plus(u[i], c)], Plus(t, c))
<1> DEFINE v == [u EXCEPT ![i] = Plus(u[i], c)]
<1>1. /\ Plus(u[i], c) \in Usage /\ Plus(t, c) \in Usage /\ v \in [Index -> Usage]
      /\ v[i].rules = u[i].rules + c.rules /\ v[i].counters = u[i].counters + c.counters
      /\ \A j \in Index \ {i} : v[j] = u[j]
      /\ Plus(t, c).rules = t.rules + c.rules /\ Plus(t, c).counters = t.counters + c.counters
      /\ c.rules \in Nat /\ c.counters \in Nat
  BY DEF Plus, Usage
<1> HIDE DEF v
<1>2. /\ RulesOf(u) \in [Index -> Nat] /\ CountersOf(u) \in [Index -> Nat]
      /\ RulesOf(v) \in [Index -> Nat] /\ CountersOf(v) \in [Index -> Nat]
      /\ RulesOf(v)[i] = RulesOf(u)[i] + c.rules /\ CountersOf(v)[i] = CountersOf(u)[i] + c.counters
      /\ \A j \in Index \ {i} : RulesOf(v)[j] = RulesOf(u)[j] /\ CountersOf(v)[j] = CountersOf(u)[j]
  BY <1>1 DEF RulesOf, CountersOf, Usage
<1>3. /\ IsFiniteSet(Units(RulesOf(v)))
      /\ Cardinality(Units(RulesOf(v))) = Cardinality(Units(RulesOf(u))) + c.rules
  <2>1. c.rules \in Nat /\ IsFiniteSet(Units(RulesOf(u)))
    BY <1>1 DEF Sums
  <2> QED
    BY <1>2, <2>1, UnitsAdded
<1>4. /\ IsFiniteSet(Units(CountersOf(v)))
      /\ Cardinality(Units(CountersOf(v))) = Cardinality(Units(CountersOf(u))) + c.counters
  <2>1. c.counters \in Nat /\ IsFiniteSet(Units(CountersOf(u)))
    BY <1>1 DEF Sums
  <2> QED
    BY <1>2, <2>1, UnitsAdded
<1> QED
  BY <1>1, <1>3, <1>4 DEF Sums, v

\* One account goes from both.
LEMMA SumsMinus ==
  ASSUME NEW u \in [Index -> Usage], NEW t \in Usage, Sums(u, t), NEW i \in Index
  PROVE  /\ Minus(t, u[i]) \in Usage /\ Minus(t, u[i]).counters <= t.counters
         /\ Sums([u EXCEPT ![i] = NoUsage], Minus(t, u[i]))
<1> DEFINE v == [u EXCEPT ![i] = NoUsage]
<1>1. /\ v \in [Index -> Usage] /\ v[i].rules = 0 /\ v[i].counters = 0
      /\ \A j \in Index \ {i} : v[j] = u[j]
      /\ u[i].rules \in Nat /\ u[i].counters \in Nat
  BY DEF NoUsage, Usage
<1> HIDE DEF v
<1>2. /\ RulesOf(u) \in [Index -> Nat] /\ CountersOf(u) \in [Index -> Nat]
      /\ RulesOf(v) \in [Index -> Nat] /\ CountersOf(v) \in [Index -> Nat]
      /\ RulesOf(v)[i] = 0 /\ CountersOf(v)[i] = 0
      /\ RulesOf(u)[i] = u[i].rules /\ CountersOf(u)[i] = u[i].counters
      /\ \A j \in Index \ {i} : RulesOf(v)[j] = RulesOf(u)[j] /\ CountersOf(v)[j] = CountersOf(u)[j]
  BY <1>1 DEF RulesOf, CountersOf, Usage
<1>3. /\ IsFiniteSet(Units(RulesOf(v)))
      /\ Cardinality(Units(RulesOf(v))) = Cardinality(Units(RulesOf(u))) - RulesOf(u)[i]
      /\ RulesOf(u)[i] <= Cardinality(Units(RulesOf(u)))
  BY <1>2, UnitsCleared DEF Sums
<1>4. /\ IsFiniteSet(Units(CountersOf(v)))
      /\ Cardinality(Units(CountersOf(v))) = Cardinality(Units(CountersOf(u))) - CountersOf(u)[i]
      /\ CountersOf(u)[i] <= Cardinality(Units(CountersOf(u)))
  BY <1>2, UnitsCleared DEF Sums
<1>5. /\ Minus(t, u[i]).rules = Cardinality(Units(RulesOf(v)))
      /\ Minus(t, u[i]).counters = Cardinality(Units(CountersOf(v)))
      /\ u[i].rules <= t.rules /\ u[i].counters <= t.counters
  BY <1>2, <1>3, <1>4 DEF Minus, Sums
<1>6. Minus(t, u[i]) \in Usage /\ Minus(t, u[i]).counters <= t.counters
  BY <1>1, <1>5 DEF Minus, Usage
<1> QED
  BY <1>3, <1>4, <1>5, <1>6 DEF Sums, v

\* A table that goes takes its account along and gives its index back.
LEMMA DestroyedIs ==
  ASSUME NEW w \in Worlds, Sums(w.use, w.total), NEW l \in DOMAIN w.table, w.table[l].bound = 0
  PROVE  LET v == DestroyedIfNeeded(w, l)
             i == w.table[l].index
         IN  /\ v \in Worlds /\ Sums(v.use, v.total) /\ v.total.counters <= w.total.counters
             /\ DOMAIN v.table = DOMAIN w.table \ {l}
             /\ \A k \in DOMAIN v.table : v.table[k] = w.table[k]
             /\ v.taken = w.taken \ {i} /\ v.use = [w.use EXCEPT ![i] = NoUsage]
<1> DEFINE i == w.table[l].index
           t == [k \in DOMAIN w.table \ {l} |-> w.table[k]]
           v == [table |-> t, taken |-> w.taken \ {i}, use |-> [w.use EXCEPT ![i] = NoUsage],
                 total |-> Minus(w.total, w.use[i])]
<1>1. /\ w.table \in Tables /\ w.taken \subseteq Index /\ w.use \in [Index -> Usage]
      /\ w.total \in Usage
  BY DEF Worlds
<1>2. DOMAIN w.table \subseteq Lists /\ w.table \in [DOMAIN w.table -> Row] /\ w.table[l] \in Row
  BY <1>1, TablesElim
<1>3. i \in Index
  BY <1>2 DEF Row
<1>4. DestroyedIfNeeded(w, l) = v
  BY <1>1 DEF DestroyedIfNeeded, IndexReleased, ResourcesCleared, Worlds
<1>5. t \in [DOMAIN w.table \ {l} -> Row]
  BY <1>2
<1>6. t \in Tables
  BY <1>2, <1>5, TablesIntro
<1>7. Minus(w.total, w.use[i]) \in Usage /\ Minus(w.total, w.use[i]).counters <= w.total.counters
  BY <1>1, <1>3, SumsMinus
<1>8. Sums([w.use EXCEPT ![i] = NoUsage], Minus(w.total, w.use[i]))
  BY <1>1, <1>3, SumsMinus
<1>9. [w.use EXCEPT ![i] = NoUsage] \in [Index -> Usage]
  BY <1>1 DEF NoUsage, Usage
<1>10. v \in Worlds
  BY <1>1, <1>6, <1>7, <1>9 DEF Worlds
<1> QED
  BY <1>4, <1>7, <1>8, <1>10

\* A table that is written has the account of its index to itself, or shares it.
LEMMA WrittenIs ==
  ASSUME NEW w \in Worlds, Sums(w.use, w.total), NEW l \in Lists, NEW c \in Contents
  PROVE  LET v == TableWritten(w, l, c)
             i == AssignedIndex(w)
         IN  /\ i \in Index /\ v \in Worlds /\ Sums(v.use, v.total)
             /\ v.total.counters = w.total.counters + c.counters
             /\ DOMAIN v.table = DOMAIN w.table \cup {l}
             /\ v.table[l].index = i /\ v.table[l].bound = 0 /\ v.table[l].made = c
             /\ \A k \in DOMAIN w.table \ {l} : v.table[k] = w.table[k]
             /\ v.taken = Index
             /\ v.use[i] = Plus(w.use[i], c) /\ \A j \in Index \ {i} : v.use[j] = w.use[j]
<1> DEFINE i == AssignedIndex(w)
           row == [index |-> i, bound |-> 0, made |-> c, lists |-> {c}]
           t == [k \in DOMAIN w.table \cup {l} |-> IF k = l THEN row ELSE w.table[k]]
           u == [w.use EXCEPT ![i] = Plus(w.use[i], c)]
           v == [table |-> t, taken |-> Index, use |-> u, total |-> Plus(w.total, c)]
<1>1. /\ w.table \in Tables /\ w.taken \subseteq Index /\ w.use \in [Index -> Usage]
      /\ w.total \in Usage
  BY DEF Worlds
<1>2. DOMAIN w.table \subseteq Lists /\ w.table \in [DOMAIN w.table -> Row]
  BY <1>1, TablesElim
<1>3. i \in Index
  <2>1. 0 \in Index
    BY ClassifierAssumption DEF Index
  <2>2. CASE Index \ w.taken = {}
    BY <2>1, <2>2 DEF AssignedIndex
  <2>3. CASE Index \ w.taken # {}
    <3>1. Max(Index \ w.taken) \in Index \ w.taken
      BY <2>3, MaxIsIn
    <3> QED
      BY <2>3, <3>1 DEF AssignedIndex
  <2> QED
    BY <2>2, <2>3
<1>4. TableWritten(w, l, c) = v
  BY DEF TableWritten
<1> HIDE DEF i
<1>5. c \in Usage
  BY ClassifierAssumption DEF Usage
<1>6. row \in Row
  BY <1>3 DEF Row
<1>7. t \in [DOMAIN w.table \cup {l} -> Row]
  BY <1>2, <1>6
<1>8. t \in Tables
  BY <1>2, <1>7, TablesIntro
<1>9. /\ Plus(w.use[i], c) \in Usage /\ Plus(w.total, c) \in Usage
      /\ Sums(u, Plus(w.total, c))
  BY <1>1, <1>3, <1>5, SumsPlus
<1>10. v \in Worlds
  BY <1>1, <1>8, <1>9 DEF Worlds
<1>11. /\ t[l] = row /\ DOMAIN t = DOMAIN w.table \cup {l}
       /\ \A k \in DOMAIN w.table \ {l} : t[k] = w.table[k]
  OBVIOUS
<1>12. /\ Plus(w.total, c).counters = w.total.counters + c.counters
       /\ row.index = i /\ row.bound = 0 /\ row.made = c
       /\ u[i] = Plus(w.use[i], c) /\ \A j \in Index \ {i} : u[j] = w.use[j]
  BY <1>1, <1>3 DEF Plus
<1> HIDE DEF t, row, u
<1>13. /\ v.table = t /\ v.taken = Index /\ v.use = u /\ v.total = Plus(w.total, c)
  OBVIOUS
<1> HIDE DEF v
<1> QED
  BY <1>3, <1>4, <1>9, <1>10, <1>11, <1>12, <1>13 DEF i

-----------------------------------------------------------------------------
(* Exact accounts *)

\* AccountsAreExact of a world, with what keeps the next index from being that of
\* the only other table: indices in use are taken, and unless a table has another
\* one than 0, another one than 0 is free.
Exact(w) ==
  /\ \A k, l \in DOMAIN w.table : w.table[k].index = w.table[l].index => k = l
  /\ \A l \in DOMAIN w.table : w.use[w.table[l].index] = w.table[l].made
  /\ \A i \in Index : (\A l \in DOMAIN w.table : w.table[l].index # i) => w.use[i] = NoUsage
  /\ \A l \in DOMAIN w.table : w.table[l].index \in w.taken
  /\ (\A l \in DOMAIN w.table : w.table[l].index = 0) => \E i \in Index \ {0} : i \notin w.taken

\* Bindings have no part in it.
LEMMA ExactUnlessChanged ==
  ASSUME NEW w, NEW v, Exact(w),
         DOMAIN v.table = DOMAIN w.table, v.taken = w.taken, v.use = w.use,
         \A k \in DOMAIN w.table : /\ v.table[k].index = w.table[k].index
                                   /\ v.table[k].made = w.table[k].made
  PROVE  Exact(v)
  BY DEF Exact

LEMMA ExactWhenDestroyed ==
  ASSUME NEW w \in Worlds, Exact(w), NEW l \in DOMAIN w.table,
         NEW v, DOMAIN v.table = DOMAIN w.table \ {l},
         \A k \in DOMAIN v.table : v.table[k] = w.table[k],
         v.taken = w.taken \ {w.table[l].index},
         v.use = [w.use EXCEPT ![w.table[l].index] = NoUsage]
  PROVE  Exact(v)
<1> DEFINE i == w.table[l].index
<1>1. w.use \in [Index -> Usage] /\ i \in Index
  <2>1. w.table \in Tables /\ w.use \in [Index -> Usage]
    BY DEF Worlds
  <2>2. w.table[l] \in Row
    BY <2>1, TablesElim
  <2> QED
    BY <2>1, <2>2 DEF Row
<1>2. v.use[i] = NoUsage /\ \A j \in Index \ {i} : v.use[j] = w.use[j]
  BY <1>1
<1>3. \A k \in DOMAIN v.table : v.table[k].index # i /\ v.table[k].index \in Index
  <2> TAKE k \in DOMAIN v.table
  <2>1. w.table \in Tables
    BY DEF Worlds
  <2>2. w.table[k] \in Row
    BY <2>1, TablesElim
  <2> QED
    BY <2>2 DEF Exact, Row
<1>4. \A j \in Index : (\A k \in DOMAIN v.table : v.table[k].index # j) => v.use[j] = NoUsage
  BY <1>2 DEF Exact
<1>5. (\A k \in DOMAIN v.table : v.table[k].index = 0) => \E j \in Index \ {0} : j \notin v.taken
  BY <1>1 DEF Exact
<1> QED
  BY <1>2, <1>3, <1>4, <1>5 DEF Exact

\* The second table never has the index of the first.
LEMMA ExactWhenWritten ==
  ASSUME NEW w \in Worlds, Exact(w), NEW l, l \notin DOMAIN w.table,
         \A j, k \in DOMAIN w.table : j = k,
         NEW c \in Contents, NEW v, DOMAIN v.table = DOMAIN w.table \cup {l},
         v.table[l].index = AssignedIndex(w), v.table[l].made = c,
         \A k \in DOMAIN w.table : v.table[k] = w.table[k],
         v.taken = Index, AssignedIndex(w) \in Index,
         v.use[AssignedIndex(w)] = Plus(w.use[AssignedIndex(w)], c),
         \A j \in Index \ {AssignedIndex(w)} : v.use[j] = w.use[j]
  PROVE  Exact(v)
<1> DEFINE i == AssignedIndex(w)
<1>1. /\ w.use \in [Index -> Usage] /\ w.taken \subseteq Index
      /\ \A k \in DOMAIN w.table : w.table[k].index \in Index
  <2>1. w.table \in Tables /\ w.use \in [Index -> Usage] /\ w.taken \subseteq Index
    BY DEF Worlds
  <2>2. \A k \in DOMAIN w.table : w.table[k] \in Row
    BY <2>1, TablesElim
  <2> QED
    BY <2>1, <2>2 DEF Row
<1>2. /\ \A k \in DOMAIN w.table : w.table[k].index # i
      /\ i # 0 \/ \E k \in DOMAIN w.table : w.table[k].index # 0
  <2>1. CASE Index \ w.taken = {}
    BY <2>1 DEF AssignedIndex, Exact
  <2>2. CASE Index \ w.taken # {}
    <3>1. Max(Index \ w.taken) \in Index \ w.taken /\ \A y \in Index \ w.taken : Max(Index \ w.taken) >= y
      BY <2>2, MaxIsIn
    <3>2. i = Max(Index \ w.taken)
      BY <2>2 DEF AssignedIndex
    <3> HIDE DEF i
    <3>3. i \in Index \ w.taken /\ \A y \in Index \ w.taken : i >= y
      BY <3>1, <3>2
    <3>4. (\E y \in Index \ {0} : y \notin w.taken) => i # 0
      BY <3>3, ClassifierAssumption DEF Index
    <3> QED
      BY <3>3, <3>4 DEF Exact
  <2> QED
    BY <2>1, <2>2
<1>3. w.use[i] = NoUsage
  BY <1>2 DEF Exact
<1>4. Plus(w.use[i], c) = c
  BY <1>3, ClassifierAssumption DEF Plus, NoUsage
<1>5. i \in Index
  OBVIOUS
<1> HIDE DEF i
<1>6. v.use[i] = c /\ \A j \in Index \ {i} : v.use[j] = w.use[j]
  BY <1>4 DEF i
<1>7. v.table[l].index = i /\ v.table[l].made = c
  BY DEF i
<1>8. \A j, k \in DOMAIN v.table : v.table[j].index = v.table[k].index => j = k
  BY <1>2, <1>7 DEF Exact
<1>9. \A k \in DOMAIN v.table : v.use[v.table[k].index] = v.table[k].made
  BY <1>1, <1>2, <1>6, <1>7 DEF Exact
<1>10. \A j \in Index : (\A k \in DOMAIN v.table : v.table[k].index # j) => v.use[j] = NoUsage
  BY <1>6, <1>7 DEF Exact
<1>11. \A k \in DOMAIN v.table : v.table[k].index \in v.taken
  BY <1>1, <1>5, <1>7
<1>12. \E k \in DOMAIN v.table : v.table[k].index # 0
  BY <1>2, <1>7
<1> QED
  BY <1>8, <1>9, <1>10, <1>11, <1>12 DEF Exact

-----------------------------------------------------------------------------
(* Ports and their tables *)

\* The ports of a that are bound to the table of l.
Users(a, l) == {p \in Ports \ L3Only : a[p] = l}

\* TablesFollowPorts of a world and the lists of the ports: its counts, and that
\* a table has a port.
Counts(w, a) ==
  /\ \A p \in Ports \ L3Only : a[p] \in DOMAIN w.table \cup {None}
  /\ \A l \in DOMAIN w.table : w.table[l].bound = Cardinality(Users(a, l))
Held(w, a) == \A l \in DOMAIN w.table : \E p \in Ports : a[p] = l

LEMMA UsersFinite ==
  ASSUME NEW a, NEW l
  PROVE  IsFiniteSet(Users(a, l)) /\ Cardinality(Users(a, l)) \in Nat
<1>1. Users(a, l) \subseteq Ports
  BY DEF Users
<1> QED
  BY <1>1, ClassifierAssumption, FS_Subset, FS_CardinalityType

\* A port leaves the table it has, and the table goes with its last port.
LEMMA PortLeaves ==
  ASSUME NEW w \in Worlds, Sums(w.use, w.total), NEW a \in [Ports -> Lists \cup {None}],
         NEW p \in Ports, a[p] \in DOMAIN w.table
  PROVE  LET v == DestroyedIfNeeded(Unbound(w, p, a[p]), a[p])
             b == [a EXCEPT ![p] = None]
         IN  /\ v \in Worlds /\ Sums(v.use, v.total) /\ v.total.counters <= w.total.counters
             /\ DOMAIN v.table \subseteq DOMAIN w.table
             /\ DOMAIN w.table \ {a[p]} \subseteq DOMAIN v.table
             /\ Exact(w) => Exact(v)
             /\ Counts(w, a) /\ Held(w, a) => Counts(v, b) /\ Held(v, b)
<1> DEFINE l == a[p]
           u == Unbound(w, p, l)
           v == DestroyedIfNeeded(u, l)
           b == [a EXCEPT ![p] = None]
<1>1. /\ u \in Worlds /\ DOMAIN u.table = DOMAIN w.table
      /\ u.taken = w.taken /\ u.use = w.use /\ u.total = w.total
      /\ \A k \in DOMAIN w.table :
           /\ u.table[k].index = w.table[k].index /\ u.table[k].made = w.table[k].made
           /\ u.table[k].bound = IF k = l /\ p \notin L3Only
                                 THEN w.table[k].bound - 1 ELSE w.table[k].bound
  BY UnboundIs
<1>2. Exact(w) => Exact(u)
  BY <1>1, ExactUnlessChanged
<1>3. l # None /\ l \in DOMAIN w.table
  BY ClassifierAssumption, TablesElim DEF Worlds
<1>4. b \in [Ports -> Lists \cup {None}] /\ b[p] = None /\ \A q \in Ports \ {p} : b[q] = a[q]
  OBVIOUS
<1>5. Users(b, l) = Users(a, l) \ {p}
  BY <1>3, <1>4 DEF Users
<1>6. \A k \in DOMAIN w.table \ {l} : Users(b, k) = Users(a, k)
  <2>1. \A k \in DOMAIN w.table : k # None
    BY ClassifierAssumption, TablesElim DEF Worlds
  <2> QED
    BY <1>4, <2>1 DEF Users
<1>7. Cardinality(Users(b, l)) = IF p \in L3Only THEN Cardinality(Users(a, l))
                                 ELSE Cardinality(Users(a, l)) - 1
  <2>1. p \in Users(a, l) <=> p \notin L3Only
    BY DEF Users
  <2> HIDE DEF l, b
  <2> QED
    BY <1>5, <2>1, UsersFinite, FS_RemoveElement
<1>8. ASSUME Counts(w, a), Held(w, a)
      PROVE  Counts(u, b) /\ \A k \in DOMAIN w.table \ {l} : \E q \in Ports : b[q] = k
  <2>1. \A k \in DOMAIN w.table : u.table[k].bound = Cardinality(Users(b, k))
    BY <1>1, <1>6, <1>7, <1>8 DEF Counts
  <2>2. \A q \in Ports \ L3Only : b[q] \in DOMAIN u.table \cup {None}
    BY <1>1, <1>4, <1>8 DEF Counts
  <2>3. \A k \in DOMAIN w.table \ {l} : \E q \in Ports : b[q] = k
    BY <1>4, <1>8 DEF Held
  <2> QED
    BY <1>1, <2>1, <2>2, <2>3 DEF Counts
<1> HIDE DEF b, u, l
<1>9. CASE u.table[l].bound # 0
  <2>1. v = u
    BY <1>9 DEF DestroyedIfNeeded
  <2>2. ASSUME Counts(w, a), Held(w, a) PROVE Counts(v, b) /\ Held(v, b)
    <3>1. Cardinality(Users(b, l)) # 0
      BY <1>1, <1>3, <1>8, <1>9, <2>2 DEF Counts
    <3>2. Users(b, l) # {}
      BY <3>1, FS_EmptySet
    <3>3. \E q \in Ports : b[q] = l
      BY <3>2 DEF Users
    <3> QED
      BY <1>1, <1>8, <2>1, <2>2, <3>3 DEF Held
  <2>3. u.total.counters <= w.total.counters
    BY <1>1 DEF Worlds, Usage
  <2> QED
    BY <1>1, <1>2, <1>3, <2>1, <2>2, <2>3 DEF l, u, b
<1>10. CASE u.table[l].bound = 0
  <2> DEFINE i == u.table[l].index
  <2>1. /\ v \in Worlds /\ Sums(v.use, v.total) /\ v.total.counters <= w.total.counters
        /\ DOMAIN v.table = DOMAIN w.table \ {l}
        /\ \A k \in DOMAIN v.table : v.table[k] = u.table[k]
        /\ v.taken = u.taken \ {i} /\ v.use = [u.use EXCEPT ![i] = NoUsage]
    <3>1. l \in DOMAIN u.table /\ Sums(u.use, u.total)
      BY <1>1, <1>3
    <3> HIDE DEF v
    <3>2. /\ v \in Worlds /\ Sums(v.use, v.total) /\ v.total.counters <= u.total.counters
          /\ DOMAIN v.table = DOMAIN u.table \ {l}
          /\ \A k \in DOMAIN v.table : v.table[k] = u.table[k]
          /\ v.taken = u.taken \ {i} /\ v.use = [u.use EXCEPT ![i] = NoUsage]
      BY <1>1, <1>10, <3>1, DestroyedIs DEF v
    <3> QED
      BY <1>1, <3>2
  <2> HIDE DEF v
  <2>2. Exact(w) => Exact(v)
    <3> SUFFICES ASSUME Exact(u) PROVE Exact(v)
      BY <1>2
    <3>1. u \in Worlds /\ l \in DOMAIN u.table /\ DOMAIN v.table = DOMAIN u.table \ {l}
      BY <1>1, <1>3, <2>1
    <3> QED
      BY <2>1, <3>1, ExactWhenDestroyed
  <2>3. ASSUME Counts(w, a), Held(w, a) PROVE Counts(v, b) /\ Held(v, b)
    <3>1. Users(b, l) = {}
      BY <1>1, <1>3, <1>8, <1>10, <2>3, UsersFinite, FS_EmptySet DEF Counts
    <3>2. \A q \in Ports \ L3Only : b[q] # l
      BY <3>1 DEF Users
    <3>3. Counts(v, b)
      BY <1>1, <1>8, <2>1, <2>3, <3>2 DEF Counts
    <3> QED
      BY <1>8, <2>1, <2>3, <3>3 DEF Held
  <2> QED
    BY <2>1, <2>2, <2>3 DEF l, u, v, b
<1> QED
  BY <1>9, <1>10

\* A port gets a table, which is written if it is not there.
LEMMA PortJoins ==
  ASSUME NEW w \in Worlds, Sums(w.use, w.total), NEW a \in [Ports -> Lists \cup {None}],
         NEW p \in Ports, NEW l \in Lists, NEW c \in Contents
  PROVE  LET v == Bound(IF l \in DOMAIN w.table THEN w ELSE TableWritten(w, l, c), p, l)
             b == [a EXCEPT ![p] = l]
         IN  /\ v \in Worlds /\ Sums(v.use, v.total)
             /\ v.total.counters = IF l \in DOMAIN w.table THEN w.total.counters
                                   ELSE w.total.counters + c.counters
             /\ DOMAIN v.table = DOMAIN w.table \cup {l}
             /\ Exact(w) /\ (l \in DOMAIN w.table \/ \A j, k \in DOMAIN w.table : j = k)
                  => Exact(v)
             /\ a[p] = None /\ Counts(w, a) /\ Held(w, a) => Counts(v, b) /\ Held(v, b)
<1> DEFINE u == IF l \in DOMAIN w.table THEN w ELSE TableWritten(w, l, c)
           v == Bound(u, p, l)
           b == [a EXCEPT ![p] = l]
<1>1. /\ u \in Worlds /\ Sums(u.use, u.total)
      /\ u.total.counters = IF l \in DOMAIN w.table THEN w.total.counters
                            ELSE w.total.counters + c.counters
      /\ DOMAIN u.table = DOMAIN w.table \cup {l}
      /\ \A k \in DOMAIN w.table : u.table[k] = w.table[k]
      /\ l \notin DOMAIN w.table => u.table[l].bound = 0
  <2>1. CASE l \in DOMAIN w.table
    BY <2>1
  <2>2. CASE l \notin DOMAIN w.table
    <3>1. u = TableWritten(w, l, c)
      BY <2>2
    <3> HIDE DEF u
    <3>2. Sums(u.use, u.total)
      BY <3>1, WrittenIs, Zenon
    <3> QED
      BY <2>2, <3>1, <3>2, WrittenIs
  <2> QED
    BY <2>1, <2>2
<1>2. ASSUME Exact(w), l \in DOMAIN w.table \/ \A j, k \in DOMAIN w.table : j = k
      PROVE  Exact(u)
  <2>1. CASE l \in DOMAIN w.table
    BY <1>2, <2>1
  <2>2. CASE l \notin DOMAIN w.table
    <3>1. u = TableWritten(w, l, c)
      BY <2>2
    <3> HIDE DEF u
    <3>2. /\ AssignedIndex(w) \in Index /\ DOMAIN u.table = DOMAIN w.table \cup {l}
          /\ u.table[l].index = AssignedIndex(w) /\ u.table[l].made = c
          /\ \A k \in DOMAIN w.table \ {l} : u.table[k] = w.table[k]
          /\ u.taken = Index
          /\ u.use[AssignedIndex(w)] = Plus(w.use[AssignedIndex(w)], c)
          /\ \A j \in Index \ {AssignedIndex(w)} : u.use[j] = w.use[j]
      BY <3>1, WrittenIs
    <3> QED
      BY <1>2, <2>2, <3>2, ExactWhenWritten
  <2> QED
    BY <2>1, <2>2
<1> HIDE DEF u
<1>3. /\ v \in Worlds /\ DOMAIN v.table = DOMAIN u.table
      /\ v.taken = u.taken /\ v.use = u.use /\ v.total = u.total
      /\ \A k \in DOMAIN u.table :
           /\ v.table[k].index = u.table[k].index /\ v.table[k].made = u.table[k].made
           /\ v.table[k].bound = IF k = l /\ p \notin L3Only
                                 THEN u.table[k].bound + 1 ELSE u.table[k].bound
  BY <1>1, BoundIs
<1> HIDE DEF v
<1>4. ASSUME Exact(u) PROVE Exact(v)
  BY <1>3, <1>4, ExactUnlessChanged
<1>5. ASSUME a[p] = None, Counts(w, a), Held(w, a) PROVE Counts(v, b) /\ Held(v, b)
  <2>1. b[p] = l /\ \A q \in Ports \ {p} : b[q] = a[q]
    OBVIOUS
  <2>2. None # l
    BY ClassifierAssumption
  <2>3. Users(b, l) = IF p \in L3Only THEN Users(a, l) ELSE Users(a, l) \cup {p}
    BY <2>1 DEF Users
  <2>4. p \notin Users(a, l)
    BY <1>5, <2>2 DEF Users
  <2>5. \A k \in DOMAIN u.table \ {l} : Users(b, k) = Users(a, k)
    <3>1. \A k \in DOMAIN u.table : k # None
      BY <1>1, ClassifierAssumption, TablesElim DEF Worlds
    <3> QED
      BY <1>5, <2>1, <3>1 DEF Users
  <2>6. u.table[l].bound = Cardinality(Users(a, l))
    <3>1. CASE l \in DOMAIN w.table
      BY <1>1, <1>5, <3>1 DEF Counts
    <3>2. CASE l \notin DOMAIN w.table
      <4>1. Users(a, l) = {}
        BY <1>5, <2>2, <3>2 DEF Counts, Users
      <4> QED
        BY <1>1, <3>2, <4>1, FS_EmptySet
    <3> QED
      BY <3>1, <3>2
  <2> HIDE DEF b
  <2>7. v.table[l].bound = Cardinality(Users(b, l))
    <3>1. CASE p \in L3Only
      BY <1>1, <1>3, <2>3, <2>6, <3>1
    <3>2. CASE p \notin L3Only
      <4>1. Cardinality(Users(a, l) \cup {p}) = Cardinality(Users(a, l)) + 1
        BY <2>4, UsersFinite, FS_AddElement
      <4> QED
        BY <1>1, <1>3, <2>3, <2>6, <3>2, <4>1
    <3> QED
      BY <3>1, <3>2
  <2>8. \A k \in DOMAIN w.table \ {l} : v.table[k].bound = Cardinality(Users(b, k))
    BY <1>1, <1>3, <1>5, <2>5 DEF Counts
  <2>9. \A q \in Ports \ L3Only : b[q] \in DOMAIN v.table \cup {None}
    BY <1>1, <1>3, <1>5, <2>1 DEF Counts
  <2>10. \A k \in DOMAIN v.table : \E q \in Ports : b[q] = k
    <3> TAKE k \in DOMAIN v.table
    <3>1. CASE k = l
      BY <2>1, <3>1
    <3>2. CASE k # l
      <4>1. PICK q \in Ports : a[q] = k
        BY <1>1, <1>3, <1>5, <3>2 DEF Held
      <4>2. k # None
        BY <1>1, <1>3, ClassifierAssumption, TablesElim DEF Worlds
      <4> QED
        BY <1>5, <2>1, <4>1, <4>2
    <3> QED
      BY <3>1, <3>2
  <2> QED
    BY <1>1, <1>3, <2>7, <2>8, <2>9, <2>10 DEF Counts, Held
<1> QED
  BY <1>1, <1>2, <1>3, <1>4, <1>5 DEF u, v, b

-----------------------------------------------------------------------------
(* The invariant, and one lemma for each call *)

ClassInv ==
  /\ World \in Worlds /\ Sums(use, total) /\ IsFiniteSet(DOMAIN table)
  /\ total.counters <= MaxCounters
  /\ applied \in [Ports -> Lists \cup {None}]
  /\ crowded \in BOOLEAN /\ lost \in BOOLEAN /\ crashed \in BOOLEAN
  /\ ~crowded => Exact(World)
  /\ ~lost => Counts(World, applied) /\ Held(World, applied)

\* The fields of the world are the variables, before and after.
LEMMA WorldIs ==
  /\ World.table = table /\ World.taken = taken /\ World.use = use /\ World.total = total
  /\ \A v \in Worlds : Does(v) => /\ World' = v /\ table' = v.table /\ use' = v.use
                                  /\ total' = v.total
                                  /\ crowded' = (crowded \/ Cardinality(DOMAIN v.table) > 2)
  BY DEF World, Does, Worlds

\* Two lists, one of them new: there was one at most.
LEMMA OneBeforeTwo ==
  ASSUME NEW D, IsFiniteSet(D), NEW l, l \notin D, ~(Cardinality(D \cup {l}) > 2)
  PROVE  \A j, k \in D : j = k
<1>1. Cardinality(D) \in Nat /\ Cardinality(D \cup {l}) = Cardinality(D) + 1
  BY FS_CardinalityType, FS_AddElement
<1>2. CASE Cardinality(D) = 0
  BY <1>2, FS_EmptySet
<1>3. CASE Cardinality(D) = 1
  BY <1>3, FS_Singleton
<1> QED
  BY <1>1, <1>2, <1>3

LEMMA ClassInvInit == Init => ClassInv
<1> SUFFICES ASSUME Init PROVE ClassInv
  OBVIOUS
<1>1. /\ table = [l \in {} |-> None] /\ taken = {} /\ use = [i \in Index |-> NoUsage]
      /\ total = NoUsage /\ applied = [p \in Ports |-> None]
      /\ ~crowded /\ ~lost /\ ~crashed
      /\ crowded \in BOOLEAN /\ lost \in BOOLEAN /\ crashed \in BOOLEAN
  BY DEF Init
<1>2. DOMAIN table = {} /\ table \in [{} -> Row]
  BY <1>1
<1>3. table \in Tables /\ IsFiniteSet(DOMAIN table)
  BY <1>2, TablesIntro, FS_EmptySet
<1>4. World \in Worlds
  BY <1>1, <1>3 DEF World, Worlds, Usage, NoUsage
<1>5. Units(RulesOf(use)) = {} /\ Units(CountersOf(use)) = {}
  <2>1. /\ DOMAIN RulesOf(use) = Index /\ \A i \in Index : RulesOf(use)[i] = 0
        /\ DOMAIN CountersOf(use) = Index /\ \A i \in Index : CountersOf(use)[i] = 0
    BY <1>1 DEF RulesOf, CountersOf, NoUsage
  <2>2. \A k : k \notin 1..0
    OBVIOUS
  <2>3. ASSUME NEW u \in Units(RulesOf(use)) PROVE FALSE
    BY <2>1, <2>2 DEF Units
  <2>4. ASSUME NEW u \in Units(CountersOf(use)) PROVE FALSE
    BY <2>1, <2>2 DEF Units
  <2> QED
    BY <2>3, <2>4
<1>6. Sums(use, total) /\ total.counters <= MaxCounters
  <2>1. total.rules = 0 /\ total.counters = 0
    BY <1>1 DEF NoUsage
  <2> HIDE <1>1
  <2>2. IsFiniteSet({}) /\ Cardinality({}) = 0
    BY FS_EmptySet
  <2>3. Sums(use, total)
    BY <1>5, <2>1, <2>2 DEF Sums
  <2> QED
    BY <2>1, <2>3, ClassifierAssumption
<1>7. Exact(World)
  <2>1. 1 \in Index \ {0}
    BY ClassifierAssumption DEF Index
  <2> QED
    BY <1>1, <1>2, <2>1, WorldIs DEF Exact
<1>8. Counts(World, applied) /\ Held(World, applied)
  BY <1>1, <1>2, WorldIs DEF Counts, Held
<1> QED
  BY <1>1, <1>3, <1>4, <1>6, <1>7, <1>8 DEF ClassInv

\* __apply: the port had no list.
LEMMA ApplyStep ==
  ASSUME ClassInv, NEW p \in Ports, NEW l \in Lists, NEW c \in Contents, Apply(p, l, c)
  PROVE  ClassInv'
<1> DEFINE v == Bound(IF l \in DOMAIN World.table THEN World ELSE TableWritten(World, l, c), p, l)
           b == [applied EXCEPT ![p] = l]
<1>1. /\ World \in Worlds /\ Sums(World.use, World.total) /\ IsFiniteSet(DOMAIN table)
      /\ total.counters <= MaxCounters /\ total \in Usage
      /\ applied \in [Ports -> Lists \cup {None}]
  BY WorldIs DEF ClassInv, Worlds
<1>2. /\ v \in Worlds /\ Sums(v.use, v.total)
      /\ v.total.counters = IF l \in DOMAIN World.table THEN World.total.counters
                            ELSE World.total.counters + c.counters
      /\ DOMAIN v.table = DOMAIN World.table \cup {l}
      /\ Exact(World) /\ (l \in DOMAIN World.table \/ \A j, k \in DOMAIN World.table : j = k)
           => Exact(v)
      /\ applied[p] = None /\ Counts(World, applied) /\ Held(World, applied)
           => Counts(v, b) /\ Held(v, b)
  BY <1>1, PortJoins, Zenon
<1>3. /\ v.total.counters = IF l \in DOMAIN table THEN total.counters ELSE total.counters + c.counters
      /\ DOMAIN v.table = DOMAIN table \cup {l}
      /\ Exact(World) /\ (l \in DOMAIN table \/ \A j, k \in DOMAIN table : j = k) => Exact(v)
  BY <1>2, WorldIs
<1>4. /\ applied[p] = None /\ (l \in DOMAIN table \/ Fits(World, c, NoUsage))
      /\ Does(v) /\ applied' = b /\ lost' = lost /\ crashed' = crashed
  BY WorldIs DEF Apply
<1> HIDE DEF v
<1>5. /\ World' = v /\ table' = v.table /\ use' = v.use /\ total' = v.total
      /\ crowded' = (crowded \/ Cardinality(DOMAIN v.table) > 2)
  BY <1>2, <1>4, WorldIs
<1>6. IsFiniteSet(DOMAIN table')
  BY <1>1, <1>3, <1>5, FS_AddElement
<1>7. total'.counters <= MaxCounters
  <2>1. c.counters \in Nat /\ total.counters \in Nat
    BY <1>1, ClassifierAssumption DEF Usage
  <2>2. CASE l \in DOMAIN table
    BY <1>1, <1>3, <1>5, <2>2
  <2>3. CASE Fits(World, c, NoUsage)
    BY <1>1, <1>3, <1>5, <2>1, <2>3, WorldIs DEF Fits, NoUsage
  <2> QED
    BY <1>4, <2>2, <2>3
<1>8. ASSUME ~crowded' PROVE Exact(v)
  <2>1. ~crowded /\ ~(Cardinality(DOMAIN table \cup {l}) > 2)
    BY <1>3, <1>5, <1>8
  <2>2. l \in DOMAIN table \/ \A j, k \in DOMAIN table : j = k
    BY <1>1, <2>1, OneBeforeTwo
  <2> QED
    BY <1>3, <2>1, <2>2 DEF ClassInv
<1> QED
  BY <1>1, <1>2, <1>3, <1>4, <1>5, <1>6, <1>7, <1>8 DEF ClassInv

\* __remove.
LEMMA RemoveStep ==
  ASSUME ClassInv, NEW p \in Ports, Remove(p)
  PROVE  ClassInv'
<1> DEFINE v == DestroyedIfNeeded(Unbound(World, p, applied[p]), applied[p])
           b == [applied EXCEPT ![p] = None]
<1>1. /\ World \in Worlds /\ Sums(World.use, World.total) /\ IsFiniteSet(DOMAIN table)
      /\ total.counters <= MaxCounters /\ total \in Usage
      /\ applied \in [Ports -> Lists \cup {None}]
  BY WorldIs DEF ClassInv, Worlds
<1>2. /\ applied[p] \in DOMAIN table
      /\ Does(v) /\ applied' = b /\ lost' = lost /\ crashed' = crashed
  BY DEF Remove
<1>3. /\ v \in Worlds /\ Sums(v.use, v.total) /\ v.total.counters <= total.counters
      /\ DOMAIN v.table \subseteq DOMAIN table
      /\ Exact(World) => Exact(v)
      /\ Counts(World, applied) /\ Held(World, applied) => Counts(v, b) /\ Held(v, b)
  BY <1>1, <1>2, PortLeaves, WorldIs
<1> HIDE DEF v
<1>4. /\ World' = v /\ table' = v.table /\ use' = v.use /\ total' = v.total
      /\ crowded' = (crowded \/ Cardinality(DOMAIN v.table) > 2)
  BY <1>2, <1>3, WorldIs
<1>5. IsFiniteSet(DOMAIN table')
  BY <1>1, <1>3, <1>4, FS_Subset
<1>6. total'.counters <= MaxCounters
  BY <1>1, <1>3, <1>4, ClassifierAssumption DEF Worlds, Usage
<1> QED
  BY <1>1, <1>2, <1>3, <1>4, <1>5, <1>6 DEF ClassInv

\* __replace: the port leaves its list, and has the other one unless that fails.
LEMMA ReplaceStep ==
  ASSUME ClassInv, NEW p \in Ports, NEW l \in Lists, NEW c \in Contents, Replace(p, l, c)
  PROVE  ClassInv'
<1> DEFINE old == applied[p]
           w == DestroyedIfNeeded(Unbound(World, p, old), old)
           a == [applied EXCEPT ![p] = None]
           v == Bound(IF l \in DOMAIN w.table THEN w ELSE TableWritten(w, l, c), p, l)
           b == [applied EXCEPT ![p] = l]
           goes == l \in DOMAIN table \/ Fits(w, c, NoUsage)
<1>1. /\ World \in Worlds /\ Sums(World.use, World.total) /\ IsFiniteSet(DOMAIN table)
      /\ total.counters <= MaxCounters /\ total \in Usage
      /\ applied \in [Ports -> Lists \cup {None}] /\ lost \in BOOLEAN /\ crashed \in BOOLEAN
  BY WorldIs DEF ClassInv, Worlds
<1>2. old \in DOMAIN table /\ l # old
  BY DEF Replace
<1>3. /\ w \in Worlds /\ Sums(w.use, w.total) /\ w.total.counters <= total.counters
      /\ DOMAIN w.table \subseteq DOMAIN table
      /\ DOMAIN table \ {old} \subseteq DOMAIN w.table
      /\ Exact(World) => Exact(w)
      /\ Counts(World, applied) /\ Held(World, applied) => Counts(w, a) /\ Held(w, a)
  BY <1>1, <1>2, PortLeaves, WorldIs
<1>4. l \in DOMAIN table <=> l \in DOMAIN w.table
  BY <1>2, <1>3
<1>5. /\ Does(IF goes THEN v ELSE w)
      /\ applied' = IF goes THEN b ELSE applied
      /\ lost' = (lost \/ ~goes) /\ crashed' = crashed
  BY <1>4 DEF Replace
<1>6. /\ a \in [Ports -> Lists \cup {None}] /\ a[p] = None
      /\ [a EXCEPT ![p] = l] = b
  BY <1>1
<1> HIDE DEF w, a
<1>7. /\ v \in Worlds /\ Sums(v.use, v.total)
      /\ v.total.counters = IF l \in DOMAIN w.table THEN w.total.counters
                            ELSE w.total.counters + c.counters
      /\ DOMAIN v.table = DOMAIN w.table \cup {l}
      /\ Exact(w) /\ (l \in DOMAIN w.table \/ \A j, k \in DOMAIN w.table : j = k)
           => Exact(v)
      /\ a[p] = None /\ Counts(w, a) /\ Held(w, a)
           => Counts(v, [a EXCEPT ![p] = l]) /\ Held(v, [a EXCEPT ![p] = l])
  BY <1>3, <1>6, PortJoins, Zenon
<1> HIDE DEF v, old
<1>8. IsFiniteSet(DOMAIN w.table) /\ w.total.counters \in Nat /\ w.total.counters <= MaxCounters
  <2>1. w.total.counters \in Nat /\ total.counters \in Nat
    BY <1>1, <1>3 DEF Worlds, Usage
  <2> QED
    BY <1>1, <1>3, <2>1, FS_Subset, ClassifierAssumption
<1>9. CASE goes
  <2>1. Does(v) /\ applied' = b /\ lost' = lost
    BY <1>1, <1>5, <1>9
  <2>2. /\ World' = v /\ table' = v.table /\ use' = v.use /\ total' = v.total
        /\ crowded' = (crowded \/ Cardinality(DOMAIN v.table) > 2)
    BY <1>7, <2>1, WorldIs
  <2>3. IsFiniteSet(DOMAIN table')
    BY <1>7, <1>8, <2>2, FS_AddElement
  <2>4. total'.counters <= MaxCounters
    <3>1. c.counters \in Nat
      BY ClassifierAssumption
    <3>2. CASE l \in DOMAIN w.table
      BY <1>7, <1>8, <2>2, <3>2
    <3>3. CASE l \notin DOMAIN w.table
      <4>1. Fits(w, c, NoUsage)
        BY <1>4, <1>9, <3>3
      <4> QED
        BY <1>7, <1>8, <2>2, <3>1, <3>3, <4>1, ClassifierAssumption DEF Fits, NoUsage
    <3> QED
      BY <3>2, <3>3
  <2>5. ASSUME ~crowded' PROVE Exact(v)
    <3>1. ~crowded /\ ~(Cardinality(DOMAIN w.table \cup {l}) > 2)
      BY <1>7, <2>2, <2>5
    <3>2. l \in DOMAIN w.table \/ \A j, k \in DOMAIN w.table : j = k
      BY <1>8, <3>1, OneBeforeTwo
    <3> QED
      BY <1>3, <1>7, <3>1, <3>2 DEF ClassInv
  <2>6. ASSUME ~lost' PROVE Counts(v, b) /\ Held(v, b)
    BY <1>3, <1>6, <1>7, <2>1, <2>6 DEF ClassInv
  <2>7. b \in [Ports -> Lists \cup {None}] /\ crowded' \in BOOLEAN
    BY <1>1, <2>2 DEF ClassInv
  <2> QED
    BY <1>1, <1>5, <1>7, <2>1, <2>2, <2>3, <2>4, <2>5, <2>6, <2>7 DEF ClassInv
<1>10. CASE ~goes
  <2>1. Does(w) /\ applied' = applied /\ lost'
    BY <1>5, <1>10
  <2>2. /\ World' = w /\ table' = w.table /\ use' = w.use /\ total' = w.total
        /\ crowded' = (crowded \/ Cardinality(DOMAIN w.table) > 2)
    BY <1>3, <2>1, WorldIs
  <2>3. ~crowded' => Exact(w)
    BY <1>3, <2>2 DEF ClassInv
  <2>4. crowded' \in BOOLEAN /\ lost' \in BOOLEAN
    BY <1>1, <1>5, <2>2 DEF ClassInv
  <2> QED
    BY <1>1, <1>3, <1>5, <1>8, <2>1, <2>2, <2>3, <2>4 DEF ClassInv
<1> QED
  BY <1>9, <1>10

\* __list_update: what a table's container holds is no matter of these facts.
LEMMA ListUpdateStep ==
  ASSUME ClassInv, NEW l \in Lists, NEW c \in Contents, ListUpdate(l, c)
  PROVE  ClassInv'
<1> DEFINE t == [table EXCEPT ![l].lists = @ \cup {c}]
<1>1. /\ l \in DOMAIN table /\ table' = t /\ taken' = taken /\ use' = use /\ total' = total
      /\ applied' = applied /\ crowded' = crowded /\ lost' = lost
      /\ crashed' \in BOOLEAN
  BY DEF ListUpdate
<1>2. table \in Tables /\ taken \in SUBSET Index /\ use \in [Index -> Usage] /\ total \in Usage
  BY WorldIs DEF ClassInv, Worlds
<1>3. DOMAIN table \subseteq Lists /\ table \in [DOMAIN table -> Row]
  BY <1>2, TablesElim
<1>4. /\ t \in [DOMAIN table -> Row]
      /\ \A k \in DOMAIN table : /\ t[k].index = table[k].index /\ t[k].made = table[k].made
                                /\ t[k].bound = table[k].bound
  BY <1>3 DEF Row
<1>5. t \in Tables /\ DOMAIN t = DOMAIN table
  BY <1>3, <1>4, TablesIntro
<1> HIDE DEF t
<1>6. World' = [table |-> t, taken |-> taken, use |-> use, total |-> total]
  BY <1>1 DEF World
<1>7. /\ World' \in Worlds /\ DOMAIN World'.table = DOMAIN World.table
      /\ World'.taken = World.taken /\ World'.use = World.use
      /\ \A k \in DOMAIN World.table :
           /\ World'.table[k].index = World.table[k].index
           /\ World'.table[k].made = World.table[k].made
           /\ World'.table[k].bound = World.table[k].bound
  BY <1>2, <1>4, <1>5, <1>6, WorldIs DEF Worlds
<1>8. Exact(World) => Exact(World')
  BY <1>7, ExactUnlessChanged
<1>9. /\ Counts(World, applied) => Counts(World', applied)
      /\ Held(World, applied) => Held(World', applied)
  BY <1>7 DEF Counts, Held
<1> QED
  BY <1>1, <1>5, <1>7, <1>8, <1>9 DEF ClassInv

LEMMA ClassInvNext == ClassInv /\ [Next]_vars => ClassInv'
<1> SUFFICES ASSUME ClassInv, [Next]_vars PROVE ClassInv'
  OBVIOUS
<1>1. CASE \E p \in Ports : \E l \in Lists, c \in Contents : Apply(p, l, c)
  BY <1>1, ApplyStep
<1>2. CASE \E p \in Ports : \E l \in Lists, c \in Contents : Replace(p, l, c)
  BY <1>2, ReplaceStep
<1>3. CASE \E p \in Ports : Remove(p)
  BY <1>3, RemoveStep
<1>4. CASE \E l \in Lists, c \in Contents : ListUpdate(l, c)
  BY <1>4, ListUpdateStep
<1>5. CASE UNCHANGED vars
  BY <1>5 DEF vars, ClassInv, World
<1> QED
  BY <1>1, <1>2, <1>3, <1>4, <1>5 DEF Next

-----------------------------------------------------------------------------
(* The theorems *)

\* Whatever apply, replace, remove and list_update are called in whatever order, the
\* invariant above holds.
THEOREM ClassInvariant == Spec => []ClassInv
<1>1. Init => ClassInv
  BY ClassInvInit
<1>2. ClassInv /\ [Next]_vars => ClassInv'
  BY ClassInvNext
<1> QED
  BY <1>1, <1>2, PTL DEF Spec

\* The variables of sai-classifier.c keep the types of their declarations: an index
\* is one of a table, and no account is ever negative.
THEOREM ClassTypeCorrect == Spec => []TypeOK
<1>1. ClassInv => TypeOK
  <2> SUFFICES ASSUME ClassInv PROVE TypeOK
    OBVIOUS
  <2>1. table \in Tables /\ taken \in SUBSET Index /\ use \in [Index -> Usage] /\ total \in Usage
    BY WorldIs DEF ClassInv, Worlds
  <2> QED
    BY <2>1, TablesElim DEF ClassInv, TypeOK
<1> QED
  BY <1>1, ClassInvariant, PTL

\* global_use is the sum of per_table_use whatever tables share an index, and the
\* counters never exceed ACL_COUNTERS_MAX, whatever replacement fails half way.
THEOREM AccountsAddUpHolds == Spec => []AccountsAddUp
<1>1. ClassInv => AccountsAddUp
  BY DEF ClassInv, AccountsAddUp, Sums, RulesOf, CountersOf
<1> QED
  BY <1>1, ClassInvariant, PTL

\* As long as there were two tables at most, __table_assign_index, which takes every
\* index there is, gives each its own, with an account of its own rules only.
THEOREM TwoTablesAreExactHolds == Spec => []TwoTablesAreExact
<1>1. ClassInv => TwoTablesAreExact
  BY WorldIs DEF ClassInv, TwoTablesAreExact, AccountsAreExact, Exact
<1> QED
  BY <1>1, ClassInvariant, PTL

\* bound_interfaces is the number of ports that have the list, and
\* __table_destroy_if_needed keeps the table until the last one leaves.
THEOREM TablesFollowPortsHolds == Spec => []TablesFollowPorts
<1>1. ClassInv => TablesFollowPorts
  BY WorldIs DEF ClassInv, TablesFollowPorts, Counts, Held, Users
<1> QED
  BY <1>1, ClassInvariant, PTL
=============================================================================
