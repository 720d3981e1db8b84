---------------------------- MODULE SaiClassifier ----------------------------
(***************************************************************************)
(* The classifier plugin (src/src/sai-classifier.c): tables of ACL rules,  *)
(* the ports they are bound to, and the accounts of the rules and counters *)
(* the tables take.                                                        *)
(*                                                                         *)
(* Lists are ingress lists without ranges of L4 ports: of others no entry  *)
(* ever fits (direction is not OPS_CLS_DIRECTION_IN, ACL_L4_RANGE_MAX is   *)
(* 0), so that apply and replace refuse them.  A list is how many entries  *)
(* it has and how many of them count or log.  Containers and rules are     *)
(* placeholders in the provider, none of whose calls fails.                *)
(*                                                                         *)
(* switchd applies one list to a port at most, replaces it by another one, *)
(* and takes a call that fails for one that did nothing.                   *)
(***************************************************************************)
EXTENDS Integers, FiniteSets, FiniteSetsExt

CONSTANTS
  Lists,        \* list_id of the lists of switchd
  Ports,        \* interfaces an ACL may be applied to
  L3Only,       \* those with OPS_CLS_INTERFACE_L3ONLY, which are bound to nothing
  Contents,     \* what lists may hold
  MaxTables, MaxRules, MaxCounters,  \* ACL_TABLES_MAX, ACL_RULES_PER_TABLE_MAX, ACL_COUNTERS_MAX
  MinBound,     \* bound on the count of interfaces, from below
  None          \* no list

ASSUME ClassifierAssumption ==
  /\ IsFiniteSet(Ports) /\ MaxTables \in Nat /\ MaxTables > 1
  /\ MaxRules \in Nat /\ MaxCounters \in Nat /\ MinBound \in Int
  /\ L3Only \subseteq Ports /\ None \notin Lists
  /\ Contents \subseteq [rules : Nat, counters : Nat]

VARIABLES
  table,    \* tables_map, on the lists that have a table: table_index, bound_interfaces
            \* and rules
  taken,    \* existing_tables: the indices that are not NULL
  use,      \* per_table_use
  total,    \* global_use
  applied,  \* switchd: the list of each port
  crowded,  \* history: there have been three tables at once
  lost,     \* history: a replacement failed after the old list was gone
  crashed   \* more rules than a table has room for were written: nothing is said after

vars == <<table, taken, use, total, applied, crowded, lost, crashed>>

Index == 0..(MaxTables - 1)

Usage   == [rules : Nat, counters : Nat]
NoUsage == [rules |-> 0, counters |-> 0]
Plus(a, b)  == [rules |-> a.rules + b.rules, counters |-> a.counters + b.counters]
Minus(a, b) == [rules |-> a.rules - b.rules, counters |-> a.counters - b.counters]

-----------------------------------------------------------------------------
(* Tables and accounts.  A world is what a step of a call finds and leaves. *)

World == [table |-> table, taken |-> taken, use |-> use, total |-> total]

\* Faulty variant of Fits: what other tables count is left out.
FitsAlone(w, c, base) ==
  base.rules + c.rules <= MaxRules /\ base.counters + c.counters <= MaxCounters

\* __check_rule_resources_available of every entry of c, when the planned usage
\* starts at base: rules are compared with the room of one table.
Fits(w, c, base) ==
  /\ base.rules + c.rules <= MaxRules
  /\ c.counters > 0 => w.total.counters + base.counters + c.counters <= MaxCounters

\* __table_assign_index: the loop goes on when it found a free index, so that the
\* table takes all there are and keeps the last; with none it keeps 0.
AssignedIndex(w) ==
  LET free == Index \ w.taken IN IF free = {} THEN 0 ELSE Max(free)

\* __write_table, __update_resource_usage, __tables_db_add
TableWritten(w, l, c) ==
  LET i == AssignedIndex(w)
  IN [table |-> [k \in DOMAIN w.table \cup {l} |->
                  IF k = l THEN [index |-> i, bound |-> 0, made |-> c, lists |-> {c}] ELSE w.table[k]],
      taken |-> Index,
      use   |-> [w.use EXCEPT ![i] = Plus(@, c)],
      total |-> Plus(w.total, c)]

\* Faulty variant of ResourcesCleared: the account of the index is not zeroed.
ResourcesClearedTotalOnly(w, i) == [w EXCEPT !.total = Minus(@, w.use[i])]

\* __clear_table_resources
ResourcesCleared(w, i) ==
  [w EXCEPT !.total = Minus(@, w.use[i]), !.use[i] = NoUsage]

\* Faulty variant of IndexReleased: the index stays taken.
IndexReleasedNot(w, i) == w

\* __table_release_index
IndexReleased(w, i) == [w EXCEPT !.taken = @ \ {i}]

\* __table_destroy_if_needed
DestroyedIfNeeded(w, l) ==
  LET i == w.table[l].index
  IN IF w.table[l].bound # 0 THEN w
     ELSE [IndexReleased(ResourcesCleared(w, i), i) EXCEPT
             !.table = [k \in DOMAIN w.table \ {l} |-> w.table[k]]]

\* The binding of port p to the table of l, and its end.
Bound(w, p, l) == IF p \in L3Only THEN w ELSE [w EXCEPT !.table[l].bound = @ + 1]

\* Faulty variant of Unbound: the count stays.
UnboundUncounted(w, p, l) == w

Unbound(w, p, l) == IF p \in L3Only THEN w ELSE [w EXCEPT !.table[l].bound = @ - 1]

-----------------------------------------------------------------------------
(* The calls of switchd *)

Does(w) ==
  /\ table' = w.table /\ taken' = w.taken /\ use' = w.use /\ total' = w.total
  /\ crowded' = (crowded \/ Cardinality(DOMAIN w.table) > 2)

\* __apply
Apply(p, l, c) ==
  /\ ~crashed
  /\ applied[p] = None
  /\ l \in DOMAIN table \/ Fits(World, c, NoUsage)
  /\ LET w == IF l \in DOMAIN table THEN World ELSE TableWritten(World, l, c)
     IN Does(Bound(w, p, l))
  /\ applied' = [applied EXCEPT ![p] = l]
  /\ UNCHANGED <<lost, crashed>>

\* __remove
Remove(p) ==
  LET l == applied[p]
  IN /\ ~crashed
     /\ l \in DOMAIN table
     /\ table[l].bound > MinBound
     /\ Does(DestroyedIfNeeded(Unbound(World, p, l), l))
     /\ applied' = [applied EXCEPT ![p] = None]
     /\ UNCHANGED <<lost, crashed>>

\* __replace: resources are checked as if the old table were gone, if one interface
\* has it, and once more when it is.
Replace(p, l, c) ==
  LET old  == applied[p]
      base == IF table[old].bound = 1 THEN Minus(NoUsage, use[table[old].index]) ELSE NoUsage
      w    == DestroyedIfNeeded(Unbound(World, p, old), old)
      made == IF l \in DOMAIN table THEN w ELSE TableWritten(w, l, c)
      goes == l \in DOMAIN table \/ Fits(w, c, NoUsage)
  IN /\ ~crashed
     /\ old \in DOMAIN table /\ l # old
     /\ table[old].bound > MinBound
     /\ l \in DOMAIN table \/ Fits(World, c, base)
     /\ Does(IF goes THEN Bound(made, p, l) ELSE w)
     /\ applied' = IF goes THEN [applied EXCEPT ![p] = l] ELSE applied
     /\ lost' = (lost \/ ~goes)
     /\ UNCHANGED crashed

\* __list_update: active_rules, which nothing counts up, is 0, so that no rule of the
\* old list is deleted; nor are the accounts brought up to date.
ListUpdate(l, c) ==
  /\ ~crashed
  /\ l \in DOMAIN table
  /\ Fits(World, c, Minus(NoUsage, use[table[l].index]))
  /\ crashed' = (c.rules > MaxRules)
  /\ table' = [table EXCEPT ![l].lists = @ \cup {c}]
  /\ UNCHANGED <<taken, use, total, applied, crowded, lost>>

Init ==
  /\ table = [l \in {} |-> None]
  /\ taken = {}
  /\ use = [i \in Index |-> NoUsage]
  /\ total = NoUsage
  /\ applied = [p \in Ports |-> None]
  /\ crowded = FALSE /\ lost = FALSE /\ crashed = FALSE

Next ==
  \/ \E p \in Ports :
       \/ \E l \in Lists, c \in Contents : Apply(p, l, c) \/ Replace(p, l, c)
       \/ Remove(p)
  \/ \E l \in Lists, c \in Contents : ListUpdate(l, c)

Spec == Init /\ [][Next]_vars

-----------------------------------------------------------------------------
(* Properties.  A row's made is the list the table was written with, its   *)
(* lists are those whose rules are in the container.                       *)

Row == [index : Index, bound : Int, made : Contents, lists : SUBSET Contents]

\* The variables have the types of the C declarations.
TypeOK ==
  /\ DOMAIN table \subseteq Lists /\ table \in [DOMAIN table -> Row]
  /\ taken \subseteq Index
  /\ use \in [Index -> Usage] /\ total \in Usage
  /\ applied \in [Ports -> Lists \cup {None}]
  /\ crowded \in BOOLEAN /\ lost \in BOOLEAN /\ crashed \in BOOLEAN

\* One element for each unit of f, so that the cardinality is the sum of f.
Units(f) == UNION {{i} \X (1..f[i]) : i \in DOMAIN f}

\* The accounts of all indices add up to the global one, which stays within the
\* counters there are: whatever tables share an index, and whatever calls fail.
AccountsAddUp ==
  /\ total.rules = Cardinality(Units([i \in Index |-> use[i].rules]))
  /\ total.counters = Cardinality(Units([i \in Index |-> use[i].counters]))
  /\ total.counters <= MaxCounters

\* "Assign a local index to a created table. This is used later for resource
\* accounting": each table has an index of its own, whose account is what the table
\* was written with, and no other index has an account.
AccountsAreExact ==
  /\ \A k, l \in DOMAIN table : table[k].index = table[l].index => k = l
  /\ \A l \in DOMAIN table : use[table[l].index] = table[l].made
  /\ \A i \in Index : (\A l \in DOMAIN table : table[l].index # i) => use[i] = NoUsage

\* Two tables at a time are accounted for exactly, in whatever order they came, went
\* and replaced each other.
TwoTablesAreExact == ~crowded => AccountsAreExact

\* A table counts the ports that have its list, and is there as long as a port has
\* it: until a replacement failed after it unbound the old list.
TablesFollowPorts ==
  ~lost =>
    /\ \A p \in Ports \ L3Only : applied[p] \in DOMAIN table \cup {None}
    /\ \A l \in DOMAIN table :
         /\ table[l].bound = Cardinality({p \in Ports \ L3Only : applied[p] = l})
         /\ \E p \in Ports : applied[p] = l

\* "removes rules and installs the new list" (the comment in __list_update): a table
\* has the rules of one list.
RulesAreOneList == ~crashed => \A l \in DOMAIN table : Cardinality(table[l].lists) = 1
=============================================================================
