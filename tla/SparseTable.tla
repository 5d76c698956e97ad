----------------------------- MODULE SparseTable -----------------------------
(***************************************************************************)
(* nodec::containers::BasicSparseTable (containers/sparse_table.hpp): an   *)
(* array with holes, kept in groups. A group has a bitmap of the buckets   *)
(* that are occupied, and their values one after another; a bucket's place *)
(* among them is the number of set bits before its own.                    *)
(*                                                                         *)
(* A byte of a bitmap is the set of its bits. Indices count from 0, as in  *)
(* the code, and places from 1.                                            *)
(***************************************************************************)
EXTENDS Naturals, Sequences, FiniteSets, SequencesExt, FiniteSetsExt

CONSTANTS
  Indices,    \* indices that are used (bound)
  Values,     \* what the buckets hold
  GroupSize,  \* GROUP_SIZE (48)
  None        \* no value (nullptr), no group

TableAssumption ==
  /\ Indices \subseteq Nat /\ GroupSize \in Nat \ {0}
  /\ None \notin [bitmap : [0 .. (GroupSize - 1) \div 8 -> SUBSET (0 .. 7)],
                buckets : Seq(Values)]

VARIABLES
  groups,  \* groups_: a group or None, by its index plus one
  content  \* what was put where  (history)

vars == <<groups, content>>

EmptyGroup == [bitmap |-> [byte \in 0 .. (GroupSize - 1) \div 8 |-> {}],
               buckets |-> <<>>]

group_index(i) == i \div GroupSize
pos_in_group(i) == i % GroupSize

-----------------------------------------------------------------------------
(* A group *)

bm_test(g, pos) == pos % 8 \in g.bitmap[pos \div 8]

\* The loop leaves the last byte whole when pos is a multiple of 8.
InLastByte(g, pos) ==
  LET whole == IF pos > 8 THEN (pos - 1) \div 8 ELSE 0
      counts == {b \in g.bitmap[whole] : b < pos - 8 * whole}
  IN Cardinality(counts)                                           \* defect

pos_to_offset(g, pos) ==
  LET whole == IF pos > 8 THEN (pos - 1) \div 8 ELSE 0
      counts == {n \in 0 .. 8 * whole + 7 :
                   bm_test(g, n) /\ (n \div 8 = whole => n % 8 < pos - 8 * whole)}
  IN Cardinality(counts)

emplace(g, pos, v) ==
  IF bm_test(g, pos) THEN g
  ELSE [bitmap |-> [g.bitmap EXCEPT ![pos \div 8] = @ \cup {pos % 8}],
        buckets |-> InsertAt(g.buckets, pos_to_offset(g, pos) + 1, v)]

erase_bucket(g, pos) ==
  IF ~ bm_test(g, pos) THEN g
  ELSE [bitmap |-> [g.bitmap EXCEPT ![pos \div 8] = @ \ {pos % 8}],
        buckets |-> RemoveAt(g.buckets, pos_to_offset(g, pos) + 1)]

-----------------------------------------------------------------------------
(* The table *)

group_assured(i) ==
  LET old == [k \in 1 .. Max({Len(groups), group_index(i) + 1}) |->
                IF k \in DOMAIN groups THEN groups[k] ELSE None]
  IN IF old[group_index(i) + 1] # None THEN old
     ELSE [old EXCEPT ![group_index(i) + 1] = EmptyGroup]

group_if_exists(i) ==
  IF group_index(i) + 1 \in DOMAIN groups THEN groups[group_index(i) + 1] ELSE None

try_get(i) ==
  LET g == group_if_exists(i) IN
  IF g = None THEN None
  ELSE IF bm_test(g, pos_in_group(i))
       THEN g.buckets[pos_to_offset(g, pos_in_group(i)) + 1]
       ELSE None

\* table[i] = v: the bucket is made if it is missing, and assigned.
Assign(i, v) ==
  /\ LET all == group_assured(i)
         g == emplace(all[group_index(i) + 1], pos_in_group(i), v)
         at == pos_to_offset(g, pos_in_group(i)) + 1
     IN groups' = [all EXCEPT ![group_index(i) + 1] =
                     [g EXCEPT !.buckets[at] = v]]
  /\ content' = [content EXCEPT ![i] = v]

erase(i) ==
  /\ group_if_exists(i) # None
  /\ groups' = [groups EXCEPT ![group_index(i) + 1] =
                  erase_bucket(@, pos_in_group(i))]
  /\ content' = [content EXCEPT ![i] = None]

-----------------------------------------------------------------------------
Init == groups = <<>> /\ content = [i \in Indices |-> None]

Next == \E i \in Indices : erase(i) \/ \E v \in Values : Assign(i, v)

Spec == Init /\ [][Next]_vars

-----------------------------------------------------------------------------
\* At every index the table finds what was last put there and not erased:
\* inserting and erasing move the other values of a group along with their
\* place, across the boundaries of bytes and groups.
FindsContent == \A i \in Indices : try_get(i) = content[i]
=============================================================================
