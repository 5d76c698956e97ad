------------------------------- MODULE Entities -------------------------------
(***************************************************************************)
(* nodec::entities: BasicRegistry and the BasicStorage of each component   *)
(* type. One thread uses a registry; the difficulty is that a storage runs *)
(* callbacks in the middle of emplace() and erase(), and that those call   *)
(* the registry again.                                                     *)
(*                                                                         *)
(* Identifiers number entities from 1, and 0 stands for the null entity;   *)
(* positions count from 1. A pool that was never made is an empty one.     *)
(* A component is known by the entity it was made for.                     *)
(*                                                                         *)
(* Left to the program, as the assertions of storage.hpp do: a callback of *)
(* element_destroyed does not erase again what is being erased, and none   *)
(* gives an entity that is being destroyed a component of a pool its       *)
(* removal has passed.                                                     *)
(***************************************************************************)
EXTENDS Naturals, Sequences, FiniteSets, Functions

CONSTANTS
  MaxEntities,  \* the numbers there are (2^20 - 1)
  Versions,     \* the versions an identifier can hold (2^12)
  PoolCount,    \* component types
  MaxCreated,   \* entities ever created (bound)
  MaxDepth      \* how deep callbacks are nested (bound)

ASSUME EntitiesAssumption ==
  /\ MaxEntities \in Nat /\ Versions \in Nat /\ PoolCount \in Nat
  /\ Versions >= 2

Numbers == 1 .. MaxEntities
Pools == 1 .. PoolCount

\* The version no entity in use has.
Tombstone == Versions - 1

Identifier == [number : Numbers \cup {0}, version : 0 .. Tombstone - 1]
Null == [number |-> 0, version |-> 0]

VARIABLES
  entities,   \* entities: by number, the identifier or a link of the free list
  free_list,  \* free_list: its first number, or 0
  packed,     \* packed_ of each pool: the entities that have the component
  instances,  \* instances_ of each pool: the components, by what they were made for
  sparse,     \* sparse_table_ of each pool: position by number, or 0
  calls,      \* the calls in progress, outermost first
  freed,      \* the free numbers, the last one released first  (history)
  lives       \* how often each number was used                 (history)

tableVars == <<entities, free_list, freed, lives>>
poolVars == <<packed, instances, sparse>>
vars == <<tableVars, poolVars, calls>>

-----------------------------------------------------------------------------
(* Calls *)

\* constructed, destroyed: emplace() and erase(), while callbacks run.
\* destroy: destroy_entity() with pools 1 .. pool left to visit.
\* clear: clear() with pools 1 .. pool left; clear_pool: one pool of it.
\* release_used, release_all: clear()'s each_entity() with 1 .. pos left.
Frame == [op : {"constructed", "destroyed", "destroy", "clear", "clear_pool",
                "release_used", "release_all"},
          pool : Pools \cup {0}, id : Identifier, pos : Nat]

Call(op, p, id, pos) == [op |-> op, pool |-> p, id |-> id, pos |-> pos]

Callback == {"constructed", "destroyed"}

Top == calls[Len(calls)]
Running(op) == calls # <<>> /\ Top.op = op
Return == calls' = SubSeq(calls, 1, Len(calls) - 1)
AtPool(p) == [calls EXCEPT ![Len(calls)].pool = p]
AtPos(i) == [calls EXCEPT ![Len(calls)].pos = i]

\* The program has control: outside of all calls, or in a callback.
InProgram == calls # <<>> => Top.op \in Callback

Depth == Cardinality({k \in DOMAIN calls : calls[k].op \in Callback})
MayNest == Depth < MaxDepth

\* The entities whose erasure from pool p is in progress.
BeingErased(p) ==
  {calls[k].id : k \in {i \in DOMAIN calls :
                          calls[i].op = "destroyed" /\ calls[i].pool = p}}

\* A destruction of e, or a clear(), has passed pool p.
Passed(p, e) ==
  \E k \in DOMAIN calls :
    \/ calls[k].op = "destroy" /\ calls[k].id = e /\ p > calls[k].pool
    \/ calls[k].op = "clear" /\ p > calls[k].pool + 1

-----------------------------------------------------------------------------
(* Identifiers *)

is_valid(e) == e.number \in DOMAIN entities /\ entities[e.number] = e

Valid == {entities[n] : n \in {m \in DOMAIN entities : entities[m].number = m}}

\* The version a number gets when it is released; the tombstone is skipped
\* and what exceeds the width is lost.
NextOrTombstone(version) == (version + 1) % Versions               \* defect
SameVersion(version) == version                                    \* defect
NextVersion(version) ==
  (IF version + 1 = Tombstone THEN version + 2 ELSE version + 1) % Versions

generate_identifier ==
  /\ free_list = 0
  /\ Len(entities) < MaxEntities
  /\ entities' = Append(entities, [number |-> Len(entities) + 1, version |-> 0])
  /\ lives' = [lives EXCEPT ![Len(entities) + 1] = @ + 1]
  /\ UNCHANGED <<free_list, freed>>

recycle_identifier ==
  /\ free_list # 0
  /\ free_list' = entities[free_list].number
  /\ entities' = [entities EXCEPT ![free_list].number = free_list]
  /\ lives' = [lives EXCEPT ![free_list] = @ + 1]
  /\ freed' = Tail(freed)

\* What the table holds of e once it is released: a link to the number that
\* was released before it.
Unlinked(e) == [number |-> 0, version |-> NextVersion(e.version)]  \* defect
Link(e) == [number |-> free_list, version |-> NextVersion(e.version)]

release_entity(e) ==
  /\ entities' = [entities EXCEPT ![e.number] = Link(e)]
  /\ free_list' = e.number
  /\ freed' = <<e.number>> \o freed
  /\ UNCHANGED lives

create_entity ==
  /\ InProgram
  /\ FoldFunction(+, 0, lives) < MaxCreated
  /\ generate_identifier \/ recycle_identifier
  /\ UNCHANGED <<poolVars, calls>>

-----------------------------------------------------------------------------
(* Storages *)

contains(p, e) ==
  e.number # 0 /\ sparse[p][e.number] # 0 /\ packed[p][sparse[p][e.number]] = e

\* The component it has in pool p, or Null.
try_get(p, e) ==
  IF sparse[p][e.number] = 0 THEN Null ELSE instances[p][sparse[p][e.number]]

\* The pools and components that visit() hands to its function.
visit(e) == {<<p, try_get(p, e)>> : p \in {q \in Pools : try_get(q, e) # Null}}

\* An entity that has the component already keeps it.
emplace(p, e) ==
  /\ sparse[p][e.number] = 0
  /\ ~ Passed(p, e)
  /\ sparse' = [sparse EXCEPT ![p][e.number] = Len(instances[p]) + 1]
  /\ instances' = [instances EXCEPT ![p] = Append(@, e)]
  /\ packed' = [packed EXCEPT ![p] = Append(@, e)]
  /\ calls' = Append(calls, Call("constructed", p, e, Len(instances[p]) + 1))
  /\ UNCHANGED tableVars

emplace_component(p, e) == InProgram /\ MayNest /\ is_valid(e) /\ emplace(p, e)

EmplaceReturns ==
  /\ Running("constructed")
  /\ Return
  /\ UNCHANGED <<tableVars, poolVars>>

Erasing(p, e) == Call("destroyed", p, e, 0)

remove_component(p, e) ==
  /\ InProgram /\ MayNest
  /\ contains(p, e)
  /\ e \notin BeingErased(p)
  /\ calls' = Append(calls, Erasing(p, e))
  /\ UNCHANGED <<tableVars, poolVars>>

Moved(seq, i) == SubSeq([seq EXCEPT ![i] = seq[Len(seq)]], 1, Len(seq) - 1)

\* The positions once the last entity, with number last, is at pos instead of
\* number n: the two may be the same.
ErasedFirst(positions, n, last, pos) ==
  [[positions EXCEPT ![n] = 0] EXCEPT ![last] = pos]               \* defect
Relocated(positions, n, last, pos) ==
  [[positions EXCEPT ![last] = pos] EXCEPT ![n] = 0]

\* The callbacks have returned: the last component takes the place.
EraseReturns ==
  /\ Running("destroyed")
  /\ LET p == Top.pool
         n == Top.id.number
         pos == sparse[p][n]
         last == packed[p][Len(packed[p])].number
     IN /\ packed' = [packed EXCEPT ![p] = Moved(@, pos)]
        /\ instances' = [instances EXCEPT ![p] = Moved(@, pos)]
        /\ sparse' = [sparse EXCEPT ![p] = Relocated(@, n, last, pos)]
  /\ Return
  /\ UNCHANGED tableVars

-----------------------------------------------------------------------------
(* Whole entities, whole registries *)

\* The loops over the pools go from the last to the first.
AllButLast == PoolCount - 1                                        \* defect
FromPool == PoolCount

destroy_entity(e) ==
  /\ InProgram /\ MayNest
  /\ is_valid(e)
  /\ \A p \in Pools : e \notin BeingErased(p)
  /\ calls' = Append(calls, Call("destroy", FromPool, e, 0))
  /\ UNCHANGED <<tableVars, poolVars>>

\* The next pool of remove_all_components().
DestroyErases ==
  /\ Running("destroy") /\ Top.pool # 0
  /\ LET rest == AtPool(Top.pool - 1) IN
     calls' = IF contains(Top.pool, Top.id)
              THEN Append(rest, Erasing(Top.pool, Top.id))
              ELSE rest
  /\ UNCHANGED <<tableVars, poolVars>>

DestroyReleases ==
  /\ Running("destroy") /\ Top.pool = 0
  /\ release_entity(Top.id)
  /\ Return
  /\ UNCHANGED poolVars

\* What clear() erases must not be in the middle of an erasure.
clear ==
  /\ InProgram /\ MayNest
  /\ \A p \in Pools : BeingErased(p) = {}
  /\ calls' = Append(calls, Call("clear", FromPool, Null, 0))
  /\ UNCHANGED <<tableVars, poolVars>>

ClearNextPool ==
  /\ Running("clear") /\ Top.pool # 0
  /\ calls' = Append(AtPool(Top.pool - 1),
                     Call("clear_pool", Top.pool, Null, 0))
  /\ UNCHANGED <<tableVars, poolVars>>

clear_component(p) ==
  /\ InProgram /\ MayNest
  /\ BeingErased(p) = {}
  /\ packed[p] # <<>>
  /\ calls' = Append(calls, Call("clear_pool", p, Null, 0))
  /\ UNCHANGED <<tableVars, poolVars>>

ClearPoolErases ==
  /\ Running("clear_pool")
  /\ IF packed[Top.pool] # <<>>
     THEN calls' = Append(calls, Erasing(Top.pool, Head(packed[Top.pool])))
     ELSE Return
  /\ UNCHANGED <<tableVars, poolVars>>

\* The pools are clear; with no free number every entity is taken for used.
ClearPoolsDone ==
  /\ Running("clear") /\ Top.pool = 0
  /\ LET op == IF free_list = 0 THEN "release_all" ELSE "release_used" IN
     calls' = [calls EXCEPT ![Len(calls)] = Call(op, 0, Null, Len(entities))]
  /\ UNCHANGED <<tableVars, poolVars>>

ClearReleases ==
  /\ Running("release_used") \/ Running("release_all")
  /\ IF Top.pos = 0
     THEN Return /\ UNCHANGED tableVars
     ELSE /\ calls' = AtPos(Top.pos - 1)
          /\ IF Top.op = "release_all" \/ entities[Top.pos].number = Top.pos
             THEN release_entity(entities[Top.pos])
             ELSE UNCHANGED tableVars
  /\ UNCHANGED poolVars

\* A callback throws; the program catches it outside of some of the calls.
CallbackThrows ==
  /\ calls # <<>> /\ InProgram
  /\ \E k \in 0 .. Len(calls) - 1 :
       /\ k # 0 => calls[k].op \in Callback
       /\ calls' = SubSeq(calls, 1, k)
  /\ UNCHANGED <<tableVars, poolVars>>

-----------------------------------------------------------------------------
Init ==
  /\ entities = <<>> /\ free_list = 0
  /\ packed = [p \in Pools |-> <<>>]
  /\ instances = [p \in Pools |-> <<>>]
  /\ sparse = [p \in Pools |-> [n \in Numbers |-> 0]]
  /\ calls = <<>> /\ freed = <<>>
  /\ lives = [n \in Numbers |-> 0]

ProgramStep ==
  \/ create_entity
  \/ clear
  \/ \E e \in Identifier : destroy_entity(e)
  \/ \E p \in Pools : clear_component(p)
  \/ \E p \in Pools, e \in Identifier : emplace_component(p, e) \/ remove_component(p, e)

CallStep ==
  \/ EmplaceReturns \/ EraseReturns
  \/ DestroyErases \/ DestroyReleases
  \/ ClearNextPool \/ ClearPoolErases \/ ClearPoolsDone \/ ClearReleases
  \/ CallbackThrows

Next == ProgramStep \/ CallStep

Spec == Init /\ [][Next]_vars

-----------------------------------------------------------------------------
TypeOK ==
  /\ entities \in Seq(Identifier) /\ Len(entities) <= MaxEntities
  /\ free_list \in Numbers \cup {0}
  /\ packed \in [Pools -> Seq(Identifier)]
  /\ instances \in [Pools -> Seq(Identifier)]
  /\ sparse \in [Pools -> [Numbers -> Nat]]
  /\ calls \in Seq(Frame)
  /\ freed \in Seq(Numbers)
  /\ lives \in [Numbers -> Nat]

IsFree(n) == \E i \in DOMAIN freed : freed[i] = n

\* The free list threaded through the table by recycle_identifier() and
\* release_entity() has every number that is not in use, each once, in the
\* order they were released: no identifier is handed out twice or lost.
FreeListExact ==
  /\ free_list = IF freed = <<>> THEN 0 ELSE freed[1]
  /\ \A i \in DOMAIN freed :
       /\ freed[i] \in DOMAIN entities
       /\ entities[freed[i]].number = IF i = Len(freed) THEN 0 ELSE freed[i + 1]
       /\ \A j \in DOMAIN freed : freed[i] = freed[j] => i = j
  /\ \A n \in DOMAIN entities : entities[n].number = n <=> ~ IsFree(n)

\* What emplace() and erase() keep in step in one pool: the entity, its
\* component and the position its number leads to.
PoolExact(p) ==
  /\ Len(instances[p]) = Len(packed[p])
  /\ \A i \in DOMAIN packed[p] :
       /\ packed[p][i].number \in Numbers
       /\ sparse[p][packed[p][i].number] = i
       /\ instances[p][i] = packed[p][i]
  /\ \A n \in Numbers : sparse[p][n] # 0 =>
       sparse[p][n] \in DOMAIN packed[p] /\ packed[p][sparse[p][n]].number = n

\* However callbacks nest, every pool's arrays stay in step.
PoolsExact == \A p \in Pools : PoolExact(p)

\* Components belong to entities in use: what destroy_entity() and clear()
\* release has no component left, so that the next user of the number finds
\* none, and the assertions on versions in emplace() and try_get() hold. An
\* entity is shown those that were made for it.
ComponentsOwned ==
  /\ \A p \in Pools : \A i \in DOMAIN packed[p] : is_valid(packed[p][i])
  /\ \A e \in Valid : \A component \in visit(e) : component[2] = e

\* The reference emplace() returns after its callbacks is to the component
\* made for its entity.
EmplaceReturnsOwn ==
  Running("constructed") =>
    /\ Top.pos \in DOMAIN instances[Top.pool]
    /\ instances[Top.pool][Top.pos] = Top.id

\* The identifiers in use, as module Identifiers has them: what is handed out
\* is in use by nobody else, and one that was destroyed names no other entity
\* until its number was used as often as there are versions.
Ids == INSTANCE Identifiers WITH used <- Valid, Cycle <- Versions - 1
ImplementsIdentifiers == Ids!Spec
=============================================================================
