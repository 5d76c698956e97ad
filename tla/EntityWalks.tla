----------------------------- MODULE EntityWalks -----------------------------
(***************************************************************************)
(* The walks over a registry: each_entity(), and the iteration of a view.  *)
(* Both go from the last position to the first; their body is the program, *)
(* which may use the registry (module Entities) before it goes on. One     *)
(* walk at a time, started outside of all calls.                           *)
(*                                                                         *)
(* A view's iterator allows that the current entity is erased from the     *)
(* pool it walks (storage.hpp:24); a program that erased another leaves    *)
(* the loop.                                                               *)
(***************************************************************************)
EXTENDS Entities

VARIABLE walk  \* the walk in progress, or NoWalk

walkVars == <<vars, walk>>

\* over: 0 for the table, or the pool the view walks; all: the table had no
\* free number; has, lacks: the pools of the view; pos: the position of the
\* body, beyond the last before the first; current: what the body was handed.
\* due: in it since the start and not yet handed; seen: handed.  (history)
Walk(over, all, has, lacks, pos, due) ==
  [over |-> over, all |-> all, has |-> has, lacks |-> lacks, pos |-> pos,
   current |-> Null, due |-> due, seen |-> {}]

NoWalk == Walk(0, FALSE, {}, {}, 0, {})

InView(e, has, lacks) ==
  (\A p \in has : contains(p, e)) /\ ~ (\E p \in lacks : contains(p, e))

Held(p) == {packed[p][i] : i \in DOMAIN packed[p]}

-----------------------------------------------------------------------------
each_entity ==
  /\ walk' = Walk(0, free_list = 0, {}, {}, Len(entities) + 1, Valid)
  /\ UNCHANGED vars

\* The smallest of the view's pools is walked.
view(has, lacks, base) ==
  /\ \A p \in has : Len(packed[base]) <= Len(packed[p])
  /\ walk' = Walk(base, FALSE, has, lacks, Len(packed[base]) + 1,
                  {e \in Held(base) : InView(e, has, lacks)})
  /\ UNCHANGED vars

\* Whether the walk hands what is at position i to its body.
Handed(i) ==
  IF walk.over = 0
  THEN walk.all \/ entities[i].number = i
  ELSE InView(packed[walk.over][i], walk.has \ {walk.over}, walk.lacks)

\* The positions before pos that the walk still stops at.
SkippingOne == {i \in 1 .. walk.pos - 2 : Handed(i)}               \* defect
Stops == {i \in 1 .. walk.pos - 1 : Handed(i)}

At(i) == IF walk.over = 0 THEN entities[i] ELSE packed[walk.over][i]

WalkNext ==
  /\ walk.pos # 0
  /\ walk' = IF Stops = {} THEN NoWalk
             ELSE LET i == CHOOSE j \in Stops : \A k \in Stops : k <= j
                  IN [walk EXCEPT !.pos = i, !.current = At(i),
                                  !.due = @ \ {At(i)}, !.seen = @ \cup {At(i)}]
  /\ UNCHANGED vars

\* The body's effect on the walk: what is due is in it all along.
Followed ==
  walk' = IF walk.over = 0
          THEN [walk EXCEPT !.due = @ \cap Valid']
          ELSE IF \A p \in {walk.over} : Held(p) \ Held(p)' \subseteq {walk.current}
               THEN [walk EXCEPT !.due =
                       {e \in @ : /\ \A p \in walk.has : e \in Held(p)'
                                  /\ \A p \in walk.lacks : e \notin Held(p)'}]
               ELSE NoWalk

-----------------------------------------------------------------------------
WalksInit == Init /\ walk = NoWalk

Start ==
  /\ walk.pos = 0
  /\ \/ each_entity
     \/ \E has, lacks \in SUBSET Pools : \E base \in has :
          has \cap lacks = {} /\ view(has, lacks, base)

\* The body counts as one callback for the bound MaxDepth.
Use ==
  /\ walk.pos # 0 => walk.seen # {}
  /\ CallStep \/ (ProgramStep /\ (walk.pos # 0 => Depth + 1 < MaxDepth))
  /\ IF walk.pos = 0 THEN UNCHANGED walk ELSE Followed

WalksNext == Use \/ (calls = <<>> /\ (Start \/ WalkNext))

WalksSpec == WalksInit /\ [][WalksNext]_walkVars

-----------------------------------------------------------------------------
\* Whatever the body does to the registry, the entities that are in a walk
\* from its start and stay in it are still ahead until they are handed to the
\* body, and none is handed to it twice.
WalksFaithful ==
  walk.pos # 0 =>
    /\ walk.due \subseteq {At(i) : i \in 1 .. walk.pos - 1}
    /\ ~ walk.all => walk.seen \cap {At(i) : i \in Stops} = {}
    /\ walk.over # 0 => walk.pos - 1 <= Len(packed[walk.over])
=============================================================================
