--------------------------- MODULE ResourceRegistry ---------------------------
(***************************************************************************)
(* nodec::resource_management::ResourceRegistry                            *)
(* (include/nodec/resource_management/resource_registry.hpp): the block of *)
(* one resource type, shared by threads that call get_resource() and       *)
(* lookup_name(), with either load policy.                                 *)
(*                                                                         *)
(* A call looks into dict under one mutex and into loading_futures under   *)
(* another; each of these critical sections is an action. A load runs on   *)
(* the caller's thread (Direct) or on one of its own that async_loader     *)
(* starts while loading_futures is locked (Async). Its loader may ask the  *)
(* registry for the resource it needs and wait for it.                     *)
(*                                                                         *)
(* A load makes one object at most, so a load also stands for its object.  *)
(* The programs here keep the future of a call until it is ready.          *)
(***************************************************************************)
EXTENDS FiniteSets

CONSTANTS
  Callers,    \* threads of the program
  Names,      \* resource names
  Loads,      \* loads, each used once (bound)
  Addresses,  \* where objects live; reused when an object is gone
  Nothing,    \* no load, no name, no object (null)
  Needs       \* the name that the loader of a name asks for, or Nothing

ASSUME RegistryAssumption ==
  /\ Callers \cap Loads = {}
  /\ Nothing \notin Loads \union Names \union Addresses
  /\ Needs \in [Names -> Names \union {Nothing}]

Actors == Callers \union Loads
Policies == {"Async", "Direct"}

VARIABLES
  dict,      \* the weak reference under each name
  loading,   \* loading_futures
  inverted,  \* inverted_dict, from address to name
  stage,     \* where each load is
  name,      \* what it loads
  policy,    \* on which thread
  addr,      \* the address of its object; Nothing before, and for null
  ready,     \* loads whose future has a value or an exception
  pc,        \* where the call of each actor is; a load calls for what it needs
  asks,      \* the name it asks for
  ticket,    \* the future it holds
  holds,     \* the object each caller keeps
  before,    \* loads that had ended when a call looked into dict  (history)
  known      \* the same of the call that began a load              (history)

tableVars == <<dict, loading, inverted>>
loadVars  == <<stage, name, policy, addr, ready, known>>
callVars  == <<pc, asks, ticket, holds, before>>
vars == <<tableVars, loadVars, callVars>>

-----------------------------------------------------------------------------
(* Objects and their references *)

Ended == {l \in Loads : stage[l] \in {"erased", "over"}}

\* An object lives while its loader, its future or the program refers to it.
Alive(l) ==
  /\ addr[l] # Nothing
  /\ \/ stage[l] # "over"
     \/ loading[name[l]] = l
     \/ \E a \in Actors : ticket[a] = l
     \/ \E c \in Callers : holds[c] = l

\* dict[name].lock()
Current(n) == {l \in Loads : dict[n] = l /\ Alive(l)}

FreeAddresses == Addresses \ {addr[l] : l \in {k \in Loads : Alive(k)}}

-----------------------------------------------------------------------------
(* get_resource(name, policy) *)

\* A caller asks for any name, a loader first of all for what it needs.
MayAsk(a, n) == IF a \in Callers THEN pc[a] = "idle"
                ELSE pc[a] = "needs" /\ n = Needs[name[a]]

\* The call returns to a caller, who may keep the object, or to a loader, whose
\* use of it is left out.
Keep(a, l) == holds' = IF a \in Callers THEN [holds EXCEPT ![a] = l] ELSE holds

\* What the first critical section finds under the name.
Skipped(n) == {}                                               \* defect
Found(n) == Current(n)

\* The first critical section: a live resource is the answer.
LookDict(a, n) ==
  /\ MayAsk(a, n)
  /\ \/ \E l \in Found(n) :
          /\ Keep(a, l)
          /\ pc' = [pc EXCEPT ![a] = "idle"]
          /\ UNCHANGED <<asks, before>>
     \/ /\ Found(n) = {}
        /\ pc' = [pc EXCEPT ![a] = "missed"]
        /\ asks' = [asks EXCEPT ![a] = n]
        /\ before' = [before EXCEPT ![a] = Ended]
        /\ UNCHANGED holds
  /\ UNCHANGED <<tableVars, loadVars, ticket>>

\* The future that the second critical section finds under the name.
Unnoticed(a) == {}                                             \* defect
Registered(a) == {l \in Loads : loading[asks[a]] = l}

\* After it the name is no longer needed.
Forget(a) == /\ asks' = [asks EXCEPT ![a] = Nothing]
             /\ before' = [before EXCEPT ![a] = {}]

\* Someone is loading: the call gets the same future.
Join(a) ==
  /\ pc[a] = "missed"
  /\ \E l \in Registered(a) : ticket' = [ticket EXCEPT ![a] = l]
  /\ pc' = [pc EXCEPT ![a] = "waits"]
  /\ Forget(a)
  /\ UNCHANGED <<tableVars, loadVars, holds>>

\* No one is: a future is registered, for async_loader's thread or for the
\* load that this thread does next, with the mutex released.
Begin(a, l, p) ==
  /\ pc[a] = "missed"
  /\ Registered(a) = {} /\ stage[l] = "fresh"
  /\ loading' = [loading EXCEPT ![asks[a]] = l]
  /\ stage' = [stage EXCEPT ![l] = "loading"]
  /\ name' = [name EXCEPT ![l] = asks[a]]
  /\ policy' = [policy EXCEPT ![l] = p]
  /\ known' = [known EXCEPT ![l] = before[a]]
  /\ ticket' = [ticket EXCEPT ![a] = l]
  /\ pc' = [pc EXCEPT ![a] = IF p = "Direct" THEN "loads" ELSE "waits",
                      ![l] = IF Needs[asks[a]] = Nothing THEN "idle" ELSE "needs"]
  /\ Forget(a)
  /\ UNCHANGED <<dict, inverted, addr, ready, holds>>

\* async_loader itself throws: the entry stays without a valid future, which
\* is as good as none.
BeginThrows(a) ==
  /\ pc[a] = "missed"
  /\ Registered(a) = {}
  /\ pc' = [pc EXCEPT ![a] = "idle"]
  /\ Forget(a)
  /\ UNCHANGED <<tableVars, loadVars, ticket, holds>>

\* The future is ready, and a direct load over: the call has its answer, an
\* object, null or an exception.
Answer(a) ==
  /\ pc[a] \in {"waits", "loads"}
  /\ ticket[a] \in ready
  /\ pc[a] = "loads" => stage[ticket[a]] \in {"over", "failed"}
  /\ IF addr[ticket[a]] = Nothing THEN UNCHANGED holds ELSE Keep(a, ticket[a])
  /\ pc' = [pc EXCEPT ![a] = "idle"]
  /\ ticket' = [ticket EXCEPT ![a] = Nothing]
  /\ UNCHANGED <<tableVars, loadVars, asks, before>>

-----------------------------------------------------------------------------
(* A load *)

SetLate(l) == ready                                            \* defect
SetNow(l) == IF policy[l] = "Direct" THEN ready \union {l} ELSE ready

\* The loader has an object, or null. A direct load tells those who wait at
\* once; the future of an asynchronous one is ready when its thread ends.
LoaderReturns(l) ==
  /\ stage[l] = "loading" /\ pc[l] = "idle"
  /\ \E x \in FreeAddresses \union {Nothing} : addr' = [addr EXCEPT ![l] = x]
  /\ stage' = [stage EXCEPT ![l] = "made"]
  /\ ready' = SetNow(l)
  /\ UNCHANGED <<tableVars, name, policy, known, callVars>>

Leaked(l) == ready                                             \* defect
Broken(l) == ready \union {l}

\* The loader throws. No one calls on_loaded(), and the future stays.
LoaderFails(l) ==
  /\ stage[l] = "loading" /\ pc[l] = "idle"
  /\ stage' = [stage EXCEPT ![l] = "failed"]
  /\ ready' = Broken(l)
  /\ UNCHANGED <<tableVars, name, policy, addr, known, callVars>>

\* inverted_dict after on_loaded(). A null load also leaves an entry, under the
\* null address, which no object has.
InsertOnly(l) == IF addr[l] # Nothing /\ inverted[addr[l]] = Nothing     \* defect
                 THEN [inverted EXCEPT ![addr[l]] = name[l]] ELSE inverted
Renamed(l) == IF addr[l] # Nothing
              THEN [inverted EXCEPT ![addr[l]] = name[l]] ELSE inverted

\* on_loaded(), under dict_mutex.
Publish(l) ==
  /\ stage[l] = "made"
  /\ dict' = [dict EXCEPT ![name[l]] = l]
  /\ inverted' = Renamed(l)
  /\ stage' = [stage EXCEPT ![l] = "published"]
  /\ known' = [known EXCEPT ![l] = {}]
  /\ UNCHANGED <<loading, name, policy, addr, ready, callVars>>

\* on_loaded(), under loading_futures_mutex.
Erase(l) ==
  /\ stage[l] = "published"
  /\ loading' = [loading EXCEPT ![name[l]] = Nothing]
  /\ stage' = [stage EXCEPT ![l] = "erased"]
  /\ UNCHANGED <<dict, inverted, name, policy, addr, ready, known, callVars>>

\* The thread, or the direct call, returns the object.
Finish(l) ==
  /\ stage[l] = "erased"
  /\ stage' = [stage EXCEPT ![l] = "over"]
  /\ ready' = ready \union {l}
  /\ UNCHANGED <<tableVars, name, policy, addr, known, callVars>>

-----------------------------------------------------------------------------
(* The program *)

\* A caller drops its object.
Release(c) ==
  /\ holds[c] # Nothing
  /\ holds' = [holds EXCEPT ![c] = Nothing]
  /\ UNCHANGED <<tableVars, loadVars, pc, asks, ticket, before>>

\* lookup_name() of an object that is not the current one of the name under its
\* address erases the entry and finds nothing; otherwise it changes nothing.
LookupName(c) ==
  /\ pc[c] = "idle" /\ holds[c] # Nothing
  /\ LET x == addr[holds[c]]
     IN /\ inverted[x] # Nothing
        /\ holds[c] \notin Current(inverted[x])
        /\ inverted' = [inverted EXCEPT ![x] = Nothing]
  /\ UNCHANGED <<dict, loading, loadVars, callVars>>

-----------------------------------------------------------------------------
Init ==
  /\ dict = [n \in Names |-> Nothing] /\ loading = [n \in Names |-> Nothing]
  /\ inverted = [x \in Addresses |-> Nothing]
  /\ stage = [l \in Loads |-> "fresh"] /\ name = [l \in Loads |-> Nothing]
  /\ policy = [l \in Loads |-> "Async"] /\ addr = [l \in Loads |-> Nothing]
  /\ ready = {}
  /\ pc = [a \in Actors |-> "idle"] /\ asks = [a \in Actors |-> Nothing]
  /\ ticket = [a \in Actors |-> Nothing] /\ holds = [c \in Callers |-> Nothing]
  /\ before = [a \in Actors |-> {}] /\ known = [l \in Loads |-> {}]

LookLoading(a) == \/ Join(a) \/ BeginThrows(a)
                  \/ \E l \in Loads, p \in Policies : Begin(a, l, p)

Loading(l) == \/ LoaderReturns(l) \/ LoaderFails(l)
              \/ Publish(l) \/ Erase(l) \/ Finish(l)

Next ==
  \/ \E a \in Actors : LookLoading(a) \/ Answer(a) \/ \E n \in Names : LookDict(a, n)
  \/ \E l \in Loads : Loading(l)
  \/ \E c \in Callers : Release(c) \/ LookupName(c)

\* A call that began goes on, and so does a load on its thread; its loader
\* returns or throws. Nobody has to begin a call or to drop an object.
Fairness ==
  /\ \A a \in Actors : WF_vars(LookLoading(a)) /\ WF_vars(Answer(a))
  /\ \A l \in Loads : WF_vars(Loading(l)) /\ WF_vars(\E n \in Names : LookDict(l, n))

Spec == Init /\ [][Next]_vars
FairSpec == Spec /\ Fairness

-----------------------------------------------------------------------------
(* Properties *)

Stages == {"fresh", "loading", "made", "published", "erased", "over", "failed"}

\* Besides the types: when a future is ready, and who holds one.
TypeOK ==
  /\ dict \in [Names -> Loads \union {Nothing}]
  /\ loading \in [Names -> Loads \union {Nothing}]
  /\ inverted \in [Addresses -> Names \union {Nothing}]
  /\ stage \in [Loads -> Stages]
  /\ name \in [Loads -> Names \union {Nothing}]
  /\ policy \in [Loads -> Policies]
  /\ addr \in [Loads -> Addresses \union {Nothing}]
  /\ ready \subseteq Loads
  /\ pc \in [Actors -> {"idle", "needs", "missed", "waits", "loads"}]
  /\ asks \in [Actors -> Names \union {Nothing}]
  /\ ticket \in [Actors -> Loads \union {Nothing}]
  /\ holds \in [Callers -> Loads \union {Nothing}]
  /\ before \in [Actors -> SUBSET Loads]
  /\ known \in [Loads -> SUBSET Loads]
  /\ \A a \in Actors : ticket[a] # Nothing <=> pc[a] \in {"waits", "loads"}
  /\ \A l \in Loads : l \in ready <=>
       \/ stage[l] \in {"over", "failed"}
       \/ policy[l] = "Direct" /\ stage[l] \in {"made", "published", "erased"}

\* loading_futures holds the loads in progress and those that failed, each under
\* its name. So a name is loaded once at a time, the entry that on_loaded()
\* erases is that of its own load, and no future outlives its load there, which
\* would keep the object alive for ever.
LoadingExact ==
  \A n \in Names, l \in Loads :
    loading[n] = l <=> /\ name[l] = n
                       /\ stage[l] \in {"loading", "made", "published", "failed"}

\* inverted_dict knows the current object of each name, though addresses are
\* reused, lookups erase entries and later loads take a name over.
InverseAgrees ==
  \A n \in Names : \A l \in Current(n) : inverted[addr[l]] = n

\* A live object is replaced under its name only by a load whose call had begun
\* before the object's own load ended: it missed dict before on_loaded() and
\* found loading_futures empty after it. A later call finds the object.
ReplacesOnlyOverlapped ==
  [][\A n \in Names : \A k \in Current(n), l \in Loads :
       dict'[n] = l /\ l # k => k \notin known[l]]_vars

\* Every call is answered, whatever loaders throw, calls join or loaders ask
\* for, as long as no two names need each other.
EveryCallAnswered == \A a \in Actors : pc[a] # "idle" ~> pc[a] = "idle"
=============================================================================
