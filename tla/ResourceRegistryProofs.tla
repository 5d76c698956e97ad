------------------------ MODULE ResourceRegistryProofs ------------------------
(***************************************************************************)
(* ResourceRegistry for any callers, names, loads and addresses, and       *)
(* whatever loaders need: its types, one load of a name at a time, an      *)
(* inverse table that agrees with the table, and when a live object is     *)
(* replaced. These are safety properties; that every call is answered is   *)
(* model-checked.                                                          *)
(***************************************************************************)
EXTENDS ResourceRegistry, TLAPS

-----------------------------------------------------------------------------
(* Types *)

\* A load calls the registry only while its loader runs, so that a fresh load
\* has no call, and a call that missed has a name.
CallInv ==
  /\ \A l \in Loads : pc[l] # "idle" => stage[l] = "loading"
  /\ \A a \in Actors : pc[a] = "missed" => asks[a] \in Names
TypeInv == TypeOK /\ CallInv

LEMMA TypeInit == Init => TypeInv
BY RegistryAssumption DEF Init, TypeInv, TypeOK, CallInv, Stages, Policies, Actors

LEMMA LookDictType ==
  ASSUME TypeInv, NEW a \in Actors, NEW n \in Names, LookDict(a, n)
  PROVE  TypeInv'
<1> USE DEF TypeInv, TypeOK, CallInv
<1>1. a \in Loads => pc[a] = "needs"
  BY RegistryAssumption DEF LookDict, MayAsk
<1>2. pc[a] \in {"idle", "needs"}
  BY DEF LookDict, MayAsk
<1>3. UNCHANGED <<tableVars, loadVars, ticket>>
  BY DEF LookDict
<1>4. CASE \E l \in Found(n) : /\ Keep(a, l)
                               /\ pc' = [pc EXCEPT ![a] = "idle"]
                               /\ UNCHANGED <<asks, before>>
  <2>1. holds' \in [Callers -> Loads \union {Nothing}]
    BY <1>4 DEF Keep, Found, Current
  <2>2. QED
    BY <1>2, <1>3, <1>4, <2>1 DEF tableVars, loadVars
<1>5. CASE /\ pc' = [pc EXCEPT ![a] = "missed"]
           /\ asks' = [asks EXCEPT ![a] = n]
           /\ before' = [before EXCEPT ![a] = Ended]
           /\ UNCHANGED holds
  BY <1>1, <1>2, <1>3, <1>5 DEF tableVars, loadVars, Ended
<1>6. QED
  BY <1>4, <1>5 DEF LookDict

LEMMA JoinType ==
  ASSUME TypeInv, NEW a \in Actors, Join(a)
  PROVE  TypeInv'
BY RegistryAssumption DEF Join, Forget, Registered, TypeInv, TypeOK, CallInv, tableVars, loadVars

LEMMA BeginThrowsType ==
  ASSUME TypeInv, NEW a \in Actors, BeginThrows(a)
  PROVE  TypeInv'
BY RegistryAssumption DEF BeginThrows, Forget, TypeInv, TypeOK, CallInv, tableVars, loadVars

LEMMA BeginType ==
  ASSUME TypeInv, NEW a \in Actors, NEW l \in Loads, NEW p \in Policies, Begin(a, l, p)
  PROVE  TypeInv'
<1> USE DEF TypeInv, TypeOK, CallInv
<1>1. pc[l] = "idle" /\ a # l /\ l \in Actors
  BY DEF Begin, Actors
<1>2. \E s \in {"loads", "waits"}, t \in {"idle", "needs"} :
        pc' = [pc EXCEPT ![a] = s, ![l] = t]
  BY DEF Begin
<1>3. /\ dict' \in [Names -> Loads \union {Nothing}]
      /\ loading' \in [Names -> Loads \union {Nothing}]
      /\ inverted' \in [Addresses -> Names \union {Nothing}]
      /\ addr' \in [Loads -> Addresses \union {Nothing}]
      /\ holds' \in [Callers -> Loads \union {Nothing}]
  BY DEF Begin
<1>4. /\ stage' \in [Loads -> Stages]
      /\ name' \in [Loads -> Names \union {Nothing}]
      /\ policy' \in [Loads -> Policies]
      /\ known' \in [Loads -> SUBSET Loads]
  BY DEF Begin, Stages
<1>5. /\ asks' \in [Actors -> Names \union {Nothing}]
      /\ before' \in [Actors -> SUBSET Loads]
      /\ ticket' \in [Actors -> Loads \union {Nothing}]
      /\ pc' \in [Actors -> {"idle", "needs", "missed", "waits", "loads"}]
  BY <1>2 DEF Begin, Forget
<1>6. \A b \in Actors : ticket'[b] # Nothing <=> pc'[b] \in {"waits", "loads"}
  BY <1>1, <1>2, RegistryAssumption DEF Begin
<1>7. ready' \subseteq Loads /\ \A k \in Loads : k \in ready' <=>
        \/ stage'[k] \in {"over", "failed"}
        \/ policy'[k] = "Direct" /\ stage'[k] \in {"made", "published", "erased"}
  BY DEF Begin
<1>8. CallInv'
  BY <1>1, <1>2 DEF Begin, Forget, Actors
<1>9. QED
  BY <1>3, <1>4, <1>5, <1>6, <1>7, <1>8

LEMMA AnswerType ==
  ASSUME TypeInv, NEW a \in Actors, Answer(a)
  PROVE  TypeInv'
<1> USE DEF TypeInv, TypeOK, CallInv
<1>1. holds' \in [Callers -> Loads \union {Nothing}]
  BY DEF Answer, Keep
<1>2. QED
  BY <1>1 DEF Answer, tableVars, loadVars

LEMMA LoadingType ==
  ASSUME TypeInv, NEW l \in Loads, Loading(l)
  PROVE  TypeInv'
<1> USE DEF TypeInv, TypeOK, CallInv, Stages, callVars
<1>1. CASE LoaderReturns(l)
  BY <1>1 DEF LoaderReturns, SetNow, FreeAddresses, tableVars
<1>2. CASE LoaderFails(l)
  BY <1>2 DEF LoaderFails, Broken, tableVars
<1>3. CASE Publish(l)
  BY <1>3 DEF Publish, Renamed
<1>4. CASE Erase(l)
  BY <1>4 DEF Erase
<1>5. CASE Finish(l)
  BY <1>5 DEF Finish, tableVars
<1>6. QED
  BY <1>1, <1>2, <1>3, <1>4, <1>5 DEF Loading

LEMMA TypeStep ==
  ASSUME TypeInv, [Next]_vars
  PROVE  TypeInv'
<1>1. ASSUME NEW a \in Actors, LookLoading(a)
      PROVE  TypeInv'
  BY <1>1, JoinType, BeginThrowsType, BeginType DEF LookLoading
<1>2. ASSUME NEW c \in Callers, Release(c) \/ LookupName(c)
      PROVE  TypeInv'
  BY <1>2 DEF Release, LookupName, TypeInv, TypeOK, CallInv, tableVars, loadVars, callVars
<1>3. CASE UNCHANGED vars
  BY <1>3 DEF vars, tableVars, loadVars, callVars, TypeInv, TypeOK, CallInv
<1>4. QED
  BY <1>1, <1>2, <1>3, LookDictType, AnswerType, LoadingType DEF Next

\* Every variable keeps its type, a future is ready exactly from the moment its
\* policy says, and a call holds a future exactly while it waits for one.
THEOREM TypeCorrect == Spec => []TypeOK
<1>1. TypeInv => TypeOK
  BY DEF TypeInv
<1>2. QED
  BY <1>1, TypeInit, TypeStep, PTL DEF Spec

-----------------------------------------------------------------------------
(* One load of a name at a time *)

\* LoadingExact is inductive. A load is registered under a name that has no
\* entry; an entry is erased when its load leaves the stages it stands for.
LEMMA BeginLoading ==
  ASSUME TypeInv, LoadingExact, NEW a \in Actors, NEW l \in Loads, NEW p \in Policies,
         Begin(a, l, p)
  PROVE  LoadingExact'
<1> DEFINE n == asks[a]
<1>1. n \in Names
  BY DEF Begin, TypeInv, CallInv
<1>2. loading[n] = Nothing /\ stage[l] = "fresh"
  BY <1>1 DEF Begin, Registered, TypeInv, TypeOK
<1>3. /\ loading' = [loading EXCEPT ![n] = l]
      /\ stage' = [stage EXCEPT ![l] = "loading"]
      /\ name' = [name EXCEPT ![l] = n]
  BY DEF Begin
<1>4. \A k \in Loads : loading[n] # k
  BY <1>2, RegistryAssumption
<1>5. QED
  BY <1>1, <1>2, <1>3, <1>4 DEF LoadingExact, TypeInv, TypeOK

LEMMA LoadingLoading ==
  ASSUME TypeInv, LoadingExact, NEW l \in Loads, Loading(l)
  PROVE  LoadingExact'
<1> USE DEF LoadingExact, TypeInv, TypeOK
<1>1. CASE LoaderReturns(l)
  BY <1>1 DEF LoaderReturns, tableVars
<1>2. CASE LoaderFails(l)
  BY <1>2 DEF LoaderFails, tableVars
<1>3. CASE Publish(l)
  BY <1>3 DEF Publish
<1>4. CASE Erase(l)
  <2>1. Nothing \notin Loads
    BY RegistryAssumption
  <2>2. QED
    BY <1>4, <2>1 DEF Erase
<1>5. CASE Finish(l)
  BY <1>5 DEF Finish, tableVars
<1>6. QED
  BY <1>1, <1>2, <1>3, <1>4, <1>5 DEF Loading

LEMMA LoadingStep ==
  ASSUME TypeInv, LoadingExact, [Next]_vars
  PROVE  LoadingExact'
<1>1. UNCHANGED <<loading, stage, name>> => LoadingExact'
  BY DEF LoadingExact
<1>2. ASSUME NEW a \in Actors,
             \/ Join(a) \/ BeginThrows(a) \/ Answer(a)
             \/ \E n \in Names : LookDict(a, n)
      PROVE  LoadingExact'
  BY <1>1, <1>2 DEF LookDict, Join, BeginThrows, Answer, tableVars, loadVars
<1>3. ASSUME NEW c \in Callers, Release(c) \/ LookupName(c)
      PROVE  LoadingExact'
  BY <1>1, <1>3 DEF Release, LookupName, tableVars, loadVars
<1>4. CASE UNCHANGED vars
  BY <1>1, <1>4 DEF vars, tableVars, loadVars
<1>5. QED
  BY <1>2, <1>3, <1>4, BeginLoading, LoadingLoading DEF Next, LookLoading

\* A name is loaded once at a time, on_loaded() erases the entry of its own load,
\* and no entry outlives a load that succeeded.
THEOREM LoadingCorrect == Spec => []LoadingExact
<1>1. Init => LoadingExact
  BY RegistryAssumption DEF Init, LoadingExact
<1>2. QED
  BY <1>1, TypeInit, TypeStep, LoadingStep, PTL DEF Spec

-----------------------------------------------------------------------------
(* The life of objects *)

\* What was made has a name, what was not made has no object, and what dict holds
\* or the program holds was made.
MadeInv ==
  /\ \A l \in Loads : stage[l] # "fresh" => name[l] \in Names
  /\ \A l \in Loads : stage[l] \in {"fresh", "loading", "failed"} => addr[l] = Nothing
  /\ \A c \in Callers : holds[c] # Nothing => addr[holds[c]] # Nothing
  /\ \A n \in Names, l \in Loads : dict[n] = l =>
       name[l] = n /\ stage[l] \in {"published", "erased", "over"}

\* Two live objects are not at one address.
ApartInv == \A k, l \in Loads : Alive(k) /\ Alive(l) /\ addr[k] = addr[l] => k = l

LifeInv == MadeInv /\ ApartInv

LEMMA MadeLookDict ==
  ASSUME TypeInv, MadeInv, NEW a \in Actors, NEW n \in Names, LookDict(a, n)
  PROVE  MadeInv'
<1>1. UNCHANGED <<dict, stage, name, addr>>
  BY DEF LookDict, tableVars, loadVars
<1>2. \A c \in Callers : holds'[c] # Nothing => addr[holds'[c]] # Nothing
  BY DEF LookDict, Keep, Found, Current, Alive, TypeInv, TypeOK, MadeInv
<1>3. QED
  BY <1>1, <1>2 DEF MadeInv

LEMMA MadeAnswer ==
  ASSUME TypeInv, MadeInv, NEW a \in Actors, Answer(a)
  PROVE  MadeInv'
<1>1. UNCHANGED <<dict, stage, name, addr>>
  BY DEF Answer, tableVars, loadVars
<1>2. \A c \in Callers : holds'[c] # Nothing => addr[holds'[c]] # Nothing
  BY DEF Answer, Keep, TypeInv, TypeOK, MadeInv
<1>3. QED
  BY <1>1, <1>2 DEF MadeInv

LEMMA MadeBegin ==
  ASSUME TypeInv, MadeInv, NEW a \in Actors, NEW l \in Loads, NEW p \in Policies,
         Begin(a, l, p)
  PROVE  MadeInv'
<1>1. asks[a] \in Names /\ stage[l] = "fresh"
  BY DEF Begin, TypeInv, CallInv
<1>2. QED
  BY <1>1 DEF Begin, MadeInv, TypeInv, TypeOK

LEMMA MadeLoading ==
  ASSUME TypeInv, MadeInv, NEW l \in Loads, Loading(l)
  PROVE  MadeInv'
<1> USE DEF MadeInv, TypeInv, TypeOK, callVars
<1>1. CASE LoaderReturns(l)
  <2>1. \A c \in Callers : holds[c] # l
    BY <1>1, RegistryAssumption DEF LoaderReturns
  <2>2. QED
    BY <1>1, <2>1 DEF LoaderReturns, tableVars
<1>2. CASE LoaderFails(l)
  BY <1>2 DEF LoaderFails, tableVars
<1>3. CASE Publish(l)
  BY <1>3 DEF Publish
<1>4. CASE Erase(l)
  BY <1>4 DEF Erase
<1>5. CASE Finish(l)
  BY <1>5 DEF Finish, tableVars
<1>6. QED
  BY <1>1, <1>2, <1>3, <1>4, <1>5 DEF Loading

LEMMA MadeStep ==
  ASSUME TypeInv, MadeInv, [Next]_vars
  PROVE  MadeInv'
<1>1. UNCHANGED <<dict, stage, name, addr, holds>> => MadeInv'
  BY DEF MadeInv
<1>2. ASSUME NEW a \in Actors, Join(a) \/ BeginThrows(a)
      PROVE  MadeInv'
  BY <1>1, <1>2 DEF Join, BeginThrows, tableVars, loadVars
<1>3. ASSUME NEW c \in Callers, Release(c)
      PROVE  MadeInv'
  BY <1>3 DEF Release, MadeInv, TypeInv, TypeOK, tableVars, loadVars
<1>4. ASSUME NEW c \in Callers, LookupName(c)
      PROVE  MadeInv'
  BY <1>1, <1>4 DEF LookupName, loadVars, callVars
<1>5. CASE UNCHANGED vars
  BY <1>1, <1>5 DEF vars, tableVars, loadVars, callVars
<1>6. QED
  BY <1>2, <1>3, <1>4, <1>5, MadeLookDict, MadeAnswer, MadeBegin, MadeLoading
  DEF Next, LookLoading

\* What was dead before a step is dead after it, unless its loader makes it: no
\* step finds a new reference to an object or moves one.
LEMMA StillDead ==
  ASSUME TypeInv, LoadingExact, MadeInv, [Next]_vars, NEW l \in Loads,
         ~LoaderReturns(l)
  PROVE  addr'[l] = addr[l] /\ (Alive(l)' => Alive(l))
<1> USE RegistryAssumption DEF TypeInv, TypeOK, MadeInv, Alive
<1>1. ASSUME NEW a \in Actors, NEW n \in Names, LookDict(a, n)
      PROVE  addr'[l] = addr[l] /\ (Alive(l)' => Alive(l))
  BY <1>1 DEF LookDict, Keep, Found, Current, tableVars, loadVars
<1>2. ASSUME NEW a \in Actors, Join(a)
      PROVE  addr'[l] = addr[l] /\ (Alive(l)' => Alive(l))
  <2>1. \A k \in Registered(a) : k \in Loads /\ stage[k] # "over"
    BY <1>2 DEF Join, Registered, CallInv, LoadingExact
  <2>2. QED
    BY <1>2, <2>1 DEF Join, tableVars, loadVars
<1>3. ASSUME NEW a \in Actors, BeginThrows(a)
      PROVE  addr'[l] = addr[l] /\ (Alive(l)' => Alive(l))
  BY <1>3 DEF BeginThrows, tableVars, loadVars
<1>4. ASSUME NEW a \in Actors, NEW k \in Loads, NEW p \in Policies, Begin(a, k, p)
      PROVE  addr'[l] = addr[l] /\ (Alive(l)' => Alive(l))
  BY <1>4 DEF Begin, CallInv
<1>5. ASSUME NEW a \in Actors, Answer(a)
      PROVE  addr'[l] = addr[l] /\ (Alive(l)' => Alive(l))
  BY <1>5 DEF Answer, Keep, tableVars, loadVars
<1>6. ASSUME NEW k \in Loads, Loading(k)
      PROVE  addr'[l] = addr[l] /\ (Alive(l)' => Alive(l))
  <2> USE DEF callVars
  <2>1. CASE LoaderReturns(k)
    <3>1. k # l
      BY <2>1
    <3>2. QED
      BY <2>1, <3>1 DEF LoaderReturns, tableVars
  <2>2. CASE LoaderFails(k)
    BY <2>2 DEF LoaderFails, tableVars
  <2>3. CASE Publish(k)
    BY <2>3 DEF Publish
  <2>4. CASE Erase(k)
    BY <2>4 DEF Erase
  <2>5. CASE Finish(k)
    BY <2>5 DEF Finish, tableVars
  <2>6. QED
    BY <1>6, <2>1, <2>2, <2>3, <2>4, <2>5 DEF Loading
<1>7. ASSUME NEW c \in Callers, Release(c) \/ LookupName(c)
      PROVE  addr'[l] = addr[l] /\ (Alive(l)' => Alive(l))
  BY <1>7 DEF Release, LookupName, tableVars, loadVars, callVars
<1>8. CASE UNCHANGED vars
  BY <1>8 DEF vars, tableVars, loadVars, callVars
<1>9. QED
  BY <1>1, <1>2, <1>3, <1>4, <1>5, <1>6, <1>7, <1>8 DEF Next, LookLoading

LEMMA ApartStep ==
  ASSUME TypeInv, LoadingExact, LifeInv, [Next]_vars
  PROVE  ApartInv'
<1> SUFFICES ASSUME NEW k \in Loads, NEW l \in Loads,
                    Alive(k)', Alive(l)', addr'[k] = addr'[l], k # l
             PROVE  FALSE
  BY DEF ApartInv
<1> USE DEF LifeInv
<1>1. CASE ~LoaderReturns(k) /\ ~LoaderReturns(l)
  BY <1>1, StillDead DEF ApartInv
<1>2. ASSUME NEW i \in Loads, NEW j \in Loads, LoaderReturns(i), i # j,
             Alive(i)', Alive(j)', addr'[i] = addr'[j]
      PROVE  FALSE
  <2>1. addr' = [addr EXCEPT ![i] = addr'[i]] /\ addr'[i] \in FreeAddresses \union {Nothing}
    BY <1>2 DEF LoaderReturns, TypeInv, TypeOK
  <2>2. addr'[j] = addr[j] /\ addr[j] # Nothing
    BY <1>2, <2>1 DEF Alive, TypeInv, TypeOK
  <2>3. ~LoaderReturns(j)
    BY <2>2 DEF LoaderReturns, MadeInv
  <2>4. Alive(j)
    BY <1>2, <2>3, StillDead
  <2>5. QED
    BY <1>2, <2>1, <2>2, <2>4, RegistryAssumption DEF FreeAddresses
<1>3. QED
  BY <1>1, <1>2

\* TypeInv, LoadingExact and LifeInv together are inductive.
RegistryInv == TypeInv /\ LoadingExact /\ LifeInv

LEMMA RegistryInit == Init => RegistryInv
<1>1. Init => LoadingExact
  BY RegistryAssumption DEF Init, LoadingExact
<1>2. Init => MadeInv
  BY RegistryAssumption DEF Init, MadeInv
<1>3. Init => ApartInv
  BY DEF Init, ApartInv, Alive
<1>4. QED
  BY <1>1, <1>2, <1>3, TypeInit DEF RegistryInv, LifeInv

LEMMA RegistryStep ==
  ASSUME RegistryInv, [Next]_vars
  PROVE  RegistryInv'
BY TypeStep, LoadingStep, MadeStep, ApartStep DEF RegistryInv, LifeInv

-----------------------------------------------------------------------------
(* The inverse table *)

\* Only on_loaded() writes dict, under the name of its load.
LEMMA DictStep ==
  ASSUME TypeInv, [Next]_vars, NEW n \in Names
  PROVE  \/ dict'[n] = dict[n]
         \/ \E l \in Loads : Publish(l) /\ name[l] = n /\ dict'[n] = l
<1>1. ASSUME NEW a \in Actors, LookLoading(a) \/ Answer(a) \/ \E m \in Names : LookDict(a, m)
      PROVE  dict' = dict
  BY <1>1 DEF LookLoading, Join, BeginThrows, Begin, Answer, LookDict, tableVars
<1>2. ASSUME NEW l \in Loads, Loading(l)
      PROVE  dict' = dict \/ Publish(l)
  BY <1>2 DEF Loading, LoaderReturns, LoaderFails, Erase, Finish, tableVars
<1>3. ASSUME NEW c \in Callers, Release(c) \/ LookupName(c)
      PROVE  dict' = dict
  BY <1>3 DEF Release, LookupName, tableVars
<1>4. ASSUME NEW l \in Loads, Publish(l)
      PROVE  dict'[n] = dict[n] \/ (name[l] = n /\ dict'[n] = l)
  BY <1>4 DEF Publish, TypeInv, TypeOK
<1>5. CASE UNCHANGED vars
  BY <1>5 DEF vars, tableVars
<1>6. QED
  BY <1>1, <1>2, <1>3, <1>4, <1>5 DEF Next

LEMMA InverseFrame ==
  ASSUME TypeInv, LoadingExact, LifeInv, InverseAgrees, [Next]_vars, UNCHANGED <<dict, inverted>>
  PROVE  InverseAgrees'
<1> SUFFICES ASSUME NEW n \in Names, NEW l \in Current(n)'
             PROVE  inverted'[addr'[l]] = n
  BY DEF InverseAgrees
<1>1. l \in Loads /\ dict[n] = l /\ Alive(l)'
  BY DEF Current
<1>2. ~LoaderReturns(l)
  BY <1>1 DEF LoaderReturns, LifeInv, MadeInv
<1>3. addr'[l] = addr[l] /\ Alive(l)
  BY <1>1, <1>2, StillDead DEF LifeInv
<1>4. QED
  BY <1>1, <1>3 DEF InverseAgrees, Current

\* The object that is published takes its address over, which no other live
\* object has.
LEMMA InversePublish ==
  ASSUME TypeInv, LoadingExact, LifeInv, InverseAgrees, [Next]_vars,
         NEW k \in Loads, Publish(k)
  PROVE  InverseAgrees'
<1> SUFFICES ASSUME NEW n \in Names, NEW l \in Current(n)'
             PROVE  inverted'[addr'[l]] = n
  BY DEF InverseAgrees
<1>1. /\ stage[k] = "made" /\ addr' = addr
      /\ dict' = [dict EXCEPT ![name[k]] = k] /\ inverted' = Renamed(k)
  BY DEF Publish
<1>2. l \in Loads /\ dict'[n] = l /\ Alive(l)'
  BY DEF Current
<1>3. name[k] \in Names
  BY <1>1 DEF LifeInv, MadeInv
<1>4. addr[l] \in Addresses
  BY <1>1, <1>2 DEF Alive, TypeInv, TypeOK
<1>5. CASE l = k
  <2>1. dict[n] # k
    BY <1>1 DEF LifeInv, MadeInv
  <2>2. name[k] = n
    BY <1>1, <1>2, <1>3, <1>5, <2>1 DEF TypeInv, TypeOK
  <2>3. QED
    BY <1>1, <1>4, <1>5, <2>2, RegistryAssumption DEF Renamed, TypeInv, TypeOK
<1>6. CASE l # k
  <2>1. dict[n] = l
    BY <1>1, <1>2, <1>3, <1>6 DEF TypeInv, TypeOK
  <2>2. ~LoaderReturns(l)
    BY <1>2, <2>1 DEF LoaderReturns, LifeInv, MadeInv
  <2>3. Alive(l) /\ inverted[addr[l]] = n
    BY <1>2, <2>1, <2>2, StillDead DEF LifeInv, InverseAgrees, Current
  <2>4. addr[k] # Nothing => addr[k] # addr[l]
    BY <1>1, <1>6, <1>2, <2>3 DEF Alive, LifeInv, ApartInv
  <2>5. QED
    BY <1>1, <1>4, <2>3, <2>4 DEF Renamed, TypeInv, TypeOK
<1>7. QED
  BY <1>5, <1>6

\* lookup_name() erases an entry that it read under the address of an object
\* which is not current; the current object of that address would be the same.
LEMMA InverseLookup ==
  ASSUME TypeInv, LoadingExact, LifeInv, InverseAgrees, NEW c \in Callers, LookupName(c)
  PROVE  InverseAgrees'
<1> DEFINE h == holds[c]
           x == addr[h]
<1>1. /\ h \in Loads /\ inverted[x] # Nothing /\ h \notin Current(inverted[x])
      /\ inverted' = [inverted EXCEPT ![x] = Nothing]
  BY DEF LookupName, TypeInv, TypeOK
<1>2. Alive(h)
  BY <1>1 DEF LookupName, Alive, LifeInv, MadeInv
<1> SUFFICES ASSUME NEW n \in Names, NEW l \in Current(n)'
             PROVE  inverted'[addr'[l]] = n
  BY DEF InverseAgrees
<1>3. l \in Current(n) /\ l \in Loads /\ Alive(l) /\ addr'[l] = addr[l]
  BY DEF Current, Alive, LookupName, loadVars, callVars
<1>4. inverted[addr[l]] = n /\ addr[l] \in Addresses
  BY <1>3 DEF InverseAgrees, Alive, TypeInv, TypeOK
<1>5. addr[l] # x
  BY <1>1, <1>2, <1>3, <1>4 DEF LifeInv, ApartInv
<1>6. QED
  BY <1>1, <1>3, <1>4, <1>5 DEF TypeInv, TypeOK

LEMMA InverseStep ==
  ASSUME RegistryInv, InverseAgrees, [Next]_vars
  PROVE  InverseAgrees'
<1> USE DEF RegistryInv
<1>1. ASSUME NEW a \in Actors, LookLoading(a) \/ Answer(a) \/ \E n \in Names : LookDict(a, n)
      PROVE  UNCHANGED <<dict, inverted>>
  BY <1>1 DEF LookLoading, Join, BeginThrows, Begin, Answer, LookDict, tableVars
<1>2. ASSUME NEW l \in Loads, Loading(l)
      PROVE  UNCHANGED <<dict, inverted>> \/ Publish(l)
  BY <1>2 DEF Loading, LoaderReturns, LoaderFails, Erase, Finish, tableVars
<1>3. ASSUME NEW c \in Callers, Release(c)
      PROVE  UNCHANGED <<dict, inverted>>
  BY <1>3 DEF Release, tableVars
<1>4. CASE UNCHANGED vars
  BY <1>4, InverseFrame DEF vars, tableVars
<1>5. QED
  BY <1>1, <1>2, <1>3, <1>4, InverseFrame, InversePublish, InverseLookup DEF Next

\* Whatever addresses are reused, entries erased by lookups and names taken over
\* by later loads, lookup_name() finds the current object of each name.
THEOREM InverseCorrect == Spec => []InverseAgrees
<1>1. Init => InverseAgrees
  BY DEF Init, InverseAgrees, Current, Alive
<1>2. QED
  BY <1>1, RegistryInit, RegistryStep, InverseStep, PTL DEF Spec

-----------------------------------------------------------------------------
(* When a live object is replaced *)

\* The loads that had ended when a call missed dict have no live object under
\* its name: the call saw none, and a dead one does not come back.
KnownInv ==
  /\ \A a \in Actors, n \in Names : pc[a] = "missed" /\ asks[a] = n =>
       \A k \in before[a] : k \in Ended /\ k \notin Current(n)
  /\ \A l \in Loads, n \in Names : stage[l] \in {"loading", "made"} /\ name[l] = n =>
       \A k \in known[l] : k \in Ended /\ k \notin Current(n)

LEMMA EndedStep ==
  ASSUME TypeInv, [Next]_vars, NEW k \in Ended
  PROVE  k \in Ended'
<1> USE DEF Ended, TypeInv, TypeOK
<1>1. ASSUME NEW a \in Actors, LookLoading(a) \/ Answer(a) \/ \E n \in Names : LookDict(a, n)
      PROVE  k \in Ended'
  BY <1>1 DEF LookLoading, Join, BeginThrows, Begin, Answer, LookDict, loadVars
<1>2. ASSUME NEW l \in Loads, Loading(l)
      PROVE  k \in Ended'
  BY <1>2 DEF Loading, LoaderReturns, LoaderFails, Publish, Erase, Finish
<1>3. ASSUME NEW c \in Callers, Release(c) \/ LookupName(c)
      PROVE  k \in Ended'
  BY <1>3 DEF Release, LookupName, loadVars
<1>4. CASE UNCHANGED vars
  BY <1>4 DEF vars, loadVars
<1>5. QED
  BY <1>1, <1>2, <1>3, <1>4 DEF Next

\* What ended and is not the live object of a name does not become it.
LEMMA NotBack ==
  ASSUME RegistryInv, [Next]_vars, NEW k \in Ended, NEW n \in Names, k \notin Current(n)
  PROVE  k \in Ended' /\ k \notin Current(n)'
<1> USE DEF RegistryInv, LifeInv
<1>1. k \in Loads /\ stage[k] \in {"erased", "over"}
  BY DEF Ended
<1>2. k \in Ended'
  BY EndedStep
<1>3. ~LoaderReturns(k) /\ ~Publish(k)
  BY <1>1 DEF LoaderReturns, Publish
<1>4. dict'[n] = k => dict[n] = k
  BY <1>3, DictStep
<1>5. Alive(k)' => Alive(k)
  BY <1>1, <1>3, StillDead
<1>6. QED
  BY <1>1, <1>2, <1>4, <1>5 DEF Current

\* The calls that miss in this step, and the loads that begin, are the only ones
\* with something new to know.
LEMMA KnownLookDict ==
  ASSUME RegistryInv, KnownInv, [Next]_vars, NEW a \in Actors, NEW n \in Names, LookDict(a, n)
  PROVE  KnownInv'
<1> USE DEF RegistryInv, TypeInv, TypeOK
<1>1. UNCHANGED <<stage, name, known>>
  BY DEF LookDict, loadVars
<1>2. ASSUME NEW b \in Actors, NEW m \in Names, pc'[b] = "missed", asks'[b] = m,
             NEW k \in before'[b]
      PROVE  k \in Ended' /\ k \notin Current(m)'
  <2>1. CASE pc[b] = "missed" /\ UNCHANGED <<before[b], asks[b]>>
    <3>1. k \in Ended /\ k \notin Current(m)
      BY <1>2, <2>1 DEF KnownInv
    <3>2. QED
      BY <3>1, NotBack
  <2>2. CASE b = a /\ asks'[b] = n /\ before'[b] = Ended /\ Found(n) = {}
    <3>1. m = n /\ k \in Ended /\ k \notin Current(n)
      BY <1>2, <2>2 DEF Found
    <3>2. QED
      BY <3>1, NotBack
  <2>3. QED
    BY <1>2, <2>1, <2>2 DEF LookDict
<1>3. ASSUME NEW l \in Loads, NEW m \in Names, stage'[l] \in {"loading", "made"},
             name'[l] = m, NEW k \in known'[l]
      PROVE  k \in Ended' /\ k \notin Current(m)'
  <2>1. k \in Ended /\ k \notin Current(m)
    BY <1>1, <1>3 DEF KnownInv
  <2>2. QED
    BY <2>1, NotBack
<1>4. QED
  BY <1>2, <1>3 DEF KnownInv

LEMMA KnownBegin ==
  ASSUME RegistryInv, KnownInv, [Next]_vars, NEW a \in Actors, NEW i \in Loads,
         NEW p \in Policies, Begin(a, i, p)
  PROVE  KnownInv'
<1> USE DEF RegistryInv, TypeInv, TypeOK
<1>1. /\ pc[a] = "missed" /\ asks[a] \in Names
      /\ stage' = [stage EXCEPT ![i] = "loading"]
      /\ name' = [name EXCEPT ![i] = asks[a]]
      /\ known' = [known EXCEPT ![i] = before[a]]
  BY DEF Begin, CallInv
<1>2. ASSUME NEW b \in Actors, NEW m \in Names, pc'[b] = "missed", asks'[b] = m,
             NEW k \in before'[b]
      PROVE  k \in Ended' /\ k \notin Current(m)'
  <2>1. pc[b] = "missed" /\ UNCHANGED <<before[b], asks[b]>>
    BY <1>2 DEF Begin, Forget
  <2>2. k \in Ended /\ k \notin Current(m)
    BY <1>2, <2>1 DEF KnownInv
  <2>3. QED
    BY <2>2, NotBack
<1>3. ASSUME NEW l \in Loads, NEW m \in Names, stage'[l] \in {"loading", "made"},
             name'[l] = m, NEW k \in known'[l]
      PROVE  k \in Ended' /\ k \notin Current(m)'
  <2>1. k \in Ended /\ k \notin Current(m)
    BY <1>1, <1>3 DEF KnownInv
  <2>2. QED
    BY <2>1, NotBack
<1>4. QED
  BY <1>2, <1>3 DEF KnownInv

LEMMA KnownFrame ==
  ASSUME RegistryInv, KnownInv, [Next]_vars,
         UNCHANGED name,
         \A a \in Actors : pc'[a] = "missed" => pc[a] = "missed" /\ UNCHANGED <<before[a], asks[a]>>,
         \A l \in Loads : stage'[l] \in {"loading", "made"} =>
           stage[l] \in {"loading", "made"} /\ UNCHANGED known[l]
  PROVE  KnownInv'
<1>1. ASSUME NEW b \in Actors, NEW m \in Names, pc'[b] = "missed", asks'[b] = m,
             NEW k \in before'[b]
      PROVE  k \in Ended' /\ k \notin Current(m)'
  <2>1. k \in Ended /\ k \notin Current(m)
    BY <1>1 DEF KnownInv
  <2>2. QED
    BY <2>1, NotBack
<1>2. ASSUME NEW l \in Loads, NEW m \in Names, stage'[l] \in {"loading", "made"},
             name'[l] = m, NEW k \in known'[l]
      PROVE  k \in Ended' /\ k \notin Current(m)'
  <2>1. k \in Ended /\ k \notin Current(m)
    BY <1>2 DEF KnownInv
  <2>2. QED
    BY <2>1, NotBack
<1>3. QED
  BY <1>1, <1>2 DEF KnownInv

LEMMA KnownStep ==
  ASSUME RegistryInv, KnownInv, [Next]_vars
  PROVE  KnownInv'
<1> USE DEF RegistryInv, TypeInv, TypeOK
<1>1. ASSUME NEW a \in Actors, Join(a) \/ BeginThrows(a) \/ Answer(a)
      PROVE  KnownInv'
  BY <1>1, KnownFrame DEF Join, BeginThrows, Answer, Forget, loadVars
<1>2. ASSUME NEW l \in Loads, Loading(l)
      PROVE  KnownInv'
  BY <1>2, KnownFrame
  DEF Loading, LoaderReturns, LoaderFails, Publish, Erase, Finish, callVars
<1>3. ASSUME NEW c \in Callers, Release(c) \/ LookupName(c)
      PROVE  KnownInv'
  BY <1>3, KnownFrame DEF Release, LookupName, loadVars, callVars
<1>4. CASE UNCHANGED vars
  BY <1>4, KnownFrame DEF vars, loadVars, callVars
<1>5. QED
  BY <1>1, <1>2, <1>3, <1>4, KnownLookDict, KnownBegin DEF Next, LookLoading

\* A live object is replaced under its name only by a load whose call had begun
\* before the object's own load ended.
THEOREM ReplacesCorrect == Spec => ReplacesOnlyOverlapped
<1> DEFINE Overlapped == \A n \in Names : \A k \in Current(n), l \in Loads :
                           dict'[n] = l /\ l # k => k \notin known[l]
<1>1. Init => KnownInv
  BY DEF Init, KnownInv
<1>2. ASSUME RegistryInv, KnownInv, [Next]_vars
      PROVE  Overlapped
  <2> SUFFICES ASSUME NEW n \in Names, NEW k \in Current(n), NEW l \in Loads,
                      dict'[n] = l, l # k
               PROVE  k \notin known[l]
    OBVIOUS
  <2>1. dict[n] = k
    BY DEF Current
  <2>2. Publish(l) /\ name[l] = n
    BY <1>2, <2>1, DictStep DEF RegistryInv
  <2>3. QED
    BY <1>2, <2>2 DEF Publish, KnownInv
<1>3. QED
  BY <1>1, <1>2, RegistryInit, RegistryStep, KnownStep, PTL DEF Spec, ReplacesOnlyOverlapped
=============================================================================
