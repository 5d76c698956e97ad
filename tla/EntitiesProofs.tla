---------------------------- MODULE EntitiesProofs ----------------------------
(***************************************************************************)
(* Entities for any number of entities, versions and component types, and  *)
(* any depth of callbacks; and the walks over them (EntityWalks).          *)
(***************************************************************************)
EXTENDS EntityWalks, SequenceTheorems, WellFoundedInduction, TLAPS

-----------------------------------------------------------------------------
(* Sequences *)

LEMMA Replaced ==
  ASSUME NEW S, NEW s \in Seq(S), NEW i \in 1..Len(s), NEW e \in S,
         NEW t, t = [s EXCEPT ![i] = e]
  PROVE  /\ t \in Seq(S) /\ Len(t) = Len(s) /\ DOMAIN t = 1..Len(s) /\ t[i] = e
         /\ \A k \in 1..Len(s) : k # i => t[k] = s[k]
BY ExceptSeq

LEMMA Appended ==
  ASSUME NEW S, NEW s \in Seq(S), NEW e \in S, NEW t, t = Append(s, e)
  PROVE  /\ t \in Seq(S) /\ Len(t) = Len(s) + 1 /\ DOMAIN t = 1..(Len(s) + 1)
         /\ t[Len(s) + 1] = e
         /\ \A k \in 1..Len(s) : t[k] = s[k]
OBVIOUS

LEMMA Cut ==
  ASSUME NEW S, NEW s \in Seq(S), NEW m \in 0..Len(s), NEW t, t = SubSeq(s, 1, m)
  PROVE  /\ t \in Seq(S) /\ Len(t) = m /\ DOMAIN t = 1..m
         /\ \A k \in 1..m : t[k] = s[k]
<1>1. Len(s) \in Nat /\ \A k \in 1..m : s[k] \in S
  OBVIOUS
<1>2. QED
  BY <1>1, SubSeqProperties

\* What erase() leaves of an array: the last takes the place that is erased.
LEMMA MovedElements ==
  ASSUME NEW s \in Seq(Identifier), NEW i \in 1..Len(s)
  PROVE  /\ Moved(s, i) \in Seq(Identifier) /\ Len(Moved(s, i)) = Len(s) - 1
         /\ DOMAIN Moved(s, i) = 1..(Len(s) - 1)
         /\ \A k \in 1..(Len(s) - 1) : Moved(s, i)[k] = IF k = i THEN s[Len(s)] ELSE s[k]
<1> DEFINE t == Moved(s, i)
           r == [s EXCEPT ![i] = s[Len(s)]]
           m == Len(s) - 1
<1>1. s[Len(s)] \in Identifier
  OBVIOUS
<1>2. /\ r \in Seq(Identifier) /\ Len(r) = Len(s) /\ r[i] = s[Len(s)]
      /\ \A k \in 1..Len(s) : k # i => r[k] = s[k]
  BY <1>1, Replaced
<1>3. m \in 0..Len(r) /\ m \in 0..Len(s)
  BY <1>2
<1>4. t = SubSeq(r, 1, m)
  BY <1>2 DEF Moved
<1> HIDE DEF r, t
<1>5. t \in Seq(Identifier) /\ Len(t) = m /\ DOMAIN t = 1..m /\ \A k \in 1..m : t[k] = r[k]
  BY <1>2, <1>3, <1>4, Cut
<1>6. \A k \in 1..m : t[k] = IF k = i THEN s[Len(s)] ELSE s[k]
  <2> SUFFICES ASSUME NEW k \in 1..m PROVE t[k] = IF k = i THEN s[Len(s)] ELSE s[k]
    OBVIOUS
  <2>1. t[k] = r[k] /\ k \in 1..Len(s)
    BY <1>5
  <2>2. QED
    BY <1>2, <2>1
<1>7. QED
  BY <1>5, <1>6 DEF t

-----------------------------------------------------------------------------
(* One pool *)

InPool(arr) == {arr[i] : i \in DOMAIN arr}

\* PoolExact, of the arrays of any pool.
PoolArrays(arr, objects, positions) ==
  /\ Len(objects) = Len(arr)
  /\ \A i \in DOMAIN arr :
       /\ arr[i].number \in Numbers
       /\ positions[arr[i].number] = i
       /\ objects[i] = arr[i]
  /\ \A n \in Numbers : positions[n] # 0 =>
       positions[n] \in DOMAIN arr /\ arr[positions[n]].number = n

LEMMA PoolIsArrays ==
  ASSUME NEW p \in Pools
  PROVE  PoolExact(p) <=> PoolArrays(packed[p], instances[p], sparse[p])
BY DEF PoolExact, PoolArrays

Placed(positions, n, i) == [positions EXCEPT ![n] = i]

LEMMA ArraysAppended ==
  ASSUME NEW arr \in Seq(Identifier), NEW objects \in Seq(Identifier),
         NEW positions \in [Numbers -> Nat], PoolArrays(arr, objects, positions),
         NEW e \in Identifier, e.number \in Numbers, positions[e.number] = 0
  PROVE  /\ Append(arr, e) \in Seq(Identifier) /\ Append(objects, e) \in Seq(Identifier) /\ Placed(positions, e.number, Len(objects) + 1) \in [Numbers -> Nat]
         /\ PoolArrays(Append(arr, e), Append(objects, e), Placed(positions, e.number, Len(objects) + 1))
         /\ DOMAIN Append(arr, e) = 1..(Len(arr) + 1) /\ Append(arr, e)[Len(arr) + 1] = e
         /\ \A i \in 1..Len(arr) : Append(arr, e)[i] = arr[i]
<1> DEFINE a == Append(arr, e)
           o == Append(objects, e)
           q == Placed(positions, e.number, Len(objects) + 1)
<1>1. /\ a \in Seq(Identifier) /\ Len(a) = Len(arr) + 1 /\ DOMAIN a = 1..(Len(arr) + 1)
      /\ a[Len(arr) + 1] = e /\ \A i \in 1..Len(arr) : a[i] = arr[i]
  BY Appended
<1>2. /\ o \in Seq(Identifier) /\ Len(o) = Len(objects) + 1
      /\ o[Len(objects) + 1] = e /\ \A i \in 1..Len(objects) : o[i] = objects[i]
  BY Appended
<1>3. Len(objects) = Len(arr) /\ Len(arr) \in Nat /\ DOMAIN arr = 1..Len(arr)
  BY DEF PoolArrays
<1>4. q \in [Numbers -> Nat] /\ q[e.number] = Len(arr) + 1
      /\ \A n \in Numbers : n # e.number => q[n] = positions[n]
  BY <1>3 DEF Placed
<1> HIDE DEF a, o, q
<1>5. \A i \in 1..Len(arr) : /\ arr[i].number \in Numbers /\ arr[i].number # e.number
                             /\ positions[arr[i].number] = i /\ objects[i] = arr[i]
  <2>1. \A i \in 1..Len(arr) : /\ arr[i].number \in Numbers
                               /\ positions[arr[i].number] = i /\ objects[i] = arr[i]
    BY <1>3 DEF PoolArrays
  <2>2. \A i \in 1..Len(arr) : i # 0
    BY <1>3
  <2>3. QED
    BY <2>1, <2>2
<1>6. \A i \in DOMAIN a : a[i].number \in Numbers /\ q[a[i].number] = i /\ o[i] = a[i]
  BY <1>1, <1>2, <1>3, <1>4, <1>5
<1>7. \A n \in Numbers : q[n] # 0 => q[n] \in DOMAIN a /\ a[q[n]].number = n
  <2>1. \A n \in Numbers : n # e.number /\ positions[n] # 0 =>
          positions[n] \in 1..Len(arr) /\ arr[positions[n]].number = n
    BY <1>3 DEF PoolArrays
  <2>2. QED
    BY <1>1, <1>3, <1>4, <2>1
<1>8. QED
  BY <1>1, <1>2, <1>3, <1>4, <1>6, <1>7 DEF PoolArrays, a, o, q

LEMMA ArraysErased ==
  ASSUME NEW arr \in Seq(Identifier), NEW objects \in Seq(Identifier),
         NEW positions \in [Numbers -> Nat], PoolArrays(arr, objects, positions),
         NEW n \in Numbers, NEW x \in Nat, positions[n] = x, x # 0,
         NEW last, last = arr[Len(arr)].number
  PROVE  /\ Moved(arr, x) \in Seq(Identifier) /\ Moved(objects, x) \in Seq(Identifier)
         /\ Relocated(positions, n, last, x) \in [Numbers -> Nat]
         /\ PoolArrays(Moved(arr, x), Moved(objects, x), Relocated(positions, n, last, x))
         /\ InPool(Moved(arr, x)) = InPool(arr) \ {arr[x]}
<1> DEFINE m == Len(arr)
           a == Moved(arr, x)
           o == Moved(objects, x)
           q == Relocated(positions, n, last, x)
<1>1. m \in Nat /\ Len(objects) = m /\ DOMAIN arr = 1..m
  BY DEF PoolArrays
<1>2. x \in 1..m /\ arr[x].number = n
  BY <1>1 DEF PoolArrays
<1>3. \A i \in 1..m : arr[i].number \in Numbers /\ positions[arr[i].number] = i /\ objects[i] = arr[i]
  BY <1>1 DEF PoolArrays
<1>4. \A k \in Numbers : positions[k] # 0 => positions[k] \in 1..m /\ arr[positions[k]].number = k
  BY <1>1 DEF PoolArrays
<1>5. m \in 1..m /\ last \in Numbers /\ positions[last] = m
  BY <1>1, <1>2, <1>3
<1>6. q \in [Numbers -> Nat] /\ q[n] = 0 /\ (last # n => q[last] = x)
      /\ \A k \in Numbers : k # n /\ k # last => q[k] = positions[k]
  BY <1>5 DEF Relocated
<1> HIDE DEF m, a, o, q
<1>7. /\ a \in Seq(Identifier) /\ Len(a) = m - 1 /\ DOMAIN a = 1..(m - 1)
      /\ \A k \in 1..(m - 1) : a[k] = IF k = x THEN arr[m] ELSE arr[k]
  <2>1. x \in 1..Len(arr)
    BY <1>2 DEF m
  <2>2. a = Moved(arr, x)
    BY DEF a, o
  <2>3. /\ Moved(arr, x) \in Seq(Identifier) /\ Len(Moved(arr, x)) = Len(arr) - 1
        /\ DOMAIN Moved(arr, x) = 1..(Len(arr) - 1)
        /\ \A k \in 1..(Len(arr) - 1) :
             Moved(arr, x)[k] = IF k = x THEN arr[Len(arr)] ELSE arr[k]
    BY <2>1, MovedElements
  <2>4. QED
    BY <2>2, <2>3 DEF m
<1>8. /\ o \in Seq(Identifier) /\ Len(o) = m - 1 /\ DOMAIN o = 1..(m - 1)
      /\ \A k \in 1..(m - 1) : o[k] = IF k = x THEN objects[m] ELSE objects[k]
  <2>1. x \in 1..Len(objects)
    BY <1>1, <1>2
  <2>2. o = Moved(objects, x)
    BY DEF a, o
  <2>3. /\ Moved(objects, x) \in Seq(Identifier)
        /\ Len(Moved(objects, x)) = Len(objects) - 1
        /\ DOMAIN Moved(objects, x) = 1..(Len(objects) - 1)
        /\ \A k \in 1..(Len(objects) - 1) :
             Moved(objects, x)[k] = IF k = x THEN objects[Len(objects)] ELSE objects[k]
    BY <2>1, MovedElements
  <2>4. QED
    BY <1>1, <2>2, <2>3
<1>9. n = last <=> x = m
  BY <1>2, <1>3, <1>5 DEF m
<1>10. \A i \in DOMAIN a : a[i].number \in Numbers /\ q[a[i].number] = i /\ o[i] = a[i]
  <2> SUFFICES ASSUME NEW i \in 1..(m - 1)
               PROVE  a[i].number \in Numbers /\ q[a[i].number] = i /\ o[i] = a[i]
    BY <1>7
  <2>1. i \in 1..m /\ i # m
    BY <1>1
  <2>2. CASE i = x
    <3>1. a[i] = arr[m] /\ o[i] = objects[m]
      BY <1>7, <1>8, <2>2
    <3>2. objects[m] = arr[m] /\ arr[m].number = last /\ last # n
      BY <1>3, <1>5, <1>9, <2>1, <2>2 DEF m
    <3>3. QED
      BY <1>5, <1>6, <2>2, <3>1, <3>2
  <2>3. CASE i # x
    <3>1. a[i] = arr[i] /\ o[i] = objects[i]
      BY <1>7, <1>8, <2>3
    <3>2. arr[i].number # n /\ arr[i].number # last
      BY <1>3, <1>5, <2>1, <2>3
    <3>3. QED
      BY <1>3, <1>6, <2>1, <3>1, <3>2
  <2>4. QED
    BY <2>2, <2>3
<1>11. \A k \in Numbers : q[k] # 0 => q[k] \in DOMAIN a /\ a[q[k]].number = k
  <2> SUFFICES ASSUME NEW k \in Numbers, q[k] # 0
               PROVE  q[k] \in 1..(m - 1) /\ a[q[k]].number = k
    BY <1>7
  <2>1. k # n
    BY <1>6
  <2>2. CASE k = last
    <3>1. q[k] = x /\ x # m
      BY <1>6, <1>9, <2>1, <2>2
    <3>2. x \in 1..(m - 1)
      BY <1>1, <1>2, <3>1
    <3>3. QED
      BY <1>7, <2>2, <3>1, <3>2 DEF m
  <2>3. CASE k # last
    <3>1. q[k] = positions[k]
      BY <1>6, <2>1, <2>3
    <3>2. q[k] \in 1..m /\ arr[q[k]].number = k
      BY <1>4, <3>1
    <3>3. q[k] # m /\ q[k] # x
      BY <1>2, <2>1, <2>3, <3>2 DEF m
    <3>4. QED
      BY <1>1, <1>7, <3>2, <3>3
  <2>4. QED
    BY <2>2, <2>3
<1>12. {a[i] : i \in DOMAIN a} = {arr[i] : i \in DOMAIN arr} \ {arr[x]}
  <2>1. \A i \in 1..(m - 1) : \E j \in 1..m : j # x /\ a[i] = arr[j]
    BY <1>1, <1>2, <1>5, <1>7
  <2>2. \A j \in 1..m : j # x => \E i \in 1..(m - 1) : a[i] = arr[j]
    <3> SUFFICES ASSUME NEW j \in 1..m, j # x PROVE \E i \in 1..(m - 1) : a[i] = arr[j]
      OBVIOUS
    <3>1. CASE j = m
      <4>1. x \in 1..(m - 1) /\ a[x] = arr[j]
        BY <1>1, <1>2, <1>7, <3>1
      <4>2. QED
        BY <4>1
    <3>2. CASE j # m
      <4>1. j \in 1..(m - 1) /\ a[j] = arr[j]
        BY <1>1, <1>7, <3>2
      <4>2. QED
        BY <4>1
    <3>3. QED
      BY <3>1, <3>2
  <2>3. \A i, j \in 1..m : i # j => arr[i] # arr[j]
    BY <1>3
  <2>4. \A y : y \in {a[i] : i \in DOMAIN a} <=> \E i \in 1..(m - 1) : y = a[i]
    BY <1>7
  <2>5. \A y : y \in {arr[i] : i \in DOMAIN arr} <=> \E j \in 1..m : y = arr[j]
    BY <1>1
  <2>6. ASSUME NEW y
        PROVE  y \in {a[i] : i \in DOMAIN a} <=>
               y \in {arr[i] : i \in DOMAIN arr} /\ y # arr[x]
    <3>1. \A j \in 1..m : arr[j] # arr[x] <=> j # x
      BY <1>2, <2>3
    <3>2. (\E i \in 1..(m - 1) : y = a[i]) <=> (\E j \in 1..m : y = arr[j] /\ j # x)
      BY <2>1, <2>2, ZenonT(30)
    <3>3. QED
      BY <2>4, <2>5, <3>1, <3>2, ZenonT(30)
  <2>7. QED
    BY <2>6
<1>13. QED
  BY <1>7, <1>8, <1>6, <1>10, <1>11, <1>12 DEF PoolArrays, InPool, m, a, o, q

-----------------------------------------------------------------------------
(* The table and its free list *)

\* FreeListExact, of any table.
TableList(ent, head, fr) ==
  /\ \A i \in 1..Len(fr) :
       /\ fr[i] \in 1..Len(ent)
       /\ ent[fr[i]].number = IF i = Len(fr) THEN 0 ELSE fr[i + 1]
       /\ \A j \in 1..Len(fr) : fr[i] = fr[j] => i = j
  /\ \A n \in 1..Len(ent) : ent[n].number = n <=> ~ (\E i \in 1..Len(fr) : fr[i] = n)
  /\ head = IF Len(fr) = 0 THEN 0 ELSE fr[1]

LEMMA FreeListIsTableList ==
  ASSUME TypeOK
  PROVE  FreeListExact <=> TableList(entities, free_list, freed)
<1>1. entities \in Seq(Identifier) /\ freed \in Seq(Numbers)
  BY DEF TypeOK
<1>2. DOMAIN entities = 1..Len(entities) /\ DOMAIN freed = 1..Len(freed)
  BY <1>1
<1>3. Len(freed) = 0 <=> freed = <<>>
  BY <1>1, EmptySeq
<1>4. QED
  BY <1>2, <1>3 DEF FreeListExact, TableList, IsFree

LEMMA TableFacts ==
  ASSUME NEW ent \in Seq(Identifier), NEW fr \in Seq(Numbers)
  PROVE  /\ Len(ent) \in Nat /\ DOMAIN ent = 1..Len(ent)
         /\ Len(fr) \in Nat /\ DOMAIN fr = 1..Len(fr)
         /\ \A n \in 1..Len(ent) : ent[n] \in Identifier
OBVIOUS

\* The table and the free numbers after each of the three operations.
Extended(ent) == Append(ent, [number |-> Len(ent) + 1, version |-> 0])
Reused(ent, n) == [ent EXCEPT ![n].number = n]
Put(ent, n, link) == [ent EXCEPT ![n] = link]
Pushed(n, fr) == <<n>> \o fr

LEMMA Generated ==
  ASSUME NEW ent \in Seq(Identifier), Len(ent) < MaxEntities, NEW head, NEW fr \in Seq(Numbers),
         TableList(ent, head, fr), Versions \in Nat, Versions >= 2, MaxEntities \in Nat
  PROVE  /\ Extended(ent) \in Seq(Identifier) /\ Len(Extended(ent)) = Len(ent) + 1 /\ DOMAIN Extended(ent) = 1..(Len(ent) + 1)
         /\ Extended(ent)[Len(ent) + 1] = [number |-> Len(ent) + 1, version |-> 0]
         /\ \A n \in 1..Len(ent) : Extended(ent)[n] = ent[n]
         /\ TableList(Extended(ent), head, fr)
<1> DEFINE t == Extended(ent)
           m == Len(ent)
           new == [number |-> m + 1, version |-> 0]
<1>1. Len(ent) <= MaxEntities /\ m \in Nat
  OBVIOUS
<1>2. /\ DOMAIN ent = 1..m /\ Len(fr) \in Nat
      /\ \A i \in 1..Len(fr) :
           /\ fr[i] \in 1..m
           /\ ent[fr[i]].number = IF i = Len(fr) THEN 0 ELSE fr[i + 1]
           /\ \A j \in 1..Len(fr) : fr[i] = fr[j] => i = j
      /\ \A n \in 1..m : ent[n].number = n <=> ~ (\E i \in 1..Len(fr) : fr[i] = n)
      /\ head = IF Len(fr) = 0 THEN 0 ELSE fr[1]
  BY <1>1, TableFacts DEF TableList
<1>3. new \in Identifier /\ new.number = m + 1
  <2>1. m + 1 \in 1..MaxEntities /\ 0 \in 0..(Versions - 1 - 1)
    BY <1>1
  <2>2. QED
    BY <2>1 DEF Identifier, Numbers, Tombstone
<1>4. t = Append(ent, new)
  BY DEF Extended
<1> HIDE DEF new, t
<1>5. /\ t \in Seq(Identifier) /\ Len(t) = m + 1 /\ DOMAIN t = 1..(m + 1) /\ t[m + 1] = new
      /\ \A n \in 1..m : t[n] = ent[n]
  BY <1>3, <1>4, Appended
<1> HIDE DEF m
<1>6. \A i \in 1..Len(fr) :
        /\ fr[i] \in 1..Len(t)
        /\ t[fr[i]].number = IF i = Len(fr) THEN 0 ELSE fr[i + 1]
        /\ \A j \in 1..Len(fr) : fr[i] = fr[j] => i = j
  <2>1. \A i \in 1..Len(fr) : fr[i] \in 1..Len(t) /\ t[fr[i]] = ent[fr[i]]
    BY <1>1, <1>2, <1>5
  <2>2. QED
    BY <1>2, <2>1
<1>7. \A n \in 1..Len(t) : t[n].number = n <=> ~ (\E i \in 1..Len(fr) : fr[i] = n)
  <2> SUFFICES ASSUME NEW n \in 1..(m + 1)
               PROVE  t[n].number = n <=> ~ (\E i \in 1..Len(fr) : fr[i] = n)
    BY <1>5
  <2>1. CASE n = m + 1
    BY <1>1, <1>2, <1>3, <1>5, <2>1
  <2>2. CASE n # m + 1
    <3>1. n \in 1..m /\ t[n] = ent[n]
      BY <1>1, <1>5, <2>2
    <3>2. QED
      BY <1>2, <3>1
  <2>3. QED
    BY <2>1, <2>2
<1>8. TableList(t, head, fr)
  BY <1>2, <1>5, <1>6, <1>7 DEF TableList
<1>9. QED
  BY <1>5, <1>8 DEF m, new, t

LEMMA Recycled ==
  ASSUME NEW ent \in Seq(Identifier), Len(ent) <= MaxEntities, NEW head \in Numbers,
         NEW fr \in Seq(Numbers), TableList(ent, head, fr), 0 \notin Numbers
  PROVE  /\ Reused(ent, head) \in Seq(Identifier) /\ Len(Reused(ent, head)) = Len(ent) /\ DOMAIN Reused(ent, head) = 1..Len(ent)
         /\ head \in 1..Len(ent) /\ ent[head].number # head
         /\ Reused(ent, head)[head] = [number |-> head, version |-> ent[head].version]
         /\ \A n \in 1..Len(ent) : n # head => Reused(ent, head)[n] = ent[n]
         /\ ent[head].number \in Numbers \cup {0} /\ Tail(fr) \in Seq(Numbers)
         /\ TableList(Reused(ent, head), ent[head].number, Tail(fr))
<1> DEFINE t == Reused(ent, head)
           h == ent[head].number
           f == Tail(fr)
           new == [number |-> head, version |-> ent[head].version]
<1>1. /\ Len(ent) \in Nat /\ DOMAIN ent = 1..Len(ent) /\ Len(fr) \in Nat
      /\ \A i \in 1..Len(fr) :
           /\ fr[i] \in 1..Len(ent)
           /\ ent[fr[i]].number = IF i = Len(fr) THEN 0 ELSE fr[i + 1]
           /\ \A j \in 1..Len(fr) : fr[i] = fr[j] => i = j
      /\ \A n \in 1..Len(ent) : /\ ent[n] \in Identifier
                                /\ ent[n].number = n <=> ~ (\E i \in 1..Len(fr) : fr[i] = n)
      /\ head = IF Len(fr) = 0 THEN 0 ELSE fr[1]
  BY TableFacts DEF TableList
<1>2. Len(fr) # 0 /\ fr # <<>> /\ head = fr[1] /\ 1 \in 1..Len(fr)
  BY <1>1, EmptySeq
<1>3. head \in 1..Len(ent) /\ ent[head].number # head /\ ent[head] \in Identifier
  BY <1>1, <1>2
<1>4. new \in Identifier /\ new.number = head
  BY <1>3 DEF Identifier
<1>5. t = [ent EXCEPT ![head] = new]
  <2>1. [ent[head] EXCEPT !.number = head] = new
    BY <1>3 DEF Identifier
  <2>2. t = [ent EXCEPT ![head] = [ent[head] EXCEPT !.number = head]]
    BY <1>1, <1>3 DEF Reused
  <2>3. QED
    BY <2>1, <2>2
<1> HIDE DEF new, t
<1>6. /\ t \in Seq(Identifier) /\ Len(t) = Len(ent) /\ DOMAIN t = 1..Len(ent) /\ t[head] = new
      /\ \A n \in 1..Len(ent) : n # head => t[n] = ent[n]
  <2> DEFINE u == [ent EXCEPT ![head] = new]
  <2>1. /\ u \in Seq(Identifier) /\ Len(u) = Len(ent) /\ DOMAIN u = 1..Len(ent) /\ u[head] = new
        /\ \A n \in 1..Len(ent) : n # head => u[n] = ent[n]
    BY <1>3, <1>4, Replaced
  <2> HIDE DEF u
  <2>2. t = u
    BY <1>5 DEF u
  <2>3. QED
    BY <2>1, <2>2
<1>7. /\ f \in Seq(Numbers) /\ Len(f) = Len(fr) - 1
      /\ \A i \in 1..(Len(fr) - 1) : f[i] = fr[i + 1]
  BY <1>2
<1>8. h = IF Len(fr) = 1 THEN 0 ELSE fr[2]
  <2>1. ent[fr[1]].number = IF 1 = Len(fr) THEN 0 ELSE fr[1 + 1]
    BY <1>1, <1>2
  <2>2. 1 + 1 = 2
    OBVIOUS
  <2>3. QED
    BY <1>2, <2>1, <2>2
<1> HIDE DEF h, f
<1>9. h \in Numbers \cup {0} /\ h = IF Len(f) = 0 THEN 0 ELSE f[1]
  <2>1. CASE Len(fr) = 1
    BY <1>7, <1>8, <2>1
  <2>2. CASE Len(fr) # 1
    <3>1. 1 \in 1..(Len(fr) - 1) /\ 2 \in 1..Len(fr) /\ Len(f) # 0
      BY <1>1, <1>2, <1>7, <2>2
    <3>2. fr[2] \in Numbers /\ f[1] = fr[2]
      BY <1>7, <3>1
    <3>3. QED
      BY <1>8, <2>2, <3>1, <3>2
  <2>3. QED
    BY <2>1, <2>2
<1>10. \A i \in 1..Len(f) : /\ i + 1 \in 1..Len(fr) /\ f[i] = fr[i + 1] /\ f[i] # head
                            /\ f[i] \in 1..Len(ent) /\ t[f[i]] = ent[fr[i + 1]]
  <2> SUFFICES ASSUME NEW i \in 1..Len(f)
               PROVE  /\ i + 1 \in 1..Len(fr) /\ f[i] = fr[i + 1] /\ f[i] # head
                      /\ f[i] \in 1..Len(ent) /\ t[f[i]] = ent[fr[i + 1]]
    OBVIOUS
  <2>1. i + 1 \in 1..Len(fr) /\ i + 1 # 1 /\ f[i] = fr[i + 1]
    BY <1>1, <1>7
  <2>2. fr[i + 1] # fr[1] /\ fr[i + 1] \in 1..Len(ent)
    BY <1>1, <1>2, <2>1
  <2>3. QED
    BY <1>2, <1>6, <2>1, <2>2
<1>11. \A i \in 1..Len(f) :
         /\ f[i] \in 1..Len(t)
         /\ t[f[i]].number = IF i = Len(f) THEN 0 ELSE f[i + 1]
         /\ \A j \in 1..Len(f) : f[i] = f[j] => i = j
  <2> SUFFICES ASSUME NEW i \in 1..Len(f)
               PROVE  /\ f[i] \in 1..Len(t)
                      /\ t[f[i]].number = IF i = Len(f) THEN 0 ELSE f[i + 1]
                      /\ \A j \in 1..Len(f) : f[i] = f[j] => i = j
    OBVIOUS
  <2>1. f[i] \in 1..Len(t)
    BY <1>6, <1>10
  <2>2. t[f[i]].number = IF i + 1 = Len(fr) THEN 0 ELSE fr[i + 2]
    <3>1. ent[fr[i + 1]].number = IF i + 1 = Len(fr) THEN 0 ELSE fr[(i + 1) + 1]
      BY <1>1, <1>10
    <3>2. (i + 1) + 1 = i + 2
      OBVIOUS
    <3>3. QED
      BY <1>10, <3>1, <3>2
  <2>3. i # Len(f) => f[i + 1] = fr[i + 2]
    <3>1. i # Len(f) => i + 1 \in 1..(Len(fr) - 1)
      BY <1>1, <1>7
    <3>2. (i + 1) + 1 = i + 2
      OBVIOUS
    <3>3. QED
      BY <1>7, <3>1, <3>2
  <2>4. i = Len(f) <=> i + 1 = Len(fr)
    BY <1>1, <1>7
  <2>5. \A j \in 1..Len(f) : f[i] = f[j] => i + 1 = j + 1
    BY <1>1, <1>10
  <2>6. QED
    BY <1>1, <1>7, <2>1, <2>2, <2>3, <2>4, <2>5
<1>12. \A n \in 1..Len(t) : t[n].number = n <=> ~ (\E i \in 1..Len(f) : f[i] = n)
  <2> SUFFICES ASSUME NEW n \in 1..Len(ent)
               PROVE  t[n].number = n <=> ~ (\E i \in 1..Len(f) : f[i] = n)
    BY <1>6
  <2>1. CASE n = head
    BY <1>4, <1>6, <1>10, <2>1
  <2>2. CASE n # head
    <3>1. (\E i \in 1..Len(f) : f[i] = n) <=> (\E i \in 1..Len(fr) : fr[i] = n)
      <4>1. ASSUME NEW i \in 1..Len(fr), fr[i] = n
            PROVE  i - 1 \in 1..Len(f) /\ f[i - 1] = n
        <5>1. i # 1 /\ i - 1 \in 1..(Len(fr) - 1) /\ (i - 1) + 1 = i
          BY <1>1, <1>2, <2>2, <4>1
        <5>2. QED
          BY <1>7, <4>1, <5>1
      <4>2. QED
        BY <1>10, <4>1, SMTT(20)
    <3>2. t[n] = ent[n]
      BY <1>6, <2>2
    <3>3. QED
      BY <1>1, <3>1, <3>2
  <2>3. QED
    BY <2>1, <2>2
<1>13. TableList(t, h, f)
  BY <1>6, <1>7, <1>9, <1>11, <1>12 DEF TableList
<1>14. QED
  BY <1>3, <1>6, <1>7, <1>9, <1>13 DEF new, t, h, f

LEMMA Released ==
  ASSUME NEW ent \in Seq(Identifier), Len(ent) <= MaxEntities, NEW head \in Numbers \cup {0},
         NEW fr \in Seq(Numbers), TableList(ent, head, fr), 0 \notin Numbers,
         NEW n \in 1..Len(ent), n \in Numbers, ent[n].number = n,
         NEW new \in Identifier, new.number = head
  PROVE  /\ Put(ent, n, new) \in Seq(Identifier) /\ Len(Put(ent, n, new)) = Len(ent) /\ DOMAIN Put(ent, n, new) = 1..Len(ent)
         /\ Put(ent, n, new)[n] = new /\ new.number # n
         /\ \A k \in 1..Len(ent) : k # n => Put(ent, n, new)[k] = ent[k]
         /\ Pushed(n, fr) \in Seq(Numbers) /\ TableList(Put(ent, n, new), n, Pushed(n, fr))
<1> DEFINE t == Put(ent, n, new)
           f == Pushed(n, fr)
<1>1. /\ Len(ent) \in Nat /\ DOMAIN ent = 1..Len(ent) /\ Len(fr) \in Nat
      /\ \A i \in 1..Len(fr) :
           /\ fr[i] \in 1..Len(ent)
           /\ ent[fr[i]].number = IF i = Len(fr) THEN 0 ELSE fr[i + 1]
           /\ \A j \in 1..Len(fr) : fr[i] = fr[j] => i = j
      /\ \A k \in 1..Len(ent) : ent[k].number = k <=> ~ (\E i \in 1..Len(fr) : fr[i] = k)
      /\ head = IF Len(fr) = 0 THEN 0 ELSE fr[1]
  BY TableFacts DEF TableList
<1>2. \A i \in 1..Len(fr) : fr[i] # n
  BY <1>1
<1>3. head # n
  BY <1>1, <1>2
<1>4. /\ t \in Seq(Identifier) /\ Len(t) = Len(ent) /\ DOMAIN t = 1..Len(ent) /\ t[n] = new
      /\ \A k \in 1..Len(ent) : k # n => t[k] = ent[k]
  BY Replaced DEF Put
<1>5. /\ f \in Seq(Numbers) /\ Len(f) = Len(fr) + 1 /\ f[1] = n
      /\ \A i \in 1..Len(fr) : f[i + 1] = fr[i]
  BY <1>1 DEF Pushed
<1> HIDE DEF t, f
<1>6. \A i \in 1..Len(f) : i = 1 \/ (i - 1 \in 1..Len(fr) /\ f[i] = fr[i - 1])
  <2> SUFFICES ASSUME NEW i \in 1..Len(f), i # 1
               PROVE  i - 1 \in 1..Len(fr) /\ f[i] = fr[i - 1]
    OBVIOUS
  <2>1. i - 1 \in 1..Len(fr) /\ (i - 1) + 1 = i
    BY <1>1, <1>5
  <2>2. QED
    BY <1>5, <2>1
<1>7. \A i \in 1..Len(f) :
        /\ f[i] \in 1..Len(t)
        /\ t[f[i]].number = IF i = Len(f) THEN 0 ELSE f[i + 1]
        /\ \A j \in 1..Len(f) : f[i] = f[j] => i = j
  <2> SUFFICES ASSUME NEW i \in 1..Len(f)
               PROVE  /\ f[i] \in 1..Len(t)
                      /\ t[f[i]].number = IF i = Len(f) THEN 0 ELSE f[i + 1]
                      /\ \A j \in 1..Len(f) : f[i] = f[j] => i = j
    OBVIOUS
  <2>1. CASE i = 1
    <3>1. t[f[i]].number = head
      BY <1>4, <1>5, <2>1
    <3>2. head = IF i = Len(f) THEN 0 ELSE f[i + 1]
      <4>1. CASE Len(fr) = 0
        BY <1>1, <1>5, <2>1, <4>1
      <4>2. CASE Len(fr) # 0
        <5>1. 1 \in 1..Len(fr) /\ i # Len(f)
          BY <1>1, <1>5, <2>1, <4>2
        <5>2. f[1 + 1] = fr[1]
          BY <1>5, <5>1
        <5>3. QED
          BY <1>1, <2>1, <4>2, <5>1, <5>2
      <4>3. QED
        BY <4>1, <4>2
    <3>3. \A j \in 1..Len(f) : f[i] = f[j] => i = j
      BY <1>2, <1>5, <1>6, <2>1
    <3>4. QED
      BY <1>4, <1>5, <2>1, <3>1, <3>2, <3>3
  <2>2. CASE i # 1
    <3>1. i - 1 \in 1..Len(fr) /\ f[i] = fr[i - 1]
      BY <1>6, <2>2
    <3>2. fr[i - 1] \in 1..Len(ent) /\ fr[i - 1] # n
          /\ ent[fr[i - 1]].number = IF i - 1 = Len(fr) THEN 0 ELSE fr[(i - 1) + 1]
      BY <1>1, <1>2, <3>1
    <3>3. t[f[i]] = ent[fr[i - 1]]
      BY <1>4, <3>1, <3>2
    <3>4. i - 1 = Len(fr) <=> i = Len(f)
      BY <1>1, <1>5
    <3>5. i # Len(f) => f[i + 1] = fr[(i - 1) + 1]
      <4>1. i # Len(f) => i \in 1..Len(fr) /\ (i - 1) + 1 = i
        BY <1>1, <1>5
      <4>2. QED
        BY <1>5, <4>1
    <3>6. \A j \in 1..Len(f) : f[i] = f[j] => i = j
      <4> SUFFICES ASSUME NEW j \in 1..Len(f), f[i] = f[j] PROVE i = j
        OBVIOUS
      <4>1. j # 1
        BY <1>5, <3>1, <3>2
      <4>2. j - 1 \in 1..Len(fr) /\ fr[i - 1] = fr[j - 1]
        BY <1>6, <3>1, <4>1
      <4>3. i - 1 = j - 1
        BY <1>1, <3>1, <4>2
      <4>4. QED
        BY <1>1, <1>5, <4>3
    <3>7. QED
      BY <1>4, <3>1, <3>2, <3>3, <3>4, <3>5, <3>6
  <2>3. QED
    BY <2>1, <2>2
<1>8. \A k \in 1..Len(t) : t[k].number = k <=> ~ (\E i \in 1..Len(f) : f[i] = k)
  <2> SUFFICES ASSUME NEW k \in 1..Len(ent)
               PROVE  t[k].number = k <=> ~ (\E i \in 1..Len(f) : f[i] = k)
    BY <1>4
  <2>1. CASE k = n
    <3>1. 1 \in 1..Len(f)
      BY <1>1, <1>5
    <3>2. QED
      BY <1>3, <1>4, <1>5, <2>1, <3>1
  <2>2. CASE k # n
    <3>1. (\E i \in 1..Len(f) : f[i] = k) <=> (\E i \in 1..Len(fr) : fr[i] = k)
      <4>1. ASSUME NEW i \in 1..Len(fr), fr[i] = k
            PROVE  i + 1 \in 1..Len(f) /\ f[i + 1] = k
        BY <1>1, <1>5, <4>1
      <4>2. QED
        BY <1>5, <1>6, <2>2, <4>1, ZenonT(30)
    <3>2. t[k] = ent[k]
      BY <1>4, <2>2
    <3>3. QED
      BY <1>1, <3>1, <3>2
  <2>3. QED
    BY <2>1, <2>2
<1>9. n = IF Len(f) = 0 THEN 0 ELSE f[1]
  BY <1>1, <1>5
<1>10. TableList(t, n, f)
  BY <1>4, <1>5, <1>7, <1>8, <1>9 DEF TableList
<1>11. QED
  BY <1>3, <1>4, <1>5, <1>10 DEF t, f

-----------------------------------------------------------------------------
(* Versions *)

LEMMA ConstantTypes ==
  /\ MaxEntities \in Nat /\ PoolCount \in Nat /\ Versions \in Nat /\ Versions >= 2
  /\ Tombstone \in Nat \ {0} /\ Versions = Tombstone + 1
  /\ 0 \notin Numbers /\ \A n \in Numbers : n \in Nat /\ n <= MaxEntities
  /\ 0 \notin Pools /\ \A p \in Pools : p \in Nat /\ p <= PoolCount
BY EntitiesAssumption DEF Numbers, Pools, Tombstone

LEMMA Division ==
  ASSUME NEW C \in Nat \ {0}, NEW a \in Nat
  PROVE  a % C \in 0..(C - 1) /\ a = C * (a \div C) + (a % C) /\ a \div C \in Nat
BY Z3

LEMMA Remainder ==
  ASSUME NEW C \in Nat \ {0}, NEW q \in Nat, NEW r \in 0..(C - 1)
  PROVE  (C * q + r) % C = r
BY Z3

LEMMA NextRemainder ==
  ASSUME NEW C \in Nat \ {0}, NEW a \in Nat
  PROVE  (a + 1) % C = IF (a % C) + 1 = C THEN 0 ELSE (a % C) + 1
<1> DEFINE q == a \div C
           r == a % C
<1>1. r \in 0..(C - 1) /\ a = C * q + r /\ q \in Nat
  BY Division
<1> HIDE DEF q, r
<1>2. CASE r + 1 = C
  <2>1. a + 1 = C * (q + 1) + 0
    <3>1. C * (q + 1) = C * q + C
      BY <1>1, Z3
    <3>2. C * q \in Nat /\ C * (q + 1) \in Nat
      BY <1>1, Z3
    <3>3. QED
      BY <1>1, <1>2, <3>1, <3>2
  <2>2. (C * (q + 1) + 0) % C = 0
    BY <1>1, Remainder
  <2>3. QED
    BY <1>2, <2>1, <2>2 DEF r
<1>3. CASE r + 1 # C
  <2>1. C * q \in Nat
    BY <1>1, Z3
  <2>2. a + 1 = C * q + (r + 1) /\ r + 1 \in 0..(C - 1)
    BY <1>1, <1>3, <2>1
  <2>3. (C * q + (r + 1)) % C = r + 1
    BY <1>1, <2>2, Remainder
  <2>4. QED
    BY <1>3, <2>2, <2>3 DEF r
<1>4. QED
  BY <1>2, <1>3

\* The next version is the next remainder: the tombstone, which is one less
\* than the versions there are, is skipped.
LEMMA NextVersionIs ==
  ASSUME NEW v \in 0..(Tombstone - 1)
  PROVE  /\ NextVersion(v) = IF v + 1 = Tombstone THEN 0 ELSE v + 1
         /\ NextVersion(v) \in 0..(Tombstone - 1)
<1>1. Tombstone \in Nat \ {0} /\ Versions = Tombstone + 1
  BY ConstantTypes
<1>2. CASE v + 1 = Tombstone
  <2>1. v + 2 = Versions * 1 + 0 /\ 0 \in 0..(Versions - 1) /\ Versions \in Nat \ {0}
    BY <1>1, <1>2
  <2>2. (v + 2) % Versions = 0
    BY <2>1, Remainder
  <2>3. QED
    BY <1>1, <1>2, <2>2 DEF NextVersion
<1>3. CASE v + 1 # Tombstone
  <2>1. v + 1 = Versions * 0 + (v + 1) /\ v + 1 \in 0..(Versions - 1) /\ Versions \in Nat \ {0}
    BY <1>1, <1>3
  <2>2. (v + 1) % Versions = v + 1
    BY <2>1, Remainder
  <2>3. v + 1 \in 0..(Tombstone - 1)
    BY <1>1, <1>3
  <2>4. QED
    BY <1>3, <2>2, <2>3 DEF NextVersion
<1>4. QED
  BY <1>2, <1>3

-----------------------------------------------------------------------------
(* The identifiers in use *)

\* Valid, of any table.
Used(ent) == {ent[n] : n \in {m \in DOMAIN ent : ent[m].number = m}}

LEMMA ValidIsUsed == Valid = Used(entities)
BY DEF Valid, Used

LEMMA UsedAre ==
  ASSUME NEW ent \in Seq(Identifier), NEW e
  PROVE  e \in Used(ent) <=> \E n \in 1..Len(ent) : ent[n].number = n /\ e = ent[n]
BY DEF Used

LEMMA IsValid ==
  ASSUME TypeOK, NEW e \in Identifier
  PROVE  is_valid(e) <=> e \in Used(entities)
BY UsedAre DEF is_valid, TypeOK

LEMMA UsedAdded ==
  ASSUME NEW ent \in Seq(Identifier), NEW t \in Seq(Identifier), Len(ent) <= Len(t),
         NEW n \in 1..Len(t), t[n].number = n, n \in 1..Len(ent) => ent[n].number # n,
         \A k \in 1..Len(t) : k # n => k \in 1..Len(ent) /\ t[k] = ent[k]
  PROVE  /\ Used(t) = Used(ent) \cup {t[n]}
         /\ \A e \in Used(ent) : e.number # n
<1>1. 1..Len(ent) \subseteq 1..Len(t)
  BY LenProperties
<1>2. QED
  BY <1>1, UsedAre

LEMMA UsedRemoved ==
  ASSUME NEW ent \in Seq(Identifier), NEW t \in Seq(Identifier), Len(t) = Len(ent),
         NEW n \in 1..Len(ent), ent[n].number = n, t[n].number # n,
         \A k \in 1..Len(ent) : k # n => t[k] = ent[k]
  PROVE  Used(t) = Used(ent) \ {ent[n]}
<1>1. \A e : e \in Used(t) <=> \E k \in 1..Len(ent) : t[k].number = k /\ e = t[k]
  BY UsedAre
<1>2. \A e : e \in Used(ent) <=> \E k \in 1..Len(ent) : ent[k].number = k /\ e = ent[k]
  BY UsedAre
<1>3. \A k \in 1..Len(ent) : ent[k].number = k /\ ent[k] = ent[n] => k = n
  OBVIOUS
<1>4. QED
  BY <1>1, <1>2, <1>3

-----------------------------------------------------------------------------
(* What creating and releasing do to the table *)

\* The version of a number in use is that of its use, and the version of a
\* free one that of the next.
Counted ==
  \A n \in Numbers :
    IF n \in 1..Len(entities)
    THEN /\ lives[n] >= 1
         /\ entities[n].version =
              (IF entities[n].number = n THEN lives[n] - 1 ELSE lives[n]) % Tombstone
    ELSE lives[n] = 0

TableType ==
  /\ entities \in Seq(Identifier) /\ Len(entities) <= MaxEntities
  /\ free_list \in Numbers \cup {0}
  /\ freed \in Seq(Numbers)
  /\ lives \in [Numbers -> Nat]

TableOK == TableType /\ TableList(entities, free_list, freed) /\ Counted

LEMMA Create ==
  ASSUME TableOK, generate_identifier \/ recycle_identifier
  PROVE  /\ TableOK'
         /\ \E n \in Numbers :
              /\ \A e \in Used(entities) : e.number # n
              /\ Used(entities)' =
                   Used(entities) \cup {[number |-> n, version |-> lives[n] % Tombstone]}
              /\ lives' = [lives EXCEPT ![n] = @ + 1]
<1> DEFINE m == Len(entities)
<1>1. /\ entities \in Seq(Identifier) /\ m \in Nat /\ m <= MaxEntities
      /\ free_list \in Numbers \cup {0} /\ freed \in Seq(Numbers) /\ lives \in [Numbers -> Nat]
      /\ TableList(entities, free_list, freed)
  BY DEF TableOK, TableType
<1>2. \A n \in Numbers :
        IF n \in 1..m
        THEN /\ lives[n] >= 1
             /\ entities[n].version =
                  (IF entities[n].number = n THEN lives[n] - 1 ELSE lives[n]) % Tombstone
        ELSE lives[n] = 0
  BY DEF TableOK, Counted
<1>3. /\ MaxEntities \in Nat /\ Versions \in Nat /\ Versions >= 2 /\ Tombstone \in Nat \ {0}
      /\ 0 \notin Numbers /\ Numbers = 1..MaxEntities
  BY ConstantTypes DEF Numbers
<1>4. 0 % Tombstone = 0
  <2>1. 0 = Tombstone * 0 + 0 /\ 0 \in 0..(Tombstone - 1)
    BY <1>3
  <2>2. (Tombstone * 0 + 0) % Tombstone = 0
    BY <1>3, <2>1, Remainder
  <2>3. QED
    BY <2>1, <2>2
<1>5. CASE generate_identifier
  <2> DEFINE n == m + 1
             t == Extended(entities)
  <2>1. /\ free_list = 0 /\ m < MaxEntities /\ entities' = t
        /\ lives' = [lives EXCEPT ![n] = @ + 1]
        /\ free_list' = free_list /\ freed' = freed
    BY <1>5 DEF generate_identifier, Extended
  <2>2. /\ t \in Seq(Identifier) /\ Len(t) = m + 1
        /\ t[n] = [number |-> n, version |-> 0]
        /\ \A k \in 1..m : t[k] = entities[k]
        /\ TableList(t, free_list, freed)
    BY <1>1, <1>3, <2>1, Generated
  <2> HIDE DEF t
  <2>3. n \in Numbers /\ n \notin 1..m /\ lives[n] = 0
    BY <1>1, <1>2, <1>3, <2>1
  <2> HIDE DEF n
  <2>4. 1..Len(t) = 1..m \cup {n} /\ t[n].number = n /\ t[n].version = 0
    BY <1>1, <2>2 DEF n
  <2>5. lives' \in [Numbers -> Nat] /\ lives'[n] = 1
        /\ \A k \in Numbers : k # n => lives'[k] = lives[k]
    BY <1>1, <2>1, <2>3
  <2> HIDE DEF m
  <2>6. Used(t) = Used(entities) \cup {t[n]} /\ \A e \in Used(entities) : e.number # n
    <3>1. /\ n \in 1..Len(t) /\ Len(entities) <= Len(t)
          /\ n \in 1..Len(entities) => entities[n].number # n
          /\ \A k \in 1..Len(t) : k # n => k \in 1..Len(entities) /\ t[k] = entities[k]
      BY <1>1, <2>2, <2>3, <2>4 DEF m
    <3>2. QED
      BY <1>1, <2>2, <2>4, <3>1, UsedAdded, ZenonT(30)
  <2>7. \A k \in Numbers :
          IF k \in 1..Len(t)
          THEN /\ lives'[k] >= 1
               /\ t[k].version = (IF t[k].number = k THEN lives'[k] - 1 ELSE lives'[k]) % Tombstone
          ELSE lives'[k] = 0
    <3> SUFFICES ASSUME NEW k \in Numbers
                 PROVE  IF k \in 1..Len(t)
                        THEN /\ lives'[k] >= 1
                             /\ t[k].version = (IF t[k].number = k THEN lives'[k] - 1
                                                ELSE lives'[k]) % Tombstone
                        ELSE lives'[k] = 0
      OBVIOUS
    <3>1. CASE k = n
      <4>1. lives'[k] - 1 = 0
        BY <2>5, <3>1
      <4>2. QED
        BY <1>4, <2>4, <2>5, <3>1, <4>1
    <3>2. CASE k # n
      <4>1. (k \in 1..Len(t) <=> k \in 1..m) /\ lives'[k] = lives[k]
            /\ (k \in 1..m => t[k] = entities[k])
        BY <2>2, <2>4, <2>5, <3>2
      <4>2. QED
        BY <1>2, <4>1
    <3>3. QED
      BY <3>1, <3>2
  <2>8. TableOK'
    <3>1. TableType'
      BY <1>1, <1>3, <2>1, <2>2, <2>5 DEF TableType, m
    <3>2. TableList(entities, free_list, freed)'
      BY <2>1, <2>2
    <3>3. Counted'
      BY <2>1, <2>7 DEF Counted
    <3>4. QED
      BY <3>1, <3>2, <3>3 DEF TableOK
  <2>9. Used(entities)' = Used(entities) \cup {[number |-> n, version |-> lives[n] % Tombstone]}
    BY <1>4, <2>1, <2>2, <2>3, <2>6
  <2>10. lives' = [lives EXCEPT ![n] = @ + 1]
    BY <2>1
  <2>11. QED
    BY <2>3, <2>6, <2>8, <2>9, <2>10
<1>6. CASE recycle_identifier
  <2> DEFINE n == free_list
             t == Reused(entities, free_list)
             h == entities[free_list].number
             f == Tail(freed)
  <2>1. /\ n \in Numbers /\ entities' = t /\ free_list' = h /\ freed' = f
        /\ lives' = [lives EXCEPT ![n] = @ + 1]
    BY <1>1, <1>6 DEF recycle_identifier, Reused
  <2>2. /\ t \in Seq(Identifier) /\ Len(t) = m
        /\ n \in 1..m /\ entities[n].number # n
        /\ t[n] = [number |-> n, version |-> entities[n].version]
        /\ \A k \in 1..m : k # n => t[k] = entities[k]
        /\ h \in Numbers \cup {0} /\ f \in Seq(Numbers)
        /\ TableList(t, h, f)
    <3>1. /\ Len(entities) <= MaxEntities /\ free_list \in Numbers /\ 0 \notin Numbers
      BY <1>1, <1>3, <2>1
    <3>2. /\ Reused(entities, free_list) \in Seq(Identifier)
          /\ Len(Reused(entities, free_list)) = Len(entities)
          /\ free_list \in 1..Len(entities) /\ entities[free_list].number # free_list
          /\ Reused(entities, free_list)[free_list] =
               [number |-> free_list, version |-> entities[free_list].version]
          /\ \A k \in 1..Len(entities) :
               k # free_list => Reused(entities, free_list)[k] = entities[k]
          /\ entities[free_list].number \in Numbers \cup {0} /\ Tail(freed) \in Seq(Numbers)
          /\ TableList(Reused(entities, free_list), entities[free_list].number, Tail(freed))
      <4> HIDE DEF m, n, t, h, f
      <4>1. QED
        BY <1>1, <3>1, Recycled
    <3>3. QED
      BY <3>2
  <2> HIDE DEF t, h, f, n
  <2>3. entities[n].version = lives[n] % Tombstone /\ lives[n] \in Nat
    BY <1>1, <1>2, <2>1, <2>2
  <2>4. t[n].number = n /\ t[n].version = lives[n] % Tombstone
        /\ t[n] = [number |-> n, version |-> lives[n] % Tombstone]
    BY <2>2, <2>3
  <2>5. lives' \in [Numbers -> Nat] /\ lives'[n] = lives[n] + 1
        /\ \A k \in Numbers : k # n => lives'[k] = lives[k]
    BY <1>1, <2>1
  <2>6. Used(t) = Used(entities) \cup {t[n]} /\ \A e \in Used(entities) : e.number # n
    <3>1. /\ n \in 1..Len(t) /\ entities[n].number # n /\ Len(entities) <= Len(t)
          /\ \A k \in 1..Len(t) : k # n => k \in 1..Len(entities) /\ t[k] = entities[k]
      BY <1>1, <2>2
    <3>2. QED
      BY <1>1, <2>2, <2>4, <3>1, UsedAdded, ZenonT(30)
  <2> HIDE DEF m
  <2>7. \A k \in Numbers :
          IF k \in 1..Len(t)
          THEN /\ lives'[k] >= 1
               /\ t[k].version = (IF t[k].number = k THEN lives'[k] - 1 ELSE lives'[k]) % Tombstone
          ELSE lives'[k] = 0
    <3> SUFFICES ASSUME NEW k \in Numbers
                 PROVE  IF k \in 1..Len(t)
                        THEN /\ lives'[k] >= 1
                             /\ t[k].version = (IF t[k].number = k THEN lives'[k] - 1
                                                ELSE lives'[k]) % Tombstone
                        ELSE lives'[k] = 0
      OBVIOUS
    <3>1. CASE k = n
      <4>1. lives'[k] - 1 = lives[n] /\ lives'[k] >= 1
        BY <2>3, <2>5, <3>1
      <4>2. QED
        BY <2>2, <2>4, <3>1, <4>1
    <3>2. CASE k # n
      <4>1. (k \in 1..Len(t) <=> k \in 1..m) /\ lives'[k] = lives[k]
            /\ (k \in 1..m => t[k] = entities[k])
        BY <2>2, <2>5, <3>2
      <4>2. QED
        BY <1>2, <4>1
    <3>3. QED
      BY <3>1, <3>2
  <2>8. TableOK'
    <3>1. TableType'
      BY <1>1, <2>1, <2>2, <2>5 DEF TableType
    <3>2. TableList(entities, free_list, freed)'
      BY <2>1, <2>2
    <3>3. Counted'
      BY <2>1, <2>7 DEF Counted
    <3>4. QED
      BY <3>1, <3>2, <3>3 DEF TableOK
  <2>9. Used(entities)' = Used(entities) \cup {[number |-> n, version |-> lives[n] % Tombstone]}
    BY <2>1, <2>4, <2>6
  <2>10. QED
    BY <2>1, <2>6, <2>8, <2>9
<1>7. QED
  BY <1>5, <1>6

LEMMA Release ==
  ASSUME TableOK, NEW e \in Used(entities), release_entity(e)
  PROVE  /\ TableOK'
         /\ Used(entities)' = Used(entities) \ {e}
         /\ lives' = lives
         /\ Len(entities)' = Len(entities)
         /\ \A k \in 1..Len(entities) : k # e.number => entities'[k] = entities[k]
<1> DEFINE m == Len(entities)
           n == e.number
           t == Put(entities, n, Link(e))
           f == Pushed(n, freed)
<1>1. /\ entities \in Seq(Identifier) /\ m \in Nat /\ m <= MaxEntities
      /\ free_list \in Numbers \cup {0} /\ freed \in Seq(Numbers) /\ lives \in [Numbers -> Nat]
      /\ TableList(entities, free_list, freed)
  BY DEF TableOK, TableType
<1>2. \A k \in Numbers :
        IF k \in 1..m
        THEN /\ lives[k] >= 1
             /\ entities[k].version =
                  (IF entities[k].number = k THEN lives[k] - 1 ELSE lives[k]) % Tombstone
        ELSE lives[k] = 0
  BY DEF TableOK, Counted
<1>3. /\ MaxEntities \in Nat /\ Tombstone \in Nat \ {0} /\ 0 \notin Numbers
      /\ Numbers = 1..MaxEntities
  BY ConstantTypes DEF Numbers
<1>4. /\ entities' = t /\ free_list' = n /\ freed' = f /\ lives' = lives
  BY DEF release_entity, Put, Pushed
<1>5. n \in 1..m /\ entities[n] = e /\ e \in Identifier /\ n \in Numbers
  <2>1. PICK k \in 1..m : entities[k].number = k /\ e = entities[k]
    BY <1>1, UsedAre
  <2>2. k \in Numbers /\ entities[k] \in Identifier
    BY <1>1, <1>3
  <2>3. QED
    BY <2>1, <2>2
<1>6. e.version \in 0..(Tombstone - 1)
  BY <1>5 DEF Identifier
<1>7. Link(e) \in Identifier /\ Link(e).number = free_list
      /\ Link(e).version = IF e.version + 1 = Tombstone THEN 0 ELSE e.version + 1
  BY <1>1, <1>6, NextVersionIs DEF Link, Identifier
<1>8. /\ t \in Seq(Identifier) /\ Len(t) = m /\ t[n] = Link(e) /\ Link(e).number # n
      /\ \A k \in 1..m : k # n => t[k] = entities[k]
      /\ f \in Seq(Numbers) /\ TableList(t, n, f)
  <2>1. /\ Len(entities) <= MaxEntities /\ 0 \notin Numbers /\ n \in 1..Len(entities)
        /\ entities[n].number = n
    BY <1>1, <1>3, <1>5
  <2> DEFINE link == Link(e)
  <2> HIDE DEF n, m, t, f, link
  <2>2. link \in Identifier /\ link.number = free_list /\ n \in Numbers
    BY <1>5, <1>7 DEF link
  <2>3. /\ Put(entities, n, link) \in Seq(Identifier)
        /\ Len(Put(entities, n, link)) = Len(entities)
        /\ Put(entities, n, link)[n] = link /\ link.number # n
        /\ \A k \in 1..Len(entities) : k # n => Put(entities, n, link)[k] = entities[k]
        /\ Pushed(n, freed) \in Seq(Numbers)
        /\ TableList(Put(entities, n, link), n, Pushed(n, freed))
    BY <1>1, <2>1, <2>2, Released
  <2>4. QED
    BY <2>3 DEF t, f, m, link
<1> HIDE DEF t, f, n
<1>9. Used(t) = Used(entities) \ {e}
  <2>1. entities[n].number = n /\ t[n].number # n
    BY <1>5, <1>7, <1>8 DEF n
  <2>2. QED
    BY <1>1, <1>5, <1>8, <2>1, UsedRemoved
<1>10. Link(e).version = lives[n] % Tombstone /\ lives[n] >= 1
  <2>1. lives[n] - 1 \in Nat /\ e.version = (lives[n] - 1) % Tombstone /\ (lives[n] - 1) + 1 = lives[n]
        /\ lives[n] >= 1
    BY <1>1, <1>2, <1>5 DEF n
  <2> DEFINE a == lives[n] - 1
  <2>2. (a + 1) % Tombstone = IF (a % Tombstone) + 1 = Tombstone THEN 0 ELSE (a % Tombstone) + 1
    BY <1>3, <2>1, NextRemainder
  <2>3. QED
    BY <1>7, <2>1, <2>2
<1> HIDE DEF m
<1>11. \A k \in Numbers :
         IF k \in 1..Len(t)
         THEN /\ lives[k] >= 1
              /\ t[k].version = (IF t[k].number = k THEN lives[k] - 1 ELSE lives[k]) % Tombstone
         ELSE lives[k] = 0
  <2> SUFFICES ASSUME NEW k \in Numbers
               PROVE  IF k \in 1..Len(t)
                      THEN /\ lives[k] >= 1
                           /\ t[k].version = (IF t[k].number = k THEN lives[k] - 1
                                              ELSE lives[k]) % Tombstone
                      ELSE lives[k] = 0
    OBVIOUS
  <2>1. CASE k = n
    BY <1>5, <1>8, <1>10, <2>1
  <2>2. CASE k # n
    <3>1. (k \in 1..Len(t) <=> k \in 1..m) /\ (k \in 1..m => t[k] = entities[k])
      BY <1>8, <2>2
    <3>2. QED
      BY <1>2, <3>1
  <2>3. QED
    BY <2>1, <2>2
<1>12. TableOK'
  <2>1. TableType'
    BY <1>1, <1>4, <1>5, <1>8 DEF TableType, n
  <2>2. TableList(entities, free_list, freed)'
    BY <1>4, <1>8
  <2>3. Counted'
    BY <1>4, <1>11 DEF Counted
  <2>4. QED
    BY <2>1, <2>2, <2>3 DEF TableOK
<1>13. QED
  BY <1>4, <1>8, <1>9, <1>12 DEF m, n

-----------------------------------------------------------------------------
(* What emplacing and erasing do to the pools *)

Contents == [p \in Pools |-> InPool(packed[p])]

PoolsOK ==
  /\ packed \in [Pools -> Seq(Identifier)]
  /\ instances \in [Pools -> Seq(Identifier)]
  /\ sparse \in [Pools -> [Numbers -> Nat]]
  /\ PoolsExact

LEMMA PoolTypes ==
  ASSUME PoolsOK, NEW p \in Pools
  PROVE  /\ packed[p] \in Seq(Identifier) /\ instances[p] \in Seq(Identifier)
         /\ sparse[p] \in [Numbers -> Nat]
         /\ PoolArrays(packed[p], instances[p], sparse[p])
BY PoolIsArrays DEF PoolsOK, PoolsExact

LEMMA Contains ==
  ASSUME PoolsOK, NEW p \in Pools, NEW e \in Identifier
  PROVE  contains(p, e) <=> e \in Contents[p]
<1>1. /\ packed[p] \in Seq(Identifier) /\ sparse[p] \in [Numbers -> Nat]
      /\ PoolArrays(packed[p], instances[p], sparse[p])
  BY PoolTypes
<1>2. e.number # 0 => e.number \in Numbers
  BY DEF Identifier
<1>3. 0 \notin Numbers
  BY ConstantTypes
<1>4. e \in Contents[p] <=> \E i \in DOMAIN packed[p] : packed[p][i] = e
  BY DEF Contents, InPool
<1>5. ASSUME contains(p, e) PROVE e \in Contents[p]
  BY <1>1, <1>2, <1>4, <1>5 DEF contains, PoolArrays
<1>6. ASSUME NEW i \in DOMAIN packed[p], packed[p][i] = e PROVE contains(p, e)
  <2>1. e.number \in Numbers /\ sparse[p][e.number] = i
    BY <1>1, <1>6 DEF PoolArrays
  <2>2. i # 0
    BY <1>1
  <2>3. QED
    BY <1>3, <1>6, <2>1, <2>2 DEF contains
<1>7. QED
  BY <1>4, <1>5, <1>6

LEMMA EmptyPool ==
  ASSUME PoolsOK, NEW p \in Pools
  PROVE  /\ packed[p] = <<>> <=> Contents[p] = {}
         /\ packed[p] # <<>> => Head(packed[p]) \in Contents[p]
         /\ Contents[p] \subseteq Identifier
<1>1. packed[p] \in Seq(Identifier)
  BY PoolTypes
<1>2. \A e : e \in Contents[p] <=> \E i \in 1..Len(packed[p]) : packed[p][i] = e
  BY <1>1 DEF Contents, InPool
<1>3. packed[p] # <<>> => Head(packed[p]) = packed[p][1] /\ 1 \in 1..Len(packed[p])
  BY <1>1, HeadTailProperties, EmptySeq
<1>4. packed[p] = <<>> => 1..Len(packed[p]) = {}
  BY <1>1
<1>5. \A i \in 1..Len(packed[p]) : packed[p][i] \in Identifier
  BY <1>1
<1>6. QED
  BY <1>2, <1>3, <1>4, <1>5

LEMMA PoolReplaced ==
  ASSUME PoolsOK, NEW p \in Pools,
         NEW a \in Seq(Identifier), NEW o \in Seq(Identifier), NEW q \in [Numbers -> Nat],
         PoolArrays(a, o, q),
         packed' = [packed EXCEPT ![p] = a],
         instances' = [instances EXCEPT ![p] = o],
         sparse' = [sparse EXCEPT ![p] = q]
  PROVE  PoolsOK' /\ Contents' = [Contents EXCEPT ![p] = InPool(a)]
<1>1. /\ packed' \in [Pools -> Seq(Identifier)] /\ packed'[p] = a
      /\ instances' \in [Pools -> Seq(Identifier)] /\ instances'[p] = o
      /\ sparse' \in [Pools -> [Numbers -> Nat]] /\ sparse'[p] = q
      /\ \A k \in Pools : k # p => /\ packed'[k] = packed[k] /\ instances'[k] = instances[k]
                                   /\ sparse'[k] = sparse[k]
  BY DEF PoolsOK
<1>2. PoolsExact'
  <2> SUFFICES ASSUME NEW k \in Pools PROVE PoolExact(k)'
    BY DEF PoolsExact
  <2>1. CASE k = p
    BY <1>1, <2>1 DEF PoolExact, PoolArrays
  <2>2. CASE k # p
    <3>1. PoolExact(k)
      BY DEF PoolsOK, PoolsExact
    <3>2. QED
      BY <1>1, <2>2, <3>1 DEF PoolExact
  <2>3. QED
    BY <2>1, <2>2
<1>3. Contents' = [Contents EXCEPT ![p] = InPool(a)]
  BY <1>1 DEF Contents
<1>4. QED
  BY <1>1, <1>2, <1>3 DEF PoolsOK

LEMMA Emplaced ==
  ASSUME PoolsOK, NEW p \in Pools, NEW e \in Identifier, e.number \in Numbers, emplace(p, e)
  PROVE  PoolsOK' /\ Contents' = [Contents EXCEPT ![p] = @ \cup {e}]
<1> DEFINE arr == packed[p]
           a == Append(packed[p], e)
           o == Append(instances[p], e)
           q == Placed(sparse[p], e.number, Len(instances[p]) + 1)
<1>1. /\ arr \in Seq(Identifier) /\ instances[p] \in Seq(Identifier)
      /\ sparse[p] \in [Numbers -> Nat] /\ sparse[p][e.number] = 0
      /\ PoolArrays(arr, instances[p], sparse[p])
  BY PoolTypes DEF emplace
<1>2. /\ packed' = [packed EXCEPT ![p] = a] /\ instances' = [instances EXCEPT ![p] = o]
      /\ sparse' = [sparse EXCEPT ![p] = q]
  <2>1. /\ packed' = [packed EXCEPT ![p] = a] /\ instances' = [instances EXCEPT ![p] = o]
        /\ sparse' = [sparse EXCEPT ![p][e.number] = Len(instances[p]) + 1]
    BY DEF emplace, PoolsOK
  <2>2. [sparse EXCEPT ![p][e.number] = Len(instances[p]) + 1] = [sparse EXCEPT ![p] = q]
    BY DEF PoolsOK, Placed
  <2>3. QED
    BY <2>1, <2>2
<1>3. /\ a \in Seq(Identifier) /\ o \in Seq(Identifier) /\ q \in [Numbers -> Nat]
      /\ PoolArrays(a, o, q)
      /\ DOMAIN a = 1..(Len(arr) + 1) /\ a[Len(arr) + 1] = e
      /\ \A i \in 1..Len(arr) : a[i] = arr[i]
  BY <1>1, ArraysAppended, SMTT(30)
<1> HIDE DEF a, o, q
<1>4. PoolsOK' /\ Contents' = [Contents EXCEPT ![p] = InPool(a)]
  BY <1>2, <1>3, PoolReplaced
<1>5. InPool(a) = Contents[p] \cup {e}
  <2>1. DOMAIN arr = 1..Len(arr) /\ Len(arr) \in Nat /\ Contents[p] = InPool(arr)
    BY <1>1 DEF Contents
  <2>2. 1..(Len(arr) + 1) = 1..Len(arr) \cup {Len(arr) + 1}
    BY <2>1
  <2> HIDE DEF arr
  <2>3. QED
    BY <1>3, <2>1, <2>2 DEF InPool
<1>6. QED
  BY <1>4, <1>5 DEF Contents

LEMMA Erased ==
  ASSUME PoolsOK, EraseReturns, Top.pool \in Pools, Top.id \in Contents[Top.pool]
  PROVE  PoolsOK' /\ Contents' = [Contents EXCEPT ![Top.pool] = @ \ {Top.id}]
<1> DEFINE p == Top.pool
           n == Top.id.number
           arr == packed[p]
           x == sparse[p][n]
           last == arr[Len(arr)].number
           a == Moved(arr, x)
           o == Moved(instances[p], x)
           q == Relocated(sparse[p], n, last, x)
<1>1. /\ arr \in Seq(Identifier) /\ instances[p] \in Seq(Identifier)
      /\ sparse[p] \in [Numbers -> Nat]
      /\ PoolArrays(arr, instances[p], sparse[p])
  BY PoolTypes
<1>2. /\ packed' = [packed EXCEPT ![p] = a] /\ instances' = [instances EXCEPT ![p] = o]
      /\ sparse' = [sparse EXCEPT ![p] = q]
  BY DEF EraseReturns, PoolsOK
<1>3. n \in Numbers /\ x # 0 /\ arr[x] = Top.id
  <2>1. contains(p, Top.id) /\ Top.id \in Identifier
    BY Contains, EmptyPool
  <2>2. QED
    BY <2>1 DEF contains, Identifier
<1> HIDE DEF p, n
<1>4. /\ a \in Seq(Identifier) /\ o \in Seq(Identifier) /\ q \in [Numbers -> Nat]
      /\ PoolArrays(a, o, q)
      /\ InPool(a) = InPool(arr) \ {arr[x]}
  <2> DEFINE objects == instances[p]
             positions == sparse[p]
  <2>1. /\ arr \in Seq(Identifier) /\ objects \in Seq(Identifier)
        /\ positions \in [Numbers -> Nat] /\ PoolArrays(arr, objects, positions)
        /\ n \in Numbers /\ positions[n] = x /\ x \in Nat /\ x # 0
        /\ last = arr[Len(arr)].number
    BY <1>1, <1>3
  <2> HIDE DEF arr, objects, positions, last, x
  <2>2. /\ Moved(arr, x) \in Seq(Identifier) /\ Moved(objects, x) \in Seq(Identifier)
        /\ Relocated(positions, n, last, x) \in [Numbers -> Nat]
        /\ PoolArrays(Moved(arr, x), Moved(objects, x), Relocated(positions, n, last, x))
        /\ InPool(Moved(arr, x)) = InPool(arr) \ {arr[x]}
    BY <2>1, ArraysErased
  <2>3. QED
    BY <2>2 DEF objects, positions
<1> HIDE DEF a, o, q
<1>5. p \in Pools
  BY DEF p
<1>6. PoolsOK' /\ Contents' = [Contents EXCEPT ![p] = InPool(a)]
  BY <1>2, <1>4, <1>5, PoolReplaced
<1>7. InPool(a) = Contents[p] \ {Top.id}
  BY <1>3, <1>4, <1>5 DEF InPool, Contents
<1>8. QED
  BY <1>5, <1>6, <1>7 DEF Contents, p

-----------------------------------------------------------------------------
(* The calls in progress *)

Releases == {"release_used", "release_all"}

\* Only its own erasures, and the programs they call, run above a destruction
\* or a clear(); nothing runs above the releases.
FollowedBy(g, f) ==
  /\ g.op = "destroy" => f.op = "destroyed" /\ f.pool = g.pool + 1 /\ f.id = g.id
  /\ g.op = "clear" => f.op = "clear_pool" /\ f.pool = g.pool + 1
  /\ g.op = "clear_pool" => f.op = "destroyed" /\ f.pool = g.pool
  /\ g.op \notin Releases

\* What is being erased is not erased, destroyed or cleared once more.
MayLie(g, f) ==
  g.op = "destroyed" =>
    /\ f.op = "destroyed" => ~ (g.pool = f.pool /\ g.id = f.id)
    /\ f.op = "destroy" => g.id # f.id
    /\ f.op = "clear_pool" => g.pool # f.pool
    /\ f.op # "clear" /\ f.op \notin Releases

StackOK(s) ==
  /\ \A k \in 1..(Len(s) - 1) : FollowedBy(s[k], s[k + 1])
  /\ \A j, k \in 1..Len(s) : j < k => MayLie(s[j], s[k])

\* What a call relies on, of a table and the contents of the pools: what it
\* erases is there, what it destroys is in use, and the pools it has passed
\* have nothing more for it, but for the one whose call is above it.
FrameOK(ent, in, f, top) ==
  /\ f.op = "destroyed" => f.pool \in Pools /\ f.id \in in[f.pool]
  /\ f.op = "destroy" =>
       /\ f.id \in Used(ent)
       /\ \A p \in Pools : p > f.pool /\ f.id \in in[p] => ~ top /\ p = f.pool + 1
  /\ f.op = "clear" =>
       \A p \in Pools : p > f.pool /\ in[p] # {} => ~ top /\ p = f.pool + 1
  /\ f.op = "clear_pool" => f.pool \in Pools
  /\ f.op \in Releases =>
       /\ \A p \in Pools : in[p] = {}
       /\ f.pos <= Len(ent)
       /\ f.op = "release_all" => \A n \in 1..f.pos : ent[n].number = n

Framed(ent, in, s, top) ==
  \A k \in 1..Len(s) : FrameOK(ent, in, s[k], k = Len(s) /\ top)

LEMMA FrameBelow ==
  ASSUME NEW ent, NEW in, NEW f, NEW b \in BOOLEAN, FrameOK(ent, in, f, b)
  PROVE  FrameOK(ent, in, f, FALSE)
BY DEF FrameOK

LEMMA StackPushed ==
  ASSUME NEW ent, NEW in, NEW s \in Seq(Frame), NEW f \in Frame,
         StackOK(s), Framed(ent, in, s, FALSE),
         Len(s) # 0 => FollowedBy(s[Len(s)], f),
         \A j \in 1..Len(s) : MayLie(s[j], f),
         FrameOK(ent, in, f, TRUE)
  PROVE  /\ Append(s, f) \in Seq(Frame)
         /\ StackOK(Append(s, f)) /\ Framed(ent, in, Append(s, f), TRUE)
<1> DEFINE t == Append(s, f)
           m == Len(s)
<1>1. /\ m \in Nat /\ t \in Seq(Frame) /\ Len(t) = m + 1 /\ t[m + 1] = f
      /\ \A k \in 1..m : t[k] = s[k]
  BY Appended
<1>2. \A k \in 1..Len(t) : k = m + 1 \/ (k \in 1..m /\ k # m + 1)
  BY <1>1
<1> HIDE DEF t
<1>3. \A k \in 1..(Len(t) - 1) : FollowedBy(t[k], t[k + 1])
  <2> SUFFICES ASSUME NEW k \in 1..m PROVE FollowedBy(t[k], t[k + 1])
    BY <1>1
  <2>1. CASE k = m
    BY <1>1, <2>1
  <2>2. CASE k # m
    <3>1. k \in 1..(m - 1) /\ k + 1 \in 1..m
      BY <1>1, <2>2
    <3>2. FollowedBy(s[k], s[k + 1])
      BY <3>1 DEF StackOK
    <3>3. QED
      BY <1>1, <3>1, <3>2
  <2>3. QED
    BY <2>1, <2>2
<1>4. \A j, k \in 1..Len(t) : j < k => MayLie(t[j], t[k])
  <2> SUFFICES ASSUME NEW j \in 1..(m + 1), NEW k \in 1..(m + 1), j < k
               PROVE  MayLie(t[j], t[k])
    BY <1>1
  <2>1. j \in 1..m
    BY <1>1
  <2>2. CASE k = m + 1
    BY <1>1, <2>1, <2>2
  <2>3. CASE k # m + 1
    <3>1. k \in 1..m
      BY <1>1, <2>3
    <3>2. MayLie(s[j], s[k])
      BY <2>1, <3>1 DEF StackOK
    <3>3. QED
      BY <1>1, <2>1, <3>1, <3>2
  <2>4. QED
    BY <2>2, <2>3
<1>5. \A k \in 1..Len(t) : FrameOK(ent, in, t[k], k = Len(t) /\ TRUE)
  <2> SUFFICES ASSUME NEW k \in 1..(m + 1)
               PROVE  FrameOK(ent, in, t[k], k = m + 1 /\ TRUE)
    BY <1>1
  <2>1. CASE k = m + 1
    BY <1>1, <2>1
  <2>2. CASE k # m + 1
    <3>1. k \in 1..m
      BY <1>1, <2>2
    <3>2. FrameOK(ent, in, s[k], k = Len(s) /\ FALSE)
      BY <3>1 DEF Framed
    <3>3. (k = Len(s) /\ FALSE) = FALSE /\ (k = m + 1 /\ TRUE) = FALSE /\ t[k] = s[k]
      BY <1>1, <2>2, <3>1
    <3>4. QED
      BY <3>2, <3>3
  <2>3. QED
    BY <2>1, <2>2
<1>6. QED
  BY <1>1, <1>3, <1>4, <1>5 DEF StackOK, Framed, t

LEMMA StackCut ==
  ASSUME NEW ent, NEW in, NEW s \in Seq(Frame), StackOK(s), NEW m \in 0..Len(s),
         \A k \in 1..m : FrameOK(ent, in, s[k], FALSE),
         m # 0 => FrameOK(ent, in, s[m], TRUE)
  PROVE  /\ SubSeq(s, 1, m) \in Seq(Frame)
         /\ StackOK(SubSeq(s, 1, m)) /\ Framed(ent, in, SubSeq(s, 1, m), TRUE)
<1> DEFINE t == SubSeq(s, 1, m)
<1>1. /\ m \in Nat /\ Len(s) \in Nat /\ t \in Seq(Frame) /\ Len(t) = m
      /\ \A k \in 1..m : t[k] = s[k]
  BY Cut
<1> HIDE DEF t
<1>2. \A k \in 1..(m - 1) : FollowedBy(t[k], t[k + 1])
  <2> SUFFICES ASSUME NEW k \in 1..(m - 1) PROVE FollowedBy(t[k], t[k + 1])
    OBVIOUS
  <2>1. k \in 1..(Len(s) - 1) /\ k \in 1..m /\ k + 1 \in 1..m
    BY <1>1
  <2>2. FollowedBy(s[k], s[k + 1])
    BY <2>1 DEF StackOK
  <2>3. QED
    BY <1>1, <2>1, <2>2
<1>3. \A j, k \in 1..m : j < k => MayLie(t[j], t[k])
  <2>1. \A k \in 1..m : k \in 1..Len(s)
    BY <1>1
  <2>2. QED
    BY <1>1, <2>1 DEF StackOK
<1>4. \A k \in 1..m : FrameOK(ent, in, t[k], k = m /\ TRUE)
  <2> SUFFICES ASSUME NEW k \in 1..m PROVE FrameOK(ent, in, t[k], k = m /\ TRUE)
    OBVIOUS
  <2>1. CASE k = m
    <3>1. (k = m /\ TRUE) = TRUE /\ m # 0 /\ t[k] = s[m]
      BY <1>1, <2>1
    <3>2. QED
      BY <3>1
  <2>2. CASE k # m
    <3>1. (k = m /\ TRUE) = FALSE /\ t[k] = s[k]
      BY <1>1, <2>2
    <3>2. QED
      BY <3>1
  <2>3. QED
    BY <2>1, <2>2
<1>5. QED
  BY <1>1, <1>2, <1>3, <1>4 DEF StackOK, Framed, t

LEMMA StackTurned ==
  ASSUME NEW ent, NEW in, NEW s \in Seq(Frame), NEW f \in Frame,
         StackOK(s), Len(s) # 0,
         \A k \in 1..(Len(s) - 1) : FrameOK(ent, in, s[k], FALSE),
         Len(s) # 1 => FollowedBy(s[Len(s) - 1], f),
         \A j \in 1..(Len(s) - 1) : MayLie(s[j], f),
         FrameOK(ent, in, f, FALSE)
  PROVE  /\ Put(s, Len(s), f) \in Seq(Frame) /\ Len(Put(s, Len(s), f)) = Len(s)
         /\ \A k \in 1..(Len(s) - 1) : Put(s, Len(s), f)[k] = s[k]
         /\ Put(s, Len(s), f)[Len(s)] = f
         /\ StackOK(Put(s, Len(s), f))
         /\ Framed(ent, in, Put(s, Len(s), f), FALSE)
         /\ FrameOK(ent, in, f, TRUE) => Framed(ent, in, Put(s, Len(s), f), TRUE)
<1> DEFINE m == Len(s)
           t == Put(s, m, f)
<1>1. m \in Nat \ {0} /\ m \in 1..m
  OBVIOUS
<1>2. /\ t \in Seq(Frame) /\ Len(t) = m /\ t[m] = f
      /\ \A k \in 1..m : k # m => t[k] = s[k]
  BY <1>1, Replaced DEF Put
<1> HIDE DEF t
<1>3. \A k \in 1..(m - 1) : k \in 1..m /\ t[k] = s[k]
  BY <1>1, <1>2
<1>4. \A k \in 1..(m - 1) : FollowedBy(t[k], t[k + 1])
  <2> SUFFICES ASSUME NEW k \in 1..(m - 1) PROVE FollowedBy(t[k], t[k + 1])
    OBVIOUS
  <2>1. CASE k = m - 1
    <3>1. k + 1 = m /\ m # 1
      BY <1>1, <2>1
    <3>2. QED
      BY <1>2, <1>3, <2>1, <3>1
  <2>2. CASE k # m - 1
    <3>1. k + 1 \in 1..(m - 1)
      BY <1>1, <2>2
    <3>2. FollowedBy(s[k], s[k + 1])
      BY DEF StackOK
    <3>3. QED
      BY <1>3, <3>1, <3>2
  <2>3. QED
    BY <2>1, <2>2
<1>5. \A j, k \in 1..m : j < k => MayLie(t[j], t[k])
  <2> SUFFICES ASSUME NEW j \in 1..m, NEW k \in 1..m, j < k PROVE MayLie(t[j], t[k])
    OBVIOUS
  <2>1. j \in 1..(m - 1) /\ (k = m \/ k \in 1..(m - 1))
    BY <1>1
  <2>2. MayLie(s[j], s[k])
    BY DEF StackOK
  <2>3. QED
    BY <1>2, <1>3, <2>1, <2>2
<1>6. \A k \in 1..m : FrameOK(ent, in, t[k], FALSE)
  <2>1. \A k \in 1..m : k = m \/ k \in 1..(m - 1)
    BY <1>1
  <2>2. QED
    BY <1>2, <1>3, <2>1
<1>7. Framed(ent, in, t, FALSE)
  <2> SUFFICES ASSUME NEW k \in 1..m PROVE FrameOK(ent, in, t[k], k = m /\ FALSE)
    BY <1>2 DEF Framed
  <2>1. (k = m /\ FALSE) = FALSE
    OBVIOUS
  <2>2. QED
    BY <1>6, <2>1
<1>8. ASSUME FrameOK(ent, in, f, TRUE) PROVE Framed(ent, in, t, TRUE)
  <2> SUFFICES ASSUME NEW k \in 1..m PROVE FrameOK(ent, in, t[k], k = m /\ TRUE)
    BY <1>2 DEF Framed
  <2>1. CASE k = m
    <3>1. (k = m /\ TRUE) = TRUE
      BY <2>1
    <3>2. QED
      BY <1>2, <1>8, <2>1, <3>1
  <2>2. CASE k # m
    <3>1. (k = m /\ TRUE) = FALSE
      BY <2>2
    <3>2. QED
      BY <1>6, <3>1
  <2>3. QED
    BY <2>1, <2>2
<1>9. StackOK(t)
  BY <1>2, <1>4, <1>5 DEF StackOK
<1>10. QED
  BY <1>2, <1>3, <1>7, <1>8, <1>9 DEF t, m

LEMMA FrameFacts ==
  ASSUME NEW s \in Seq(Frame)
  PROVE  /\ Len(s) \in Nat
         /\ \A k \in 1..Len(s) :
              /\ s[k] \in Frame /\ s[k].id \in Identifier /\ s[k].pos \in Nat
              /\ s[k].pool \in Pools \cup {0} /\ s[k].pool \in Nat /\ s[k].pool <= PoolCount
              /\ s[k].op \in {"constructed", "destroyed", "destroy", "clear", "clear_pool",
                              "release_used", "release_all"}
<1>1. \A f \in Frame :
        /\ f.id \in Identifier /\ f.pos \in Nat
        /\ f.pool \in Pools \cup {0} /\ f.pool \in Nat /\ f.pool <= PoolCount
        /\ f.op \in {"constructed", "destroyed", "destroy", "clear", "clear_pool",
                     "release_used", "release_all"}
  BY ConstantTypes DEF Frame
<1>2. Len(s) \in Nat /\ \A k \in 1..Len(s) : s[k] \in Frame
  OBVIOUS
<1>3. QED
  BY <1>1, <1>2

LEMMA LastButOne ==
  ASSUME NEW s \in Seq(Frame), Len(s) # 0
  PROVE  /\ Len(s) # 1 => Len(s) > 1
         /\ Len(s) - 1 # 0 =>
              /\ Len(s) > 1 /\ Len(s) - 1 \in 1..(Len(s) - 1) /\ Len(s) - 1 \in 1..Len(s)
              /\ (Len(s) - 1) + 1 = Len(s)
<1> DEFINE n == Len(s)
<1>1. n \in Nat /\ n # 0
  OBVIOUS
<1> HIDE DEF n
<1>2. /\ n # 1 => n > 1
      /\ n - 1 # 0 => n > 1 /\ n - 1 \in 1..(n - 1) /\ n - 1 \in 1..n /\ (n - 1) + 1 = n
  BY <1>1
<1>3. QED
  BY <1>2 DEF n

\* What callbacks, destructions and releases run above is a callback.
LEMMA BelowIsCallback ==
  ASSUME NEW s \in Seq(Frame), StackOK(s), Len(s) > 1,
         s[Len(s)].op \notin {"destroyed", "clear_pool"}
  PROVE  s[Len(s) - 1].op \in Callback
<1>1. Len(s) \in Nat /\ Len(s) - 1 \in 1..(Len(s) - 1) /\ Len(s) - 1 \in 1..Len(s)
      /\ (Len(s) - 1) + 1 = Len(s)
  OBVIOUS
<1>2. FollowedBy(s[Len(s) - 1], s[Len(s)])
  <2>1. FollowedBy(s[Len(s) - 1], s[(Len(s) - 1) + 1])
    BY <1>1 DEF StackOK
  <2>2. QED
    BY <1>1, <2>1
<1>3. s[Len(s) - 1].op \in {"constructed", "destroyed", "destroy", "clear", "clear_pool",
                            "release_used", "release_all"}
  BY <1>1, FrameFacts
<1>4. QED
  BY <1>2, <1>3 DEF FollowedBy, Callback, Releases

\* A clear() has nothing but emplacements below it.
LEMMA BelowClear ==
  ASSUME NEW s \in Seq(Frame), StackOK(s), Len(s) # 0,
         s[Len(s)].op = "clear" \/ s[Len(s)].op \in Releases
  PROVE  \A k \in 1..(Len(s) - 1) : s[k].op = "constructed"
<1> DEFINE m == Len(s)
<1>1. m \in Nat /\ m \in 1..m /\ \A k \in 1..(m - 1) : k \in 1..m /\ k < m /\ k + 1 \in 1..m
  OBVIOUS
<1>2. \A k \in 1..(m - 1) : s[k].op # "destroyed"
  <2> SUFFICES ASSUME NEW k \in 1..(m - 1) PROVE s[k].op # "destroyed"
    OBVIOUS
  <2>1. MayLie(s[k], s[m])
    BY <1>1 DEF StackOK
  <2>2. QED
    BY <2>1 DEF MayLie, Releases
<1>3. \A k \in 1..m : s[k].op # "destroyed"
  <2>1. s[m].op # "destroyed"
    BY DEF Releases
  <2>2. \A k \in 1..m : k = m \/ k \in 1..(m - 1)
    BY <1>1
  <2>3. QED
    BY <1>2, <2>1, <2>2
<1>4. \A k \in 1..(m - 1) : FollowedBy(s[k], s[k + 1])
  BY DEF StackOK
<1>5. \A k \in 1..(m - 1) : s[k].op # "clear_pool" /\ s[k].op # "destroy" /\ s[k].op \notin Releases
  BY <1>1, <1>3, <1>4 DEF FollowedBy
<1>6. \A k \in 1..(m - 1) : s[k].op # "clear"
  <2> SUFFICES ASSUME NEW k \in 1..(m - 1), s[k].op = "clear" PROVE FALSE
    OBVIOUS
  <2>1. s[k + 1].op = "clear_pool"
    BY <1>4 DEF FollowedBy
  <2>2. CASE k + 1 = m
    BY <2>1, <2>2 DEF Releases
  <2>3. CASE k + 1 # m
    <3>1. k + 1 \in 1..(m - 1)
      BY <1>1, <2>3
    <3>2. QED
      BY <1>5, <2>1, <3>1
  <2>4. QED
    BY <2>2, <2>3
<1>7. QED
  BY <1>1, <1>2, <1>5, <1>6, FrameFacts DEF Releases

\* No entity is being destroyed twice.
LEMMA BelowDestroy ==
  ASSUME NEW s \in Seq(Frame), StackOK(s), Len(s) # 0, s[Len(s)].op = "destroy"
  PROVE  \A k \in 1..(Len(s) - 1) : s[k].op = "destroy" => s[k].id # s[Len(s)].id
<1> DEFINE m == Len(s)
<1> SUFFICES ASSUME NEW k \in 1..(m - 1), s[k].op = "destroy", s[k].id = s[m].id PROVE FALSE
  OBVIOUS
<1>1. m \in Nat /\ m \in 1..m /\ k \in 1..m /\ k + 1 \in 1..m
  OBVIOUS
<1>2. s[k + 1].op = "destroyed" /\ s[k + 1].id = s[k].id
  BY DEF StackOK, FollowedBy
<1>3. k + 1 # m
  BY <1>2
<1>4. k + 1 < m
  BY <1>1, <1>3
<1>5. MayLie(s[k + 1], s[m])
  BY <1>1, <1>4 DEF StackOK
<1>6. QED
  BY <1>2, <1>5 DEF MayLie

\* Only the last call in progress releases.
LEMMA OnlyTopReleases ==
  ASSUME NEW s \in Seq(Frame), StackOK(s)
  PROVE  \A k \in 1..(Len(s) - 1) : s[k].op \notin Releases
BY DEF StackOK, FollowedBy

-----------------------------------------------------------------------------
(* The invariant *)

FramesOK == StackOK(calls) /\ Framed(entities, Contents, calls, TRUE)

Owned == \A p \in Pools : Contents[p] \subseteq Used(entities)

IInv == TableOK /\ PoolsOK /\ calls \in Seq(Frame) /\ Owned /\ FramesOK

LEMMA Initially == Init => IInv
<1> SUFFICES ASSUME Init PROVE IInv
  OBVIOUS
<1>1. /\ entities = <<>> /\ free_list = 0 /\ calls = <<>> /\ freed = <<>>
      /\ packed = [p \in Pools |-> <<>>] /\ instances = [p \in Pools |-> <<>>]
      /\ sparse = [p \in Pools |-> [n \in Numbers |-> 0]]
      /\ lives = [n \in Numbers |-> 0]
  BY DEF Init
<1>2. /\ Len(entities) = 0 /\ Len(freed) = 0 /\ Len(calls) = 0
      /\ entities \in Seq(Identifier) /\ freed \in Seq(Numbers) /\ calls \in Seq(Frame)
  BY <1>1
<1>3. TableOK
  <2>1. TableType
    BY <1>1, <1>2, ConstantTypes DEF TableType
  <2>2. TableList(entities, free_list, freed)
    BY <1>1, <1>2 DEF TableList
  <2>3. Counted
    BY <1>1, <1>2 DEF Counted
  <2>4. QED
    BY <2>1, <2>2, <2>3 DEF TableOK
<1>4. PoolsOK
  BY <1>1 DEF PoolsOK, PoolsExact, PoolExact
<1>5. Owned
  BY <1>4, <1>1, EmptyPool DEF Owned
<1>6. FramesOK
  BY <1>2 DEF FramesOK, StackOK, Framed
<1>7. QED
  BY <1>2, <1>3, <1>4, <1>5, <1>6 DEF IInv

\* A step that only calls or returns.
LEMMA OnlyCalls ==
  ASSUME IInv, UNCHANGED <<tableVars, poolVars>>, NEW t \in Seq(Frame), calls' = t,
         StackOK(t), Framed(entities, Contents, t, TRUE)
  PROVE  IInv'
<1>1. TableOK'
  <2>1. TableOK /\ UNCHANGED tableVars
    BY DEF IInv
  <2>2. QED
    BY <2>1 DEF TableOK, TableType, Counted, tableVars
<1>2. PoolsOK' /\ Contents' = Contents
  BY DEF IInv, PoolsOK, PoolsExact, PoolExact, poolVars, Contents
<1>3. entities' = entities
  BY DEF tableVars
<1>4. Owned'
  BY <1>2, <1>3 DEF IInv, Owned
<1>5. FramesOK'
  BY <1>2, <1>3 DEF FramesOK
<1>6. QED
  BY <1>1, <1>2, <1>4, <1>5 DEF IInv

LEMMA CallFacts ==
  ASSUME NEW op \in {"constructed", "destroyed", "destroy", "clear", "clear_pool",
                     "release_used", "release_all"},
         NEW p \in Pools \cup {0}, NEW e \in Identifier, NEW i \in Nat
  PROVE  /\ Call(op, p, e, i) \in Frame
         /\ Call(op, p, e, i).op = op /\ Call(op, p, e, i).pool = p
         /\ Call(op, p, e, i).id = e /\ Call(op, p, e, i).pos = i
BY DEF Call, Frame

LEMMA NullIsIdentifier == Null \in Identifier /\ FromPool \in Pools \cup {0} /\ FromPool = PoolCount
<1>1. 0 \in 0..(Tombstone - 1) /\ PoolCount \in Pools \cup {0}
  BY ConstantTypes DEF Pools
<1>2. QED
  BY <1>1 DEF Null, Identifier, FromPool

LEMMA CallbackFrame ==
  ASSUME NEW ent, NEW in, NEW f, f.op \in Callback, FrameOK(ent, in, f, FALSE)
  PROVE  FrameOK(ent, in, f, TRUE)
BY DEF FrameOK, Callback, Releases

\* What is known of the calls in progress.
LEMMA CallsFacts ==
  ASSUME IInv
  PROVE  /\ calls \in Seq(Frame) /\ Len(calls) \in Nat /\ StackOK(calls)
         /\ Len(calls) = 0 <=> calls = <<>>
         /\ \A k \in 1..Len(calls) : FrameOK(entities, Contents, calls[k], FALSE)
         /\ Framed(entities, Contents, calls, FALSE)
         /\ calls # <<>> => /\ Len(calls) \in 1..Len(calls) /\ Top = calls[Len(calls)]
                            /\ FrameOK(entities, Contents, Top, TRUE)
                            /\ \A k \in 1..(Len(calls) - 1) : MayLie(calls[k], Top)
<1>1. calls \in Seq(Frame) /\ StackOK(calls) /\ Framed(entities, Contents, calls, TRUE)
  BY DEF IInv, FramesOK
<1>2. Len(calls) \in Nat /\ (Len(calls) = 0 <=> calls = <<>>)
  BY <1>1, EmptySeq
<1>3. \A k \in 1..Len(calls) : FrameOK(entities, Contents, calls[k], FALSE)
  <2> SUFFICES ASSUME NEW k \in 1..Len(calls) PROVE FrameOK(entities, Contents, calls[k], FALSE)
    OBVIOUS
  <2>1. FrameOK(entities, Contents, calls[k], k = Len(calls) /\ TRUE)
    BY <1>1 DEF Framed
  <2>2. (k = Len(calls) /\ TRUE) \in BOOLEAN
    OBVIOUS
  <2>3. QED
    BY <2>1, <2>2, FrameBelow
<1>4. Framed(entities, Contents, calls, FALSE)
  <2> SUFFICES ASSUME NEW k \in 1..Len(calls)
               PROVE  FrameOK(entities, Contents, calls[k], k = Len(calls) /\ FALSE)
    BY DEF Framed
  <2>1. (k = Len(calls) /\ FALSE) = FALSE
    OBVIOUS
  <2>2. QED
    BY <1>3, <2>1
<1>5. ASSUME calls # <<>>
      PROVE  /\ Len(calls) \in 1..Len(calls) /\ Top = calls[Len(calls)]
             /\ FrameOK(entities, Contents, Top, TRUE)
             /\ \A k \in 1..(Len(calls) - 1) : MayLie(calls[k], Top)
  <2>1. Len(calls) \in 1..Len(calls) /\ Top = calls[Len(calls)]
    BY <1>2, <1>5 DEF Top
  <2>2. FrameOK(entities, Contents, calls[Len(calls)], Len(calls) = Len(calls) /\ TRUE)
    BY <1>1, <2>1 DEF Framed
  <2>3. (Len(calls) = Len(calls) /\ TRUE) = TRUE
    OBVIOUS
  <2>4. \A k \in 1..(Len(calls) - 1) : MayLie(calls[k], calls[Len(calls)])
    BY <1>1, <1>2, <2>1 DEF StackOK
  <2>5. QED
    BY <2>1, <2>2, <2>3, <2>4
<1>6. QED
  BY <1>1, <1>2, <1>3, <1>4, <1>5

-----------------------------------------------------------------------------
(* The program calls *)

LEMMA ProgramCalls ==
  ASSUME IInv, InProgram, UNCHANGED <<tableVars, poolVars>>,
         NEW f \in Frame, calls' = Append(calls, f),
         \A j \in 1..Len(calls) : MayLie(calls[j], f),
         FrameOK(entities, Contents, f, TRUE)
  PROVE  IInv'
<1>1. calls \in Seq(Frame) /\ StackOK(calls) /\ Framed(entities, Contents, calls, FALSE)
  BY CallsFacts
<1>2. Len(calls) # 0 => FollowedBy(calls[Len(calls)], f)
  <2>1. Len(calls) # 0 => calls[Len(calls)].op \in Callback
    BY CallsFacts DEF InProgram
  <2>2. QED
    BY <2>1 DEF Callback, FollowedBy, Releases
<1>3. /\ Append(calls, f) \in Seq(Frame) /\ StackOK(Append(calls, f))
      /\ Framed(entities, Contents, Append(calls, f), TRUE)
  BY <1>1, <1>2, StackPushed
<1>4. QED
  BY <1>3, OnlyCalls

LEMMA Removes ==
  ASSUME IInv, NEW p \in Pools, NEW e \in Identifier, remove_component(p, e)
  PROVE  IInv'
<1> DEFINE f == Erasing(p, e)
<1>1. f \in Frame /\ f.op = "destroyed" /\ f.pool = p /\ f.id = e
  BY CallFacts DEF Erasing
<1> HIDE DEF f
<1>2. /\ InProgram /\ contains(p, e) /\ e \notin BeingErased(p)
      /\ calls' = Append(calls, f) /\ UNCHANGED <<tableVars, poolVars>>
  BY DEF remove_component, f
<1>3. e \in Contents[p]
  BY <1>2, Contains DEF IInv
<1>4. FrameOK(entities, Contents, f, TRUE)
  BY <1>1, <1>3 DEF FrameOK, Releases
<1>5. \A j \in 1..Len(calls) : MayLie(calls[j], f)
  <2>1. DOMAIN calls = 1..Len(calls)
    BY CallsFacts
  <2>2. QED
    BY <1>1, <1>2, <2>1 DEF MayLie, BeingErased, Releases
<1>6. QED
  BY <1>1, <1>2, <1>4, <1>5, ProgramCalls

LEMMA Destroys ==
  ASSUME IInv, NEW e \in Identifier, destroy_entity(e)
  PROVE  IInv'
<1> DEFINE f == Call("destroy", FromPool, e, 0)
<1>1. f \in Frame /\ f.op = "destroy" /\ f.pool = PoolCount /\ f.id = e
  BY CallFacts, NullIsIdentifier
<1> HIDE DEF f
<1>2. /\ InProgram /\ is_valid(e) /\ \A p \in Pools : e \notin BeingErased(p)
      /\ calls' = Append(calls, f) /\ UNCHANGED <<tableVars, poolVars>>
  BY DEF destroy_entity, f
<1>3. e \in Used(entities)
  BY <1>2, UsedAre DEF is_valid, IInv, TableOK, TableType
<1>4. FrameOK(entities, Contents, f, TRUE)
  <2>1. \A p \in Pools : ~ (p > PoolCount)
    BY ConstantTypes
  <2>2. QED
    BY <1>1, <1>3, <2>1 DEF FrameOK, Releases
<1>5. \A j \in 1..Len(calls) : MayLie(calls[j], f)
  <2> SUFFICES ASSUME NEW j \in 1..Len(calls), calls[j].op = "destroyed"
               PROVE  calls[j].id # e
    BY <1>1 DEF MayLie, Releases
  <2>1. DOMAIN calls = 1..Len(calls) /\ calls[j].pool \in Pools
    BY CallsFacts DEF FrameOK
  <2>2. QED
    BY <1>2, <2>1 DEF BeingErased
<1>6. QED
  BY <1>1, <1>2, <1>4, <1>5, ProgramCalls

LEMMA Clears == ASSUME IInv, clear PROVE IInv'
<1> DEFINE f == Call("clear", FromPool, Null, 0)
<1>1. f \in Frame /\ f.op = "clear" /\ f.pool = PoolCount
  BY CallFacts, NullIsIdentifier
<1> HIDE DEF f
<1>2. /\ InProgram /\ \A p \in Pools : BeingErased(p) = {}
      /\ calls' = Append(calls, f) /\ UNCHANGED <<tableVars, poolVars>>
  BY DEF clear, f
<1>3. FrameOK(entities, Contents, f, TRUE)
  <2>1. \A p \in Pools : ~ (p > PoolCount)
    BY ConstantTypes
  <2>2. QED
    BY <1>1, <2>1 DEF FrameOK, Releases
<1>4. \A j \in 1..Len(calls) : MayLie(calls[j], f)
  <2> SUFFICES ASSUME NEW j \in 1..Len(calls), calls[j].op = "destroyed" PROVE FALSE
    BY DEF MayLie
  <2>1. DOMAIN calls = 1..Len(calls) /\ calls[j].pool \in Pools
    BY CallsFacts DEF FrameOK
  <2>2. QED
    BY <1>2, <2>1 DEF BeingErased
<1>5. QED
  BY <1>1, <1>2, <1>3, <1>4, ProgramCalls

LEMMA ClearsComponent == ASSUME IInv, NEW p \in Pools, clear_component(p) PROVE IInv'
<1> DEFINE f == Call("clear_pool", p, Null, 0)
<1>1. f \in Frame /\ f.op = "clear_pool" /\ f.pool = p
  BY CallFacts, NullIsIdentifier
<1> HIDE DEF f
<1>2. /\ InProgram /\ BeingErased(p) = {}
      /\ calls' = Append(calls, f) /\ UNCHANGED <<tableVars, poolVars>>
  BY DEF clear_component, f
<1>3. FrameOK(entities, Contents, f, TRUE)
  BY <1>1 DEF FrameOK, Releases
<1>4. \A j \in 1..Len(calls) : MayLie(calls[j], f)
  <2>1. DOMAIN calls = 1..Len(calls)
    BY CallsFacts
  <2>2. QED
    BY <1>1, <1>2, <2>1 DEF MayLie, BeingErased, Releases
<1>5. QED
  BY <1>1, <1>2, <1>3, <1>4, ProgramCalls

-----------------------------------------------------------------------------
(* Calls return, or are left *)

LEMMA Left ==
  ASSUME IInv, UNCHANGED <<tableVars, poolVars>>, NEW m \in 0..Len(calls),
         calls' = SubSeq(calls, 1, m),
         m # 0 => FrameOK(entities, Contents, calls[m], TRUE)
  PROVE  IInv'
<1>1. calls \in Seq(Frame) /\ StackOK(calls)
      /\ \A k \in 1..m : FrameOK(entities, Contents, calls[k], FALSE)
  <2>1. Len(calls) \in Nat /\ \A k \in 1..m : k \in 1..Len(calls)
    BY CallsFacts
  <2>2. QED
    BY <2>1, CallsFacts
<1>2. /\ SubSeq(calls, 1, m) \in Seq(Frame) /\ StackOK(SubSeq(calls, 1, m))
      /\ Framed(entities, Contents, SubSeq(calls, 1, m), TRUE)
  BY <1>1, StackCut
<1>3. QED
  BY <1>2, OnlyCalls

LEMMA LeftToCallback ==
  ASSUME IInv, UNCHANGED <<tableVars, poolVars>>, NEW m \in 0..Len(calls),
         calls' = SubSeq(calls, 1, m),
         m # 0 => calls[m].op \in Callback
  PROVE  IInv'
<1>1. m # 0 => FrameOK(entities, Contents, calls[m], TRUE)
  <2>1. Len(calls) \in Nat /\ (m # 0 => m \in 1..Len(calls))
    BY CallsFacts
  <2>2. QED
    BY <2>1, CallsFacts, CallbackFrame
<1>2. QED
  BY <1>1, Left

LEMMA EmplaceEnds == ASSUME IInv, EmplaceReturns PROVE IInv'
<1>1. /\ calls # <<>> /\ Top.op = "constructed" /\ calls' = SubSeq(calls, 1, Len(calls) - 1)
      /\ UNCHANGED <<tableVars, poolVars>>
  BY DEF EmplaceReturns, Running, Return
<1>2. Len(calls) \in Nat /\ Len(calls) # 0 /\ Len(calls) - 1 \in 0..Len(calls)
  BY <1>1, CallsFacts
<1>3. Len(calls) - 1 # 0 => calls[Len(calls) - 1].op \in Callback
  <2>1. calls \in Seq(Frame) /\ StackOK(calls) /\ calls[Len(calls)].op = "constructed"
    BY <1>1, CallsFacts
  <2>2. Len(calls) - 1 # 0 => Len(calls) > 1
    BY <1>2
  <2>3. QED
    BY <2>1, <2>2, BelowIsCallback
<1>4. QED
  BY <1>1, <1>2, <1>3, LeftToCallback

LEMMA Throws == ASSUME IInv, CallbackThrows PROVE IInv'
<1>1. PICK k \in 0..(Len(calls) - 1) :
        /\ k # 0 => calls[k].op \in Callback
        /\ calls' = SubSeq(calls, 1, k)
  BY DEF CallbackThrows
<1>2. UNCHANGED <<tableVars, poolVars>> /\ k \in 0..Len(calls)
  BY CallsFacts DEF CallbackThrows
<1>3. QED
  BY <1>1, <1>2, LeftToCallback

-----------------------------------------------------------------------------
(* Destructions and clear() take their steps *)

LEMMA AtPoolIs ==
  ASSUME IInv, calls # <<>>, NEW p \in Pools \cup {0}
  PROVE  /\ AtPool(p) = Put(calls, Len(calls), Call(Top.op, p, Top.id, Top.pos))
         /\ Call(Top.op, p, Top.id, Top.pos) \in Frame
         /\ Call(Top.op, p, Top.id, Top.pos).op = Top.op
         /\ Call(Top.op, p, Top.id, Top.pos).pool = p
         /\ Call(Top.op, p, Top.id, Top.pos).id = Top.id
<1>1. calls \in Seq(Frame) /\ Len(calls) \in 1..Len(calls) /\ Top = calls[Len(calls)]
  BY CallsFacts
<1>2. Top \in Frame
  BY <1>1
<1>3. [calls[Len(calls)] EXCEPT !.pool = p] = Call(Top.op, p, Top.id, Top.pos)
  BY <1>1, <1>2 DEF Frame, Call
<1>4. AtPool(p) = [calls EXCEPT ![Len(calls)] = [calls[Len(calls)] EXCEPT !.pool = p]]
  BY DEF AtPool
<1>5. QED
  BY <1>2, <1>3, <1>4 DEF Put, Frame, Call

LEMMA AtPosIs ==
  ASSUME IInv, calls # <<>>, NEW i \in Nat
  PROVE  /\ AtPos(i) = Put(calls, Len(calls), Call(Top.op, Top.pool, Top.id, i))
         /\ Call(Top.op, Top.pool, Top.id, i) \in Frame
         /\ Call(Top.op, Top.pool, Top.id, i).op = Top.op
         /\ Call(Top.op, Top.pool, Top.id, i).pos = i
<1>1. calls \in Seq(Frame) /\ Len(calls) \in 1..Len(calls) /\ Top = calls[Len(calls)]
  BY CallsFacts
<1>2. Top \in Frame
  BY <1>1
<1>3. [calls[Len(calls)] EXCEPT !.pos = i] = Call(Top.op, Top.pool, Top.id, i)
  BY <1>1, <1>2 DEF Frame, Call
<1>4. AtPos(i) = [calls EXCEPT ![Len(calls)] = [calls[Len(calls)] EXCEPT !.pos = i]]
  BY DEF AtPos
<1>5. QED
  BY <1>2, <1>3, <1>4 DEF Put, Frame, Call

LEMMA Turned ==
  ASSUME IInv, Len(calls) # 0, Top.op \notin {"destroyed", "clear_pool"},
         NEW ent, NEW f \in Frame,
         \A j \in 1..(Len(calls) - 1) : MayLie(calls[j], f),
         \A j \in 1..(Len(calls) - 1) : FrameOK(ent, Contents, calls[j], FALSE),
         FrameOK(ent, Contents, f, FALSE)
  PROVE  /\ Put(calls, Len(calls), f) \in Seq(Frame)
         /\ Len(Put(calls, Len(calls), f)) = Len(calls)
         /\ \A k \in 1..(Len(calls) - 1) : Put(calls, Len(calls), f)[k] = calls[k]
         /\ Put(calls, Len(calls), f)[Len(calls)] = f
         /\ StackOK(Put(calls, Len(calls), f))
         /\ Framed(ent, Contents, Put(calls, Len(calls), f), FALSE)
         /\ FrameOK(ent, Contents, f, TRUE) =>
              Framed(ent, Contents, Put(calls, Len(calls), f), TRUE)
<1>1. calls \in Seq(Frame) /\ StackOK(calls) /\ Top = calls[Len(calls)]
  BY CallsFacts
<1>a. calls \in Seq(Frame) /\ Len(calls) # 0
  BY CallsFacts
<1>b. calls[Len(calls)].op \notin {"destroyed", "clear_pool"}
  BY <1>1
<1>2. Len(calls) # 1 => FollowedBy(calls[Len(calls) - 1], f)
  <2>1. ASSUME Len(calls) # 1 PROVE calls[Len(calls) - 1].op \in Callback
    <3>1. Len(calls) > 1
      BY <1>a, <2>1, LastButOne
    <3>2. QED
      BY <1>1, <1>b, <3>1, BelowIsCallback
  <2>2. QED
    BY <2>1 DEF FollowedBy, Callback, Releases
<1>3. QED
  <2> DEFINE s == calls
             in == Contents
  <2>1. /\ s \in Seq(Frame) /\ StackOK(s) /\ Len(s) # 0
        /\ \A k \in 1..(Len(s) - 1) : FrameOK(ent, in, s[k], FALSE)
        /\ Len(s) # 1 => FollowedBy(s[Len(s) - 1], f)
        /\ \A j \in 1..(Len(s) - 1) : MayLie(s[j], f)
        /\ FrameOK(ent, in, f, FALSE)
    BY <1>1, <1>a, <1>2
  <2> HIDE DEF s, in
  <2>2. /\ Put(s, Len(s), f) \in Seq(Frame) /\ Len(Put(s, Len(s), f)) = Len(s)
        /\ \A k \in 1..(Len(s) - 1) : Put(s, Len(s), f)[k] = s[k]
        /\ Put(s, Len(s), f)[Len(s)] = f
        /\ StackOK(Put(s, Len(s), f))
        /\ Framed(ent, in, Put(s, Len(s), f), FALSE)
        /\ FrameOK(ent, in, f, TRUE) => Framed(ent, in, Put(s, Len(s), f), TRUE)
    BY <2>1, StackTurned
  <2>3. QED
    BY <2>2 DEF s, in

LEMMA DestroyGoesOn == ASSUME IInv, DestroyErases PROVE IInv'
<1> DEFINE p == Top.pool
           e == Top.id
           g == Call(Top.op, p - 1, e, Top.pos)
           t == Put(calls, Len(calls), g)
           f == Erasing(p, e)
<1>1. calls # <<>> /\ Top.op = "destroy" /\ p # 0 /\ UNCHANGED <<tableVars, poolVars>>
  BY DEF DestroyErases, Running
<1>2. /\ calls \in Seq(Frame) /\ Len(calls) \in Nat \ {0}
      /\ FrameOK(entities, Contents, Top, TRUE)
      /\ \A k \in 1..(Len(calls) - 1) : MayLie(calls[k], Top)
      /\ \A k \in 1..(Len(calls) - 1) : FrameOK(entities, Contents, calls[k], FALSE)
  <2>1. \A k \in 1..(Len(calls) - 1) : k \in 1..Len(calls)
    BY CallsFacts
  <2>2. QED
    BY <1>1, <2>1, CallsFacts
<1>3. p \in Pools /\ p \in Nat /\ e \in Identifier /\ p - 1 \in Pools \cup {0}
  <2>1. p \in Pools /\ e \in Identifier
    BY <1>1, <1>2, CallsFacts, FrameFacts
  <2>2. QED
    BY <2>1, ConstantTypes DEF Pools
<1>4. /\ AtPool(p - 1) = t /\ g \in Frame /\ g.op = "destroy" /\ g.pool = p - 1 /\ g.id = e
  BY <1>1, <1>3, AtPoolIs
<1>5. f \in Frame /\ f.op = "destroyed" /\ f.pool = p /\ f.id = e
  BY <1>3, CallFacts DEF Erasing
<1>6. contains(p, e) <=> e \in Contents[p]
  BY <1>3, Contains DEF IInv
<1>7. calls' = IF contains(p, e) THEN Append(t, f) ELSE t
  BY <1>4 DEF DestroyErases
<1>8. /\ e \in Used(entities)
      /\ \A k \in Pools : k > p => e \notin Contents[k]
  BY <1>1, <1>2 DEF FrameOK
<1>9. /\ FrameOK(entities, Contents, g, FALSE)
      /\ e \notin Contents[p] => FrameOK(entities, Contents, g, TRUE)
  <2>1. \A k \in Pools : k > p - 1 => k = p \/ k > p
    BY <1>3, ConstantTypes
  <2>2. (p - 1) + 1 = p
    BY <1>3
  <2>3. QED
    BY <1>4, <1>8, <2>1, <2>2 DEF FrameOK, Releases
<1>10. \A k \in 1..(Len(calls) - 1) : MayLie(calls[k], g)
  BY <1>1, <1>2, <1>4 DEF MayLie, Releases
<1> HIDE DEF g, f, p, e
<1>12. /\ t \in Seq(Frame) /\ Len(t) = Len(calls)
       /\ \A k \in 1..(Len(calls) - 1) : t[k] = calls[k]
       /\ t[Len(calls)] = g
       /\ StackOK(t) /\ Framed(entities, Contents, t, FALSE)
       /\ FrameOK(entities, Contents, g, TRUE) => Framed(entities, Contents, t, TRUE)
  <2>1. Top.op \notin {"destroyed", "clear_pool"} /\ Len(calls) # 0
    BY <1>1, <1>2
  <2>2. QED
    BY <1>2, <1>4, <1>9, <1>10, <2>1, Turned
<1> HIDE DEF t
<1>13. CASE e \notin Contents[p]
  <2>1. calls' = t /\ Framed(entities, Contents, t, TRUE)
    BY <1>6, <1>7, <1>9, <1>12, <1>13
  <2>2. QED
    BY <1>1, <1>12, <2>1, OnlyCalls
<1>14. CASE e \in Contents[p]
  <2>1. calls' = Append(t, f)
    BY <1>6, <1>7, <1>14
  <2>2. FollowedBy(t[Len(t)], f)
    <3>1. (p - 1) + 1 = p
      BY <1>3
    <3>2. t[Len(t)] = g
      BY <1>12
    <3>3. QED
      BY <1>4, <1>5, <3>1, <3>2 DEF FollowedBy, Releases
  <2>3. FrameOK(entities, Contents, f, TRUE)
    BY <1>3, <1>5, <1>14 DEF FrameOK, Releases
  <2>4. \A j \in 1..Len(t) : MayLie(t[j], f)
    <3> SUFFICES ASSUME NEW j \in 1..Len(t) PROVE MayLie(t[j], f)
      OBVIOUS
    <3>1. CASE j = Len(calls)
      BY <1>4, <1>12, <3>1 DEF MayLie
    <3>2. CASE j # Len(calls)
      <4>1. j \in 1..(Len(calls) - 1)
        BY <1>2, <1>12, <3>2
      <4>2. t[j] = calls[j] /\ MayLie(calls[j], g)
        BY <1>10, <1>12, <4>1
      <4>3. QED
        BY <1>4, <1>5, <4>2 DEF MayLie, Releases
    <3>3. QED
      BY <3>1, <3>2
  <2>5. /\ Append(t, f) \in Seq(Frame) /\ StackOK(Append(t, f))
        /\ Framed(entities, Contents, Append(t, f), TRUE)
    BY <1>5, <1>12, <2>2, <2>3, <2>4, StackPushed
  <2>6. QED
    BY <1>1, <2>1, <2>5, OnlyCalls
<1>15. QED
  BY <1>13, <1>14

LEMMA ClearGoesOn == ASSUME IInv, ClearNextPool PROVE IInv'
<1> DEFINE p == Top.pool
           g == Call(Top.op, p - 1, Top.id, Top.pos)
           t == Put(calls, Len(calls), g)
           f == Call("clear_pool", p, Null, 0)
<1>1. calls # <<>> /\ Top.op = "clear" /\ p # 0 /\ UNCHANGED <<tableVars, poolVars>>
  BY DEF ClearNextPool, Running
<1>2. /\ calls \in Seq(Frame) /\ Len(calls) \in Nat \ {0}
      /\ FrameOK(entities, Contents, Top, TRUE)
      /\ \A k \in 1..(Len(calls) - 1) : MayLie(calls[k], Top)
      /\ \A k \in 1..(Len(calls) - 1) : FrameOK(entities, Contents, calls[k], FALSE)
  <2>1. \A k \in 1..(Len(calls) - 1) : k \in 1..Len(calls)
    BY CallsFacts
  <2>2. QED
    BY <1>1, <2>1, CallsFacts
<1>3. p \in Pools /\ p \in Nat /\ p - 1 \in Pools \cup {0}
  <2>1. p \in Pools
    BY <1>1, <1>2, CallsFacts, FrameFacts
  <2>2. QED
    BY <2>1, ConstantTypes DEF Pools
<1>4. /\ AtPool(p - 1) = t /\ g \in Frame /\ g.op = "clear" /\ g.pool = p - 1
  BY <1>1, <1>3, AtPoolIs
<1>5. f \in Frame /\ f.op = "clear_pool" /\ f.pool = p
  BY <1>3, CallFacts, NullIsIdentifier
<1>6. calls' = Append(t, f)
  BY <1>4 DEF ClearNextPool
<1>7. FrameOK(entities, Contents, g, FALSE)
  <2>1. \A k \in Pools : k > p - 1 => k = p \/ k > p
    BY <1>3, ConstantTypes
  <2>2. (p - 1) + 1 = p
    BY <1>3
  <2>3. \A k \in Pools : k > p => Contents[k] = {}
    BY <1>1, <1>2 DEF FrameOK
  <2>4. QED
    BY <1>4, <2>1, <2>2, <2>3 DEF FrameOK, Releases
<1>8. \A k \in 1..(Len(calls) - 1) : MayLie(calls[k], g)
  BY <1>1, <1>2, <1>4 DEF MayLie, Releases
<1> HIDE DEF g, f, p
<1>9. /\ t \in Seq(Frame) /\ Len(t) = Len(calls)
      /\ \A k \in 1..(Len(calls) - 1) : t[k] = calls[k]
      /\ t[Len(calls)] = g
      /\ StackOK(t) /\ Framed(entities, Contents, t, FALSE)
  <2>1. Top.op \notin {"destroyed", "clear_pool"} /\ Len(calls) # 0
    BY <1>1, <1>2
  <2>2. QED
    BY <1>2, <1>4, <1>7, <1>8, <2>1, Turned
<1> HIDE DEF t
<1>10. FollowedBy(t[Len(t)], f)
  <2>1. (p - 1) + 1 = p
    BY <1>3
  <2>2. t[Len(t)] = g
    BY <1>9
  <2>3. QED
    BY <1>4, <1>5, <2>1, <2>2 DEF FollowedBy, Releases
<1>11. FrameOK(entities, Contents, f, TRUE)
  BY <1>3, <1>5 DEF FrameOK, Releases
<1>12. \A j \in 1..Len(t) : MayLie(t[j], f)
  <2> SUFFICES ASSUME NEW j \in 1..Len(t) PROVE MayLie(t[j], f)
    OBVIOUS
  <2>1. CASE j = Len(calls)
    BY <1>4, <1>9, <2>1 DEF MayLie
  <2>2. CASE j # Len(calls)
    <3>1. j \in 1..(Len(calls) - 1)
      BY <1>2, <1>9, <2>2
    <3>2. t[j] = calls[j] /\ MayLie(calls[j], g)
      BY <1>8, <1>9, <3>1
    <3>3. QED
      BY <1>4, <3>2 DEF MayLie
  <2>3. QED
    BY <2>1, <2>2
<1>13. /\ Append(t, f) \in Seq(Frame) /\ StackOK(Append(t, f))
       /\ Framed(entities, Contents, Append(t, f), TRUE)
  BY <1>5, <1>9, <1>10, <1>11, <1>12, StackPushed
<1>14. QED
  BY <1>1, <1>6, <1>13, OnlyCalls

LEMMA ClearPoolGoesOn == ASSUME IInv, ClearPoolErases PROVE IInv'
<1> DEFINE p == Top.pool
           e == Head(packed[p])
           f == Erasing(p, e)
<1>1. calls # <<>> /\ Top.op = "clear_pool" /\ UNCHANGED <<tableVars, poolVars>>
  BY DEF ClearPoolErases, Running
<1>2. /\ calls \in Seq(Frame) /\ Len(calls) \in Nat \ {0} /\ StackOK(calls)
      /\ Top = calls[Len(calls)]
      /\ FrameOK(entities, Contents, Top, TRUE) /\ Framed(entities, Contents, calls, FALSE)
      /\ \A k \in 1..(Len(calls) - 1) : MayLie(calls[k], Top)
  BY <1>1, CallsFacts
<1>3. p \in Pools
  BY <1>1, <1>2 DEF FrameOK
<1>4. /\ packed[p] = <<>> <=> Contents[p] = {}
      /\ packed[p] # <<>> => e \in Contents[p] /\ e \in Identifier
  BY <1>3, EmptyPool DEF IInv
<1>5. calls' = IF packed[p] # <<>> THEN Append(calls, f) ELSE SubSeq(calls, 1, Len(calls) - 1)
  BY DEF ClearPoolErases, Return
<1>a. Len(calls) - 1 # 0 =>
        /\ Len(calls) - 1 \in 1..(Len(calls) - 1) /\ Len(calls) - 1 \in 1..Len(calls)
        /\ (Len(calls) - 1) + 1 = Len(calls)
  <2>1. calls \in Seq(Frame) /\ Len(calls) # 0
    BY <1>2
  <2>2. QED
    BY <2>1, LastButOne
<1>6. CASE packed[p] # <<>>
  <2>1. f \in Frame /\ f.op = "destroyed" /\ f.pool = p /\ f.id = e
    BY <1>3, <1>4, <1>6, CallFacts DEF Erasing
  <2> HIDE DEF f, e
  <2>2. FollowedBy(calls[Len(calls)], f)
    BY <1>1, <1>2, <2>1 DEF FollowedBy, Releases
  <2>3. FrameOK(entities, Contents, f, TRUE)
    BY <1>3, <1>4, <1>6, <2>1 DEF FrameOK, Releases
  <2> HIDE DEF p
  <2>4. \A j \in 1..Len(calls) : MayLie(calls[j], f)
    <3> SUFFICES ASSUME NEW j \in 1..Len(calls) PROVE MayLie(calls[j], f)
      OBVIOUS
    <3>1. CASE j = Len(calls)
      BY <1>1, <1>2, <3>1 DEF MayLie
    <3>2. CASE j # Len(calls)
      <4>1. j \in 1..(Len(calls) - 1)
        BY <1>2, <3>2
      <4>2. MayLie(calls[j], Top)
        BY <1>2, <4>1
      <4>3. QED
        BY <1>1, <2>1, <4>2 DEF MayLie, Releases, p
    <3>3. QED
      BY <3>1, <3>2
  <2>5. /\ Append(calls, f) \in Seq(Frame) /\ StackOK(Append(calls, f))
        /\ Framed(entities, Contents, Append(calls, f), TRUE)
    BY <1>2, <2>1, <2>2, <2>3, <2>4, StackPushed
  <2>6. QED
    BY <1>1, <1>5, <1>6, <2>5, OnlyCalls
<1>7. CASE packed[p] = <<>>
  <2> DEFINE m == Len(calls) - 1
  <2>1. m \in 0..Len(calls) /\ calls' = SubSeq(calls, 1, m)
    BY <1>2, <1>5, <1>7
  <2>2. ASSUME m # 0 PROVE FrameOK(entities, Contents, calls[m], TRUE)
    <3>1. m \in 1..(Len(calls) - 1) /\ m \in 1..Len(calls) /\ m + 1 = Len(calls)
      BY <1>a, <2>2
    <3>2. FollowedBy(calls[m], Top)
      <4>1. FollowedBy(calls[m], calls[m + 1])
        BY <1>2, <3>1 DEF StackOK
      <4>2. QED
        BY <1>2, <3>1, <4>1
    <3>3. FrameOK(entities, Contents, calls[m], FALSE)
      BY <3>1, CallsFacts
    <3>4. calls[m].op # "destroy" /\ calls[m].op \notin Releases
          /\ (calls[m].op = "clear" => p = calls[m].pool + 1)
      BY <1>1, <3>2 DEF FollowedBy
    <3> HIDE DEF m, p
    <3>5. QED
      BY <1>4, <1>7, <3>3, <3>4 DEF FrameOK
  <2> HIDE DEF m
  <2>3. QED
    BY <1>1, <2>1, <2>2, Left
<1>8. QED
  BY <1>6, <1>7

LEMMA ClearHasCleared == ASSUME IInv, ClearPoolsDone PROVE IInv'
<1> DEFINE op == IF free_list = 0 THEN "release_all" ELSE "release_used"
           f == Call(op, 0, Null, Len(entities))
           t == Put(calls, Len(calls), f)
<1>1. calls # <<>> /\ Top.op = "clear" /\ Top.pool = 0 /\ UNCHANGED <<tableVars, poolVars>>
      /\ calls' = t
  BY DEF ClearPoolsDone, Running, Put
<1>2. /\ calls \in Seq(Frame) /\ Len(calls) \in Nat \ {0}
      /\ FrameOK(entities, Contents, Top, TRUE)
      /\ \A k \in 1..(Len(calls) - 1) : MayLie(calls[k], Top)
      /\ \A k \in 1..(Len(calls) - 1) : FrameOK(entities, Contents, calls[k], FALSE)
  <2>1. \A k \in 1..(Len(calls) - 1) : k \in 1..Len(calls)
    BY CallsFacts
  <2>2. QED
    BY <1>1, <2>1, CallsFacts
<1>3. /\ entities \in Seq(Identifier) /\ Len(entities) \in Nat /\ freed \in Seq(Numbers)
      /\ TableList(entities, free_list, freed)
  BY DEF IInv, TableOK, TableType
<1>4. /\ f \in Frame /\ f.op = op /\ f.pos = Len(entities)
  <2>1. op \in {"constructed", "destroyed", "destroy", "clear", "clear_pool",
                "release_used", "release_all"}
    OBVIOUS
  <2> DEFINE i == Len(entities)
  <2>2. i \in Nat /\ 0 \in Pools \cup {0}
    BY <1>3
  <2> HIDE DEF op, i
  <2>3. /\ Call(op, 0, Null, i) \in Frame
        /\ Call(op, 0, Null, i).op = op /\ Call(op, 0, Null, i).pos = i
    BY <2>1, <2>2, NullIsIdentifier DEF Call, Frame
  <2>4. QED
    BY <2>3 DEF i
<1>5. free_list = 0 => \A n \in 1..Len(entities) : entities[n].number = n
  <2> SUFFICES ASSUME free_list = 0, NEW n \in 1..Len(entities) PROVE entities[n].number = n
    OBVIOUS
  <2>1. Len(freed) = 0
    <3>1. Len(freed) # 0 => 1 \in 1..Len(freed) /\ free_list = freed[1]
      BY <1>3 DEF TableList
    <3>2. Len(freed) # 0 => freed[1] \in Numbers
      BY <1>3, <3>1
    <3>3. QED
      BY <3>1, <3>2, ConstantTypes
  <2>2. 1..Len(freed) = {}
    BY <2>1
  <2>3. QED
    BY <1>3, <2>2 DEF TableList
<1>6. FrameOK(entities, Contents, f, TRUE)
  <2>1. \A p \in Pools : Contents[p] = {}
    <3>1. \A p \in Pools : p > 0
      BY ConstantTypes
    <3>2. QED
      BY <1>1, <1>2, <3>1 DEF FrameOK
  <2>2. Len(entities) <= Len(entities)
    BY <1>3
  <2>3. f.op = "release_all" => free_list = 0
    BY <1>4
  <2>4. f.op \in Releases
    BY <1>4 DEF Releases
  <2> HIDE DEF f, op
  <2>5. QED
    BY <1>4, <1>5, <2>1, <2>2, <2>3, <2>4 DEF FrameOK, Releases
<1>7. \A k \in 1..(Len(calls) - 1) : MayLie(calls[k], f)
  BY <1>1, <1>2 DEF MayLie
<1> HIDE DEF f
<1>8. t \in Seq(Frame) /\ StackOK(t) /\ Framed(entities, Contents, t, TRUE)
  <2>1. /\ Top.op \notin {"destroyed", "clear_pool"} /\ Len(calls) # 0
        /\ FrameOK(entities, Contents, f, FALSE)
    BY <1>1, <1>2, <1>6, FrameBelow
  <2>2. QED
    BY <1>2, <1>4, <1>6, <1>7, <2>1, Turned
<1> HIDE DEF t
<1>9. QED
  BY <1>1, <1>8, OnlyCalls

-----------------------------------------------------------------------------
(* The table or a pool changes *)

\* A step that changes the table only.
LEMMA OnlyTable ==
  ASSUME IInv, UNCHANGED poolVars, TableOK', NEW t \in Seq(Frame), calls' = t,
         StackOK(t), Framed(entities', Contents, t, TRUE),
         \A p \in Pools : Contents[p] \subseteq Used(entities)'
  PROVE  IInv'
<1>1. PoolsOK' /\ Contents' = Contents
  BY DEF IInv, PoolsOK, PoolsExact, PoolExact, poolVars, Contents
<1>2. Owned'
  BY <1>1 DEF Owned
<1>3. FramesOK'
  BY <1>1 DEF FramesOK
<1>4. QED
  BY <1>1, <1>2, <1>3 DEF IInv

\* The program has control: no registry is being released.
LEMMA NoReleases ==
  ASSUME IInv, InProgram
  PROVE  \A k \in 1..Len(calls) : calls[k].op \notin Releases
<1>1. calls \in Seq(Frame) /\ StackOK(calls) /\ Len(calls) \in Nat
  BY CallsFacts
<1>2. \A k \in 1..(Len(calls) - 1) : calls[k].op \notin Releases
  BY <1>1, OnlyTopReleases
<1>3. ASSUME Len(calls) # 0 PROVE calls[Len(calls)].op \notin Releases
  <2>1. calls[Len(calls)].op \in Callback
    BY <1>3, CallsFacts DEF InProgram
  <2>2. QED
    BY <2>1 DEF Callback, Releases
<1>4. \A k \in 1..Len(calls) : Len(calls) # 0 /\ (k = Len(calls) \/ k \in 1..(Len(calls) - 1))
  BY <1>1
<1>5. QED
  BY <1>2, <1>3, <1>4

LEMMA Creates ==
  ASSUME IInv, create_entity
  PROVE  IInv'
<1>1. /\ InProgram
      /\ generate_identifier \/ recycle_identifier
      /\ UNCHANGED poolVars /\ calls' = calls
  BY DEF create_entity
<1>2. TableOK' /\ Used(entities) \subseteq Used(entities)'
  <2>1. TableOK
    BY DEF IInv
  <2>2. QED
    BY <1>1, <2>1, Create
<1>3. /\ calls \in Seq(Frame) /\ StackOK(calls) /\ Framed(entities, Contents, calls, TRUE)
  BY DEF IInv, FramesOK
<1>4. Framed(entities', Contents, calls, TRUE)
  <2> SUFFICES ASSUME NEW k \in 1..Len(calls)
               PROVE  FrameOK(entities', Contents, calls[k], k = Len(calls) /\ TRUE)
    BY DEF Framed
  <2>1. FrameOK(entities, Contents, calls[k], k = Len(calls) /\ TRUE)
    BY <1>3 DEF Framed
  <2>2. calls[k].op \notin Releases
    BY <1>1, NoReleases
  <2>3. calls[k].op = "destroy" => calls[k].id \in Used(entities')
    BY <1>2, <2>1 DEF FrameOK
  <2>4. QED
    BY <2>1, <2>2, <2>3 DEF FrameOK
<1>5. \A p \in Pools : Contents[p] \subseteq Used(entities)'
  BY <1>2 DEF IInv, Owned
<1>6. QED
  BY <1>1, <1>2, <1>3, <1>4, <1>5, OnlyTable

LEMMA DestroyEnds ==
  ASSUME IInv, DestroyReleases
  PROVE  IInv' /\ Top.id \in Used(entities)
<1> DEFINE e == Top.id
           m == Len(calls) - 1
           t == SubSeq(calls, 1, m)
<1>1. /\ calls # <<>> /\ Top.op = "destroy" /\ Top.pool = 0
      /\ release_entity(e) /\ calls' = t /\ UNCHANGED poolVars
  BY DEF DestroyReleases, Running, Return
<1>2. /\ calls \in Seq(Frame) /\ StackOK(calls) /\ Len(calls) # 0
      /\ Top = calls[Len(calls)] /\ FrameOK(entities, Contents, Top, TRUE)
      /\ \A k \in 1..(Len(calls) - 1) : MayLie(calls[k], Top)
      /\ \A k \in 1..Len(calls) : FrameOK(entities, Contents, calls[k], FALSE)
  BY <1>1, CallsFacts
<1>3. e \in Used(entities) /\ \A p \in Pools : e \notin Contents[p]
  <2>1. \A p \in Pools : p > 0
    BY ConstantTypes
  <2>2. QED
    BY <1>1, <1>2, <2>1 DEF FrameOK
<1>4. TableOK' /\ Used(entities)' = Used(entities) \ {e}
  <2>1. TableOK
    BY DEF IInv
  <2> HIDE DEF e
  <2>2. QED
    BY <1>1, <1>3, <2>1, Release
<1>5. m \in 0..Len(calls) /\ \A k \in 1..m : k \in 1..Len(calls) /\ k \in 1..(Len(calls) - 1)
  <2>1. calls \in Seq(Frame) /\ Len(calls) \in Nat
    BY <1>2
  <2>2. QED
    BY <1>2, <2>1
<1>6. \A k \in 1..m : FrameOK(entities', Contents, calls[k], FALSE)
  <2> SUFFICES ASSUME NEW k \in 1..m PROVE FrameOK(entities', Contents, calls[k], FALSE)
    OBVIOUS
  <2>1. FrameOK(entities, Contents, calls[k], FALSE)
    BY <1>2, <1>5
  <2>2. calls[k].op \notin Releases
    BY <1>2, <1>5, OnlyTopReleases
  <2>3. calls[k].op = "destroy" => calls[k].id # e
    BY <1>1, <1>2, <1>5, BelowDestroy
  <2>4. calls[k].op = "destroy" => calls[k].id \in Used(entities')
    BY <1>4, <2>1, <2>3 DEF FrameOK
  <2>5. QED
    BY <2>1, <2>2, <2>4 DEF FrameOK
<1>7. m # 0 => FrameOK(entities', Contents, calls[m], TRUE)
  <2> SUFFICES ASSUME m # 0 PROVE FrameOK(entities', Contents, calls[m], TRUE)
    OBVIOUS
  <2>1. m \in 1..m /\ Len(calls) > 1
    BY <1>2, LastButOne
  <2>2. calls[m].op \in Callback
    <3>1. calls[Len(calls)].op \notin {"destroyed", "clear_pool"}
      BY <1>1, <1>2
    <3>2. QED
      BY <1>2, <2>1, <3>1, BelowIsCallback
  <2>3. FrameOK(entities', Contents, calls[m], FALSE)
    BY <1>6, <2>1
  <2>4. QED
    BY <2>2, <2>3, CallbackFrame
<1>8. t \in Seq(Frame) /\ StackOK(t) /\ Framed(entities', Contents, t, TRUE)
  <2> HIDE DEF m
  <2>1. QED
    BY <1>2, <1>5, <1>6, <1>7, StackCut
<1>9. \A p \in Pools : Contents[p] \subseteq Used(entities)'
  BY <1>3, <1>4 DEF IInv, Owned
<1> HIDE DEF t
<1>10. IInv'
  BY <1>1, <1>4, <1>8, <1>9, OnlyTable
<1>11. QED
  BY <1>3, <1>10

LEMMA ClearEnds ==
  ASSUME IInv, ClearReleases
  PROVE  /\ IInv'
         /\ UNCHANGED tableVars \/ \E e \in Used(entities) : release_entity(e)
<1> DEFINE i == Top.pos
           e == entities[i]
           f == Call(Top.op, Top.pool, Top.id, i - 1)
           t == Put(calls, Len(calls), f)
<1>1. /\ calls # <<>> /\ Top.op \in Releases /\ UNCHANGED poolVars
  BY DEF ClearReleases, Running, Releases
<1>2. /\ calls \in Seq(Frame) /\ StackOK(calls) /\ Len(calls) # 0 /\ Len(calls) \in Nat
      /\ Top = calls[Len(calls)] /\ FrameOK(entities, Contents, Top, TRUE)
      /\ \A k \in 1..(Len(calls) - 1) : MayLie(calls[k], Top)
      /\ \A k \in 1..Len(calls) : FrameOK(entities, Contents, calls[k], FALSE)
      /\ i \in Nat
  <2>1. /\ calls \in Seq(Frame) /\ StackOK(calls) /\ Len(calls) # 0 /\ Len(calls) \in Nat
        /\ Top = calls[Len(calls)] /\ FrameOK(entities, Contents, Top, TRUE)
        /\ Len(calls) \in 1..Len(calls)
        /\ \A k \in 1..(Len(calls) - 1) : MayLie(calls[k], Top)
        /\ \A k \in 1..Len(calls) : FrameOK(entities, Contents, calls[k], FALSE)
    BY <1>1, CallsFacts
  <2>2. QED
    BY <2>1, FrameFacts
<1>3. \A k \in 1..(Len(calls) - 1) : calls[k].op = "constructed"
  <2>1. calls[Len(calls)].op \in Releases
    BY <1>1, <1>2
  <2>2. QED
    BY <1>2, <2>1, BelowClear
<1>4. /\ \A p \in Pools : Contents[p] = {}
      /\ i <= Len(entities)
      /\ Top.op = "release_all" => \A n \in 1..i : entities[n].number = n
  BY <1>1, <1>2 DEF FrameOK
<1>5. entities \in Seq(Identifier) /\ TableOK
  BY DEF IInv, TableOK, TableType
<1>6. CASE i = 0
  <2>1. calls' = SubSeq(calls, 1, Len(calls) - 1) /\ UNCHANGED tableVars
    BY <1>6 DEF ClearReleases, Return
  <2>2. Len(calls) - 1 \in 0..Len(calls)
    BY <1>2
  <2>3. Len(calls) - 1 # 0 => calls[Len(calls) - 1].op \in Callback
    <3>1. Len(calls) - 1 # 0 => Len(calls) - 1 \in 1..(Len(calls) - 1)
      BY <1>2, LastButOne
    <3>2. QED
      BY <1>3, <3>1 DEF Callback
  <2>4. QED
    BY <1>1, <2>1, <2>2, <2>3, LeftToCallback
<1>7. CASE i # 0
  <2>1. i - 1 \in Nat /\ i \in 1..i /\ i \in 1..Len(entities)
    <3>1. Len(entities) \in Nat
      BY <1>5
    <3>2. QED
      BY <1>2, <1>4, <1>7, <3>1
  <2>2. /\ AtPos(i - 1) = t /\ f \in Frame /\ f.op = Top.op /\ f.pos = i - 1
    BY <1>1, <2>1, AtPosIs
  <2>3. calls' = t
    BY <1>7, <2>2 DEF ClearReleases
  <2>4. \A k \in 1..(Len(calls) - 1) : MayLie(calls[k], f)
    BY <1>3 DEF MayLie
  <2>5. \A ent : \A k \in 1..(Len(calls) - 1) : FrameOK(ent, Contents, calls[k], FALSE)
    BY <1>3 DEF FrameOK, Releases
  <2>6. Top.op \notin {"destroyed", "clear_pool"}
    BY <1>1 DEF Releases
  <2> HIDE DEF f
  <2>7. CASE Top.op = "release_all" \/ entities[i].number = i
    <3>1. release_entity(e)
      BY <1>7, <2>7 DEF ClearReleases
    <3>2. e.number = i /\ e \in Used(entities)
      <4>1. entities[i].number = i
        BY <1>4, <2>1, <2>7
      <4>2. QED
        BY <1>5, <2>1, <4>1, UsedAre
    <3> HIDE DEF e
    <3>3. /\ TableOK' /\ Len(entities)' = Len(entities)
          /\ \A k \in 1..Len(entities) : k # i => entities'[k] = entities[k]
      BY <1>5, <3>1, <3>2, Release
    <3>4. FrameOK(entities', Contents, f, TRUE)
      <4>1. f.pos <= Len(entities')
        <5>1. Len(entities) \in Nat
          BY <1>5
        <5>2. i - 1 <= Len(entities)
          BY <1>2, <1>4, <5>1
        <5>3. QED
          BY <2>2, <3>3, <5>2
      <4>2. \A n \in 1..(i - 1) : n \in 1..i /\ n # i /\ n \in 1..Len(entities)
        <5>1. Len(entities) \in Nat
          BY <1>5
        <5>2. QED
          BY <1>2, <1>4, <5>1
      <4>3. f.op = "release_all" => \A n \in 1..f.pos : entities'[n].number = n
        BY <1>4, <2>2, <3>3, <4>2
      <4>4. QED
        BY <1>1, <1>4, <2>2, <4>1, <4>3 DEF FrameOK, Releases
    <3>5. FrameOK(entities', Contents, f, FALSE)
      BY <3>4, FrameBelow
    <3>6. t \in Seq(Frame) /\ StackOK(t) /\ Framed(entities', Contents, t, TRUE)
      BY <1>2, <2>2, <2>4, <2>5, <2>6, <3>4, <3>5, Turned
    <3> HIDE DEF t
    <3>7. \A p \in Pools : Contents[p] \subseteq Used(entities)'
      BY <1>4
    <3>8. IInv'
      BY <1>1, <2>3, <3>3, <3>6, <3>7, OnlyTable
    <3>9. QED
      BY <3>1, <3>2, <3>8
  <2>8. CASE ~ (Top.op = "release_all" \/ entities[i].number = i)
    <3>1. UNCHANGED tableVars
      BY <1>7, <2>8 DEF ClearReleases
    <3>2. FrameOK(entities, Contents, f, TRUE)
      <4>1. Len(entities) \in Nat
        BY <1>5
      <4>2. i - 1 <= Len(entities)
        BY <1>2, <1>4, <4>1
      <4>3. QED
        BY <1>1, <1>4, <2>2, <2>8, <4>2 DEF FrameOK, Releases
    <3>3. FrameOK(entities, Contents, f, FALSE)
      BY <3>2, FrameBelow
    <3>4. t \in Seq(Frame) /\ StackOK(t) /\ Framed(entities, Contents, t, TRUE)
      BY <1>2, <2>2, <2>4, <2>5, <2>6, <3>2, <3>3, Turned
    <3> HIDE DEF t
    <3>5. QED
      BY <1>1, <2>3, <3>1, <3>4, OnlyCalls
  <2>9. QED
    BY <2>7, <2>8
<1>8. QED
  BY <1>6, <1>7

\* Emplacing: the calls below have not passed the pool with the entity.
LEMMA Emplaces ==
  ASSUME IInv, NEW p \in Pools, NEW e \in Identifier, emplace_component(p, e)
  PROVE  IInv'
<1> DEFINE f == Call("constructed", p, e, Len(instances[p]) + 1)
           in == [Contents EXCEPT ![p] = @ \cup {e}]
<1>1. /\ InProgram /\ is_valid(e) /\ emplace(p, e) /\ ~ Passed(p, e)
      /\ calls' = Append(calls, f) /\ UNCHANGED tableVars
  BY DEF emplace_component, emplace
<1>2. f \in Frame /\ f.op = "constructed"
  <2>1. instances[p] \in Seq(Identifier)
    BY PoolTypes DEF IInv
  <2>2. Len(instances[p]) + 1 \in Nat
    BY <2>1
  <2>3. QED
    BY <2>2, CallFacts
<1>3. e \in Used(entities) /\ e.number \in Numbers
  <2>1. /\ entities \in Seq(Identifier) /\ Len(entities) <= MaxEntities
    BY DEF IInv, TableOK, TableType
  <2>2. e \in Used(entities) /\ e.number \in 1..Len(entities)
    BY <1>1, <2>1, UsedAre DEF is_valid
  <2>3. QED
    BY <2>1, <2>2, ConstantTypes DEF Numbers
<1>4. PoolsOK' /\ Contents' = in
  BY <1>1, <1>3, Emplaced DEF IInv
<1>5. \A q \in Pools : \A x : x \in in[q] <=> x \in Contents[q] \/ (q = p /\ x = e)
  BY DEF Contents
<1> HIDE DEF f, in
<1>6. /\ calls \in Seq(Frame) /\ StackOK(calls) /\ DOMAIN calls = 1..Len(calls)
      /\ \A k \in 1..Len(calls) : FrameOK(entities, Contents, calls[k], FALSE)
      /\ \A k \in 1..Len(calls) : calls[k].op \notin Releases
  <2>1. /\ calls \in Seq(Frame) /\ StackOK(calls)
        /\ \A k \in 1..Len(calls) : FrameOK(entities, Contents, calls[k], FALSE)
    BY CallsFacts
  <2>2. DOMAIN calls = 1..Len(calls)
    BY <2>1
  <2>3. \A k \in 1..Len(calls) : calls[k].op \notin Releases
    BY <1>1, NoReleases
  <2>4. QED
    BY <2>1, <2>2, <2>3
<1>7. \A k \in 1..Len(calls) : FrameOK(entities, in, calls[k], FALSE)
  <2> SUFFICES ASSUME NEW k \in 1..Len(calls) PROVE FrameOK(entities, in, calls[k], FALSE)
    OBVIOUS
  <2> DEFINE g == calls[k]
  <2>1. /\ FrameOK(entities, Contents, g, FALSE) /\ g.op \notin Releases
        /\ g.op = "destroy" /\ g.id = e => ~ (p > g.pool)
        /\ g.op = "clear" => ~ (p > g.pool + 1)
    BY <1>1, <1>6 DEF Passed
  <2>2. g.pool \in Nat /\ p \in Nat
    BY <1>6, FrameFacts, ConstantTypes
  <2> HIDE DEF g
  <2>3. g.op = "destroyed" => g.pool \in Pools /\ g.id \in in[g.pool]
    BY <1>5, <2>1 DEF FrameOK
  <2>4. ASSUME g.op = "destroy"
        PROVE  /\ g.id \in Used(entities)
               /\ \A q \in Pools : q > g.pool /\ g.id \in in[q] => q = g.pool + 1
    BY <1>5, <2>1, <2>4 DEF FrameOK
  <2>5. ASSUME g.op = "clear", NEW q \in Pools, q > g.pool, in[q] # {}
        PROVE  q = g.pool + 1
    <3>1. CASE q = p
      BY <2>1, <2>2, <2>5, <3>1
    <3>2. CASE q # p
      <4>1. Contents[q] # {}
        BY <1>5, <2>5, <3>2
      <4>2. QED
        BY <2>1, <2>5, <4>1 DEF FrameOK
    <3>3. QED
      BY <3>1, <3>2
  <2>6. g.op = "clear_pool" => g.pool \in Pools
    BY <2>1 DEF FrameOK
  <2>7. FrameOK(entities, in, g, FALSE)
    BY <2>1, <2>3, <2>4, <2>5, <2>6 DEF FrameOK
  <2>8. QED
    BY <2>7 DEF g
<1>8. Framed(entities, in, calls, FALSE)
  <2> SUFFICES ASSUME NEW k \in 1..Len(calls)
               PROVE  FrameOK(entities, in, calls[k], k = Len(calls) /\ FALSE)
    BY DEF Framed
  <2>1. (k = Len(calls) /\ FALSE) = FALSE
    OBVIOUS
  <2>2. QED
    BY <1>7, <2>1
<1>9. Len(calls) # 0 => FollowedBy(calls[Len(calls)], f)
  <2>1. Len(calls) # 0 => calls[Len(calls)].op \in Callback
    BY <1>1, CallsFacts DEF InProgram
  <2>2. QED
    BY <2>1 DEF Callback, FollowedBy, Releases
<1>10. FrameOK(entities, in, f, TRUE)
  BY <1>2 DEF FrameOK, Releases
<1>11. \A j \in 1..Len(calls) : MayLie(calls[j], f)
  BY <1>2 DEF MayLie, Releases
<1>12. /\ Append(calls, f) \in Seq(Frame) /\ StackOK(Append(calls, f))
       /\ Framed(entities, in, Append(calls, f), TRUE)
  BY <1>2, <1>6, <1>8, <1>9, <1>10, <1>11, StackPushed
<1>13. entities' = entities /\ TableOK'
  <2>1. TableOK /\ UNCHANGED tableVars
    BY <1>1 DEF IInv
  <2>2. QED
    BY <2>1 DEF TableOK, TableType, Counted, tableVars
<1>14. Owned'
  <2>1. \A q \in Pools : in[q] \subseteq Used(entities)
    BY <1>3, <1>5 DEF IInv, Owned
  <2>2. QED
    BY <1>4, <1>13, <2>1 DEF Owned
<1>15. FramesOK'
  BY <1>1, <1>4, <1>12, <1>13 DEF FramesOK
<1>16. QED
  BY <1>1, <1>4, <1>12, <1>13, <1>14, <1>15 DEF IInv

\* Erasing: what is erased is no concern of another call, but for the one
\* that erases it.
LEMMA Erases == ASSUME IInv, EraseReturns PROVE IInv'
<1> DEFINE p == Top.pool
           e == Top.id
           m == Len(calls) - 1
           t == SubSeq(calls, 1, m)
           in == [Contents EXCEPT ![p] = @ \ {e}]
<1>1. /\ calls # <<>> /\ Top.op = "destroyed" /\ calls' = t /\ UNCHANGED tableVars
  BY DEF EraseReturns, Running, Return
<1>2. /\ calls \in Seq(Frame) /\ StackOK(calls) /\ Len(calls) # 0
      /\ Top = calls[Len(calls)] /\ FrameOK(entities, Contents, Top, TRUE)
      /\ \A k \in 1..(Len(calls) - 1) : MayLie(calls[k], Top)
      /\ \A k \in 1..Len(calls) : FrameOK(entities, Contents, calls[k], FALSE)
  BY <1>1, CallsFacts
<1>3. p \in Pools /\ e \in Contents[p]
  BY <1>1, <1>2 DEF FrameOK
<1>4. PoolsOK' /\ Contents' = in
  BY <1>3, Erased DEF IInv
<1>5. \A q \in Pools : \A x : x \in in[q] <=> x \in Contents[q] /\ ~ (q = p /\ x = e)
  BY DEF Contents
<1>6. m \in 0..Len(calls) /\ \A k \in 1..m : k \in 1..Len(calls) /\ k \in 1..(Len(calls) - 1)
  <2>1. calls \in Seq(Frame) /\ Len(calls) \in Nat
    BY <1>2
  <2>2. QED
    BY <1>2, <2>1
<1>7. m # 0 => m \in 1..m /\ FollowedBy(calls[m], Top)
  <2> SUFFICES ASSUME m # 0 PROVE m \in 1..m /\ FollowedBy(calls[m], Top)
    OBVIOUS
  <2>1. m \in 1..m /\ m + 1 = Len(calls)
    BY <1>2, LastButOne
  <2>2. FollowedBy(calls[m], calls[m + 1])
    BY <1>2, <2>1 DEF StackOK
  <2>3. QED
    BY <1>2, <2>1, <2>2
<1> HIDE DEF in
<1>8. \A k \in 1..m : /\ FrameOK(entities, Contents, calls[k], FALSE)
                      /\ MayLie(calls[k], Top) /\ calls[k].op \notin Releases
                      /\ FrameOK(entities, in, calls[k], FALSE)
  <2> SUFFICES ASSUME NEW k \in 1..m
               PROVE  /\ FrameOK(entities, Contents, calls[k], FALSE)
                      /\ MayLie(calls[k], Top) /\ calls[k].op \notin Releases
                      /\ FrameOK(entities, in, calls[k], FALSE)
    OBVIOUS
  <2> DEFINE g == calls[k]
  <2>1. /\ FrameOK(entities, Contents, g, FALSE) /\ MayLie(g, Top) /\ g.op \notin Releases
    BY <1>2, <1>6, OnlyTopReleases
  <2> HIDE DEF g
  <2>2. g.op = "destroyed" => g.pool \in Pools /\ g.id \in in[g.pool]
    BY <1>1, <1>5, <2>1 DEF FrameOK, MayLie
  <2>3. \A q \in Pools : in[q] \subseteq Contents[q]
    BY <1>5
  <2>4. FrameOK(entities, in, g, FALSE)
    BY <2>1, <2>2, <2>3 DEF FrameOK
  <2>5. QED
    BY <2>1, <2>4 DEF g
<1>9. m # 0 => FrameOK(entities, in, calls[m], TRUE)
  <2> SUFFICES ASSUME m # 0 PROVE FrameOK(entities, in, calls[m], TRUE)
    OBVIOUS
  <2> DEFINE g == calls[m]
  <2>1. /\ FrameOK(entities, Contents, g, FALSE) /\ g.op \notin Releases
        /\ FrameOK(entities, in, g, FALSE) /\ FollowedBy(g, Top)
    BY <1>7, <1>8
  <2> HIDE DEF g
  <2>2. g.op = "destroy" => p = g.pool + 1 /\ e = g.id
    BY <2>1 DEF FollowedBy
  <2>3. g.op # "clear"
    BY <1>1, <2>1 DEF FollowedBy
  <2>4. ASSUME g.op = "destroy", NEW q \in Pools, q > g.pool, g.id \in in[q] PROVE FALSE
    <3>1. q = g.pool + 1
      BY <2>1, <2>4 DEF FrameOK
    <3>2. q = p /\ g.id = e
      BY <2>2, <2>4, <3>1
    <3>3. QED
      BY <1>5, <2>4, <3>2
  <2> HIDE DEF p, e
  <2>5. FrameOK(entities, in, g, TRUE)
    BY <2>1, <2>3, <2>4 DEF FrameOK
  <2>6. QED
    BY <2>5 DEF g
<1>10. t \in Seq(Frame) /\ StackOK(t) /\ Framed(entities, in, t, TRUE)
  <2>1. \A k \in 1..m : FrameOK(entities, in, calls[k], FALSE)
    BY <1>8
  <2> HIDE DEF m
  <2>2. QED
    BY <1>2, <1>6, <1>9, <2>1, StackCut
<1>11. entities' = entities /\ TableOK'
  <2>1. TableOK /\ UNCHANGED tableVars
    BY <1>1 DEF IInv
  <2>2. QED
    BY <2>1 DEF TableOK, TableType, Counted, tableVars
<1> HIDE DEF t
<1>12. Owned'
  <2>1. \A q \in Pools : in[q] \subseteq Used(entities)
    BY <1>5 DEF IInv, Owned
  <2>2. QED
    BY <1>4, <1>11, <2>1 DEF Owned
<1>13. FramesOK'
  BY <1>1, <1>4, <1>10, <1>11 DEF FramesOK
<1>14. QED
  BY <1>1, <1>4, <1>10, <1>11, <1>12, <1>13 DEF IInv

-----------------------------------------------------------------------------
(* The theorems *)

LEMMA Step == ASSUME IInv, [Next]_vars PROVE IInv'
<1>1. CASE create_entity
  BY <1>1, Creates
<1>2. CASE clear
  BY <1>2, Clears
<1>3. ASSUME NEW e \in Identifier, destroy_entity(e) PROVE IInv'
  BY <1>3, Destroys
<1>4. ASSUME NEW p \in Pools, clear_component(p) PROVE IInv'
  BY <1>4, ClearsComponent
<1>5. ASSUME NEW p \in Pools, NEW e \in Identifier, emplace_component(p, e) PROVE IInv'
  BY <1>5, Emplaces
<1>6. ASSUME NEW p \in Pools, NEW e \in Identifier, remove_component(p, e) PROVE IInv'
  BY <1>6, Removes
<1>7. CASE EmplaceReturns
  BY <1>7, EmplaceEnds
<1>8. CASE EraseReturns
  BY <1>8, Erases
<1>9. CASE DestroyErases
  BY <1>9, DestroyGoesOn
<1>10. CASE DestroyReleases
  BY <1>10, DestroyEnds
<1>11. CASE ClearNextPool
  BY <1>11, ClearGoesOn
<1>12. CASE ClearPoolErases
  BY <1>12, ClearPoolGoesOn
<1>13. CASE ClearPoolsDone
  BY <1>13, ClearHasCleared
<1>14. CASE ClearReleases
  BY <1>14, ClearEnds
<1>15. CASE CallbackThrows
  BY <1>15, Throws
<1>16. CASE UNCHANGED vars
  <2>1. UNCHANGED <<tableVars, poolVars>> /\ calls' = calls
    BY <1>16 DEF vars, tableVars, poolVars
  <2>2. calls \in Seq(Frame) /\ StackOK(calls) /\ Framed(entities, Contents, calls, TRUE)
    BY DEF IInv, FramesOK
  <2>3. QED
    BY <2>1, <2>2, OnlyCalls
<1>17. QED
  BY <1>1, <1>2, <1>3, <1>4, <1>5, <1>6, <1>7, <1>8, <1>9, <1>10, <1>11, <1>12, <1>13,
     <1>14, <1>15, <1>16 DEF Next, ProgramStep, CallStep

\* Table, pools, owners and the calls in progress, together: what each call
\* of the registry relies on once its callbacks have returned still holds.
THEOREM Invariant == Spec => []IInv
<1>1. Init => IInv
  BY Initially
<1>2. IInv /\ [Next]_vars => IInv'
  BY Step
<1>3. QED
  BY <1>1, <1>2, PTL DEF Spec

LEMMA TypesFollow == IInv => TypeOK
BY DEF IInv, TableOK, TableType, PoolsOK, TypeOK

\* The state of the registry has the types of the code, whatever the
\* program and its callbacks do.
THEOREM TypesKept == Spec => []TypeOK
BY Invariant, TypesFollow, PTL

\* The free list threaded through the table has exactly the numbers that are
\* not in use, in the order in which release_entity() put them there.
THEOREM FreeListKept == Spec => []FreeListExact
<1>1. IInv => FreeListExact
  BY TypesFollow, FreeListIsTableList DEF IInv, TableOK
<1>2. QED
  BY <1>1, Invariant, PTL

\* The three arrays of every pool stay in step, at any depth of callbacks.
THEOREM PoolsKept == Spec => []PoolsExact
<1>1. IInv => PoolsExact
  BY DEF IInv, PoolsOK
<1>2. QED
  BY <1>1, Invariant, PTL

LEMMA VisitsOwn ==
  ASSUME IInv, NEW e \in Valid, NEW component \in visit(e)
  PROVE  component[2] = e
<1>1. PICK p \in Pools : try_get(p, e) # Null /\ component = <<p, try_get(p, e)>>
  BY DEF visit
<1>2. /\ entities \in Seq(Identifier) /\ Len(entities) <= MaxEntities /\ PoolsOK
      /\ Contents[p] \subseteq Used(entities)
  BY DEF IInv, TableOK, TableType, Owned
<1>3. PICK n \in 1..Len(entities) : entities[n].number = n /\ e = entities[n]
  BY <1>2, UsedAre, ValidIsUsed
<1>4. n \in Numbers /\ e.number = n
  BY <1>2, <1>3, ConstantTypes DEF Numbers
<1> DEFINE x == sparse[p][n]
<1>5. x # 0 /\ try_get(p, e) = instances[p][x]
  BY <1>1, <1>4 DEF try_get
<1>6. /\ x \in DOMAIN packed[p] /\ packed[p][x].number = n /\ instances[p][x] = packed[p][x]
  BY <1>2, <1>4, <1>5, PoolTypes DEF PoolArrays
<1>7. packed[p][x] \in Used(entities)
  BY <1>2, <1>6 DEF Contents, InPool
<1>8. packed[p][x] = e
  <2>1. PICK k \in 1..Len(entities) : entities[k].number = k /\ packed[p][x] = entities[k]
    BY <1>2, <1>7, UsedAre
  <2>2. QED
    BY <1>3, <1>6, <2>1
<1>9. QED
  BY <1>1, <1>5, <1>6, <1>8

\* A component is in a pool only while its entity is in use, and an entity in
\* use is shown only components that were made for it: destroy_entity() and
\* clear() leave nothing to the next user of a number.
THEOREM ComponentsKept == Spec => []ComponentsOwned
<1>1. IInv => ComponentsOwned
  <2> SUFFICES ASSUME IInv PROVE ComponentsOwned
    OBVIOUS
  <2>1. ASSUME NEW p \in Pools, NEW i \in DOMAIN packed[p] PROVE is_valid(packed[p][i])
    <3>1. packed[p][i] \in Contents[p]
      BY DEF Contents, InPool
    <3>2. packed[p][i] \in Used(entities) /\ packed[p][i] \in Identifier
      BY <3>1, EmptyPool DEF IInv, Owned
    <3>3. QED
      BY <3>2, IsValid, TypesFollow
  <2>2. \A e \in Valid : \A component \in visit(e) : component[2] = e
    BY VisitsOwn
  <2>3. QED
    BY <2>1, <2>2 DEF ComponentsOwned
<1>2. QED
  BY <1>1, Invariant, PTL

LEMMA SameTable ==
  ASSUME UNCHANGED tableVars
  PROVE  UNCHANGED <<Valid, lives>>
BY DEF tableVars, Valid

LEMMA ReleaseDestroys ==
  ASSUME IInv, NEW e \in Used(entities), release_entity(e)
  PROVE  Ids!Destroy(e) /\ e \in Valid
<1>1. TableOK
  BY DEF IInv
<1>2. Used(entities)' = Used(entities) \ {e} /\ lives' = lives
  BY <1>1, Release
<1>3. Valid = Used(entities) /\ Valid' = Used(entities)'
  BY DEF Valid, Used
<1>4. QED
  BY <1>2, <1>3 DEF Ids!Destroy

\* Every step creates an identifier nobody has, or gives up one in use, or
\* leaves all of them alone.
LEMMA StepOfIdentifiers ==
  ASSUME IInv, [Next]_vars
  PROVE  Ids!Next \/ UNCHANGED <<Valid, lives>>
<1>1. CASE create_entity
  <2>1. TableOK /\ (generate_identifier \/ recycle_identifier)
    BY <1>1 DEF IInv, create_entity
  <2>2. PICK n \in Numbers :
          /\ \A e \in Used(entities) : e.number # n
          /\ Used(entities)' =
               Used(entities) \cup {[number |-> n, version |-> lives[n] % Tombstone]}
          /\ lives' = [lives EXCEPT ![n] = @ + 1]
    BY <2>1, Create
  <2>3. Valid = Used(entities) /\ Valid' = Used(entities)'
    BY DEF Valid, Used
  <2>4. Ids!Create(n)
    BY <2>2, <2>3 DEF Ids!Create, Tombstone
  <2>5. QED
    BY <2>4 DEF Ids!Next
<1>2. CASE DestroyReleases
  <2>1. Top.id \in Used(entities) /\ release_entity(Top.id)
    BY <1>2, DestroyEnds DEF DestroyReleases
  <2>2. Ids!Destroy(Top.id) /\ Top.id \in Valid
    BY <2>1, ReleaseDestroys
  <2>3. QED
    BY <2>2 DEF Ids!Next
<1>3. CASE ClearReleases
  <2>1. UNCHANGED tableVars \/ \E e \in Used(entities) : release_entity(e)
    BY <1>3, ClearEnds
  <2>2. QED
    BY <2>1, SameTable, ReleaseDestroys DEF Ids!Next
<1>4. CASE UNCHANGED tableVars
  BY <1>4, SameTable
<1>5. create_entity \/ DestroyReleases \/ ClearReleases \/ UNCHANGED tableVars
  BY DEF Next, ProgramStep, CallStep, clear, destroy_entity, clear_component,
         emplace_component, emplace, remove_component, EmplaceReturns, EraseReturns,
         DestroyErases, ClearNextPool, ClearPoolErases, ClearPoolsDone, CallbackThrows,
         vars, tableVars
<1>6. QED
  BY <1>1, <1>2, <1>3, <1>4, <1>5

\* The registry keeps what module Identifiers promises: no identifier is
\* handed out while another entity has its number, and the versions of a
\* number come one after the other.
THEOREM Implementation == Spec => ImplementsIdentifiers
<1>1. Init => Ids!Init
  <2> SUFFICES ASSUME Init PROVE Ids!Init
    OBVIOUS
  <2>1. entities = <<>> /\ lives = [n \in Numbers |-> 0]
    BY DEF Init
  <2>2. Valid = {}
    BY <2>1 DEF Valid
  <2>3. QED
    BY <2>1, <2>2 DEF Ids!Init
<1>2. IInv /\ [Next]_vars => [Ids!Next]_<<Valid, lives>>
  BY StepOfIdentifiers
<1>3. QED
  BY <1>1, <1>2, Invariant, PTL DEF Spec, ImplementsIdentifiers, Ids!Spec, Ids!vars

-----------------------------------------------------------------------------
(* Walks *)

LEMMA Least ==
  ASSUME NEW S \in SUBSET Nat, S # {}
  PROVE  \E m \in S : \A k \in S : m <= k
<1>1. PICK x \in S : \A y \in S : ~(<<y, x>> \in OpToRel(<, Nat))
  BY NatLessThanWellFounded, WFMin
<1>2. \A y \in S : ~(y < x)
  BY <1>1 DEF OpToRel
<1>3. \A y \in S : x <= y
  BY <1>2
<1>4. QED
  BY <1>3

\* A set of numbers up to n has a greatest one, the least of its bounds.
LEMMA Greatest ==
  ASSUME NEW n \in Nat, NEW S \in SUBSET (1..n), S # {}
  PROVE  \E m \in S : \A k \in S : k <= m
<1> DEFINE U == {m \in Nat : \A k \in S : k <= m}
<1>1. PICK m \in U : \A k \in U : m <= k
  <2>1. U \in SUBSET Nat /\ U # {}
    OBVIOUS
  <2>2. QED
    BY <2>1, Least
<1>2. CASE m \in S
  BY <1>2, <1>1
<1>3. CASE m \notin S
  <2>1. \A k \in S : k <= m - 1 /\ m - 1 \in Nat
    BY <1>3, <1>1
  <2>2. m - 1 \in U
    BY <2>1
  <2>3. QED
    BY <1>1, <2>2
<1>4. QED
  BY <1>2, <1>3

\* What a walk w of the table relies on: what is due is in use, at a position
\* before its own; what it was handed comes after it.
OfTable(w) ==
  /\ w.pos - 1 <= Len(entities)
  /\ \A e \in w.due : e \in Used(entities) /\ e.number < w.pos
  /\ ~ w.all => \A e \in w.seen : e.number >= w.pos

\* What a walk w of a pool relies on: what is due is in the view, before its
\* position; there is nothing that it was handed.
OfPool(w) ==
  /\ w.pos - 1 <= Len(packed[w.over])
  /\ \A e \in w.due :
       /\ \E i \in 1 .. w.pos - 1 : packed[w.over][i] = e
       /\ \A p \in w.has : e \in Contents[p]
       /\ \A p \in w.lacks : e \notin Contents[p]
  /\ \A i \in 1 .. w.pos - 1 : packed[w.over][i] \notin w.seen

WalkType ==
  /\ walk \in [over : Pools \cup {0}, all : BOOLEAN, has : SUBSET Pools,
               lacks : SUBSET Pools, pos : Nat, current : Identifier,
               due : SUBSET Identifier, seen : SUBSET Identifier]
  /\ walk.over # 0 => walk.over \in walk.has /\ ~ walk.all
  /\ walk.current = Null \/ walk.current \in walk.seen

WalkInv ==
  /\ WalkType
  /\ walk.pos # 0 => IF walk.over = 0 THEN OfTable(walk) ELSE OfPool(walk)

\* An element of a pool is at the place its number leads to, and at no other.
LEMMA PoolElements ==
  ASSUME PoolsOK, NEW p \in Pools
  PROVE  /\ packed[p] \in Seq(Identifier) /\ Len(packed[p]) \in Nat
         /\ DOMAIN packed[p] = 1..Len(packed[p])
         /\ \A i \in 1..Len(packed[p]) :
              /\ packed[p][i] \in Identifier /\ packed[p][i] # Null
              /\ packed[p][i] \in Contents[p]
              /\ \A j \in 1..Len(packed[p]) : packed[p][i] = packed[p][j] => i = j
         /\ Contents[p] = Held(p) /\ Contents[p] \subseteq Identifier
         /\ \A e \in Contents[p] : \E i \in 1..Len(packed[p]) : packed[p][i] = e
<1>1. packed[p] \in Seq(Identifier) /\ PoolArrays(packed[p], instances[p], sparse[p])
  BY PoolTypes
<1>2. Contents[p] = Held(p) /\ Contents[p] = InPool(packed[p])
  BY DEF Contents, Held, InPool
<1>3. \A i \in 1..Len(packed[p]) : packed[p][i].number \in Numbers
                                    /\ sparse[p][packed[p][i].number] = i
  BY <1>1 DEF PoolArrays
<1>4. \A i \in 1..Len(packed[p]) : packed[p][i] # Null
  BY <1>3, ConstantTypes DEF Null
<1>5. \A i, j \in 1..Len(packed[p]) : packed[p][i] = packed[p][j] => i = j
  BY <1>3
<1>6. QED
  BY <1>1, <1>2, <1>4, <1>5 DEF InPool

\* What a step of the registry does to a pool: nothing, or it adds a component
\* at the end, or moves the last one to the place of one that it erases.
LEMMA PoolStep ==
  ASSUME IInv, Next, NEW p \in Pools
  PROVE  \/ packed'[p] = packed[p]
         \/ \E e \in Identifier : packed'[p] = Append(packed[p], e)
         \/ \E x \in 1..Len(packed[p]) : packed'[p] = Moved(packed[p], x)
<1>1. packed \in [Pools -> Seq(Identifier)] /\ PoolsOK
  BY DEF IInv, PoolsOK
<1>2. CASE EraseReturns
  <2>1. /\ calls # <<>> /\ Top.op = "destroyed"
    BY <1>2 DEF EraseReturns, Running
  <2>2. Top.pool \in Pools /\ Top.id \in Contents[Top.pool] /\ FrameOK(entities, Contents, Top, TRUE)
    BY <2>1, CallsFacts DEF FrameOK
  <2>3. PICK x \in 1..Len(packed[Top.pool]) : packed[Top.pool][x] = Top.id
    BY <1>1, <2>2, PoolElements
  <2>4. sparse[Top.pool][Top.id.number] = x
    BY <1>1, <2>2, <2>3, PoolTypes DEF PoolArrays
  <2>5. packed' = [packed EXCEPT ![Top.pool] = Moved(@, x)]
    BY <1>2, <2>4 DEF EraseReturns
  <2>6. QED
    BY <1>1, <2>2, <2>5
<1>3. CASE \E q \in Pools, e \in Identifier : emplace_component(q, e)
  BY <1>1, <1>3 DEF emplace_component, emplace
<1>4. ASSUME packed' # packed
      PROVE  EraseReturns \/ \E q \in Pools, e \in Identifier : emplace_component(q, e)
  BY <1>4 DEF Next, ProgramStep, CallStep, create_entity, clear, destroy_entity,
    clear_component, remove_component, EmplaceReturns, DestroyErases, DestroyReleases,
    ClearNextPool, ClearPoolErases, ClearPoolsDone, ClearReleases, CallbackThrows, poolVars
<1>5. QED
  BY <1>2, <1>3, <1>4

\* The table never becomes shorter.
LEMMA TableStep ==
  ASSUME IInv, Next
  PROVE  Len(entities)' >= Len(entities)
<1>1. entities \in Seq(Identifier)
  BY DEF IInv, TableOK, TableType
<1>2. CASE generate_identifier \/ recycle_identifier
  BY <1>1, <1>2, ExceptSeq DEF generate_identifier, recycle_identifier
<1>3. ASSUME NEW e, release_entity(e)
      PROVE  Len(entities)' >= Len(entities)
  BY <1>1, <1>3, ExceptSeq DEF release_entity
<1>4. CASE entities' = entities
  BY <1>1, <1>4
<1>5. QED
  BY <1>2, <1>3, <1>4 DEF Next, ProgramStep, CallStep, create_entity, clear, destroy_entity,
    clear_component, emplace_component, emplace, remove_component, EmplaceReturns, EraseReturns,
    DestroyErases, DestroyReleases, ClearNextPool, ClearPoolErases, ClearPoolsDone,
    ClearReleases, CallbackThrows, tableVars

\* A step of the registry during a walk of the table.
LEMMA TableFollowed ==
  ASSUME IInv, IInv', WalkInv, walk.pos # 0, walk.over = 0, Next, Followed
  PROVE  WalkInv'
<1> DEFINE w == [walk EXCEPT !.due = @ \cap Valid']
<1>1. walk' = w
  BY DEF Followed
<1>2. /\ w.pos = walk.pos /\ w.over = 0 /\ w.all = walk.all /\ w.seen = walk.seen
      /\ w.due = walk.due \cap Valid' /\ WalkType'
  BY <1>1 DEF WalkInv, WalkType
<1>3. Len(entities)' >= Len(entities) /\ Len(entities) \in Nat /\ Len(entities)' \in Nat
      /\ walk.pos \in Nat
  BY TableStep DEF IInv, TableOK, TableType, WalkInv, WalkType
<1>4. OfTable(walk)
  BY DEF WalkInv
<1>5. Valid' = Used(entities)'
  BY DEF Valid, Used
<1>6. walk'.pos - 1 <= Len(entities)'
  BY <1>1, <1>2, <1>3, <1>4 DEF OfTable
<1>7. OfTable(walk)'
  BY <1>1, <1>2, <1>4, <1>5, <1>6 DEF OfTable
<1>8. QED
  BY <1>1, <1>2, <1>7 DEF WalkInv

\* A step of the registry during a walk of a pool: what it erases from it, if
\* the walk goes on, is the current one, which is not before the walk.
LEMMA PoolFollowed ==
  ASSUME IInv, IInv', WalkInv, walk.pos # 0, walk.over # 0, Next, Followed
  PROVE  WalkInv'
<1>0. PICK p \in Pools, m \in Nat : p = walk.over /\ m = walk.pos - 1
  BY DEF WalkInv, WalkType
<1>1. /\ p \in walk.has /\ WalkType
      /\ walk.has \subseteq Pools /\ walk.lacks \subseteq Pools
      /\ walk.current = Null \/ walk.current \in walk.seen
  BY <1>0 DEF WalkInv, WalkType
<1>2. OfPool(walk)
  BY DEF WalkInv
<1>3. PoolsOK /\ PoolsOK'
  BY DEF IInv
<1>4. CASE Held(p) \ Held(p)' \subseteq {walk.current}
  <2> DEFINE due == {e \in walk.due : /\ \A q \in walk.has : e \in Held(q)'
                                      /\ \A q \in walk.lacks : e \notin Held(q)'}
             w == [walk EXCEPT !.due = due]
  <2>1. walk' = w
    BY <1>0, <1>4 DEF Followed
  <2>2. /\ w.pos = walk.pos /\ w.over = p /\ w.seen = walk.seen /\ w.due = due
        /\ w.has = walk.has /\ w.lacks = walk.lacks
    BY <1>0, <1>1 DEF WalkType
  <2>3. WalkType'
    BY <1>0, <1>1, <2>1 DEF WalkType
  <2>4. m <= Len(packed[p])' /\ \A k \in 1..m : packed'[p][k] = packed[p][k]
    <3>1. /\ packed[p] \in Seq(Identifier) /\ Len(packed[p]) \in Nat /\ m <= Len(packed[p])
          /\ \A i \in 1..Len(packed[p]) : packed[p][i] \in Identifier
      BY <1>0, <1>2, <1>3, PoolElements DEF OfPool
    <3>2. CASE packed'[p] = packed[p]
      BY <3>1, <3>2
    <3>3. CASE \E e \in Identifier : packed'[p] = Append(packed[p], e)
      BY <3>1, <3>3
    <3>4. ASSUME NEW x \in 1..Len(packed[p]), packed'[p] = Moved(packed[p], x)
          PROVE  m <= Len(packed[p])' /\ \A k \in 1..m : packed'[p][k] = packed[p][k]
      <4>1. /\ Len(packed[p])' = Len(packed[p]) - 1
            /\ DOMAIN packed'[p] = 1..(Len(packed[p]) - 1)
            /\ \A k \in 1..(Len(packed[p]) - 1) :
                 packed'[p][k] = IF k = x THEN packed[p][Len(packed[p])] ELSE packed[p][k]
        <5>1. /\ Len(Moved(packed[p], x)) = Len(packed[p]) - 1
              /\ DOMAIN Moved(packed[p], x) = 1..(Len(packed[p]) - 1)
              /\ \A k \in 1..(Len(packed[p]) - 1) :
                   Moved(packed[p], x)[k] = IF k = x THEN packed[p][Len(packed[p])] ELSE packed[p][k]
          BY <3>1, MovedElements
        <5>2. QED
          BY <5>1, <3>4
      <4>2. packed[p][x] \in Held(p) /\ packed[p][x] # Null
            /\ \A j \in 1..Len(packed[p]) : packed[p][x] = packed[p][j] => x = j
        BY <1>3, PoolElements
      <4>3. packed[p][x] \notin Held(p)'
        <5>1. SUFFICES ASSUME NEW k \in 1..(Len(packed[p]) - 1), packed'[p][k] = packed[p][x]
                       PROVE  FALSE
          BY <4>1 DEF Held
        <5>2. CASE k = x
          BY <5>1, <5>2, <4>1, <4>2, <3>1
        <5>3. CASE k # x
          BY <5>1, <5>3, <4>1, <4>2, <3>1
        <5>4. QED
          BY <5>2, <5>3
      <4>4. packed[p][x] = walk.current /\ packed[p][x] \in walk.seen
        BY <1>1, <1>4, <4>2, <4>3
      <4>5. ~ (x \in 1..m)
        BY <1>0, <1>2, <4>4 DEF OfPool
      <4>6. QED
        BY <1>1, <3>1, <4>1, <4>5
    <3>5. QED
      BY <3>2, <3>3, <3>4, PoolStep
  <2>5. \A q \in Pools : Contents'[q] = Held(q)'
    BY DEF Contents, Held, InPool
  <2>6. OfPool(walk)'
    <3>1. walk'.pos - 1 <= Len(packed[walk.over])'
      BY <1>0, <2>1, <2>2, <2>4
    <3>2. \A e \in walk'.due :
            /\ \E i \in 1 .. walk'.pos - 1 : packed'[walk'.over][i] = e
            /\ \A q \in walk'.has : e \in Contents'[q]
            /\ \A q \in walk'.lacks : e \notin Contents'[q]
      BY <1>0, <1>1, <1>2, <2>1, <2>2, <2>4, <2>5 DEF OfPool
    <3>3. \A i \in 1 .. walk'.pos - 1 : packed'[walk'.over][i] \notin walk'.seen
      BY <1>0, <1>2, <2>1, <2>2, <2>4 DEF OfPool
    <3>4. QED
      BY <3>1, <3>2, <3>3, <2>1, <2>2 DEF OfPool
  <2>7. QED
    BY <1>0, <2>1, <2>2, <2>3, <2>6, ConstantTypes DEF WalkInv
<1>5. CASE ~ (Held(p) \ Held(p)' \subseteq {walk.current})
  <2>1. walk' = NoWalk
    BY <1>0, <1>5 DEF Followed
  <2>2. QED
    BY <2>1, NullIsIdentifier DEF NoWalk, Walk, WalkInv, WalkType
<1>6. QED
  BY <1>4, <1>5

\* The walk stops at the greatest position that is left, so that what is due
\* there is handed out and all else that is due comes before it.
LEMMA WalkGoesOn ==
  ASSUME IInv, WalkInv, WalkNext, UNCHANGED vars
  PROVE  WalkInv'
<1>1. walk.pos # 0 /\ WalkType /\ walk.pos \in Nat
  BY DEF WalkNext, WalkInv, WalkType
<1>2. UNCHANGED <<entities, packed, Contents, Used(entities)>>
  BY DEF vars, tableVars, poolVars, Contents
<1>3. CASE Stops = {}
  <2>1. walk' = NoWalk
    BY <1>3 DEF WalkNext
  <2>2. QED
    BY <2>1, NullIsIdentifier DEF NoWalk, Walk, WalkInv, WalkType
<1>4. CASE Stops # {}
  <2> DEFINE Last(j) == \A k \in Stops : k <= j
  <2>1. Stops \subseteq 1..(walk.pos - 1)
    BY DEF Stops
  <2>2. \E j \in Stops : Last(j)
    <3>1. walk.pos - 1 \in Nat
      BY <1>1
    <3>2. QED
      BY <1>4, <2>1, <3>1, Greatest
  <2>3. PICK i : i = CHOOSE j \in Stops : Last(j)
    OBVIOUS
  <2>4. i \in Stops /\ Last(i)
    BY <2>2, <2>3
  <2>5. PICK e : e = At(i)
    OBVIOUS
  <2>6. walk' = [walk EXCEPT !.pos = i, !.current = e, !.due = @ \ {e}, !.seen = @ \cup {e}]
    BY <1>4, <2>3, <2>5 DEF WalkNext
  <2>7. i \in 1..(walk.pos - 1) /\ i \in Nat /\ i # 0
    BY <1>1, <2>1, <2>4
  <2>8. e \in Identifier /\ (walk.over = 0 /\ ~ walk.all => e.number = i)
    <3>1. CASE walk.over = 0
      <4>1. OfTable(walk)
        BY <1>1, <3>1 DEF WalkInv
      <4>2. e = entities[i] /\ i \in 1..Len(entities) /\ entities \in Seq(Identifier)
        BY <1>1, <2>5, <2>7, <3>1, <4>1 DEF At, OfTable, IInv, TableOK, TableType
      <4>3. Handed(i)
        BY <2>4 DEF Stops
      <4>4. QED
        BY <3>1, <4>2, <4>3 DEF Handed
    <3>2. CASE walk.over # 0
      <4>1. OfPool(walk) /\ walk.over \in Pools /\ PoolsOK
        BY <1>1, <3>2 DEF WalkInv, WalkType, IInv
      <4>2. e = packed[walk.over][i] /\ i \in 1..Len(packed[walk.over])
        BY <1>1, <2>5, <2>7, <3>2, <4>1, PoolElements DEF At, OfPool
      <4>3. QED
        BY <3>2, <4>1, <4>2, PoolElements
    <3>3. QED
      BY <3>1, <3>2
  <2>9. /\ WalkType' /\ walk'.pos = i /\ walk'.over = walk.over /\ walk'.all = walk.all
        /\ walk'.has = walk.has /\ walk'.lacks = walk.lacks
        /\ walk'.due = walk.due \ {e} /\ walk'.seen = walk.seen \cup {e}
    BY <1>1, <2>6, <2>7, <2>8 DEF WalkType
  <2>10. CASE walk.over = 0
    <3>1. OfTable(walk) /\ entities \in Seq(Identifier)
      BY <1>1, <2>10 DEF WalkInv, IInv, TableOK, TableType
    <3>2. e = entities[i] /\ Len(entities) \in Nat
      BY <2>5, <2>10, <3>1 DEF At
    <3>3. walk'.pos - 1 <= Len(entities)'
      BY <1>1, <1>2, <2>7, <2>9, <3>1, <3>2 DEF OfTable
    <3>4. ASSUME NEW f \in walk'.due
          PROVE  f \in Used(entities) /\ f.number < i
      <4>1. f \in walk.due /\ f # e /\ f \in Used(entities) /\ f.number < walk.pos
        BY <2>9, <3>1 DEF OfTable
      <4>2. PICK n \in 1..Len(entities) : entities[n].number = n /\ f = entities[n]
        BY <3>1, <4>1, UsedAre
      <4>3. n \in Stops
        BY <1>1, <2>10, <4>1, <4>2 DEF Stops, Handed
      <4>4. n <= i /\ n # i
        BY <2>4, <3>2, <4>1, <4>2, <4>3
      <4>5. QED
        BY <2>7, <4>1, <4>2, <4>4
    <3>5. ASSUME ~ walk.all, NEW f \in walk'.seen
          PROVE  f.number >= i
      <4>1. CASE f = e
        BY <2>7, <2>8, <2>10, <3>5, <4>1
      <4>2. CASE f \in walk.seen
        <5>1. f.number >= walk.pos /\ f.number \in Nat
          BY <1>1, <3>1, <3>5, <4>2, ConstantTypes DEF OfTable, WalkType, Identifier
        <5>2. QED
          BY <1>1, <2>7, <5>1
      <4>3. QED
        BY <2>9, <4>1, <4>2
    <3>6. OfTable(walk)'
      BY <1>2, <2>9, <3>3, <3>4, <3>5 DEF OfTable
    <3>7. QED
      BY <2>9, <2>10, <3>6 DEF WalkInv
  <2>11. CASE walk.over # 0
    <3>1. PICK p \in Pools : p = walk.over
      BY <1>1, <2>11 DEF WalkType
    <3>2. /\ OfPool(walk) /\ PoolsOK /\ walk.has \subseteq Pools /\ walk.lacks \subseteq Pools
      BY <1>1, <2>11 DEF WalkInv, WalkType, IInv
    <3>3. e = packed[p][i] /\ Len(packed[p]) \in Nat
      BY <2>5, <2>11, <3>1, <3>2, PoolElements DEF At
    <3>4. walk.pos - 1 <= Len(packed[p])
      BY <3>1, <3>2 DEF OfPool
    <3>5. ASSUME NEW f \in walk'.due
          PROVE  /\ \E k \in 1 .. i - 1 : packed[p][k] = f
                 /\ \A q \in walk.has : f \in Contents[q]
                 /\ \A q \in walk.lacks : f \notin Contents[q]
      <4>1. /\ f \in walk.due /\ f # e /\ f \in Identifier
            /\ \A q \in walk.has : f \in Contents[q]
            /\ \A q \in walk.lacks : f \notin Contents[q]
        BY <1>1, <2>9, <3>2 DEF OfPool, WalkType
      <4>2. PICK k \in 1..(walk.pos - 1) : packed[p][k] = f
        BY <3>1, <3>2, <4>1 DEF OfPool
      <4>3. InView(f, walk.has \ {walk.over}, walk.lacks)
        BY <3>2, <4>1, Contains DEF InView
      <4>4. k \in Stops
        BY <1>1, <2>11, <3>1, <4>2, <4>3 DEF Stops, Handed
      <4>5. k <= i /\ k # i
        BY <2>4, <3>3, <4>1, <4>2, <4>4
      <4>6. k \in 1 .. i - 1
        BY <1>1, <2>7, <4>5
      <4>7. QED
        BY <4>1, <4>2, <4>6
    <3>6. ASSUME NEW k \in 1 .. i - 1
          PROVE  packed[p][k] \notin walk'.seen
      <4>1. k \in 1..(walk.pos - 1) /\ k \in 1..Len(packed[p]) /\ i \in 1..Len(packed[p]) /\ k # i
        BY <1>1, <2>7, <3>3, <3>4
      <4>2. packed[p][k] \notin walk.seen
        BY <3>1, <3>2, <4>1 DEF OfPool
      <4>3. packed[p][k] # e
        BY <3>2, <3>3, <4>1, PoolElements
      <4>4. QED
        BY <2>9, <4>2, <4>3
    <3>7. i - 1 <= Len(packed[p])
      BY <1>1, <2>7, <3>3, <3>4
    <3>8. OfPool(walk)'
      BY <1>2, <2>9, <3>1, <3>5, <3>6, <3>7 DEF OfPool
    <3>9. QED
      BY <2>9, <2>11, <3>8 DEF WalkInv
  <2>12. QED
    BY <2>10, <2>11
<1>5. QED
  BY <1>3, <1>4

LEMMA WalkBegins ==
  ASSUME IInv, WalkInv, Start
  PROVE  WalkInv'
<1>1. UNCHANGED vars
  BY DEF Start, each_entity, view
<1>2. UNCHANGED <<entities, packed, Contents, Used(entities)>>
  BY <1>1 DEF vars, tableVars, poolVars, Contents
<1>3. CASE each_entity
  <2>1. entities \in Seq(Identifier) /\ Len(entities) \in Nat
    BY DEF IInv, TableOK, TableType
  <2>2. /\ walk' = Walk(0, free_list = 0, {}, {}, Len(entities) + 1, Valid)
    BY <1>3 DEF each_entity
  <2>3. \A e \in Used(entities) : e \in Identifier /\ e.number < Len(entities) + 1
    BY <2>1, UsedAre
  <2>4. WalkType'
    BY <2>1, <2>2, <2>3, ValidIsUsed, NullIsIdentifier DEF WalkType, Walk
  <2>5. OfTable(walk)' /\ walk'.over = 0
    BY <1>2, <2>1, <2>2, <2>3, ValidIsUsed DEF OfTable, Walk
  <2>6. QED
    BY <2>4, <2>5 DEF WalkInv
<1>4. ASSUME NEW has \in SUBSET Pools, NEW lacks \in SUBSET Pools, NEW base \in has,
             view(has, lacks, base)
      PROVE  WalkInv'
  <2> DEFINE due == {e \in Held(base) : InView(e, has, lacks)}
  <2>1. base \in Pools /\ PoolsOK /\ base # 0
    BY ConstantTypes DEF IInv
  <2>2. walk' = Walk(base, FALSE, has, lacks, Len(packed[base]) + 1, due)
    BY <1>4 DEF view
  <2>3. /\ Len(packed[base]) \in Nat /\ Held(base) = Contents[base] /\ Held(base) \subseteq Identifier
        /\ \A e \in Held(base) : \E i \in 1..Len(packed[base]) : packed[base][i] = e
    BY <2>1, PoolElements
  <2>4. WalkType'
    BY <2>1, <2>2, <2>3, NullIsIdentifier DEF WalkType, Walk
  <2>5. \A e \in due : /\ \A p \in has : e \in Contents[p]
                       /\ \A p \in lacks : e \notin Contents[p]
    BY <2>1, <2>3, Contains DEF InView
  <2>6. /\ walk'.over = base /\ walk'.pos = Len(packed[base]) + 1 /\ walk'.due = due
        /\ walk'.has = has /\ walk'.lacks = lacks /\ walk'.seen = {}
    BY <2>2 DEF Walk
  <2>7. OfPool(walk)'
    BY <1>2, <2>3, <2>5, <2>6 DEF OfPool
  <2>8. QED
    BY <2>1, <2>4, <2>6, <2>7 DEF WalkInv
<1>5. QED
  BY <1>3, <1>4 DEF Start

LEMMA WalkStep ==
  ASSUME IInv, IInv', WalkInv, [WalksNext]_walkVars
  PROVE  WalkInv' /\ [Next]_vars
<1>1. CASE UNCHANGED walkVars
  <2>1. UNCHANGED <<vars, walk>>
    BY <1>1 DEF walkVars
  <2>2. UNCHANGED <<entities, packed, Contents, Used(entities)>>
    BY <2>1 DEF vars, tableVars, poolVars, Contents
  <2>3. QED
    BY <2>1, <2>2 DEF WalkInv, WalkType, OfTable, OfPool
<1>2. CASE Use
  <2>1. Next
    BY <1>2 DEF Use, Next
  <2>2. CASE walk.pos = 0
    <3>1. walk' = walk
      BY <1>2, <2>2 DEF Use
    <3>2. QED
      BY <2>1, <2>2, <3>1 DEF WalkInv, WalkType
  <2>3. CASE walk.pos # 0
    <3>1. Followed
      BY <1>2, <2>3 DEF Use
    <3>2. QED
      BY <2>1, <2>3, <3>1, TableFollowed, PoolFollowed
  <2>4. QED
    BY <2>2, <2>3
<1>3. CASE Start
  <2>1. UNCHANGED vars
    BY <1>3 DEF Start, each_entity, view
  <2>2. QED
    BY <1>3, <2>1, WalkBegins
<1>4. CASE WalkNext
  <2>1. UNCHANGED vars
    BY <1>4 DEF WalkNext
  <2>2. QED
    BY <1>4, <2>1, WalkGoesOn
<1>5. QED
  BY <1>1, <1>2, <1>3, <1>4 DEF WalksNext

\* A program with walks uses the registry as any other: whatever is proved of
\* Spec is true of the walks that the runs check.
THEOREM WalksUseRegistry == WalksSpec => Spec
<1>1. [WalksNext]_walkVars => [Next]_vars
  BY DEF WalksNext, Use, Start, WalkNext, each_entity, view, walkVars, Next
<1>2. QED
  BY <1>1, PTL DEF WalksSpec, WalksInit, Spec

LEMMA WalkIsFaithful ==
  ASSUME IInv, WalkInv
  PROVE  WalksFaithful
<1> SUFFICES ASSUME walk.pos # 0
             PROVE  /\ walk.due \subseteq {At(i) : i \in 1 .. walk.pos - 1}
                    /\ ~ walk.all => walk.seen \cap {At(i) : i \in Stops} = {}
                    /\ walk.over # 0 => walk.pos - 1 <= Len(packed[walk.over])
  BY DEF WalksFaithful
<1>1. walk.pos \in Nat /\ WalkType
  BY DEF WalkInv, WalkType
<1>2. CASE walk.over = 0
  <2>1. OfTable(walk) /\ entities \in Seq(Identifier)
    BY <1>2 DEF WalkInv, IInv, TableOK, TableType
  <2>2. ASSUME NEW e \in walk.due
        PROVE  \E i \in 1 .. walk.pos - 1 : e = At(i)
    <3>1. PICK n \in 1..Len(entities) : entities[n].number = n /\ e = entities[n]
      BY <2>1, UsedAre DEF OfTable
    <3>2. n \in 1 .. walk.pos - 1 /\ e = At(n)
      BY <1>1, <1>2, <2>1, <3>1 DEF OfTable, At
    <3>3. QED
      BY <3>2
  <2>3. ASSUME ~ walk.all, NEW i \in Stops
        PROVE  At(i) \notin walk.seen
    <3>1. i \in 1 .. walk.pos - 1 /\ At(i).number = i
      BY <1>2, <2>3 DEF Stops, Handed, At
    <3>2. QED
      BY <1>1, <2>1, <2>3, <3>1 DEF OfTable
  <2>4. QED
    BY <1>2, <2>2, <2>3
<1>3. CASE walk.over # 0
  <2>1. OfPool(walk)
    BY <1>3 DEF WalkInv
  <2>2. \A i : At(i) = packed[walk.over][i]
    BY <1>3 DEF At
  <2>3. QED
    BY <1>3, <2>1, <2>2 DEF OfPool, Stops
<1>4. QED
  BY <1>2, <1>3

\* A walk over the table or a view, whatever its body does: what stays in it is
\* ahead until it is handed to the body, and nothing is handed out twice.
THEOREM WalksKept == WalksSpec => []WalksFaithful
<1>1. WalksInit => WalkInv
  BY NullIsIdentifier DEF WalksInit, NoWalk, Walk, WalkInv, WalkType
<1>2. WalksSpec => []IInv
  BY WalksUseRegistry, Invariant, PTL
<1>3. IInv /\ IInv' /\ WalkInv /\ [WalksNext]_walkVars => WalkInv'
  BY WalkStep
<1>4. IInv /\ WalkInv => WalksFaithful
  BY WalkIsFaithful
<1>5. QED
  BY <1>1, <1>2, <1>3, <1>4, PTL DEF WalksSpec
=============================================================================
