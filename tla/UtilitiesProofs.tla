---------------------------- MODULE UtilitiesProofs ----------------------------
(***************************************************************************)
(* The library's parts that stand alone, each for any value of its         *)
(* constants: a handler of a logger runs on one thread, and not once it    *)
(* was dropped; a sparse table finds what was put into it; a walk over     *)
(* observers notifies those that are there; a conversion between encodings *)
(* is exact and stays in its buffer.                                       *)
(***************************************************************************)
EXTENDS Utilities, FiniteSets, FiniteSetTheorems, SequenceTheorems,
        NaturalsInduction, WellFoundedInduction, TLAPS

-----------------------------------------------------------------------------
\* A step of a program is one of its part or leaves that alone.
LEMMA PartsStep ==
  [Next]_vars => [T!Next]_(T!vars) /\ [O!Next]_(O!vars) /\ [L!Next]_(L!vars)
<1>1. SUFFICES ASSUME [Next]_vars
               PROVE  [T!Next]_(T!vars) /\ [O!Next]_(O!vars) /\ [L!Next]_(L!vars)
  OBVIOUS
<1>2. T!Next \/ UNCHANGED <<groups, content>>
  BY <1>1 DEF Next, vars, tableVars
<1>3. O!Next \/ UNCHANGED <<observers, observer_indices, walks>>
  BY <1>1 DEF Next, vars, observerVars
<1>4. L!Next \/ UNCHANGED <<loggers, level, owner, connections, blocked, added, record>>
  BY <1>1 DEF Next, vars, loggingVars
<1>5. QED
  BY <1>2, <1>3, <1>4 DEF T!vars, O!vars, L!vars, L!repositoryVars, L!connectionVars

-----------------------------------------------------------------------------
(* Logging *)

RecordType ==
  [at : {"none", "filter", "lock", "call"}, logger : Loggers \cup {NoLogger},
   severity : Levels \cup {0}, left : SUBSET Handlers,
   running : Handlers \cup {NoHandler}]

LoggingType ==
  /\ owner \in [Loggers -> Threads \cup {NoThread}]
  /\ record \in [Threads -> RecordType]
  /\ connections \subseteq Handlers

\* The thread in the middle of a record r holds the mutex of its logger, and
\* what it has to call belongs to that logger and is connected.
InOrder(r) ==
  /\ r.at # "none" => r.logger \in Loggers
  /\ r.at # "call" => r.left = {} /\ r.running = NoHandler
  /\ \A h \in r.left : h \in connections /\ Home[h] = r.logger
  /\ r.running # NoHandler => r.running \in connections /\ Home[r.running] = r.logger

LoggingInv ==
  /\ LoggingType
  /\ \A t \in Threads :
       /\ InOrder(record[t])
       /\ record[t].at = "call" => owner[record[t].logger] = t

LEMMA RecordTypes ==
  ASSUME L!LoggingAssumption, NEW l \in Loggers \cup {NoLogger}, NEW s \in Levels \cup {0},
         NEW at \in {"none", "filter", "lock"}, l = NoLogger => at = "none"
  PROVE  /\ L!Record(at, l, s, {}) \in RecordType
         /\ L!Record(at, l, s, {}).at = at
         /\ InOrder(L!Record(at, l, s, {}))
BY DEF L!Record, RecordType, InOrder, L!LoggingAssumption

LEMMA NoRecordType ==
  ASSUME L!LoggingAssumption
  PROVE  L!NoRecord \in RecordType /\ L!NoRecord.at = "none" /\ InOrder(L!NoRecord)
BY DEF L!NoRecord, L!Record, RecordType, InOrder, L!LoggingAssumption

LEMMA LoggingStarts == L!LoggingAssumption /\ L!Init => LoggingInv
BY NoRecordType DEF L!Init, LoggingInv, LoggingType

\* A step after which thread t is at r, which is in order and no call.
LEMMA OutOfCall ==
  ASSUME LoggingInv, NEW t \in Threads, NEW r \in RecordType, InOrder(r), r.at # "call",
         record' = [record EXCEPT ![t] = r], connections' = connections,
         \/ owner' = owner
         \/ record[t].at = "call" /\ L!Unlock(t)
  PROVE  LoggingInv'
<1>1. LoggingType'
  BY DEF LoggingInv, LoggingType, L!Unlock
<1>2. record'[t] = r /\ \A u \in Threads : u # t => record'[u] = record[u]
  BY DEF LoggingInv, LoggingType
<1>3. ASSUME NEW u \in Threads
      PROVE  InOrder(record[u])'
  BY <1>2 DEF LoggingInv, InOrder
<1>4. ASSUME NEW u \in Threads, record'[u].at = "call"
      PROVE  owner'[record'[u].logger] = u
  <2>1. u # t /\ record'[u] = record[u] /\ owner[record[u].logger] = u
    BY <1>2, <1>4 DEF LoggingInv
  <2>2. CASE owner' = owner
    BY <2>1, <2>2
  <2>3. CASE record[t].at = "call" /\ L!Unlock(t)
    <3>1. owner[record[t].logger] = t
      BY <2>3 DEF LoggingInv
    <3>2. record[u].logger # record[t].logger
      BY <2>1, <3>1
    <3>3. record[u].logger \in Loggers
      BY <1>4, <2>1 DEF LoggingInv, InOrder
    <3>4. QED
      BY <2>1, <2>3, <3>2, <3>3 DEF L!Unlock, LoggingInv, LoggingType
  <2>4. QED
    BY <2>2, <2>3
<1>5. QED
  BY <1>1, <1>3, <1>4 DEF LoggingInv

\* A step after which thread t, in the call of its logger's handlers, is at r.
LEMMA InCall ==
  ASSUME LoggingInv, NEW t \in Threads, NEW r \in RecordType, InOrder(r),
         r.logger = record[t].logger, record[t].at = "call",
         record' = [record EXCEPT ![t] = r], UNCHANGED <<connections, owner>>
  PROVE  LoggingInv'
<1>1. LoggingType'
  BY DEF LoggingInv, LoggingType
<1>2. record'[t] = r /\ \A u \in Threads : u # t => record'[u] = record[u]
  BY DEF LoggingInv, LoggingType
<1>3. ASSUME NEW u \in Threads
      PROVE  InOrder(record[u])' /\ (record'[u].at = "call" => owner'[record'[u].logger] = u)
  BY <1>2 DEF LoggingInv, InOrder
<1>4. QED
  BY <1>1, <1>3 DEF LoggingInv

\* A connection is made or dropped while no thread holds its logger's mutex.
LEMMA DroppedOutOfCall ==
  ASSUME L!LoggingAssumption, LoggingInv, NEW t \in Threads, NEW h \in Handlers,
         L!DropConnection(t, h)
  PROVE  LoggingInv'
<1>1. /\ UNCHANGED <<owner, record>> /\ owner[Home[h]] = NoThread
      /\ connections' = connections \ {h}
  BY DEF L!DropConnection, L!repositoryVars
<1>2. LoggingType'
  BY <1>1 DEF LoggingInv, LoggingType
<1>3. ASSUME NEW u \in Threads
      PROVE  InOrder(record[u])' /\ (record'[u].at = "call" => owner'[record'[u].logger] = u)
  <2>1. InOrder(record[u]) /\ (record[u].at = "call" => owner[record[u].logger] = u)
    BY DEF LoggingInv
  <2>2. record[u].at = "call" => record[u].logger # Home[h]
    BY <1>1, <2>1 DEF L!LoggingAssumption
  <2>3. h \notin record[u].left /\ (record[u].running # NoHandler => record[u].running # h)
    BY <2>1, <2>2 DEF InOrder
  <2>4. QED
    BY <1>1, <2>1, <2>3 DEF InOrder
<1>4. QED
  BY <1>2, <1>3 DEF LoggingInv

LEMMA LockTaken ==
  ASSUME L!LoggingAssumption, LoggingInv, NEW t \in Threads, L!Lock(t)
  PROVE  LoggingInv'
<1> DEFINE l == record[t].logger
<1>0. PICK r : r = [[record[t] EXCEPT !.at = "call"] EXCEPT
                      !.left = {h \in connections : Home[h] = l}]
  OBVIOUS
<1>1. /\ record[t].at = "lock" /\ owner[l] = NoThread /\ connections' = connections
      /\ owner' = [owner EXCEPT ![l] = t] /\ record' = [record EXCEPT ![t] = r]
  BY <1>0 DEF L!Lock, L!connectionVars
<1>2. record[t] \in RecordType /\ InOrder(record[t])
  BY DEF LoggingInv, LoggingType
<1>3. l \in Loggers
  BY <1>1, <1>2 DEF InOrder
<1>4. /\ r \in RecordType /\ r.at = "call" /\ r.logger = l /\ r.running = NoHandler
      /\ r.left = {h \in connections : Home[h] = l}
  <2>1. PICK q \in RecordType : q = record[t] /\ q.running = NoHandler
    BY <1>1, <1>2 DEF InOrder
  <2>2. PICK left \in SUBSET Handlers : left = {h \in connections : Home[h] = l}
    BY DEF LoggingInv, LoggingType
  <2>3. r = [[q EXCEPT !.at = "call"] EXCEPT !.left = left]
    BY <1>0, <2>1, <2>2
  <2>4. /\ r \in RecordType /\ r.at = "call" /\ r.logger = q.logger /\ r.running = q.running
        /\ r.left = left
    BY <2>1, <2>3 DEF RecordType
  <2>5. QED
    BY <2>1, <2>2, <2>4
<1>5. LoggingType'
  BY <1>1, <1>3, <1>4 DEF LoggingInv, LoggingType
<1>6. record'[t] = r /\ \A u \in Threads : u # t => record'[u] = record[u]
  BY <1>1 DEF LoggingInv, LoggingType
<1>7. owner'[l] = t /\ \A k \in Loggers : k # l => owner'[k] = owner[k]
  BY <1>1, <1>3 DEF LoggingInv, LoggingType
<1>8. ASSUME NEW u \in Threads
      PROVE  InOrder(record[u])' /\ (record'[u].at = "call" => owner'[record'[u].logger] = u)
  <2>1. CASE u = t
    BY <1>1, <1>3, <1>4, <1>6, <1>7, <2>1 DEF InOrder
  <2>2. CASE u # t
    <3>1. record'[u] = record[u] /\ InOrder(record[u])
          /\ (record[u].at = "call" => owner[record[u].logger] = u /\ record[u].logger \in Loggers)
      BY <1>6, <2>2 DEF LoggingInv, InOrder
    <3>2. record[u].at = "call" => record[u].logger # l
      BY <1>1, <3>1 DEF L!LoggingAssumption
    <3>3. QED
      BY <1>1, <1>7, <3>1, <3>2 DEF InOrder
  <2>3. QED
    BY <2>1, <2>2
<1>9. QED
  BY <1>5, <1>8 DEF LoggingInv

LEMMA HandlerCalled ==
  ASSUME L!LoggingAssumption, LoggingInv, NEW t \in Threads,
         L!HandlerReturns(t) \/ \E h \in Handlers : L!HandlerStarts(t, h)
  PROVE  LoggingInv'
<1>1. record[t] \in RecordType /\ InOrder(record[t])
  BY DEF LoggingInv, LoggingType
<1>2. ASSUME NEW h \in Handlers, L!HandlerStarts(t, h)
      PROVE  LoggingInv'
  <2> DEFINE r == [record[t] EXCEPT !.running = h, !.left = @ \ {h}]
  <2>1. /\ record' = [record EXCEPT ![t] = r] /\ UNCHANGED <<connections, owner>>
        /\ record[t].at = "call" /\ h \in record[t].left
    BY <1>1, <1>2 DEF L!HandlerStarts, L!Emitting, L!connectionVars, LoggingInv, LoggingType
  <2>2. /\ r \in RecordType /\ r.logger = record[t].logger /\ r.running = h /\ r.at = "call"
        /\ r.left = record[t].left \ {h}
    BY <1>1, <2>1 DEF RecordType
  <2>3. InOrder(r)
    BY <1>1, <2>1, <2>2 DEF InOrder
  <2>4. QED
    BY <2>1, <2>2, <2>3, InCall
<1>3. CASE L!HandlerReturns(t)
  <2> DEFINE r == [record[t] EXCEPT !.running = NoHandler]
  <2>1. /\ record' = [record EXCEPT ![t] = r] /\ UNCHANGED <<connections, owner>>
        /\ record[t].at = "call"
    BY <1>1, <1>3 DEF L!HandlerReturns, L!connectionVars, InOrder
  <2>2. /\ r \in RecordType /\ r.logger = record[t].logger /\ r.running = NoHandler
        /\ r.at = "call" /\ r.left = record[t].left
    BY <1>1, <2>1 DEF RecordType
  <2>3. InOrder(r)
    BY <1>1, <2>1, <2>2 DEF InOrder
  <2>4. QED
    BY <2>1, <2>2, <2>3, InCall
<1>4. QED
  BY <1>2, <1>3

LEMMA CallOver ==
  ASSUME L!LoggingAssumption, LoggingInv, NEW t \in Threads,
         L!HandlerThrows(t) \/ L!PassUp(t)
  PROVE  LoggingInv'
<1>1. record[t] \in RecordType /\ InOrder(record[t])
  BY DEF LoggingInv, LoggingType
<1>2. CASE L!HandlerThrows(t)
  <2>1. /\ record' = [record EXCEPT ![t] = L!NoRecord] /\ L!Unlock(t) /\ connections' = connections
        /\ record[t].at = "call"
    BY <1>1, <1>2 DEF L!HandlerThrows, L!connectionVars, InOrder
  <2>2. QED
    BY <2>1, NoRecordType, OutOfCall
<1>3. CASE L!PassUp(t)
  <2> DEFINE parent == Parent[record[t].logger]
             r == IF parent = NoLogger THEN L!NoRecord
                  ELSE L!Record("filter", parent, record[t].severity, {})
  <2>1. /\ record' = [record EXCEPT ![t] = r] /\ L!Unlock(t) /\ connections' = connections
        /\ record[t].at = "call"
    BY <1>3 DEF L!PassUp, L!connectionVars, L!Emitting
  <2>2. parent \in Loggers \cup {NoLogger} /\ record[t].severity \in Levels \cup {0}
    BY <1>1, <2>1 DEF InOrder, RecordType, L!LoggingAssumption
  <2>3. r \in RecordType /\ InOrder(r) /\ r.at # "call"
    BY <2>2, NoRecordType, RecordTypes
  <2>4. QED
    BY <2>1, <2>3, OutOfCall
<1>4. QED
  BY <1>2, <1>3

LEMMA CallPrepared ==
  ASSUME L!LoggingAssumption, LoggingInv, NEW t \in Threads,
         L!Filter(t) \/ \E l \in Loggers, s \in Levels : L!log(t, l, s)
  PROVE  LoggingInv'
<1>1. record[t] \in RecordType /\ InOrder(record[t])
  BY DEF LoggingInv, LoggingType
<1>2. ASSUME NEW l \in Loggers, NEW s \in Levels, L!log(t, l, s)
      PROVE  LoggingInv'
  <2> DEFINE r == L!Record("filter", l, s, {})
  <2>1. /\ record' = [record EXCEPT ![t] = r] /\ UNCHANGED <<connections, owner>>
    BY <1>2 DEF L!log, L!connectionVars
  <2>2. r \in RecordType /\ InOrder(r) /\ r.at # "call"
    BY RecordTypes DEF L!LoggingAssumption
  <2>3. QED
    BY <2>1, <2>2, OutOfCall
<1>3. CASE L!Filter(t)
  <2> DEFINE locking == [record[t] EXCEPT !.at = "lock"]
             r == IF record[t].severity < level[record[t].logger] THEN L!NoRecord ELSE locking
  <2>1. /\ record' = [record EXCEPT ![t] = r] /\ UNCHANGED <<connections, owner>>
        /\ record[t].at = "filter"
    BY <1>3 DEF L!Filter, L!connectionVars
  <2>2. /\ locking \in RecordType /\ locking.at = "lock" /\ locking.left = record[t].left
        /\ locking.logger = record[t].logger /\ locking.running = record[t].running
    BY <1>1 DEF RecordType
  <2>3. InOrder(locking)
    BY <1>1, <2>1, <2>2 DEF InOrder
  <2>4. r \in RecordType /\ InOrder(r) /\ r.at # "call"
    BY <2>2, <2>3, NoRecordType
  <2>5. QED
    BY <2>1, <2>4, OutOfCall
<1>4. QED
  BY <1>2, <1>3

\* What a step that leaves records and mutexes alone may do to connections.
LEMMA Connected ==
  ASSUME LoggingInv, UNCHANGED <<owner, record>>, connections \subseteq connections',
         connections' \subseteq Handlers
  PROVE  LoggingInv'
<1>1. LoggingType'
  BY DEF LoggingInv, LoggingType
<1>2. \A u \in Threads : InOrder(record[u])' /\ (record'[u].at = "call" => owner'[record'[u].logger] = u)
  BY DEF LoggingInv, InOrder
<1>3. QED
  BY <1>1, <1>2 DEF LoggingInv

LEMMA LoggingStep ==
  ASSUME L!LoggingAssumption, LoggingInv, [L!Next]_(L!vars)
  PROVE  LoggingInv'
<1>1. connections \subseteq Handlers
  BY DEF LoggingInv, LoggingType
<1>2. ASSUME NEW t \in Threads, NEW l \in Loggers, L!get_logger(t, l)
      PROVE  LoggingInv'
  BY <1>1, <1>2, Connected DEF L!get_logger, L!connectionVars
<1>3. ASSUME NEW t \in Threads, NEW l \in Loggers, NEW s \in Levels, L!set_level(t, l, s)
      PROVE  LoggingInv'
  BY <1>1, <1>3, Connected DEF L!set_level, L!connectionVars
<1>4. ASSUME NEW t \in Threads, NEW h \in Handlers, L!add_handler(t, h) \/ L!SetBlocked(t, h)
      PROVE  LoggingInv'
  BY <1>1, <1>4, Connected DEF L!add_handler, L!SetBlocked
<1>5. CASE UNCHANGED L!vars
  BY <1>1, <1>5, Connected DEF L!vars, L!connectionVars
<1>6. QED
  BY <1>2, <1>3, <1>4, <1>5, DroppedOutOfCall, LockTaken, HandlerCalled, CallOver, CallPrepared
     DEF L!Next, L!Step

\* Whatever the tree of loggers, the threads that log and the connections that
\* are dropped meanwhile: no handler runs on two threads, or once it is dropped
\* (Logger, HandlerConnection).
THEOREM HandlersKept == Spec => []HandlersGuarded
<1>1. Init => LoggingInv
  BY UtilitiesAssumption, LoggingStarts DEF Init
<1>2. LoggingInv /\ [Next]_vars => LoggingInv'
  BY UtilitiesAssumption, LoggingStep, PartsStep
<1>3. LoggingInv => HandlersGuarded
  <2> SUFFICES ASSUME LoggingInv PROVE L!HandlersGuarded
    BY DEF HandlersGuarded
  <2>1. \A t \in Threads :
          /\ record[t].running # NoHandler => record[t].running \in connections
          /\ record[t].left \subseteq connections
          /\ record[t].running # NoHandler => owner[record[t].logger] = t
    BY DEF LoggingInv, InOrder
  <2>2. QED
    BY <2>1 DEF L!HandlersGuarded
<1>4. QED
  BY <1>1, <1>2, <1>3, PTL DEF Spec

-----------------------------------------------------------------------------
(* Places: how many elements of a set of numbers come before one *)

Rank(S, n) == Cardinality({q \in S : q < n})

\* A set of numbers up to some bound.
Bounded(S) == S \subseteq Nat /\ IsFiniteSet(S)

LEMMA RankType ==
  ASSUME NEW S, Bounded(S), NEW n \in Nat
  PROVE  /\ Rank(S, n) \in Nat /\ Cardinality(S) \in Nat /\ Rank(S, n) <= Cardinality(S)
         /\ IsFiniteSet({q \in S : q < n})
<1>1. {q \in S : q < n} \in SUBSET S /\ IsFiniteSet(S)
  BY DEF Bounded
<1>2. QED
  BY <1>1, FS_Subset, FS_CardinalityType DEF Rank

\* Ranks grow, and do at each element of the set.
LEMMA RankGrows ==
  ASSUME NEW S, Bounded(S), NEW n \in Nat, NEW m \in Nat, n <= m
  PROVE  /\ Rank(S, n) <= Rank(S, m)
         /\ n \in S /\ n < m => Rank(S, n) + 1 <= Rank(S, m)
<1> DEFINE N == {q \in S : q < n}
           M == {q \in S : q < m}
<1>1. IsFiniteSet(M) /\ IsFiniteSet(N) /\ Cardinality(N) = Rank(S, n) /\ Cardinality(M) = Rank(S, m)
  BY RankType DEF Rank
<1>2. N \in SUBSET M
  <2>1. \A q \in S : q \in Nat /\ (q < n => q < m)
    BY DEF Bounded
  <2>2. QED
    BY <2>1
<1>3. Cardinality(N) <= Cardinality(M)
  BY <1>1, <1>2, FS_Subset
<1>4. ASSUME n \in S, n < m
      PROVE  Cardinality(N) + 1 <= Cardinality(M)
  <2>1. N \cup {n} \in SUBSET M /\ n \notin N
    BY <1>2, <1>4 DEF Bounded
  <2>2. Cardinality(N \cup {n}) = Cardinality(N) + 1
    BY <1>1, <2>1, FS_AddElement
  <2>3. QED
    BY <1>1, <2>1, <2>2, FS_Subset
<1>5. QED
  BY <1>1, <1>3, <1>4

LEMMA RankOfElement ==
  ASSUME NEW S, Bounded(S), NEW n \in S
  PROVE  Rank(S, n) + 1 <= Cardinality(S) /\ Rank(S, n) \in Nat
<1> DEFINE N == {q \in S : q < n}
<1>1. n \in Nat
  BY DEF Bounded
<1>2. IsFiniteSet(S) /\ IsFiniteSet(N) /\ Cardinality(N) = Rank(S, n) /\ Rank(S, n) \in Nat
  BY <1>1, RankType DEF Bounded, Rank
<1>3. n \notin N /\ N \cup {n} \in SUBSET S
  BY <1>1
<1>4. Cardinality(N \cup {n}) = Cardinality(N) + 1
  BY <1>2, <1>3, FS_AddElement
<1>5. QED
  BY <1>2, <1>3, <1>4, FS_Subset

\* An element that is added moves those behind it.
LEMMA RankAdded ==
  ASSUME NEW S, Bounded(S), NEW n \in Nat, n \notin S, NEW m \in Nat
  PROVE  /\ Bounded(S \cup {n}) /\ Cardinality(S \cup {n}) = Cardinality(S) + 1
         /\ Rank(S \cup {n}, m) = IF n < m THEN Rank(S, m) + 1 ELSE Rank(S, m)
<1>1. IsFiniteSet(S) /\ IsFiniteSet({q \in S : q < m}) /\ n \notin {q \in S : q < m}
  BY RankType DEF Bounded
<1>2. Bounded(S \cup {n}) /\ Cardinality(S \cup {n}) = Cardinality(S) + 1
  BY <1>1, FS_AddElement DEF Bounded
<1>3. CASE n < m
  <2>1. {q \in S \cup {n} : q < m} = {q \in S : q < m} \cup {n}
    BY <1>3
  <2>2. QED
    BY <1>1, <1>2, <1>3, <2>1, FS_AddElement DEF Rank
<1>4. CASE ~ (n < m)
  <2>1. {q \in S \cup {n} : q < m} = {q \in S : q < m}
    BY <1>4
  <2>2. QED
    BY <1>2, <1>4, <2>1 DEF Rank
<1>5. QED
  BY <1>3, <1>4

-----------------------------------------------------------------------------
(* Sequences *)

LEMMA Joined ==
  ASSUME NEW S, NEW a \in Seq(S), NEW b \in Seq(S), NEW t, t = a \o b
  PROVE  /\ t \in Seq(S) /\ Len(t) = Len(a) + Len(b)
         /\ \A k \in 1..Len(a) : t[k] = a[k]
         /\ \A k \in 1..Len(b) : t[Len(a) + k] = b[k]
OBVIOUS

\* t is s with e at place i, and what was there and behind it moved up: what
\* InsertAt() yields.
InsertedInto(t, S, s, i, e) ==
    /\ t \in Seq(S) /\ Len(t) = Len(s) + 1
    /\ t[i] = e
    /\ \A k \in 1..Len(s) : IF k < i THEN t[k] = s[k] ELSE t[k + 1] = s[k]

LEMMA Inserted ==
  ASSUME NEW S, NEW s \in Seq(S), NEW i \in 1..(Len(s) + 1), NEW e \in S
  PROVE  InsertedInto(T!InsertAt(s, i, e), S, s, i, e)
<1> SUFFICES ASSUME NEW t, t = T!InsertAt(s, i, e)
             PROVE  InsertedInto(t, S, s, i, e)
  OBVIOUS
<1>0. PICK n \in Nat : n = Len(s)
  OBVIOUS
<1>1. PICK a : a = SubSeq(s, 1, i - 1)
  OBVIOUS
<1>2. PICK b : b = SubSeq(s, i, n)
  OBVIOUS
<1>3. a \in Seq(S) /\ Len(a) = i - 1 /\ \A k \in 1..(i - 1) : a[k] = s[k]
  BY <1>0, <1>1, SubSeqProperties
<1>4. b \in Seq(S) /\ Len(b) = n - i + 1 /\ \A k \in 1..(n - i + 1) : b[k] = s[i + k - 1]
  BY <1>0, <1>2, SubSeqProperties
<1>5. PICK c : c = a \o <<e>>
  OBVIOUS
<1>6. c \in Seq(S) /\ Len(c) = i /\ c[i] = e /\ \A k \in 1..(i - 1) : c[k] = s[k]
  BY <1>0, <1>3, <1>5
<1>7. t = c \o b
  BY <1>0, <1>1, <1>2, <1>5 DEF T!InsertAt
<1>8. /\ t \in Seq(S) /\ Len(t) = Len(c) + Len(b) /\ Len(c) + Len(b) = n + 1
      /\ \A k \in 1..i : t[k] = c[k]
      /\ \A k \in 1..Len(b) : t[Len(c) + k] = b[k]
  <2>1. Len(c) + Len(b) = n + 1
    BY <1>0, <1>4, <1>6
  <2>2. /\ t \in Seq(S) /\ Len(t) = Len(c) + Len(b)
        /\ \A k \in 1..Len(c) : t[k] = c[k]
        /\ \A k \in 1..Len(b) : t[Len(c) + k] = b[k]
    <3>1. c \in Seq(S) /\ b \in Seq(S)
      BY <1>4, <1>6
    <3>2. QED
      BY <1>7, <3>1, Joined
  <2>3. QED
    BY <1>6, <2>1, <2>2
<1>9. ASSUME NEW k \in 1..n
      PROVE  IF k < i THEN t[k] = s[k] ELSE t[k + 1] = s[k]
  <2>1. CASE k < i
    BY <1>6, <1>8, <2>1
  <2>2. CASE ~ (k < i)
    <3>1. PICK m \in 1..(n - i + 1) : m = k - i + 1
      BY <2>2
    <3>2. m \in 1..Len(b) /\ Len(c) + m = k + 1 /\ i + m - 1 = k
      BY <1>0, <1>4, <1>6, <3>1
    <3>3. t[Len(c) + m] = b[m] /\ b[m] = s[i + m - 1]
      BY <1>4, <1>8, <3>1, <3>2
    <3>4. QED
      BY <2>2, <3>2, <3>3
  <2>3. QED
    BY <2>1, <2>2
<1>10. QED
  BY <1>0, <1>6, <1>8, <1>9 DEF InsertedInto

\* RemoveAt() takes the entry out, and those behind it move down.
LEMMA Deleted ==
  ASSUME NEW S, NEW s \in Seq(S), NEW i \in 1..Len(s), NEW t, t = T!RemoveAt(s, i)
  PROVE  /\ t \in Seq(S) /\ Len(t) = Len(s) - 1
         /\ \A k \in 1..(Len(s) - 1) : t[k] = IF k < i THEN s[k] ELSE s[k + 1]
<1>0. PICK n \in Nat : n = Len(s)
  OBVIOUS
<1>1. PICK a : a = SubSeq(s, 1, i - 1)
  OBVIOUS
<1>2. PICK b : b = SubSeq(s, i + 1, n)
  OBVIOUS
<1>3. a \in Seq(S) /\ Len(a) = i - 1 /\ \A k \in 1..(i - 1) : a[k] = s[k]
  BY <1>0, <1>1, SubSeqProperties
<1>4. b \in Seq(S) /\ Len(b) = n - i /\ \A k \in 1..(n - i) : b[k] = s[i + k]
  BY <1>0, <1>2, SubSeqProperties
<1>5. t = a \o b
  BY <1>0, <1>1, <1>2 DEF T!RemoveAt
<1>6. /\ t \in Seq(S) /\ Len(t) = Len(a) + Len(b) /\ Len(a) + Len(b) = n - 1
      /\ \A k \in 1..(i - 1) : t[k] = s[k]
      /\ \A k \in 1..Len(b) : t[Len(a) + k] = b[k]
  <2>1. Len(a) + Len(b) = n - 1
    BY <1>0, <1>3, <1>4
  <2>2. /\ t \in Seq(S) /\ Len(t) = Len(a) + Len(b)
        /\ \A k \in 1..Len(a) : t[k] = a[k]
        /\ \A k \in 1..Len(b) : t[Len(a) + k] = b[k]
    <3>1. a \in Seq(S) /\ b \in Seq(S)
      BY <1>3, <1>4
    <3>2. QED
      BY <1>5, <3>1, Joined
  <2>3. QED
    BY <1>3, <2>1, <2>2
<1>7. ASSUME NEW k \in 1..(n - 1)
      PROVE  t[k] = IF k < i THEN s[k] ELSE s[k + 1]
  <2>1. CASE k < i
    BY <1>6, <2>1
  <2>2. CASE ~ (k < i)
    <3>1. PICK m \in 1..(n - i) : m = k - i + 1
      BY <1>0, <2>2
    <3>2. m \in 1..Len(b) /\ Len(a) + m = k /\ i + m = k + 1
      BY <1>0, <1>3, <1>4, <3>1
    <3>3. t[Len(a) + m] = b[m] /\ b[m] = s[i + m]
      BY <1>4, <1>6, <3>1, <3>2
    <3>4. QED
      BY <2>2, <3>2, <3>3
  <2>3. QED
    BY <2>1, <2>2
<1>8. QED
  BY <1>0, <1>6, <1>7

\* A sequence given by its elements.
LEMMA Listed ==
  ASSUME NEW S, NEW n \in Nat, NEW s \in [1..n -> S]
  PROVE  s \in Seq(S) /\ Len(s) = n
<1>1. \A m \in Nat : [1..m -> S] \subseteq Seq(S)
  BY SeqDef
<1>2. s \in Seq(S)
  BY <1>1
<1>3. Len(s) \in Nat /\ 1..Len(s) = 1..n
  BY <1>2, LenProperties
<1>4. QED
  BY <1>2, <1>3

-----------------------------------------------------------------------------
(* SparseTable *)

\* The instance's copy of an operator of module FiniteSets.
LEMMA SameCardinality == ASSUME NEW S PROVE T!Cardinality(S) = Cardinality(S)
BY DEF T!Cardinality, Cardinality

Positions == 0 .. GroupSize - 1

Group == [bitmap : [0 .. (GroupSize - 1) \div 8 -> SUBSET (0 .. 7)], buckets : Seq(Values)]

\* The buckets of a group that are occupied.
Occupied(g) == {pos \in Positions : T!bm_test(g, pos)}

\* What a group holds at a position.
Bucket(g, pos) ==
  IF T!bm_test(g, pos) THEN g.buckets[T!pos_to_offset(g, pos) + 1] ELSE None

GroupOK(g) == g \in Group /\ Len(g.buckets) = Cardinality(Occupied(g))

\* Bits of a bitmap, by byte and place in it.
LEMMA Bits ==
  ASSUME NEW pos \in Nat
  PROVE  /\ pos = 8 * (pos \div 8) + (pos % 8) /\ pos % 8 \in 0..7 /\ pos \div 8 \in Nat
         /\ \A q \in Nat : q \div 8 = pos \div 8 /\ q % 8 = pos % 8 => q = pos
<1>1. \A q \in Nat : q = 8 * (q \div 8) + (q % 8) /\ q % 8 \in 0..7 /\ q \div 8 \in Nat
  OBVIOUS
<1>2. QED
  BY <1>1

LEMMA PositionsType ==
  ASSUME T!TableAssumption
  PROVE  /\ GroupSize \in Nat /\ GroupSize # 0 /\ Positions \subseteq Nat
         /\ \A pos \in Positions : pos \div 8 \in 0 .. (GroupSize - 1) \div 8
         /\ \A g : Bounded(Occupied(g)) /\ Occupied(g) \subseteq Positions
<1>1. GroupSize \in Nat /\ GroupSize # 0 /\ Positions \subseteq Nat
  BY DEF T!TableAssumption, Positions
<1>2. ASSUME NEW pos \in Positions
      PROVE  pos \div 8 \in 0 .. (GroupSize - 1) \div 8
  BY <1>1 DEF Positions
<1>3. ASSUME NEW g
      PROVE  Bounded(Occupied(g)) /\ Occupied(g) \subseteq Positions
  <2>1. IsFiniteSet(Positions)
    BY <1>1, FS_Interval DEF Positions
  <2>2. Occupied(g) \in SUBSET Positions
    BY DEF Occupied
  <2>3. QED
    BY <1>1, <2>1, <2>2, FS_Subset DEF Bounded
<1>4. QED
  BY <1>1, <1>2, <1>3

\* The set that pos_to_offset counts has the bits before pos, whichever byte
\* its loop leaves for the end.
LEMMA OffsetIsRank ==
  ASSUME T!TableAssumption, NEW g, NEW pos \in Positions
  PROVE  T!pos_to_offset(g, pos) = Rank(Occupied(g), pos)
<1>1. pos \in Nat /\ GroupSize \in Nat
  BY PositionsType
<1>2. PICK whole \in Nat : whole = IF pos > 8 THEN (pos - 1) \div 8 ELSE 0
  BY <1>1
<1>3. 8 * whole <= pos /\ pos <= 8 * whole + 8
  BY <1>1, <1>2
<1>4. ASSUME NEW n \in Nat
      PROVE  (n \in 0 .. 8 * whole + 7 /\ (n \div 8 = whole => n % 8 < pos - 8 * whole)) <=> n < pos
  <2>1. n = 8 * (n \div 8) + (n % 8) /\ n % 8 \in 0..7 /\ n \div 8 \in Nat
    BY Bits
  <2>2. CASE n \div 8 = whole
    BY <1>1, <1>3, <2>1, <2>2
  <2>3. CASE n \div 8 < whole
    BY <1>1, <1>3, <2>1, <2>3
  <2>4. CASE n \div 8 > whole
    BY <1>1, <1>3, <2>1, <2>4
  <2>5. QED
    BY <2>1, <2>2, <2>3, <2>4
<1>5. {n \in 0 .. 8 * whole + 7 : T!bm_test(g, n) /\ (n \div 8 = whole => n % 8 < pos - 8 * whole)}
        = {n \in Occupied(g) : n < pos}
  <2>1. \A n \in Nat : n < pos => n \in Positions
    BY <1>1 DEF Positions
  <2>2. \A n \in Occupied(g) : n \in Nat /\ T!bm_test(g, n)
    BY PositionsType DEF Occupied
  <2>3. \A n \in 0 .. 8 * whole + 7 : n \in Nat
    BY <1>2
  <2>4. QED
    BY <1>4, <2>1, <2>2, <2>3 DEF Occupied
<1>6. QED
  BY <1>2, <1>5, SameCardinality DEF T!pos_to_offset, Rank

\* The place of a bucket, and that no two share one.
LEMMA Places ==
  ASSUME T!TableAssumption, NEW g, GroupOK(g), NEW pos \in Occupied(g)
  PROVE  /\ pos \in Positions /\ T!pos_to_offset(g, pos) = Rank(Occupied(g), pos)
         /\ Rank(Occupied(g), pos) + 1 \in 1..Len(g.buckets)
         /\ \A q \in Occupied(g) : q # pos => Rank(Occupied(g), q) # Rank(Occupied(g), pos)
<1>1. Bounded(Occupied(g)) /\ pos \in Positions /\ pos \in Nat
  BY PositionsType
<1>2. Rank(Occupied(g), pos) + 1 <= Cardinality(Occupied(g)) /\ Rank(Occupied(g), pos) \in Nat
  BY <1>1, RankOfElement
<1>3. ASSUME NEW q \in Occupied(g), q # pos
      PROVE  Rank(Occupied(g), q) # Rank(Occupied(g), pos)
  <2>1. q \in Nat /\ Rank(Occupied(g), q) \in Nat
    BY <1>1, RankOfElement DEF Bounded
  <2>2. Rank(Occupied(g), q) + 1 <= Rank(Occupied(g), pos)
          \/ Rank(Occupied(g), pos) + 1 <= Rank(Occupied(g), q)
    BY <1>1, <1>3, <2>1, RankGrows
  <2>3. QED
    BY <1>2, <2>1, <2>2
<1>4. Len(g.buckets) \in Nat /\ Len(g.buckets) = Cardinality(Occupied(g))
  BY DEF GroupOK, Group
<1>5. QED
  BY <1>1, <1>2, <1>3, <1>4, OffsetIsRank

LEMMA EmptyIsOK ==
  ASSUME T!TableAssumption
  PROVE  /\ GroupOK(T!EmptyGroup)
         /\ \A pos \in Positions : Bucket(T!EmptyGroup, pos) = None
<1>1. T!EmptyGroup \in Group
  BY DEF T!EmptyGroup, Group
<1>2. \A pos \in Positions : ~ T!bm_test(T!EmptyGroup, pos)
  BY PositionsType DEF T!EmptyGroup, T!bm_test
<1>3. Occupied(T!EmptyGroup) = {}
  BY <1>2 DEF Occupied
<1>4. Len(T!EmptyGroup.buckets) = 0
  BY DEF T!EmptyGroup
<1>5. QED
  BY <1>1, <1>2, <1>3, <1>4, FS_EmptySet DEF GroupOK, Bucket

\* Setting or clearing the bit of one position leaves the others.
LEMMA BitChanged ==
  ASSUME T!TableAssumption, NEW g \in Group, NEW pos \in Positions,
         NEW byte \in SUBSET (0 .. 7), NEW buckets \in Seq(Values),
         \A b \in 0 .. 7 : b # pos % 8 => (b \in byte <=> b \in g.bitmap[pos \div 8]),
         NEW h, h = [bitmap |-> [g.bitmap EXCEPT ![pos \div 8] = byte], buckets |-> buckets]
  PROVE  /\ h \in Group /\ h.buckets = buckets
         /\ T!bm_test(h, pos) <=> pos % 8 \in byte
         /\ \A q \in Positions : q # pos => (T!bm_test(h, q) <=> T!bm_test(g, q))
<1> DEFINE Bytes == 0 .. (GroupSize - 1) \div 8
<1>1. pos \in Nat /\ pos \div 8 \in Bytes /\ g.bitmap \in [Bytes -> SUBSET (0 .. 7)]
  BY PositionsType DEF Group
<1>2. PICK bitmap : bitmap = [g.bitmap EXCEPT ![pos \div 8] = byte]
  OBVIOUS
<1>3. /\ bitmap \in [Bytes -> SUBSET (0 .. 7)] /\ bitmap[pos \div 8] = byte
      /\ \A k \in Bytes : k # pos \div 8 => bitmap[k] = g.bitmap[k]
  BY <1>1, <1>2
<1>4. h = [bitmap |-> bitmap, buckets |-> buckets]
  BY <1>2
<1>5. h \in Group /\ h.bitmap = bitmap /\ h.buckets = buckets
  <2>1. bitmap \in [0 .. (GroupSize - 1) \div 8 -> SUBSET (0 .. 7)]
    BY <1>3
  <2>2. buckets \in Seq(Values)
    OBVIOUS
  <2>3. QED
    BY ONLY <1>4, <2>1, <2>2 DEF Group
<1>6. T!bm_test(h, pos) <=> pos % 8 \in byte
  BY <1>3, <1>5 DEF T!bm_test
<1>7. ASSUME NEW q \in Positions, q # pos
      PROVE  T!bm_test(h, q) <=> T!bm_test(g, q)
  <2>1. q \in Nat /\ q \div 8 \in Bytes /\ q % 8 \in 0 .. 7
    BY PositionsType, Bits
  <2>2. q \div 8 = pos \div 8 => q % 8 # pos % 8
    BY <1>1, <1>7, <2>1, Bits
  <2>3. CASE q \div 8 = pos \div 8
    BY <1>3, <1>5, <2>1, <2>2, <2>3 DEF T!bm_test
  <2>4. CASE q \div 8 # pos \div 8
    BY <1>3, <1>5, <2>1, <2>4 DEF T!bm_test
  <2>5. QED
    BY <2>3, <2>4
<1>8. QED
  BY <1>5, <1>6, <1>7

\* emplace() makes room for a bucket: the values behind it move by one, and so
\* do their places.
LEMMA EmplacedBucket ==
  ASSUME T!TableAssumption, NEW g, GroupOK(g), NEW pos \in Positions, NEW v \in Values,
         NEW h, h = T!emplace(g, pos, v)
  PROVE  /\ GroupOK(h) /\ pos \in Occupied(h)
         /\ \A q \in Positions : q # pos => Bucket(h, q) = Bucket(g, q)
<1>1. CASE T!bm_test(g, pos)
  BY <1>1 DEF T!emplace, Occupied
<1>2. CASE ~ T!bm_test(g, pos)
  <2>0. PICK S, byte, r : /\ S = Occupied(g) /\ r = Rank(S, pos)
                         /\ byte = g.bitmap[pos \div 8] \cup {pos % 8}
    OBVIOUS
  <2>1. /\ Bounded(S) /\ pos \in Nat /\ pos \notin S /\ S \subseteq Positions /\ Positions \subseteq Nat
        /\ pos \div 8 \in 0 .. (GroupSize - 1) \div 8 /\ g \in Group
        /\ Len(g.buckets) = Cardinality(S) /\ g.buckets \in Seq(Values)
    BY <1>2, <2>0, PositionsType DEF Occupied, GroupOK, Group
  <2>2. r \in Nat /\ r + 1 \in 1..(Len(g.buckets) + 1)
    <3>1. r \in Nat /\ Cardinality(S) \in Nat /\ r <= Cardinality(S)
      BY <2>0, <2>1, RankType
    <3>2. QED
      BY <2>1, <3>1
  <2>3. PICK buckets : buckets = T!InsertAt(g.buckets, r + 1, v)
    OBVIOUS
  <2>4. /\ buckets \in Seq(Values) /\ Len(buckets) = Len(g.buckets) + 1
        /\ \A k \in 1..Len(g.buckets) :
             IF k < r + 1 THEN buckets[k] = g.buckets[k] ELSE buckets[k + 1] = g.buckets[k]
    <3>1. PICK old \in Seq(Values), i \in Nat : old = g.buckets /\ i = r + 1 /\ i \in 1..(Len(old) + 1)
      BY <2>1, <2>2
    <3>2. v \in Values /\ old \in Seq(Values) /\ i \in 1..(Len(old) + 1) /\ buckets = T!InsertAt(old, i, v)
      BY <2>3, <3>1
    <3>3. /\ buckets \in Seq(Values) /\ Len(buckets) = Len(old) + 1
          /\ \A k \in 1..Len(old) : IF k < i THEN buckets[k] = old[k] ELSE buckets[k + 1] = old[k]
      <4>1. /\ v \in Values /\ old \in Seq(Values) /\ i \in 1..(Len(old) + 1)
            /\ buckets = T!InsertAt(old, i, v)
        BY <3>1, <3>2
      <4>2. InsertedInto(T!InsertAt(old, i, v), Values, old, i, v)
        BY ONLY <4>1, Inserted, Zenon
      <4>3. QED
        BY <4>1, <4>2 DEF InsertedInto
    <3>4. QED
      BY <3>1, <3>3
  <2>5. h = [bitmap |-> [g.bitmap EXCEPT ![pos \div 8] = byte], buckets |-> buckets]
    BY <1>2, <2>0, <2>3, OffsetIsRank DEF T!emplace
  <2>6. /\ byte \in SUBSET (0 .. 7) /\ pos % 8 \in byte
        /\ \A b \in 0 .. 7 : b # pos % 8 => (b \in byte <=> b \in g.bitmap[pos \div 8])
    BY <2>0, <2>1, Bits, ZenonT(30) DEF Group
  <2>7. /\ h \in Group /\ h.buckets = buckets /\ T!bm_test(h, pos)
        /\ \A q \in Positions : q # pos => (T!bm_test(h, q) <=> T!bm_test(g, q))
    <3>1. g \in Group /\ buckets \in Seq(Values)
      BY <2>1, <2>4
    <3>2. QED
      BY <2>5, <2>6, <3>1, BitChanged
  <2>8. Occupied(h) = S \cup {pos}
    BY <2>0, <2>7 DEF Occupied
  <2>9. GroupOK(h) /\ pos \in Occupied(h)
    BY <2>1, <2>4, <2>7, <2>8, RankAdded DEF GroupOK
  <2>10. ASSUME NEW q \in Positions, q # pos
         PROVE  Bucket(h, q) = Bucket(g, q)
    <3>1. CASE q \notin S
      BY <2>0, <2>7, <2>10, <3>1 DEF Bucket, Occupied
    <3>2. CASE q \in S
      <4>1. /\ T!bm_test(g, q) /\ T!bm_test(h, q) /\ q \in Nat
            /\ Rank(S, q) \in Nat /\ Rank(S, q) + 1 \in 1..Len(g.buckets)
            /\ T!pos_to_offset(g, q) = Rank(S, q)
            /\ T!pos_to_offset(h, q) = Rank(S \cup {pos}, q)
        BY <2>0, <2>1, <2>7, <2>8, <2>10, <3>2, Places, OffsetIsRank, RankOfElement DEF Occupied
      <4>2. Rank(S \cup {pos}, q) = IF pos < q THEN Rank(S, q) + 1 ELSE Rank(S, q)
        BY <2>1, <4>1, RankAdded
      <4>3. CASE q < pos
        <5>1. Rank(S, q) + 1 <= r
          BY <2>0, <2>1, <3>2, <4>1, <4>3, RankGrows
        <5>2. Rank(S \cup {pos}, q) = Rank(S, q) /\ Rank(S, q) + 1 < r + 1
          BY <2>1, <2>2, <4>1, <4>2, <4>3, <5>1
        <5>3. buckets[Rank(S, q) + 1] = g.buckets[Rank(S, q) + 1]
          BY <2>4, <4>1, <5>2
        <5>4. QED
          BY <2>7, <4>1, <5>2, <5>3 DEF Bucket
      <4>4. CASE pos < q
        <5>1. r <= Rank(S, q)
          BY <2>0, <2>1, <4>1, <4>4, RankGrows
        <5>2. Rank(S \cup {pos}, q) = Rank(S, q) + 1 /\ ~ (Rank(S, q) + 1 < r + 1)
          BY <2>1, <2>2, <4>1, <4>2, <4>4, <5>1
        <5>3. buckets[(Rank(S, q) + 1) + 1] = g.buckets[Rank(S, q) + 1]
          BY <2>4, <4>1, <5>2
        <5>4. QED
          BY <2>7, <4>1, <5>2, <5>3 DEF Bucket
      <4>5. QED
        BY <2>1, <2>10, <4>1, <4>3, <4>4
    <3>3. QED
      BY <3>1, <3>2
  <2>11. QED
    BY <2>9, <2>10
<1>3. QED
  BY <1>1, <1>2

\* A value is put into a bucket that is there.
LEMMA AssignedBucket ==
  ASSUME T!TableAssumption, NEW g, GroupOK(g), NEW pos \in Occupied(g), NEW v \in Values,
         NEW h, h = [g EXCEPT !.buckets[T!pos_to_offset(g, pos) + 1] = v]
  PROVE  /\ GroupOK(h) /\ Bucket(h, pos) = v
         /\ \A q \in Positions : q # pos => Bucket(h, q) = Bucket(g, q)
<1> DEFINE S == Occupied(g)
<1>1. PICK i : i = Rank(S, pos) + 1
  OBVIOUS
<1>2. /\ i \in 1..Len(g.buckets) /\ T!pos_to_offset(g, pos) + 1 = i /\ pos \in Positions
      /\ g \in Group /\ g.buckets \in Seq(Values)
  BY <1>1, Places DEF GroupOK, Group
<1>3. PICK buckets : buckets = [g.buckets EXCEPT ![i] = v]
  OBVIOUS
<1>4. /\ buckets \in Seq(Values) /\ Len(buckets) = Len(g.buckets) /\ buckets[i] = v
      /\ \A k \in 1..Len(g.buckets) : k # i => buckets[k] = g.buckets[k]
  BY <1>2, <1>3, ExceptSeq
<1>5. h = [g EXCEPT !.buckets = buckets]
  BY <1>2, <1>3 DEF Group
<1>6. h \in Group /\ h.bitmap = g.bitmap /\ h.buckets = buckets
  BY <1>2, <1>4, <1>5 DEF Group
<1>7. \A q : T!bm_test(h, q) <=> T!bm_test(g, q)
  BY <1>6 DEF T!bm_test
<1>8. Occupied(h) = S
  BY <1>7 DEF Occupied
<1>9. GroupOK(h)
  BY <1>4, <1>6, <1>8 DEF GroupOK
<1>10. \A q \in Positions : T!pos_to_offset(h, q) = Rank(S, q) /\ T!pos_to_offset(g, q) = Rank(S, q)
  BY <1>8, OffsetIsRank
<1>11. Bucket(h, pos) = v
  BY <1>1, <1>2, <1>4, <1>6, <1>7, <1>10 DEF Bucket, Occupied
<1>12. ASSUME NEW q \in Positions, q # pos
       PROVE  Bucket(h, q) = Bucket(g, q)
  <2>1. CASE q \notin S
    BY <1>7, <2>1 DEF Bucket, Occupied
  <2>2. CASE q \in S
    <3>1. Rank(S, q) + 1 \in 1..Len(g.buckets) /\ Rank(S, q) # Rank(S, pos)
      BY <1>12, <2>2, Places
    <3>2. Rank(S, q) \in Nat /\ Rank(S, pos) \in Nat
      BY <2>2, PositionsType, RankOfElement
    <3>3. Rank(S, q) + 1 # i
      BY <1>1, <3>1, <3>2
    <3>4. QED
      BY <1>4, <1>6, <1>7, <1>10, <3>1, <3>3 DEF Bucket
  <2>3. QED
    BY <2>1, <2>2
<1>13. QED
  BY <1>9, <1>11, <1>12

\* erase() closes the gap of a bucket.
LEMMA ErasedBucket ==
  ASSUME T!TableAssumption, NEW g, GroupOK(g), NEW pos \in Positions,
         NEW h, h = T!erase_bucket(g, pos)
  PROVE  /\ GroupOK(h) /\ Bucket(h, pos) = None
         /\ \A q \in Positions : q # pos => Bucket(h, q) = Bucket(g, q)
<1>1. CASE ~ T!bm_test(g, pos)
  BY <1>1 DEF T!erase_bucket, Bucket
<1>2. CASE T!bm_test(g, pos)
  <2>0. PICK S, R, byte, r : /\ S = Occupied(g) /\ R = S \ {pos} /\ r = Rank(S, pos)
                            /\ byte = g.bitmap[pos \div 8] \ {pos % 8}
    OBVIOUS
  <2>1. /\ Bounded(S) /\ pos \in Nat /\ pos \in S /\ S \subseteq Positions /\ Positions \subseteq Nat
        /\ pos \div 8 \in 0 .. (GroupSize - 1) \div 8 /\ g \in Group
        /\ Len(g.buckets) = Cardinality(S) /\ g.buckets \in Seq(Values)
    BY <1>2, <2>0, PositionsType DEF Occupied, GroupOK, Group
  <2>2. r \in Nat /\ r + 1 \in 1..Len(g.buckets)
    BY <2>0, <2>1, Places, RankOfElement
  <2>3. PICK buckets : buckets = T!RemoveAt(g.buckets, r + 1)
    OBVIOUS
  <2>4. /\ buckets \in Seq(Values) /\ Len(buckets) = Len(g.buckets) - 1
        /\ \A k \in 1..(Len(g.buckets) - 1) :
             buckets[k] = IF k < r + 1 THEN g.buckets[k] ELSE g.buckets[k + 1]
    <3>1. PICK old \in Seq(Values), i \in Nat : old = g.buckets /\ i = r + 1 /\ i \in 1..Len(old)
      BY <2>1, <2>2
    <3>2. buckets = T!RemoveAt(old, i)
      BY <2>3, <3>1
    <3>3. /\ buckets \in Seq(Values) /\ Len(buckets) = Len(old) - 1
          /\ \A k \in 1..(Len(old) - 1) : buckets[k] = IF k < i THEN old[k] ELSE old[k + 1]
      BY <3>1, <3>2, Deleted
    <3>4. QED
      BY <3>1, <3>3
  <2>5. h = [bitmap |-> [g.bitmap EXCEPT ![pos \div 8] = byte], buckets |-> buckets]
    BY <1>2, <2>0, <2>3, OffsetIsRank DEF T!erase_bucket
  <2>6. /\ byte \in SUBSET (0 .. 7) /\ pos % 8 \notin byte
        /\ \A b \in 0 .. 7 : b # pos % 8 => (b \in byte <=> b \in g.bitmap[pos \div 8])
    BY <2>0, <2>1 DEF Group
  <2>7. /\ h \in Group /\ h.buckets = buckets /\ ~ T!bm_test(h, pos)
        /\ \A q \in Positions : q # pos => (T!bm_test(h, q) <=> T!bm_test(g, q))
    <3>1. g \in Group /\ buckets \in Seq(Values)
      BY <2>1, <2>4
    <3>2. QED
      BY <2>5, <2>6, <3>1, BitChanged
  <2>8. Occupied(h) = R
    BY <2>0, <2>7 DEF Occupied
  <2>9. Bounded(R) /\ pos \notin R /\ R \cup {pos} = S
    BY <2>0, <2>1, <2>8, PositionsType
  <2>10. /\ Cardinality(S) = Cardinality(R) + 1 /\ Cardinality(R) \in Nat
         /\ \A q \in Nat : Rank(S, q) = IF pos < q THEN Rank(R, q) + 1 ELSE Rank(R, q)
    BY <2>1, <2>9, RankAdded, RankType
  <2>11. GroupOK(h) /\ Bucket(h, pos) = None
    BY <2>1, <2>4, <2>7, <2>8, <2>10 DEF GroupOK, Bucket
  <2>12. ASSUME NEW q \in Positions, q # pos
         PROVE  Bucket(h, q) = Bucket(g, q)
    <3>1. CASE q \notin S
      BY <2>0, <2>7, <2>12, <3>1 DEF Bucket, Occupied
    <3>2. CASE q \in S
      <4>1. /\ T!bm_test(g, q) /\ T!bm_test(h, q) /\ q \in Nat
            /\ T!pos_to_offset(g, q) = Rank(S, q)
            /\ T!pos_to_offset(h, q) = Rank(R, q)
        BY <2>0, <2>1, <2>7, <2>8, <2>12, <3>2, OffsetIsRank DEF Occupied
      <4>2. Rank(R, q) \in Nat /\ Rank(R, q) + 1 \in 1..(Len(g.buckets) - 1)
        <5>1. q \in R
          BY <2>0, <2>12, <3>2
        <5>2. Rank(R, q) + 1 <= Cardinality(R) /\ Rank(R, q) \in Nat
          BY <2>9, <5>1, RankOfElement
        <5>3. QED
          BY <2>1, <2>10, <5>2
      <4>3. CASE q < pos
        <5>1. Rank(S, q) = Rank(R, q)
          BY <2>1, <2>10, <4>1, <4>3
        <5>2. Rank(S, q) + 1 <= r
          BY <2>0, <2>1, <3>2, <4>1, <4>3, RankGrows
        <5>3. Rank(R, q) + 1 < r + 1
          BY <2>2, <4>2, <5>1, <5>2
        <5>4. buckets[Rank(R, q) + 1] = g.buckets[Rank(R, q) + 1]
          BY <2>4, <4>2, <5>3
        <5>5. QED
          BY <2>7, <4>1, <5>1, <5>4 DEF Bucket
      <4>4. CASE pos < q
        <5>1. Rank(S, q) = Rank(R, q) + 1
          BY <2>1, <2>10, <4>1, <4>4
        <5>2. r + 1 <= Rank(S, q)
          BY <2>0, <2>1, <4>1, <4>4, RankGrows
        <5>3. ~ (Rank(R, q) + 1 < r + 1)
          BY <2>2, <4>2, <5>1, <5>2
        <5>4. buckets[Rank(R, q) + 1] = g.buckets[(Rank(R, q) + 1) + 1]
          BY <2>4, <4>2, <5>3
        <5>5. QED
          BY <2>7, <4>1, <5>1, <5>4 DEF Bucket
      <4>5. QED
        BY <2>1, <2>12, <4>1, <4>3, <4>4
    <3>3. QED
      BY <3>1, <3>2
  <2>13. QED
    BY <2>11, <2>12
<1>3. QED
  BY <1>1, <1>2

-----------------------------------------------------------------------------
(* The table *)

\* Nothing else changes than what a position holds.
OthersKept(g, old, pos) ==
  \A q \in Positions : q # pos => Bucket(g, q) = Bucket(old, q)

TableOK(gs) ==
  /\ gs \in Seq(Group \cup {None})
  /\ \A k \in 1..Len(gs) : gs[k] # None => GroupOK(gs[k])

Place(i) == i \div GroupSize + 1

With(gs, i, g) == [gs EXCEPT ![Place(i)] = g]

\* What is found at an index.
Found(gs, i) ==
  IF Place(i) \in 1..Len(gs) /\ gs[Place(i)] # None
  THEN Bucket(gs[Place(i)], i % GroupSize) ELSE None

TableInv ==
  /\ TableOK(groups) /\ content \in [Indices -> Values \cup {None}]
  /\ \A i \in Indices : Found(groups, i) = content[i]

\* Two indices differ in their group or in their position there.
LEMMA IndexParts ==
  ASSUME T!TableAssumption, NEW i \in Indices
  PROVE  /\ i \in Nat /\ Place(i) \in Nat /\ Place(i) >= 1 /\ i % GroupSize \in Positions
         /\ \A j \in Indices : Place(j) = Place(i) /\ j % GroupSize = i % GroupSize => j = i
<1>1. /\ GroupSize \in Nat \ {0} /\ \A j \in Indices : j \in Nat
  BY DEF T!TableAssumption
<1>2. \A a \in Nat : /\ a % GroupSize \in 0..(GroupSize - 1) /\ a \div GroupSize \in Nat
                     /\ a = (GroupSize * (a \div GroupSize)) + (a % GroupSize)
  BY <1>1, Z3
<1>3. \A j \in Indices : Place(j) = (j \div GroupSize) + 1 /\ j \div GroupSize \in Nat
  BY <1>1, <1>2 DEF Place
<1>4. \A j \in Indices : Place(j) = Place(i) => j \div GroupSize = i \div GroupSize
  BY <1>3
<1>5. QED
  BY <1>1, <1>2, <1>3, <1>4 DEF Positions

\* group_assured() makes the group, and nothing else is found afterwards.
LEMMA Assured ==
  ASSUME T!TableAssumption, TableOK(groups), NEW i \in Indices,
         NEW gs, gs = T!group_assured(i)
  PROVE  /\ TableOK(gs) /\ Place(i) \in 1..Len(gs) /\ gs[Place(i)] # None
         /\ \A j \in Indices : Found(gs, j) = Found(groups, j)
<1>1. Place(i) \in Nat /\ Place(i) >= 1 /\ T!group_index(i) + 1 = Place(i)
  BY IndexParts DEF T!group_index, Place
<1>2. PICK max \in Nat : max = T!Max({Len(groups), Place(i)}) /\ max >= Len(groups) /\ max >= Place(i)
  <2>1. Len(groups) \in Nat
    BY DEF TableOK
  <2>2. \E x \in {Len(groups), Place(i)} : \A y \in {Len(groups), Place(i)} : x >= y
    BY <1>1, <2>1
  <2>3. QED
    BY <1>1, <2>1, <2>2 DEF T!Max
<1>3. PICK old : old = [k \in 1..max |-> IF k \in DOMAIN groups THEN groups[k] ELSE None]
  OBVIOUS
<1>4. /\ old \in Seq(Group \cup {None}) /\ Len(old) = max /\ DOMAIN groups = 1..Len(groups)
      /\ \A k \in 1..max : old[k] = IF k \in 1..Len(groups) THEN groups[k] ELSE None
  <2>1. groups \in Seq(Group \cup {None}) /\ DOMAIN groups = 1..Len(groups)
    BY DEF TableOK
  <2>2. \A k \in 1..Len(groups) : groups[k] \in Group \cup {None}
    BY <2>1, ElementOfSeq
  <2>3. \A k \in 1..max : old[k] = IF k \in 1..Len(groups) THEN groups[k] ELSE None
    BY <1>3, <2>1
  <2>4. \A k \in 1..max : old[k] \in Group \cup {None}
    BY <2>2, <2>3
  <2>5. old \in Seq(Group \cup {None}) /\ Len(old) = max
    <3>1. old \in [1..max -> Group \cup {None}]
      BY <1>3, <2>4
    <3>2. QED
      BY <1>2, <3>1, Listed
  <2>6. QED
    BY <2>1, <2>3, <2>5
<1>5. TableOK(old) /\ \A j \in Indices : Found(old, j) = Found(groups, j)
  <2>1. TableOK(old)
    BY <1>4 DEF TableOK
  <2>2. Len(groups) \in Nat
    BY DEF TableOK
  <2>3. ASSUME NEW j \in Indices
        PROVE  Found(old, j) = Found(groups, j)
    <3>1. Place(j) \in Nat /\ Place(j) >= 1
      BY IndexParts
    <3>2. CASE Place(j) \in 1..Len(groups)
      <4>1. Place(j) \in 1..max /\ Place(j) \in 1..Len(old)
        BY <1>2, <1>4, <2>2, <3>2
      <4>2. old[Place(j)] = groups[Place(j)]
        BY <1>4, <3>2, <4>1
      <4>3. QED
        BY <3>2, <4>1, <4>2 DEF Found
    <3>3. CASE Place(j) \notin 1..Len(groups)
      BY <1>4, <3>3 DEF Found
    <3>4. QED
      BY <3>2, <3>3
  <2>4. QED
    BY <2>1, <2>3
<1>6. gs = IF old[Place(i)] # None THEN old ELSE [old EXCEPT ![Place(i)] = T!EmptyGroup]
  BY <1>1, <1>2, <1>3 DEF T!group_assured
<1>7. CASE old[Place(i)] # None
  BY <1>1, <1>2, <1>4, <1>5, <1>6, <1>7
<1>8. CASE old[Place(i)] = None
  <2>1. PICK empty : empty = T!EmptyGroup
    OBVIOUS
  <2>2. /\ GroupOK(empty) /\ empty \in Group /\ empty # None
        /\ \A pos \in Positions : Bucket(empty, pos) = None
    <3>1. GroupOK(empty) /\ \A pos \in Positions : Bucket(empty, pos) = None
      BY <2>1, EmptyIsOK
    <3>2. None \notin Group
      BY DEF T!TableAssumption, Group
    <3>3. QED
      BY <3>1, <3>2 DEF GroupOK
  <2>3. gs = [old EXCEPT ![Place(i)] = empty] /\ Place(i) \in 1..Len(old)
    BY <1>1, <1>2, <1>4, <1>6, <1>8, <2>1
  <2>4. /\ gs \in Seq(Group \cup {None}) /\ Len(gs) = Len(old) /\ gs[Place(i)] = empty
        /\ \A k \in 1..Len(old) : k # Place(i) => gs[k] = old[k]
    BY <1>4, <2>2, <2>3, ExceptSeq
  <2>5. TableOK(gs)
    BY <1>5, <2>2, <2>4 DEF TableOK
  <2>6. ASSUME NEW j \in Indices
        PROVE  Found(gs, j) = Found(old, j)
    <3>1. j % GroupSize \in Positions
      BY IndexParts
    <3>2. CASE Place(j) = Place(i)
      BY <1>8, <2>2, <2>3, <2>4, <3>1, <3>2 DEF Found
    <3>3. CASE Place(j) # Place(i)
      BY <2>4, <3>3 DEF Found
    <3>4. QED
      BY <3>2, <3>3
  <2>7. QED
    BY <1>5, <2>2, <2>3, <2>4, <2>5, <2>6
<1>9. QED
  BY <1>7, <1>8

\* A group that changes at one position changes what is found at one index.
LEMMA GroupReplaced ==
  ASSUME T!TableAssumption, NEW old, TableOK(old), NEW i \in Indices,
         Place(i) \in 1..Len(old), old[Place(i)] # None,
         NEW g, GroupOK(g), OthersKept(g, old[Place(i)], i % GroupSize),
         NEW gs, gs = With(old, i, g)
  PROVE  /\ TableOK(gs) /\ Found(gs, i) = Bucket(g, i % GroupSize)
         /\ \A j \in Indices : j # i => Found(gs, j) = Found(old, j)
<1>1. g \in Group /\ g # None /\ old \in Seq(Group \cup {None})
  BY DEF T!TableAssumption, Group, GroupOK, TableOK
<1>2. /\ gs \in Seq(Group \cup {None}) /\ Len(gs) = Len(old) /\ gs[Place(i)] = g
      /\ \A k \in 1..Len(old) : k # Place(i) => gs[k] = old[k]
  BY <1>1, ExceptSeq DEF With
<1>3. TableOK(gs)
  BY <1>2 DEF TableOK
<1>4. Found(gs, i) = Bucket(g, i % GroupSize)
  BY <1>1, <1>2 DEF Found
<1>5. ASSUME NEW j \in Indices, j # i
      PROVE  Found(gs, j) = Found(old, j)
  <2>1. j % GroupSize \in Positions
    BY IndexParts
  <2>2. CASE Place(j) = Place(i)
    <3>1. j % GroupSize # i % GroupSize
      BY <1>5, <2>2, IndexParts
    <3>2. QED
      BY <1>1, <1>2, <2>1, <2>2, <3>1 DEF Found, OthersKept
  <2>3. CASE Place(j) # Place(i)
    BY <1>2, <2>3 DEF Found
  <2>4. QED
    BY <2>2, <2>3
<1>6. QED
  BY <1>3, <1>4, <1>5

LEMMA AssignStep ==
  ASSUME T!TableAssumption, TableInv, NEW i \in Indices, NEW v \in Values, T!Assign(i, v)
  PROVE  TableInv'
<1>1. PICK all : all = T!group_assured(i)
  OBVIOUS
<1>2. PICK old, pos : old = all[Place(i)] /\ pos = i % GroupSize
  OBVIOUS
<1>3. PICK g : g = T!emplace(old, pos, v)
  OBVIOUS
<1>4. PICK h : h = [g EXCEPT !.buckets[T!pos_to_offset(g, pos) + 1] = v]
  OBVIOUS
<1>5. /\ TableOK(all) /\ Place(i) \in 1..Len(all) /\ old # None /\ GroupOK(old)
      /\ \A j \in Indices : Found(all, j) = Found(groups, j)
  BY <1>1, <1>2, Assured DEF TableInv, TableOK
<1>6. pos \in Positions
  BY <1>2, IndexParts
<1>7. /\ GroupOK(g) /\ pos \in Occupied(g)
      /\ \A q \in Positions : q # pos => Bucket(g, q) = Bucket(old, q)
  BY <1>3, <1>5, <1>6, EmplacedBucket
<1>8. /\ GroupOK(h) /\ Bucket(h, pos) = v
      /\ \A q \in Positions : q # pos => Bucket(h, q) = Bucket(g, q)
  BY <1>4, <1>7, AssignedBucket
<1>9. groups' = [all EXCEPT ![Place(i)] = h] /\ content' = [content EXCEPT ![i] = v]
  BY <1>1, <1>2, <1>3, <1>4 DEF T!Assign, T!group_index, T!pos_in_group, Place
<1>10. /\ TableOK(groups') /\ Found(groups', i) = v
       /\ \A j \in Indices : j # i => Found(groups', j) = Found(groups, j)
  <2>1. \A q \in Positions : q # pos => Bucket(h, q) = Bucket(old, q)
    BY <1>7, <1>8
  <2>2. PICK gs : gs = With(all, i, h)
    OBVIOUS
  <2>3. /\ TableOK(gs) /\ Found(gs, i) = v
        /\ \A j \in Indices : j # i => Found(gs, j) = Found(all, j)
    <3>1. /\ T!TableAssumption /\ TableOK(all) /\ i \in Indices
          /\ Place(i) \in 1..Len(all) /\ all[Place(i)] # None
          /\ GroupOK(h) /\ Bucket(h, i % GroupSize) = v
      BY <1>2, <1>5, <1>8
    <3>2. OthersKept(h, all[Place(i)], i % GroupSize)
      BY <1>2, <2>1 DEF OthersKept
    <3>3. QED
      BY ONLY <2>2, <3>1, <3>2, GroupReplaced
  <2>4. QED
    BY <1>5, <1>9, <2>2, <2>3 DEF With
<1>11. QED
  BY <1>9, <1>10 DEF TableInv

LEMMA EraseStep ==
  ASSUME T!TableAssumption, TableInv, NEW i \in Indices, T!erase(i)
  PROVE  TableInv'
<1>1. PICK old, pos : old = groups[Place(i)] /\ pos = i % GroupSize
  OBVIOUS
<1>2. PICK h : h = T!erase_bucket(old, pos)
  OBVIOUS
<1>3. /\ TableOK(groups) /\ Place(i) \in 1..Len(groups) /\ old # None /\ GroupOK(old)
  <2>1. TableOK(groups) /\ DOMAIN groups = 1..Len(groups)
    BY DEF TableInv, TableOK
  <2>2. Place(i) \in DOMAIN groups /\ old # None
    BY <1>1 DEF T!erase, T!group_if_exists, T!group_index, Place
  <2>3. QED
    BY <1>1, <2>1, <2>2 DEF TableOK
<1>4. pos \in Positions
  BY <1>1, IndexParts
<1>5. /\ GroupOK(h) /\ Bucket(h, pos) = None
      /\ \A q \in Positions : q # pos => Bucket(h, q) = Bucket(old, q)
  BY <1>2, <1>3, <1>4, ErasedBucket
<1>6. groups' = [groups EXCEPT ![Place(i)] = h] /\ content' = [content EXCEPT ![i] = None]
  BY <1>1, <1>2 DEF T!erase, T!group_index, T!pos_in_group, Place
<1>7. /\ TableOK(groups') /\ Found(groups', i) = None
      /\ \A j \in Indices : j # i => Found(groups', j) = Found(groups, j)
  <2>1. PICK gs : gs = With(groups, i, h)
    OBVIOUS
  <2>2. /\ TableOK(gs) /\ Found(gs, i) = None
        /\ \A j \in Indices : j # i => Found(gs, j) = Found(groups, j)
    <3>1. /\ T!TableAssumption /\ TableOK(groups) /\ i \in Indices
          /\ Place(i) \in 1..Len(groups) /\ groups[Place(i)] # None
          /\ GroupOK(h) /\ Bucket(h, i % GroupSize) = None
      BY <1>1, <1>3, <1>5
    <3>2. OthersKept(h, groups[Place(i)], i % GroupSize)
      BY <1>1, <1>5 DEF OthersKept
    <3>3. QED
      BY ONLY <2>1, <3>1, <3>2, GroupReplaced
  <2>3. QED
    BY <1>6, <2>1, <2>2 DEF With
<1>8. QED
  BY <1>6, <1>7 DEF TableInv

\* At every index a table finds what was last put there and not erased, for any
\* size of a group (BasicSparseTable).
THEOREM ContentFound == Spec => []FindsContent
<1>1. Init => TableInv
  <2>1. SUFFICES ASSUME T!Init PROVE TableInv
    BY DEF Init
  <2>2. groups = <<>> /\ content = [i \in Indices |-> None]
    BY <2>1 DEF T!Init
  <2>3. TableOK(groups) /\ Len(groups) = 0
    BY <2>2 DEF TableOK
  <2>4. \A i \in Indices : Found(groups, i) = None
    BY <2>3 DEF Found
  <2>5. QED
    BY <2>2, <2>3, <2>4 DEF TableInv
<1>2. TableInv /\ [Next]_vars => TableInv'
  <2>1. SUFFICES ASSUME TableInv, [T!Next]_(T!vars) PROVE TableInv'
    BY PartsStep
  <2>2. CASE T!Next
    BY <2>1, <2>2, UtilitiesAssumption, AssignStep, EraseStep DEF T!Next
  <2>3. CASE UNCHANGED T!vars
    BY <2>1, <2>3 DEF T!vars, TableInv
  <2>4. QED
    BY <2>1, <2>2, <2>3
<1>3. TableInv => FindsContent
  <2>1. SUFFICES ASSUME TableInv, NEW i \in Indices PROVE T!try_get(i) = content[i]
    BY DEF FindsContent, T!FindsContent
  <2>2. DOMAIN groups = 1..Len(groups) /\ Found(groups, i) = content[i]
    BY <2>1 DEF TableInv, TableOK
  <2>3. T!try_get(i) = Found(groups, i)
    BY <2>2 DEF T!try_get, T!group_if_exists, T!group_index, T!pos_in_group, Found, Bucket, Place
  <2>4. QED
    BY <2>2, <2>3
<1>4. QED
  BY <1>1, <1>2, <1>3, PTL DEF Spec

-----------------------------------------------------------------------------
(* Observers *)

Slots == Observer \cup {Nobody}
Calls == [n : Nat, i : Nat, due : SUBSET Observer, moved : BOOLEAN]

\* What a call w of each() has still to notify of the list os, whose length is
\* len: while no slot has moved, it is between the call's position and its end.
DueAhead(w, len, indices) ==
  ~ w.moved => w.n <= len /\ \A o \in w.due : indices[o] \in w.i + 1 .. w.n

\* The index of an observer is its slot, and every other slot is empty.
Exact(os, indices) ==
  /\ \A o \in Observer : indices[o] # 0 => indices[o] \in 1..Len(os) /\ os[indices[o]] = o
  /\ \A k \in 1..Len(os) : os[k] # Nobody => indices[os[k]] = k

Kept(os, indices, ws) ==
  /\ os \in Seq(Slots) /\ indices \in [Observer -> Nat] /\ ws \in Seq(Calls)
  /\ Exact(os, indices)
  /\ \A k \in 1..Len(ws) : DueAhead(ws[k], Len(os), indices)

ObserversInv == Kept(observers, observer_indices, walks)

\* Slots that are filled move to the first ones, none to that of another.
LEMMA SlotsFilled ==
  ASSUME observers \in Seq(Slots)
  PROVE  LET F == O!Filled
         IN /\ F \subseteq 1..Len(observers) /\ Bounded(F) /\ Cardinality(F) \in Nat
            /\ Cardinality(F) <= Len(observers)
            /\ \A k \in F : /\ O!NewSlot(k) = Rank(F, k) + 1
                            /\ O!NewSlot(k) \in 1..Cardinality(F)
            /\ \A k, m \in F : O!NewSlot(k) = O!NewSlot(m) => k = m
            /\ \A s \in 1..Cardinality(F) : \E k \in F : O!NewSlot(k) = s
<1>1. PICK F : F = O!Filled
  OBVIOUS
<1>2. F \subseteq 1..Len(observers) /\ Len(observers) \in Nat
  BY <1>1 DEF O!Filled
<1>3. /\ Bounded(F) /\ Cardinality(F) \in Nat /\ Cardinality(F) <= Len(observers)
      /\ IsFiniteSet(1..Cardinality(F)) /\ Cardinality(1..Cardinality(F)) = Cardinality(F)
  <2>1. IsFiniteSet(1..Len(observers)) /\ Cardinality(1..Len(observers)) = Len(observers)
    <3>1. ASSUME NEW n \in Nat
          PROVE  IsFiniteSet(1..n) /\ Cardinality(1..n) = n
      BY FS_Interval
    <3>2. QED
      BY <1>2, <3>1
  <2>2. IsFiniteSet(F) /\ Cardinality(F) \in Nat /\ Cardinality(F) <= Len(observers)
    BY <1>2, <2>1, FS_Subset, FS_CardinalityType
  <2>3. IsFiniteSet(1..Cardinality(F)) /\ Cardinality(1..Cardinality(F)) = Cardinality(F)
    BY <2>2, FS_Interval
  <2>4. QED
    BY <1>2, <2>2, <2>3 DEF Bounded
<1>4. \A S : O!Cardinality(S) = Cardinality(S)
  BY DEF O!Cardinality, Cardinality
<1>5. ASSUME NEW k \in F
      PROVE  /\ O!NewSlot(k) = Rank(F, k) + 1 /\ O!NewSlot(k) \in 1..Cardinality(F)
             /\ Rank(F, k) \in Nat /\ k \in Nat
  <2>1. O!NewSlot(k) = Rank(F, k) + 1
    BY <1>1, <1>4 DEF O!NewSlot, Rank
  <2>2. Rank(F, k) \in Nat /\ Rank(F, k) + 1 <= Cardinality(F)
    BY <1>3, <1>5, RankOfElement
  <2>3. QED
    BY <1>2, <1>3, <2>1, <2>2
<1>6. ASSUME NEW k \in F, NEW m \in F, k # m
      PROVE  O!NewSlot(k) # O!NewSlot(m)
  <2>1. Rank(F, k) + 1 <= Rank(F, m) \/ Rank(F, m) + 1 <= Rank(F, k)
    BY <1>3, <1>5, <1>6, RankGrows
  <2>2. QED
    BY <1>5, <2>1
<1>7. ASSUME NEW s \in 1..Cardinality(F)
      PROVE  \E k \in F : O!NewSlot(k) = s
  <2>1. PICK f : f = [k \in F |-> O!NewSlot(k)]
    OBVIOUS
  <2>2. f \in Injection(F, 1..Cardinality(F))
    <3>1. f \in [F -> 1..Cardinality(F)]
      BY <1>5, <2>1
    <3>2. \A k, m \in F : f[k] = f[m] => k = m
      BY <1>6, <2>1
    <3>3. QED
      BY <3>1, <3>2 DEF Injection, IsInjective
  <2>3. f \in Surjection(F, 1..Cardinality(F))
    BY <1>3, <2>2, FS_Injection
  <2>4. \E k \in F : f[k] = s
    BY <2>3 DEF Surjection
  <2>5. QED
    BY <2>1, <2>4
<1>8. QED
  BY <1>1, <1>2, <1>3, <1>5, <1>6, <1>7

LEMMA ObserverAdded ==
  ASSUME O!ObserversAssumption, ObserversInv, NEW o \in Observer, O!add_observer(o)
  PROVE  ObserversInv'
<1>1. PICK os, indices, len : os = observers' /\ indices = observer_indices' /\ len = Len(observers)
  OBVIOUS
<1>2. /\ os \in Seq(Slots) /\ Len(os) = len + 1 /\ os[len + 1] = o /\ len \in Nat
      /\ \A k \in 1..len : os[k] = observers[k]
      /\ indices \in [Observer -> Nat] /\ indices[o] = len + 1
      /\ \A p \in Observer : p # o => indices[p] = observer_indices[p]
      /\ walks' = walks /\ observer_indices[o] = 0
  BY <1>1 DEF O!add_observer, ObserversInv, Kept, Slots
<1>3. Exact(observers, observer_indices)
  BY DEF ObserversInv, Kept
<1>4. Exact(os, indices)
  <2>1. ASSUME NEW p \in Observer, indices[p] # 0
        PROVE  indices[p] \in 1..Len(os) /\ os[indices[p]] = p
    BY <1>1, <1>2, <1>3, <2>1 DEF Exact
  <2>2. ASSUME NEW k \in 1..Len(os), os[k] # Nobody
        PROVE  indices[os[k]] = k
    <3>1. CASE k = len + 1
      BY <1>2, <3>1
    <3>2. CASE k # len + 1
      <4>1. k \in 1..len /\ os[k] = observers[k] /\ os[k] \in Observer
        BY <1>2, <2>2, <3>2 DEF Slots
      <4>2. observer_indices[os[k]] = k
        BY <1>1, <1>3, <2>2, <4>1 DEF Exact
      <4>3. QED
        BY <1>2, <4>1, <4>2
    <3>3. QED
      BY <3>1, <3>2
  <2>3. QED
    BY <2>1, <2>2 DEF Exact
<1>5. ASSUME NEW k \in 1..Len(walks)
      PROVE  DueAhead(walks[k], Len(os), indices)
  <2>1. DueAhead(walks[k], len, observer_indices) /\ walks[k] \in Calls
    BY <1>1 DEF ObserversInv, Kept
  <2>2. \A p \in walks[k].due : ~ walks[k].moved => p # o
    BY <1>2, <2>1 DEF DueAhead, Calls
  <2>3. QED
    BY <1>2, <2>1, <2>2 DEF DueAhead, Calls
<1>6. Kept(os, indices, walks)
  BY <1>2, <1>4, <1>5 DEF Kept, ObserversInv
<1>7. QED
  BY <1>1, <1>2, <1>6 DEF ObserversInv

\* The slot of an observer that is removed is empty, and no walk has to notify
\* it any more.
LEMMA ObserverRemoved ==
  ASSUME O!ObserversAssumption, ObserversInv, NEW o \in Observer, O!remove_observer(o)
  PROVE  ObserversInv'
<1>1. PICK os, indices, ws, at :
        os = observers' /\ indices = observer_indices' /\ ws = walks' /\ at = observer_indices[o]
  OBVIOUS
<1>2. /\ at \in 1..Len(observers) /\ observers[at] = o /\ observers \in Seq(Slots)
      /\ observer_indices \in [Observer -> Nat] /\ walks \in Seq(Calls)
      /\ Exact(observers, observer_indices)
  BY <1>1 DEF O!remove_observer, ObserversInv, Kept, Exact
<1>3. /\ os \in Seq(Slots) /\ Len(os) = Len(observers) /\ os[at] = Nobody
      /\ \A k \in 1..Len(observers) : k # at => os[k] = observers[k]
      /\ indices \in [Observer -> Nat] /\ indices[o] = 0
      /\ \A p \in Observer : p # o => indices[p] = observer_indices[p]
  BY <1>1, <1>2, ExceptSeq DEF O!remove_observer, Slots
<1>4. Exact(os, indices)
  <2>1. ASSUME NEW p \in Observer, indices[p] # 0
        PROVE  indices[p] \in 1..Len(os) /\ os[indices[p]] = p
    <3>1. p # o /\ indices[p] = observer_indices[p]
      BY <1>3, <2>1
    <3>2. indices[p] \in 1..Len(observers) /\ observers[indices[p]] = p
      BY <1>2, <2>1, <3>1 DEF Exact
    <3>3. QED
      BY <1>2, <1>3, <3>1, <3>2
  <2>2. ASSUME NEW k \in 1..Len(os), os[k] # Nobody
        PROVE  indices[os[k]] = k
    <3>1. k # at /\ k \in 1..Len(observers) /\ os[k] = observers[k] /\ os[k] \in Observer
      BY <1>2, <1>3, <2>2 DEF Slots
    <3>2. observer_indices[os[k]] = k
      BY <1>2, <2>2, <3>1 DEF Exact
    <3>3. os[k] # o
      BY <1>1, <3>1, <3>2
    <3>4. QED
      BY <1>3, <3>1, <3>2, <3>3
  <2>3. QED
    BY <2>1, <2>2 DEF Exact
<1>5. /\ ws \in Seq(Calls) /\ Len(ws) = Len(walks)
      /\ \A k \in 1..Len(walks) :
           /\ walks[k] \in Calls /\ ws[k] \in Calls
           /\ ws[k].n = walks[k].n /\ ws[k].i = walks[k].i /\ ws[k].moved = walks[k].moved
           /\ ws[k].due = walks[k].due \ {o}
  <2>1. ws = [k \in 1..Len(walks) |-> [walks[k] EXCEPT !.due = @ \ {o}]]
    BY <1>1, <1>2 DEF O!remove_observer, O!Without
  <2>2. ASSUME NEW k \in 1..Len(walks)
        PROVE  /\ walks[k] \in Calls /\ ws[k] \in Calls
               /\ ws[k].n = walks[k].n /\ ws[k].i = walks[k].i /\ ws[k].moved = walks[k].moved
               /\ ws[k].due = walks[k].due \ {o}
    <3>1. PICK w \in Calls : w = walks[k]
      BY <1>2, ElementOfSeq
    <3>2. ws[k] = [w EXCEPT !.due = @ \ {o}]
      BY <2>1, <3>1
    <3>3. /\ ws[k] \in Calls /\ ws[k].n = w.n /\ ws[k].i = w.i /\ ws[k].moved = w.moved
          /\ ws[k].due = w.due \ {o}
      BY <3>2 DEF Calls
    <3>4. QED
      BY <3>1, <3>3
  <2>3. ws \in [1..Len(walks) -> Calls] /\ Len(walks) \in Nat
    <3>1. ws \in [1..Len(walks) -> Calls]
      BY ONLY <2>1, <2>2, ZenonT(30)
    <3>2. QED
      BY <1>2, <3>1
  <2>4. ws \in Seq(Calls) /\ Len(ws) = Len(walks)
    BY ONLY <2>3, Listed, SMTT(20)
  <2>5. QED
    BY <2>2, <2>4
<1>6. ASSUME NEW k \in 1..Len(ws)
      PROVE  DueAhead(ws[k], Len(os), indices)
  <2>1. DueAhead(walks[k], Len(observers), observer_indices) /\ k \in 1..Len(walks)
    BY <1>5 DEF ObserversInv, Kept
  <2>2. QED
    BY <1>3, <1>5, <2>1 DEF DueAhead, Calls
<1>7. Kept(os, indices, ws)
  BY <1>3, <1>4, <1>5, <1>6 DEF Kept
<1>8. QED
  BY <1>1, <1>7 DEF ObserversInv

\* Walks whose slots moved have nothing to keep.
LEMMA DisturbedKept ==
  ASSUME NEW ws \in Seq(Calls), NEW ds, ds = O!Disturbed(ws), NEW len, NEW indices
  PROVE  ds \in Seq(Calls) /\ \A k \in 1..Len(ds) : DueAhead(ds[k], len, indices)
<1>1. ds = [k \in 1..Len(ws) |-> [ws[k] EXCEPT !.moved = TRUE]]
  BY DEF O!Disturbed
<1>2. ASSUME NEW k \in 1..Len(ws)
      PROVE  ds[k] \in Calls /\ ds[k].moved
  <2>1. PICK w \in Calls : w = ws[k]
    BY ElementOfSeq
  <2>2. ds[k] = [w EXCEPT !.moved = TRUE]
    BY <1>1, <2>1
  <2>3. QED
    BY <2>2 DEF Calls
<1>3. ds \in [1..Len(ws) -> Calls] /\ Len(ws) \in Nat
  BY <1>1, <1>2
<1>4. ds \in Seq(Calls) /\ Len(ds) = Len(ws)
  BY <1>3, Listed
<1>5. QED
  BY <1>2, <1>4 DEF DueAhead

LEMMA ObserversCleared ==
  ASSUME ObserversInv, O!clear
  PROVE  ObserversInv'
<1>1. PICK os, indices, ws : os = observers' /\ indices = observer_indices' /\ ws = walks'
  OBVIOUS
<1>2. /\ os = <<>> /\ indices = [o \in Observer |-> 0] /\ ws = O!Disturbed(walks)
      /\ walks \in Seq(Calls)
  BY <1>1 DEF O!clear, ObserversInv, Kept
<1>3. os \in Seq(Slots) /\ indices \in [Observer -> Nat] /\ Exact(os, indices)
  BY <1>2 DEF Exact
<1>4. ws \in Seq(Calls) /\ \A k \in 1..Len(ws) : DueAhead(ws[k], Len(os), indices)
  BY <1>2, DisturbedKept
<1>5. QED
  BY <1>1, <1>3, <1>4 DEF ObserversInv, Kept

\* A walk begins with every observer that is there, in the slots it will visit.
LEMMA WalkStarted ==
  ASSUME O!ObserversAssumption, ObserversInv, O!each
  PROVE  ObserversInv'
<1>1. PICK w : w = O!Walk(Len(observers), O!Registered)
  OBVIOUS
<1>2. /\ observers \in Seq(Slots) /\ Len(observers) \in Nat /\ walks \in Seq(Calls)
      /\ observer_indices \in [Observer -> Nat]
      /\ Exact(observers, observer_indices)
      /\ O!Registered \in SUBSET Observer
  BY DEF ObserversInv, Kept, O!Registered
<1>3. /\ w \in Calls /\ w.n = Len(observers) /\ w.i = 0 /\ w.due = O!Registered
  BY <1>1, <1>2 DEF O!Walk, Calls
<1>4. DueAhead(w, Len(observers), observer_indices)
  BY <1>2, <1>3 DEF DueAhead, Exact, O!Registered
<1>5. PICK ws : ws = Append(walks, w)
  OBVIOUS
<1>6. ws \in Seq(Calls) /\ Len(ws) = Len(walks) + 1 /\ ws[Len(walks) + 1] = w
      /\ \A k \in 1..Len(walks) : ws[k] = walks[k]
  BY <1>2, <1>3, <1>5
<1>7. ASSUME NEW k \in 1..Len(ws)
      PROVE  DueAhead(ws[k], Len(observers), observer_indices)
  <2>1. CASE k = Len(walks) + 1
    BY <1>4, <1>6, <2>1
  <2>2. CASE k # Len(walks) + 1
    <3>1. k \in 1..Len(walks) /\ ws[k] = walks[k]
      BY <1>2, <1>6, <2>2
    <3>2. QED
      BY <3>1 DEF ObserversInv, Kept
  <2>3. QED
    BY <2>1, <2>2
<1>8. ws = walks' /\ UNCHANGED <<observers, observer_indices>>
  BY <1>1, <1>5 DEF O!each
<1>9. Kept(observers, observer_indices, ws)
  BY <1>2, <1>6, <1>7 DEF Kept
<1>10. QED
  BY <1>8, <1>9 DEF ObserversInv

\* The slots that a walk passes over are empty: the observers that it has still
\* to notify are behind the one it comes to.
LEMMA ObserverNotified ==
  ASSUME O!ObserversAssumption, ObserversInv, NEW i \in 1..MaxSlots, O!Notify(i)
  PROVE  ObserversInv'
<1>1. PICK ws, top, last : ws = walks' /\ top = O!Top /\ last = Len(walks)
  OBVIOUS
<1>2. /\ observers \in Seq(Slots) /\ Len(observers) \in Nat /\ DOMAIN observers = 1..Len(observers)
      /\ walks \in Seq(Calls) /\ observer_indices \in [Observer -> Nat]
      /\ Exact(observers, observer_indices)
      /\ \A k \in 1..Len(walks) : DueAhead(walks[k], Len(observers), observer_indices)
  BY DEF ObserversInv, Kept
<1>3. last \in 1..Len(walks) /\ top = walks[last] /\ top \in Calls
  <2>1. walks # <<>>
    BY DEF O!Notify
  <2>2. last \in 1..Len(walks)
    BY <1>1, <1>2, <2>1
  <2>3. QED
    BY <1>1, <1>2, <2>2 DEF O!Top
<1>4. /\ i \in top.i + 1 .. top.n
      /\ \A j \in top.i + 1 .. i - 1 : j \in 1..Len(observers) => observers[j] = Nobody
      /\ UNCHANGED <<observers, observer_indices>>
  BY <1>1, <1>2 DEF O!Notify
<1>5. PICK o \in Observer :
        /\ i \in 1..Len(observers) => o = observers[i]
        /\ ws = [walks EXCEPT ![last].i = i, ![last].due = @ \ {o}]
  <2>1. PICK o \in IF i \in DOMAIN observers THEN {observers[i]} \ {Nobody} ELSE Observer :
          walks' = [walks EXCEPT ![Len(walks)].i = i, ![Len(walks)].due = @ \ {o}]
    BY DEF O!Notify
  <2>2. o \in Observer /\ (i \in 1..Len(observers) => o = observers[i])
    BY <1>2, <2>1 DEF Slots
  <2>3. QED
    BY <1>1, <2>1, <2>2
<1>6. PICK w : w = [top EXCEPT !.i = i, !.due = @ \ {o}]
  OBVIOUS
<1>7. /\ w \in Calls /\ w.n = top.n /\ w.i = i /\ w.moved = top.moved /\ w.due = top.due \ {o}
  <2>1. i \in Nat
    BY DEF O!ObserversAssumption
  <2>2. PICK t \in Calls : t = top
    BY <1>3
  <2>3. w = [t EXCEPT !.i = i, !.due = @ \ {o}]
    BY <1>6, <2>2
  <2>4. w \in Calls /\ w.n = t.n /\ w.i = i /\ w.moved = t.moved /\ w.due = t.due \ {o}
    BY <2>1, <2>3 DEF Calls
  <2>5. QED
    BY <2>2, <2>4
<1>8. ws = [walks EXCEPT ![last] = w]
  BY <1>2, <1>3, <1>5, <1>6
<1>9. /\ ws \in Seq(Calls) /\ Len(ws) = Len(walks) /\ ws[last] = w
      /\ \A k \in 1..Len(walks) : k # last => ws[k] = walks[k]
  BY <1>2, <1>3, <1>7, <1>8, ExceptSeq
<1>10. DueAhead(w, Len(observers), observer_indices)
  <2>1. SUFFICES ASSUME ~ w.moved
                 PROVE  /\ w.n <= Len(observers)
                        /\ \A p \in w.due : observer_indices[p] \in w.i + 1 .. w.n
    BY DEF DueAhead
  <2>2. top.n <= Len(observers) /\ \A p \in top.due : observer_indices[p] \in top.i + 1 .. top.n
    BY <1>2, <1>3, <1>7, <2>1 DEF DueAhead
  <2>3. ASSUME NEW p \in w.due
        PROVE  observer_indices[p] \in w.i + 1 .. w.n
    <3>1. /\ p \in Observer /\ p # o /\ p # Nobody
          /\ observer_indices[p] \in top.i + 1 .. top.n /\ observer_indices[p] \in Nat
      BY <1>2, <1>3, <1>7, <2>2 DEF Calls, O!ObserversAssumption
    <3>2. top.i \in Nat /\ top.n \in Nat
      BY <1>3 DEF Calls
    <3>3. observer_indices[p] \in 1..Len(observers) /\ observers[observer_indices[p]] = p
      BY <1>2, <3>1, <3>2 DEF Exact
    <3>4. observer_indices[p] # i
      BY <1>5, <3>1, <3>3
    <3>5. observer_indices[p] \notin top.i + 1 .. i - 1
      BY <1>4, <3>1, <3>3
    <3>6. QED
      BY <1>4, <1>7, <3>1, <3>2, <3>4, <3>5
  <2>4. QED
    BY <1>7, <2>2, <2>3
<1>11. \A k \in 1..Len(ws) : DueAhead(ws[k], Len(observers), observer_indices)
  BY <1>2, <1>9, <1>10
<1>12. Kept(observers, observer_indices, ws)
  BY <1>2, <1>9, <1>11 DEF Kept
<1>13. QED
  BY <1>1, <1>4, <1>12 DEF ObserversInv

\* Removing the empty slots keeps the index of each observer with its slot.
LEMMA SlotsCompacted ==
  ASSUME O!ObserversAssumption, ObserversInv, O!Compact
  PROVE  ObserversInv'
<1>1. PICK os, indices, ws, outer, F :
        /\ os = observers' /\ indices = observer_indices' /\ ws = walks'
        /\ outer = SubSeq(walks, 1, Len(walks) - 1) /\ F = O!Filled
  OBVIOUS
<1>2. /\ observers \in Seq(Slots) /\ Len(observers) \in Nat /\ DOMAIN observers = 1..Len(observers)
      /\ walks \in Seq(Calls) /\ observer_indices \in [Observer -> Nat]
      /\ Exact(observers, observer_indices)
      /\ \A k \in 1..Len(walks) : DueAhead(walks[k], Len(observers), observer_indices)
  BY DEF ObserversInv, Kept
<1>3. /\ Cardinality(F) \in Nat
      /\ \A k \in F : O!NewSlot(k) \in 1..Cardinality(F)
      /\ \A k, m \in F : O!NewSlot(k) = O!NewSlot(m) => k = m
      /\ \A s \in 1..Cardinality(F) : \E k \in F : O!NewSlot(k) = s
  BY <1>1, <1>2, SlotsFilled
<1>4. \A k : k \in F <=> k \in 1..Len(observers) /\ observers[k] # Nobody
  BY <1>1, <1>2 DEF O!Filled
<1>5. /\ os \in Seq(Slots) /\ Len(os) = Cardinality(F)
      /\ \A k \in F : os[O!NewSlot(k)] = observers[k]
  <2>1. os = [s \in 1..Cardinality(F) |-> observers[CHOOSE k \in F : O!NewSlot(k) = s]]
    <3>1. O!Cardinality(F) = Cardinality(F)
      BY DEF O!Cardinality, Cardinality
    <3>2. QED
      BY <1>1, <3>1 DEF O!Compact, O!Compacted
  <2>2. ASSUME NEW s \in 1..Cardinality(F)
        PROVE  os[s] \in Slots
    <3>1. PICK k \in F : k = CHOOSE m \in F : O!NewSlot(m) = s
      BY <1>3
    <3>2. os[s] = observers[k]
      BY <2>1, <3>1
    <3>3. QED
      BY <1>2, <1>4, <3>2
  <2>3. ASSUME NEW k \in F
        PROVE  os[O!NewSlot(k)] = observers[k]
    <3>1. k = CHOOSE m \in F : O!NewSlot(m) = O!NewSlot(k)
      BY <1>3
    <3>2. O!NewSlot(k) \in 1..Cardinality(F)
      BY <1>3
    <3>3. QED
      BY <2>1, <3>1, <3>2
  <2>4. os \in [1..Cardinality(F) -> Slots]
    BY <2>1, <2>2
  <2>5. QED
    BY <1>3, <2>3, <2>4, Listed
<1>6. /\ indices \in [Observer -> Nat]
      /\ \A k \in F : observers[k] \in Observer /\ indices[observers[k]] = O!NewSlot(k)
      /\ \A o \in Observer : indices[o] # 0 => \E k \in F : observers[k] = o
  <2>1. indices = [o \in Observer |-> IF \E k \in F : observers[k] = o
                                     THEN O!NewSlot(CHOOSE k \in F : observers[k] = o)
                                     ELSE observer_indices[o]]
    BY <1>1 DEF O!Compact, O!Reindexed
  <2>2. ASSUME NEW k \in F
        PROVE  observers[k] \in Observer /\ k = CHOOSE m \in F : observers[m] = observers[k]
    <3>1. \A m \in F : observer_indices[observers[m]] = m
      BY <1>2, <1>4 DEF Exact
    <3>2. \A m \in F : observers[m] = observers[k] => m = k
      BY <3>1
    <3>3. observers[k] \in Observer
      BY <1>2, <1>4 DEF Slots
    <3>4. QED
      BY <3>2, <3>3
  <2>3. ASSUME NEW o \in Observer
        PROVE  indices[o] \in Nat /\ (indices[o] # 0 => \E k \in F : observers[k] = o)
    <3>1. CASE \E k \in F : observers[k] = o
      <4>1. PICK k \in F : observers[k] = o
        BY <3>1
      <4>2. indices[o] = O!NewSlot(k)
        BY <2>1, <2>2, <4>1
      <4>3. QED
        BY <1>3, <3>1, <4>2
    <3>2. CASE ~ \E k \in F : observers[k] = o
      <4>1. observer_indices[o] = 0
        BY <1>2, <1>4, <3>2 DEF Exact, O!ObserversAssumption
      <4>2. QED
        BY <2>1, <3>2, <4>1
    <3>3. QED
      BY <3>1, <3>2
  <2>4. ASSUME NEW k \in F
        PROVE  indices[observers[k]] = O!NewSlot(k)
    BY <2>1, <2>2
  <2>5. indices \in [Observer -> Nat]
    BY <2>1, <2>3
  <2>6. QED
    BY <2>2, <2>3, <2>4, <2>5
<1>7. Exact(os, indices)
  <2>1. ASSUME NEW o \in Observer, indices[o] # 0
        PROVE  indices[o] \in 1..Len(os) /\ os[indices[o]] = o
    <3>1. PICK k \in F : observers[k] = o
      BY <1>6, <2>1
    <3>2. QED
      BY <1>3, <1>5, <1>6, <3>1
  <2>2. ASSUME NEW s \in 1..Len(os), os[s] # Nobody
        PROVE  indices[os[s]] = s
    <3>1. PICK k \in F : O!NewSlot(k) = s
      BY <1>3, <1>5
    <3>2. QED
      BY <1>5, <1>6, <3>1
  <2>3. QED
    BY <2>1, <2>2 DEF Exact
<1>8. /\ outer \in Seq(Calls) /\ \A k \in 1..Len(outer) : k \in 1..Len(walks) /\ outer[k] = walks[k]
  <2>1. walks # <<>> /\ Len(walks) - 1 \in Nat
    BY <1>2 DEF O!Compact
  <2>2. PICK last \in Nat : last = Len(walks) - 1
    BY <2>1
  <2>3. /\ outer \in Seq(Calls) /\ Len(outer) = last
        /\ \A k \in 1..last : outer[k] = walks[k]
    BY <1>1, <1>2, <2>2, SubSeqProperties
  <2>4. QED
    BY <1>2, <2>2, <2>3
<1>9. ws \in Seq(Calls) /\ \A k \in 1..Len(ws) : DueAhead(ws[k], Len(os), indices)
  <2>1. ws = IF os = observers THEN outer ELSE O!Disturbed(outer)
    BY <1>1 DEF O!Compact
  <2>2. CASE os = observers
    <3>1. ws = outer
      BY <2>1, <2>2
    <3>2. \A o \in Observer : indices[o] = observer_indices[o]
      BY <1>2, <1>7, <2>2 DEF Exact, O!ObserversAssumption
    <3>3. ASSUME NEW k \in 1..Len(ws)
          PROVE  DueAhead(ws[k], Len(os), indices)
      <4>1. DueAhead(ws[k], Len(os), observer_indices) /\ ws[k] \in Calls
        BY <1>2, <1>8, <2>2, <3>1
      <4>2. QED
        BY <3>2, <4>1 DEF DueAhead, Calls
    <3>4. QED
      BY <1>8, <3>1, <3>3
  <2>3. CASE os # observers
    <3>1. ws = O!Disturbed(outer)
      BY <2>1, <2>3
    <3>2. QED
      BY <1>8, <3>1, DisturbedKept
  <2>4. QED
    BY <2>2, <2>3
<1>10. Kept(os, indices, ws)
  BY <1>5, <1>6, <1>7, <1>9 DEF Kept
<1>11. QED
  BY <1>1, <1>10 DEF ObserversInv

\* A walk notifies every observer that is there from its start to its end, and
\* none twice or after it was removed, whatever the observers do in the middle
\* of it and of the walks inside (Observers).
THEOREM ObserversNotified == Spec => []NotifiedExactly
<1>1. Init => ObserversInv
  <2>1. SUFFICES ASSUME O!Init PROVE ObserversInv
    BY DEF Init
  <2>2. observers = <<>> /\ walks = <<>> /\ observer_indices = [o \in Observer |-> 0]
    BY <2>1 DEF O!Init
  <2>3. Exact(observers, observer_indices) /\ Len(walks) = 0
    BY <2>2 DEF Exact
  <2>4. QED
    BY <2>2, <2>3 DEF ObserversInv, Kept
<1>2. ObserversInv /\ [Next]_vars => ObserversInv'
  <2>1. SUFFICES ASSUME ObserversInv, [O!Next]_(O!vars) PROVE ObserversInv'
    BY PartsStep
  <2>2. CASE O!Next
    BY <2>1, <2>2, UtilitiesAssumption, ObserverAdded, ObserverRemoved, ObserversCleared, WalkStarted,
       ObserverNotified, SlotsCompacted DEF O!Next
  <2>3. CASE UNCHANGED O!vars
    BY <2>1, <2>3 DEF O!vars, ObserversInv
  <2>4. QED
    BY <2>1, <2>2, <2>3
<1>3. ObserversInv => NotifiedExactly
  <2>1. SUFFICES ASSUME ObserversInv PROVE O!NotifiedExactly
    BY DEF NotifiedExactly
  <2>2. /\ DOMAIN observers = 1..Len(observers) /\ DOMAIN walks = 1..Len(walks)
        /\ walks \in Seq(Calls) /\ observer_indices \in [Observer -> Nat]
        /\ Exact(observers, observer_indices)
        /\ \A k \in 1..Len(walks) : DueAhead(walks[k], Len(observers), observer_indices)
    BY <2>1 DEF ObserversInv, Kept
  <2>3. O!IndicesExact
    BY <2>2 DEF O!IndicesExact, O!Registered, Exact
  <2>4. ASSUME NEW k \in 1..Len(walks), ~ walks[k].moved, NEW o \in walks[k].due
        PROVE  \E j \in walks[k].i + 1 .. walks[k].n : observers[j] = o
    <3>1. walks[k] \in Calls /\ o \in Observer
      <4>1. walks[k] \in Calls
        BY <2>2, ElementOfSeq
      <4>2. QED
        BY <2>4, <4>1 DEF Calls
    <3>2. observer_indices[o] \in walks[k].i + 1 .. walks[k].n /\ observer_indices[o] # 0
      BY <2>2, <2>4, <3>1, SMTT(20) DEF DueAhead, Calls
    <3>3. observers[observer_indices[o]] = o
      BY <2>2, <3>1, <3>2 DEF Exact
    <3>4. QED
      BY <3>2, <3>3
  <2>5. O!WalkComplete
    BY <2>2, <2>4 DEF O!WalkComplete
  <2>6. QED
    BY <2>3, <2>5 DEF O!NotifiedExactly
<1>4. QED
  BY <1>1, <1>2, <1>3, PTL DEF Spec

-----------------------------------------------------------------------------
(* Unicode: what is read and written for one code point                    *)

\* A set of numbers has a least one: what is proved of code points in a
\* sequence, for every length, is proved by the shortest that would fail.
LEMMA Least ==
  ASSUME NEW S \in SUBSET Nat, S # {}
  PROVE  \E m \in S : \A k \in S : m <= k
<1>1. PICK x \in S : \A y \in S : ~(<<y, x>> \in OpToRel(<, Nat))
  BY NatLessThanWellFounded, WFMin
<1>2. \A y \in S : ~(y < x)
  BY <1>1 DEF OpToRel
<1>3. \A y \in S : x <= y
  BY <1>2
<1>4. QED
  BY <1>3

Bytes == {u \in Nat : u <= 255}
Scalars == {c \in Nat : U!Scalar(c)}

LEMMA Powers == 64 ^ 0 = 1 /\ 64 ^ 1 = 64 /\ 64 ^ 2 = 4096 /\ 64 ^ 3 = 262144
                /\ 2 ^ 25 = 33554432 /\ 2 ^ 26 = 67108864
BY Z3

\* Six more bits, where 32 hold them.
LEMMA ShiftedIs ==
  ASSUME NEW c \in Nat, c < 33554432
  PROVE  U!Shifted(c) = c * 64
<1>1. c % 67108864 = c
  BY SMTT(10) DEF Bytes
<1>2. QED
  BY <1>1, Powers, SMTT(10) DEF Bytes, U!Shifted

\* The bits of a code point, six by six.
LEMMA Digits ==
  ASSUME NEW c \in Nat, c <= \h10FFFF
  PROVE  /\ c = (c \div 64) * 64 + (c % 64) /\ c % 64 \in 0 .. 63
         /\ c \div 64 = (c \div 4096) * 64 + ((c \div 64) % 64) /\ (c \div 64) % 64 \in 0 .. 63
         /\ c \div 4096 = (c \div 262144) * 64 + ((c \div 4096) % 64) /\ (c \div 4096) % 64 \in 0 .. 63
         /\ c \div 64 \in Nat /\ c \div 4096 \in Nat /\ c \div 262144 \in 0 .. 4
<1>1. c \div 4096 = (c \div 64) \div 64
  BY SMTT(10) DEF Bytes
<1>2. c \div 262144 = (c \div 4096) \div 64
  BY SMTT(10) DEF Bytes
<1>3. \A q \in Nat : q = (q \div 64) * 64 + (q % 64) /\ q % 64 \in 0 .. 63
  BY SMTT(10) DEF Bytes
<1>4. c \div 64 \in Nat /\ c \div 4096 \in Nat /\ c \div 262144 \in 0 .. 4
  BY SMTT(10) DEF Bytes
<1>5. QED
  BY <1>1, <1>2, <1>3, <1>4, SMTT(10) DEF Bytes

LEMMA CharIs ==
  ASSUME NEW c, NEW units
  PROVE  /\ U!Char(c, units).c = c /\ U!Char(c, units).units = units
         /\ U!Throws.c = 0 /\ U!Throws.units = 0
         /\ units # 0 => U!Char(c, units) # U!Throws
<1>1. U!Char(c, units).c = c /\ U!Char(c, units).units = units
  BY DEF U!Char
<1>2. U!Throws.c = 0 /\ U!Throws.units = 0
  BY DEF U!Char, U!Throws
<1>3. QED
  BY <1>1, <1>2

LEMMA Strictly ==
  ASSUME NEW n
  PROVE  U!check_strict(n) = U!Char(\hFFFD, n) \/ U!check_strict(n) = U!Throws
BY SMT DEF U!check_strict

\* One to four bytes read, without their marks.
LEMMA BytesRead ==
  ASSUME NEW s, NEW k \in 1 .. 4, U!UTF8_BYTES(s[1]) = k - 1, Len(s) \in Nat, Len(s) >= k
  PROVE  U!code_point_utf8to32(s) = U!Char(U!Joined(0, s, k) - U!UTF8_OFFSETS[k], k)
<1>1. PICK bytes \in Nat : /\ bytes = U!UTF8_BYTES(s[1]) /\ bytes < 4 /\ bytes + 1 = k
                          /\ ~ (bytes >= Len(s))
  OBVIOUS
<1>2. U!Char(0, k).c = 0 /\ U!Char(0, k) # U!Throws
  BY CharIs
<1>3. QED
  BY <1>1, <1>2, Zenon DEF U!code_point_utf8to32

LEMMA Offsets ==
  /\ U!UTF8_OFFSETS[1] = 0 /\ U!UTF8_OFFSETS[2] = 12416
  /\ U!UTF8_OFFSETS[3] = 925824 /\ U!UTF8_OFFSETS[4] = 63447168
BY SMTT(10) DEF U!UTF8_OFFSETS

LEMMA Sums ==
  ASSUME NEW b1 \in Bytes, NEW b2 \in Bytes, NEW b3 \in Bytes, NEW b4 \in Bytes
  PROVE  /\ U!Shifted(0) + b1 = b1
         /\ U!Shifted(b1) + b2 = b1 * 64 + b2
         /\ U!Shifted(b1 * 64 + b2) + b3 = (b1 * 64 + b2) * 64 + b3
         /\ U!Shifted((b1 * 64 + b2) * 64 + b3) + b4 = ((b1 * 64 + b2) * 64 + b3) * 64 + b4
<1>1. /\ b1 \in Nat /\ b1 <= 255 /\ b2 \in Nat /\ b2 <= 255
      /\ b3 \in Nat /\ b3 <= 255 /\ b4 \in Nat /\ b4 <= 255
  BY DEF Bytes
<1>2. PICK c \in Nat, d \in Nat : c = b1 * 64 + b2 /\ d = c * 64 + b3 /\ c < 33554432 /\ d < 33554432
  BY <1>1, SMTT(10)
<1>3. U!Shifted(0) = 0 * 64 /\ U!Shifted(b1) = b1 * 64 /\ U!Shifted(c) = c * 64 /\ U!Shifted(d) = d * 64
  BY <1>1, <1>2, ShiftedIs, SMTT(10)
<1>4. QED
  BY <1>1, <1>2, <1>3, SMTT(10)

\* Up to four bytes shifted together.
LEMMA JoinedBytes ==
  ASSUME NEW s \in Seq(Bytes)
  PROVE  /\ Len(s) >= 1 => U!Joined(0, s, 1) = s[1]
         /\ Len(s) >= 2 => U!Joined(0, s, 2) = s[1] * 64 + s[2]
         /\ Len(s) >= 3 => U!Joined(0, s, 3) = (s[1] * 64 + s[2]) * 64 + s[3]
         /\ Len(s) >= 4 => U!Joined(0, s, 4) = ((s[1] * 64 + s[2]) * 64 + s[3]) * 64 + s[4]
<1>1. /\ U!Joined(0, s, 1) = U!Shifted(0) + s[1]
      /\ U!Joined(0, s, 2) = U!Shifted(U!Shifted(0) + s[1]) + s[2]
      /\ U!Joined(0, s, 3) = U!Shifted(U!Shifted(U!Shifted(0) + s[1]) + s[2]) + s[3]
      /\ U!Joined(0, s, 4) = U!Shifted(U!Shifted(U!Shifted(U!Shifted(0) + s[1]) + s[2]) + s[3]) + s[4]
  BY SMTT(10) DEF U!Joined
<1>2. ASSUME Len(s) >= 1
      PROVE  U!Joined(0, s, 1) = s[1]
  <2>1. s[1] \in Bytes
    BY <1>2
  <2>2. QED
    BY <1>1, <2>1, Sums
<1>3. ASSUME Len(s) >= 2
      PROVE  U!Joined(0, s, 2) = s[1] * 64 + s[2]
  <2>1. s[1] \in Bytes /\ s[2] \in Bytes
    BY <1>3
  <2>2. QED
    BY <1>1, <2>1, Sums
<1>4. ASSUME Len(s) >= 3
      PROVE  U!Joined(0, s, 3) = (s[1] * 64 + s[2]) * 64 + s[3]
  <2>1. s[1] \in Bytes /\ s[2] \in Bytes /\ s[3] \in Bytes
    BY <1>4
  <2>2. QED
    BY <1>1, <2>1, Sums
<1>5. ASSUME Len(s) >= 4
      PROVE  U!Joined(0, s, 4) = ((s[1] * 64 + s[2]) * 64 + s[3]) * 64 + s[4]
  <2>1. s[1] \in Bytes /\ s[2] \in Bytes /\ s[3] \in Bytes /\ s[4] \in Bytes
    BY <1>5
  <2>2. QED
    BY <1>1, <2>1, Sums
<1>6. QED
  BY <1>2, <1>3, <1>4, <1>5

\* Characters of one to four bytes.
LEMMA Read1 ==
  ASSUME NEW s \in Seq(Bytes), Len(s) >= 1, s[1] < 128
  PROVE  U!code_point_utf8to32(s) = U!Char(s[1], 1)
<1>1. s[1] \in Nat /\ Len(s) \in Nat
  BY DEF Bytes
<1>2. U!UTF8_BYTES(s[1]) = 1 - 1 /\ Len(s) >= 1
  BY <1>1, SMTT(10) DEF U!UTF8_BYTES
<1>3. U!code_point_utf8to32(s) = U!Char(U!Joined(0, s, 1) - U!UTF8_OFFSETS[1], 1)
  BY <1>1, <1>2, BytesRead
<1>4. U!Joined(0, s, 1) = s[1]
  BY <1>2, JoinedBytes
<1>5. QED
  BY <1>1, <1>3, <1>4, Offsets, SMTT(20)

LEMMA Read2 ==
  ASSUME NEW s \in Seq(Bytes), NEW j, j = s[1] * 64 + s[2],
         Len(s) >= 2, 192 <= s[1], s[1] <= 223
  PROVE  U!code_point_utf8to32(s) = U!Char(j - 12416, 2)
<1>1. s[1] \in Nat /\ Len(s) \in Nat
  BY DEF Bytes
<1>2. U!UTF8_BYTES(s[1]) = 2 - 1 /\ Len(s) >= 2
  BY <1>1, SMTT(10) DEF U!UTF8_BYTES
<1>3. U!code_point_utf8to32(s) = U!Char(U!Joined(0, s, 2) - U!UTF8_OFFSETS[2], 2)
  BY <1>1, <1>2, BytesRead
<1>4. U!Joined(0, s, 2) = j
  BY <1>2, JoinedBytes
<1>5. QED
  BY <1>3, <1>4, Offsets, SMTT(20)

LEMMA Read3 ==
  ASSUME NEW s \in Seq(Bytes), NEW j, j = (s[1] * 64 + s[2]) * 64 + s[3],
         Len(s) >= 3, 224 <= s[1], s[1] <= 239
  PROVE  U!code_point_utf8to32(s) = U!Char(j - 925824, 3)
<1>1. s[1] \in Nat /\ Len(s) \in Nat
  BY DEF Bytes
<1>2. U!UTF8_BYTES(s[1]) = 3 - 1 /\ Len(s) >= 3
  BY <1>1, SMTT(10) DEF U!UTF8_BYTES
<1>3. U!code_point_utf8to32(s) = U!Char(U!Joined(0, s, 3) - U!UTF8_OFFSETS[3], 3)
  BY <1>1, <1>2, BytesRead
<1>4. U!Joined(0, s, 3) = j
  BY <1>2, JoinedBytes
<1>5. QED
  BY <1>3, <1>4, Offsets, SMTT(20)

LEMMA Read4 ==
  ASSUME NEW s \in Seq(Bytes), NEW j, j = ((s[1] * 64 + s[2]) * 64 + s[3]) * 64 + s[4],
         Len(s) >= 4, 240 <= s[1], s[1] <= 247
  PROVE  U!code_point_utf8to32(s) = U!Char(j - 63447168, 4)
<1>1. s[1] \in Nat /\ Len(s) \in Nat
  BY DEF Bytes
<1>2. U!UTF8_BYTES(s[1]) = 4 - 1 /\ Len(s) >= 4
  BY <1>1, SMTT(10) DEF U!UTF8_BYTES
<1>3. U!code_point_utf8to32(s) = U!Char(U!Joined(0, s, 4) - U!UTF8_OFFSETS[4], 4)
  BY <1>1, <1>2, BytesRead
<1>4. U!Joined(0, s, 4) = j
  BY <1>2, JoinedBytes
<1>5. QED
  BY <1>3, <1>4, Offsets, SMTT(20)

\* What is read at the start of a text whose first code point is c is c
\* (code_point_utf8to32()).
LEMMA ReadBack8 ==
  ASSUME NEW c \in Scalars, NEW rest \in Seq(Bytes), NEW w, w = U!Utf8(c)
  PROVE  /\ w \in Seq(Bytes) /\ Len(w) \in 1 .. 4
         /\ U!code_point_utf8to32(w \o rest) = U!Char(c, Len(w))
<1>0. PICK q1 \in Nat, q2 \in Nat, q3 \in Nat, r0 \in Nat, r1 \in Nat, r2 \in Nat :
        /\ q1 = c \div 64 /\ q2 = c \div 4096 /\ q3 = c \div 262144
        /\ r0 = c % 64 /\ r1 = q1 % 64 /\ r2 = q2 % 64
        /\ c = q1 * 64 + r0 /\ q1 = q2 * 64 + r1 /\ q2 = q3 * 64 + r2
        /\ r0 < 64 /\ r1 < 64 /\ r2 < 64 /\ q3 <= 4
  <2>0. c \in Nat /\ c <= \h10FFFF
    BY SMTT(10) DEF Scalars, U!Scalar
  <2>1. /\ c \div 64 \in Nat /\ c \div 4096 \in Nat /\ c \div 262144 \in Nat
        /\ c % 64 \in Nat /\ (c \div 64) % 64 \in Nat /\ (c \div 4096) % 64 \in Nat
        /\ c % 64 < 64 /\ (c \div 64) % 64 < 64 /\ (c \div 4096) % 64 < 64 /\ c \div 262144 <= 4
    BY <2>0, Digits, SMTT(10)
  <2>2. QED
    BY <2>0, <2>1, Digits, SMTT(10)
<1>1. /\ c \in Nat /\ U!Utf8(c) = IF c < 128 THEN <<c>>
                  ELSE IF c < 2048 THEN <<192 + q1, 128 + r0>>
                  ELSE IF c < 65536 THEN <<224 + q2, 128 + r1, 128 + r0>>
                  ELSE <<240 + q3, 128 + r2, 128 + r1, 128 + r0>>
  BY <1>0, Powers, SMTT(10) DEF U!Utf8, Scalars, U!Scalar
<1>2. CASE c < 128
  <2>1. PICK a : a = c
    OBVIOUS
  <2>2. a \in Bytes
    BY <1>0, <1>1, <1>2, <2>1, SMTT(10) DEF Bytes
  <2>3. w = <<a>>
    BY <1>1, <1>2, <2>1, SMTT(10)
  <2>4. PICK s : s = w \o rest
    OBVIOUS
  <2>5. /\ w \in Seq(Bytes) /\ Len(w) = 1
        /\ s \in Seq(Bytes) /\ Len(s) >= 1 /\ s[1] = a
    BY <2>2, <2>3, <2>4, SMTT(10)
  <2>6. a = c /\ a < 128
    BY <1>0, <1>1, <1>2, <2>1, SMTT(10)
  <2>7. U!code_point_utf8to32(s) = U!Char(a, 1)
    BY <2>5, <2>6, Read1, SMTT(10)
  <2>8. QED
    BY <2>4, <2>5, <2>6, <2>7, SMTT(10)
<1>3. CASE ~ (c < 128) /\ c < 2048
  <2>1. PICK a, b : a = 192 + q1 /\ b = 128 + r0
    OBVIOUS
  <2>2. a \in Bytes /\ b \in Bytes
    BY <1>0, <1>1, <1>3, <2>1, SMTT(10) DEF Bytes
  <2>3. w = <<a, b>>
    BY <1>1, <1>3, <2>1, SMTT(10)
  <2>4. PICK s : s = w \o rest
    OBVIOUS
  <2>5. /\ w \in Seq(Bytes) /\ Len(w) = 2
        /\ s \in Seq(Bytes) /\ Len(s) >= 2 /\ s[1] = a /\ s[2] = b
    BY <2>2, <2>3, <2>4, SMTT(10)
  <2>6. a * 64 + b - 12416 = c /\ 192 <= a /\ a <= 223
    BY <1>0, <1>1, <1>3, <2>1, SMTT(10)
  <2>7. PICK j \in Int : j = a * 64 + b
    BY <2>2, SMTT(10) DEF Bytes
  <2>8. U!code_point_utf8to32(s) = U!Char(j - 12416, 2)
    BY <2>5, <2>6, <2>7, Read2, SMTT(10)
  <2>9. j - 12416 = c
    BY <2>2, <2>6, <2>7, SMTT(10) DEF Bytes
  <2>10. QED
    BY <2>4, <2>5, <2>8, <2>9, SMTT(10)
<1>4. CASE ~ (c < 128) /\ ~ (c < 2048) /\ c < 65536
  <2>1. PICK a, b, d : a = 224 + q2 /\ b = 128 + r1 /\ d = 128 + r0
    OBVIOUS
  <2>2. a \in Bytes /\ b \in Bytes /\ d \in Bytes
    BY <1>0, <1>1, <1>4, <2>1, SMTT(10) DEF Bytes
  <2>3. w = <<a, b, d>>
    BY <1>1, <1>4, <2>1, SMTT(10)
  <2>4. PICK s : s = w \o rest
    OBVIOUS
  <2>5. /\ w \in Seq(Bytes) /\ Len(w) = 3
        /\ s \in Seq(Bytes) /\ Len(s) >= 3 /\ s[1] = a /\ s[2] = b /\ s[3] = d
    BY <2>2, <2>3, <2>4, SMTT(10)
  <2>6. (a * 64 + b) * 64 + d - 925824 = c /\ 224 <= a /\ a <= 239
    BY <1>0, <1>1, <1>4, <2>1, SMTT(10)
  <2>7. PICK j \in Int : j = (a * 64 + b) * 64 + d
    BY <2>2, SMTT(10) DEF Bytes
  <2>8. U!code_point_utf8to32(s) = U!Char(j - 925824, 3)
    BY <2>5, <2>6, <2>7, Read3, SMTT(10)
  <2>9. j - 925824 = c
    BY <2>2, <2>6, <2>7, SMTT(10) DEF Bytes
  <2>10. QED
    BY <2>4, <2>5, <2>8, <2>9, SMTT(10)
<1>5. CASE ~ (c < 128) /\ ~ (c < 2048) /\ ~ (c < 65536)
  <2>1. PICK a, b, d, e : a = 240 + q3 /\ b = 128 + r2 /\ d = 128 + r1 /\ e = 128 + r0
    OBVIOUS
  <2>2. a \in Bytes /\ b \in Bytes /\ d \in Bytes /\ e \in Bytes
    BY <1>0, <1>1, <1>5, <2>1, SMTT(10) DEF Bytes
  <2>3. w = <<a, b, d, e>>
    BY <1>1, <1>5, <2>1, SMTT(10)
  <2>4. PICK s : s = w \o rest
    OBVIOUS
  <2>5. /\ w \in Seq(Bytes) /\ Len(w) = 4
        /\ s \in Seq(Bytes) /\ Len(s) >= 4 /\ s[1] = a /\ s[2] = b /\ s[3] = d /\ s[4] = e
    BY <2>2, <2>3, <2>4, SMTT(10)
  <2>6. ((a * 64 + b) * 64 + d) * 64 + e - 63447168 = c /\ 240 <= a /\ a <= 247
    BY <1>0, <1>1, <1>5, <2>1, SMTT(10)
  <2>7. PICK j \in Int : j = ((a * 64 + b) * 64 + d) * 64 + e
    BY <2>2, SMTT(10) DEF Bytes
  <2>8. U!code_point_utf8to32(s) = U!Char(j - 63447168, 4)
    BY <2>5, <2>6, <2>7, Read4, SMTT(10)
  <2>9. j - 63447168 = c
    BY <2>2, <2>6, <2>7, SMTT(10) DEF Bytes
  <2>10. QED
    BY <2>4, <2>5, <2>8, <2>9, SMTT(10)
<1>6. QED
  BY <1>2, <1>3, <1>4, <1>5, SMTT(10)

LEMMA Marks ==
  /\ U!FIRST_BYTE_MARK[1] = 0 /\ U!FIRST_BYTE_MARK[2] = 192
  /\ U!FIRST_BYTE_MARK[3] = 224 /\ U!FIRST_BYTE_MARK[4] = 240
BY SMTT(10) DEF U!FIRST_BYTE_MARK

Two(c) == <<192 + (c \div 64), 128 + (c % 64)>>
Three(c) == <<224 + (c \div 4096), 128 + ((c \div 64) % 64), 128 + (c % 64)>>
Four(c) == <<240 + (c \div 262144), 128 + ((c \div 4096) % 64),
             128 + ((c \div 64) % 64), 128 + (c % 64)>>

LEMMA WrittenBytes ==
  ASSUME NEW c \in Nat
  PROVE  /\ U!BytesOf(c, 1) = <<c>> /\ U!BytesOf(c, 2) = Two(c)
         /\ U!BytesOf(c, 3) = Three(c) /\ U!BytesOf(c, 4) = Four(c)
<1>0. c \div 1 = c
  OBVIOUS
<1>1. U!BytesOf(c, 1) = <<c>>
  BY <1>0, Powers, Marks, SMTT(10) DEF U!BytesOf
<1>2. U!BytesOf(c, 2) = Two(c)
  BY <1>0, Powers, Marks, SMTT(10) DEF U!BytesOf, Two
<1>3. U!BytesOf(c, 3) = Three(c)
  BY <1>0, Powers, Marks, SMTT(10) DEF U!BytesOf, Three
<1>4. U!BytesOf(c, 4) = Four(c)
  BY <1>0, Powers, Marks, SMTT(10) DEF U!BytesOf, Four
<1>5. QED
  BY <1>1, <1>2, <1>3, <1>4

\* The cases that fall through write UTF-8.
LEMMA WritesUtf8 ==
  ASSUME NEW c \in Nat
  PROVE  U!BytesOf(c, U!BytesFor(c)) = U!Utf8(c) /\ U!BytesFor(c) \in 1 .. 4
<1>1. CASE c < 128
  <2>1. U!Utf8(c) = <<c>> /\ U!BytesFor(c) = 1
    BY <1>1, SMTT(10) DEF U!Utf8, U!BytesFor
  <2>2. QED
    BY <2>1, WrittenBytes
<1>2. CASE ~ (c < 128) /\ c < 2048
  <2>1. U!Utf8(c) = Two(c) /\ U!BytesFor(c) = 2
    BY <1>2, SMTT(10) DEF U!Utf8, U!BytesFor, Two
  <2>2. QED
    BY <2>1, WrittenBytes
<1>3. CASE ~ (c < 128) /\ ~ (c < 2048) /\ c < 65536
  <2>1. U!Utf8(c) = Three(c) /\ U!BytesFor(c) = 3
    BY <1>3, Powers, SMTT(10) DEF U!Utf8, U!BytesFor, Three
  <2>2. QED
    BY <2>1, WrittenBytes
<1>4. CASE ~ (c < 128) /\ ~ (c < 2048) /\ ~ (c < 65536)
  <2>1. U!Utf8(c) = Four(c) /\ U!BytesFor(c) = 4
    BY <1>4, Powers, SMTT(10) DEF U!Utf8, U!BytesFor, Four
  <2>2. QED
    BY <2>1, WrittenBytes
<1>5. QED
  BY <1>1, <1>2, <1>3, <1>4, SMTT(10)

\* code_point_utf32to8() writes a code point in UTF-8 if there is room for
\* it, and another in the place of what is none.
LEMMA InSpaceType ==
  ASSUME NEW c \in Int
  PROVE  U!InSpace(c).c \in Nat
<1>1. U!InSpace(c) = U!check_strict(1) \/ (U!InSpace(c) = U!Char(c, 1) /\ 0 <= c)
  BY SMTT(10) DEF U!InSpace
<1>2. U!InSpace(c).c \in {0, \hFFFD} \/ (U!InSpace(c).c = c /\ 0 <= c)
  BY <1>1, Strictly, CharIs, SMTT(10)
<1>3. QED
  BY <1>2, SMTT(10)

LEMMA ScalarInSpace ==
  ASSUME NEW c \in Scalars
  PROVE  c \in Nat /\ U!InSpace(c) = U!Char(c, 1)
BY SMTT(10) DEF Scalars, U!Scalar, U!InSpace

\* code_point_utf32to8() writes UTF-8 or nothing, whatever it is given.
LEMMA Write8 ==
  ASSUME NEW c \in Int, NEW room \in Int
  PROVE  LET w == U!code_point_utf32to8(c, room) IN
         \/ w = <<>>
         \/ \E d \in Nat : w = U!Utf8(d)
<1>1. U!code_point_utf32to8(c, room)
        \in {<<>>, U!BytesOf(U!InSpace(c).c, U!BytesFor(U!InSpace(c).c))}
  BY Zenon DEF U!code_point_utf32to8
<1>2. QED
  BY <1>1, InSpaceType, WritesUtf8, Zenon

\* It writes a code point for which there is room.
LEMMA WriteScalar8 ==
  ASSUME NEW c \in Scalars, NEW room \in Int, room >= 4
  PROVE  U!code_point_utf32to8(c, room) = U!Utf8(c)
<1>1. c \in Nat /\ U!InSpace(c) = U!Char(c, 1)
  BY ScalarInSpace
<1>2. U!InSpace(c).c = c /\ U!InSpace(c) # U!Throws
  BY <1>1, CharIs, SMTT(10)
<1>3. ~ (U!BytesFor(c) > room) /\ U!BytesOf(c, U!BytesFor(c)) = U!Utf8(c)
  BY <1>1, WritesUtf8, SMTT(10)
<1>4. QED
  BY <1>2, <1>3, Zenon DEF U!code_point_utf32to8

\* code_point_utf32to16() writes UTF-16.
LEMMA Write16 ==
  ASSUME NEW c \in Scalars
  PROVE  U!code_point_utf32to16(c) = U!Utf16(c)
<1>1. c \in Nat /\ c <= \h10FFFF /\ ~ (\hD800 <= c /\ c <= \hDBFF) /\ ~ (\hDC00 <= c /\ c <= \hDFFF)
  BY SMTT(10) DEF Scalars, U!Scalar, U!IsHigh, U!IsLow
<1>2. CASE c < \h10000
  <2>1. U!code_point_utf32to16(c) = IF U!Char(c, 1) = U!Throws THEN <<>> ELSE <<U!Char(c, 1).c>>
    BY <1>1, <1>2, SMTT(10) DEF U!code_point_utf32to16
  <2>2. U!Utf16(c) = <<c>>
    BY <1>2, SMTT(10) DEF U!Utf16
  <2>3. U!Char(c, 1).c = c /\ U!Char(c, 1) # U!Throws
    BY CharIs, SMTT(10)
  <2>4. QED
    BY <2>1, <2>2, <2>3, Zenon
<1>3. CASE ~ (c < \h10000)
  BY <1>1, <1>3, SMTT(10) DEF U!code_point_utf32to16, U!Utf16
<1>4. QED
  BY <1>2, <1>3, SMTT(10)

Words == {u \in Nat : u <= 65535}

\* Its units are read back (code_point_utf16to32()).
LEMMA ReadBack16 ==
  ASSUME NEW c \in Scalars, NEW rest \in Seq(Words)
  PROVE  /\ U!Utf16(c) \in Seq(Words) /\ Len(U!Utf16(c)) \in 1 .. 2
         /\ U!code_point_utf16to32(U!Utf16(c) \o rest) = U!Char(c, Len(U!Utf16(c)))
<1>1. c \in Nat /\ c <= \h10FFFF /\ ~ (\hD800 <= c /\ c <= \hDBFF) /\ ~ (\hDC00 <= c /\ c <= \hDFFF)
  BY SMTT(10) DEF Scalars, U!Scalar, U!IsHigh, U!IsLow
<1>2. CASE c < \h10000
  <2>1. c \in Words
    BY <1>1, <1>2, SMTT(10) DEF Words
  <2>2. U!Utf16(c) = <<c>>
    BY <1>2, SMTT(10) DEF U!Utf16
  <2>3. PICK s : s = <<c>> \o rest
    OBVIOUS
  <2>4. s[1] = c
    BY <2>1, <2>3, SMTT(10)
  <2>5. ~ U!IsHigh(c) /\ ~ U!IsLow(c)
    BY <1>1, SMTT(10) DEF U!IsHigh, U!IsLow
  <2>6. U!code_point_utf16to32(s) = U!Char(c, 1)
    BY <2>4, <2>5, SMTT(10) DEF U!code_point_utf16to32
  <2>7. <<c>> \in Seq(Words) /\ Len(<<c>>) = 1
    BY <2>1, SMTT(10)
  <2>8. QED
    BY <2>2, <2>3, <2>6, <2>7, SMTT(10)
<1>3. CASE ~ (c < \h10000)
  <2>0. PICK n \in Nat, q \in Nat, r \in Nat :
          n = c - \h10000 /\ q = n \div 1024 /\ r = n % 1024
    BY <1>1, <1>3, SMTT(10)
  <2>1. c = \h10000 + (q * 1024 + r) /\ r < 1024 /\ q < 1024
    <3>1. n = (n \div 1024) * 1024 + (n % 1024) /\ n % 1024 < 1024
      BY SMTT(10)
    <3>2. n = q * 1024 + r /\ r < 1024
      BY ONLY <2>0, <3>1, SMTT(10)
    <3>3. n < 1048576 /\ c = \h10000 + n
      BY <1>1, <2>0, SMTT(10)
    <3>4. QED
      BY ONLY <3>2, <3>3, n \in Nat, q \in Nat, r \in Nat, c \in Nat, SMTT(10)
  <2>2. PICK a \in Nat, b \in Nat : a = \hD800 + q /\ b = \hDC00 + r
    BY SMTT(10)
  <2>3. a \in Words /\ b \in Words
    BY <2>1, <2>2, SMTT(10) DEF Words
  <2>4. U!Utf16(c) = <<a, b>>
    BY <1>1, <1>3, <2>0, <2>2, SMTT(10) DEF U!Utf16
  <2>5. PICK s : s = <<a, b>> \o rest
    OBVIOUS
  <2>6. s[1] = a /\ s[2] = b /\ Len(s) > 1
    BY <2>3, <2>5, SMTT(10)
  <2>7. U!IsHigh(a) /\ U!IsLow(b)
    BY <2>1, <2>2, SMTT(10) DEF U!IsHigh, U!IsLow
  <2>8. (a - \hD800) * 1024 + (b - \hDC00) + \h10000 = c
    BY <2>1, <2>2, SMTT(10)
  <2>9. U!code_point_utf16to32(s) = U!Char(c, 2)
    BY <2>6, <2>7, <2>8, SMTT(10) DEF U!code_point_utf16to32
  <2>10. <<a, b>> \in Seq(Words) /\ Len(<<a, b>>) = 2
    BY <2>3, SMTT(10)
  <2>11. QED
    BY <2>4, <2>5, <2>9, <2>10, SMTT(10)
<1>4. QED
  BY <1>2, <1>3, SMTT(10)

-----------------------------------------------------------------------------
(* One step of any text *)

LEMMA UnitTypes ==
  /\ U!UnitsOf(8) = Bytes /\ U!UnitsOf(16) = Words /\ U!UnitsOf(32) = Int
  /\ Bytes \subseteq Int /\ Words \subseteq Int
<1>1. U!UnitsOf(8) = Bytes
  BY DEF U!UnitsOf, Bytes
<1>2. U!UnitsOf(16) = Words
  BY DEF U!UnitsOf, Words
<1>3. U!UnitsOf(32) = Int
  BY DEF U!UnitsOf
<1>4. QED
  BY <1>1, <1>2, <1>3, SMT DEF Bytes, Words

LEMMA Decoders ==
  /\ U!from = 8 => U!Decoded = U!code_point_utf8to32(src)
  /\ U!from = 16 => U!Decoded = U!code_point_utf16to32(src)
  /\ U!from = 32 => U!Decoded = U!Char(src[1], 1)
<1>1. U!from = 8 => U!Decoded = U!code_point_utf8to32(src)
  BY DEF U!Decoded
<1>2. U!from = 16 => U!Decoded = U!code_point_utf16to32(src)
  BY DEF U!Decoded
<1>3. U!from = 32 => U!Decoded = U!Char(src[1], 1)
  BY DEF U!Decoded
<1>4. QED
  BY <1>1, <1>2, <1>3

LEMMA Encoders ==
  ASSUME NEW c
  PROVE  /\ U!to = 8 => U!Encoded(c) = U!code_point_utf32to8(c, U!dstlen - Len(dst))
         /\ U!to = 16 => U!Encoded(c) = U!code_point_utf32to16(c)
         /\ U!to = 32 => U!Encoded(c) = <<c>>
<1>1. U!to = 8 => U!Encoded(c) = U!code_point_utf32to8(c, U!dstlen - Len(dst))
  BY DEF U!Encoded
<1>2. U!to = 16 => U!Encoded(c) = U!code_point_utf32to16(c)
  BY DEF U!Encoded
<1>3. U!to = 32 => U!Encoded(c) = <<c>>
  BY DEF U!Encoded
<1>4. QED
  BY <1>1, <1>2, <1>3

\* What the decoders read: of the bytes of a character all are there, and a
\* single one is a small code point.
LEMMA ShiftedType ==
  ASSUME NEW c \in Int, NEW byte \in Int
  PROVE  U!Shifted(c) + byte \in Int
<1>1. c % 67108864 \in Int
  BY SMTT(10)
<1>2. U!Shifted(c) \in Int
  BY <1>1, Powers, SMTT(10) DEF U!Shifted
<1>3. QED
  BY <1>2

LEMMA JoinedType ==
  ASSUME NEW s \in Seq(Bytes), NEW c \in Int, NEW n \in 1 .. 4, n <= Len(s)
  PROVE  U!Joined(c, s, n) \in Int
<1>1. \A i \in 1 .. n : s[i] \in Int
  BY DEF Bytes
<1>2. PICK c1 : c1 = U!Shifted(c) + s[1]
  OBVIOUS
<1>3. PICK c2 : c2 = U!Shifted(c1) + s[2]
  OBVIOUS
<1>4. PICK c3 : c3 = U!Shifted(c2) + s[3]
  OBVIOUS
<1>5. PICK c4 : c4 = U!Shifted(c3) + s[4]
  OBVIOUS
<1>6. s[1] \in Int /\ (n >= 2 => s[2] \in Int) /\ (n >= 3 => s[3] \in Int) /\ (n >= 4 => s[4] \in Int)
  BY <1>1
<1>7. (n >= 4 => n >= 3) /\ (n >= 3 => n >= 2)
  OBVIOUS
<1>8. c1 \in Int
  BY <1>2, <1>6, ShiftedType, Zenon
<1>9. n >= 2 => c2 \in Int
  BY <1>3, <1>6, <1>8, ShiftedType, Zenon
<1>10. n >= 3 => c3 \in Int
  BY <1>4, <1>6, <1>7, <1>9, ShiftedType, Zenon
<1>11. n >= 4 => c4 \in Int
  BY <1>5, <1>6, <1>7, <1>10, ShiftedType, Zenon
<1>12. U!Joined(c, s, n) = IF n = 1 THEN c1 ELSE IF n = 2 THEN c2 ELSE IF n = 3 THEN c3 ELSE c4
  BY <1>2, <1>3, <1>4, <1>5, Zenon DEF U!Joined
<1>13. QED
  BY <1>8, <1>9, <1>10, <1>11, <1>12

LEMMA Decoded8 ==
  ASSUME NEW s \in Seq(Bytes), s # <<>>, U!code_point_utf8to32(s) # U!Throws
  PROVE  LET char == U!code_point_utf8to32(s) IN
         /\ char.c \in Int /\ char.units \in 1 .. 4 /\ char.units <= Len(s)
         /\ char.units = 1 => char.c <= 255
<1>1. PICK bytes \in 0 .. 5, used \in 1 .. 4 :
        bytes = U!UTF8_BYTES(s[1]) /\ used = IF bytes < 4 THEN bytes + 1 ELSE 4
  BY SMTT(10) DEF U!UTF8_BYTES
<1>2. PICK start : start = IF bytes < 4 THEN U!Char(0, used) ELSE U!check_strict(used)
  OBVIOUS
<1>3. start.c \in Int
  BY <1>2, Strictly, CharIs, SMTT(10)
<1>4. /\ ~ (bytes >= Len(s))
      /\ U!code_point_utf8to32(s) =
           U!Char(U!Joined(start.c, s, used) - U!UTF8_OFFSETS[bytes + 1], used)
  BY <1>1, <1>2, Zenon DEF U!code_point_utf8to32
<1>5. used <= Len(s) /\ Len(s) \in Nat
  BY <1>1, <1>4
<1>6. U!UTF8_OFFSETS[bytes + 1] \in Int
  BY SMTT(10) DEF U!UTF8_OFFSETS
<1>7. U!Joined(start.c, s, used) - U!UTF8_OFFSETS[bytes + 1] \in Int
  <2>1. PICK j \in Int : j = start.c
    BY <1>3
  <2>2. U!Joined(j, s, used) \in Int
    BY <1>5, JoinedType
  <2>3. QED
    BY <1>6, <2>1, <2>2
<1>8. ASSUME used = 1
      PROVE  U!Joined(start.c, s, used) - U!UTF8_OFFSETS[bytes + 1] <= 255
  <2>1. bytes = 0 /\ start = U!Char(0, used)
    BY <1>1, <1>2, <1>8
  <2>2. start.c = 0 /\ U!Joined(start.c, s, used) = s[1]
    BY <1>5, <1>8, <2>1, CharIs, JoinedBytes
  <2>3. s[1] \in Bytes
    BY <1>5, <1>8
  <2>4. QED
    BY <2>1, <2>2, <2>3, Offsets, SMTT(10) DEF Bytes
<1>9. QED
  BY <1>4, <1>5, <1>7, <1>8, CharIs

LEMMA Decoded16 ==
  ASSUME NEW s \in Seq(Words), s # <<>>, U!code_point_utf16to32(s) # U!Throws
  PROVE  U!code_point_utf16to32(s).c \in Int /\ U!code_point_utf16to32(s).units \in 1 .. 2
<1>1. PICK next : next = IF Len(s) > 1 THEN s[2] ELSE 0
  OBVIOUS
<1>2. s[1] \in Int /\ next \in Int
  BY <1>1 DEF Words
<1>3. PICK c \in Int : c = (s[1] - \hD800) * 1024 + (next - \hDC00) + \h10000
  BY <1>2, SMTT(10)
<1>4. U!code_point_utf16to32(s) \in {U!Char(c, 2), U!check_strict(2), U!check_strict(1), U!Char(s[1], 1)}
  BY <1>1, <1>3, SMTT(10) DEF U!code_point_utf16to32
<1>5. \/ U!code_point_utf16to32(s) \in {U!Char(c, 2), U!Char(s[1], 1)}
      \/ U!code_point_utf16to32(s) \in {U!Char(\hFFFD, 2), U!Char(\hFFFD, 1)}
  BY <1>4, Strictly, SMTT(10)
<1>6. QED
  BY <1>2, <1>5, CharIs, SMTT(10)
-----------------------------------------------------------------------------
(* Texts in an encoding *)

\* How InEncoding() adds the n-th code point.
Step(e, p, f, n) == IF n = 0 THEN <<>> ELSE f[n - 1] \o U!InUnits(e, p[n])
UpTo(e, p, N, f) == f = [n \in 0 .. N |-> Step(e, p, f, n)]

Grows(e, p, N, f) ==
  /\ f[0] = <<>>
  /\ \A n \in 1 .. N : f[n] = f[n - 1] \o U!InUnits(e, p[n])

LEMMA Steps ==
  ASSUME NEW e, NEW p, NEW f
  PROVE  /\ Step(e, p, f, 0) = <<>>
         /\ \A n : n # 0 => Step(e, p, f, n) = f[n - 1] \o U!InUnits(e, p[n])
BY Zenon DEF Step

LEMMA UpToChosen ==
  ASSUME NEW e, NEW p
  PROVE  U!InEncoding(e, p) = (CHOOSE f : UpTo(e, p, Len(p), f))[Len(p)]
BY DEF U!InEncoding, UpTo, Step

LEMMA UpToGrows ==
  ASSUME NEW e, NEW p, NEW N \in Nat, NEW f, UpTo(e, p, N, f)
  PROVE  Grows(e, p, N, f)
<1>1. \A n \in 0 .. N : f[n] = Step(e, p, f, n)
  BY Zenon DEF UpTo
<1>2. 0 \in 0 .. N /\ \A n \in 1 .. N : n \in 0 .. N /\ n # 0
  OBVIOUS
<1>3. f[0] = <<>>
  BY <1>1, <1>2, Steps, Zenon
<1>4. ASSUME NEW n \in 1 .. N
      PROVE  f[n] = f[n - 1] \o U!InUnits(e, p[n])
  <2>1. f[n] = Step(e, p, f, n) /\ n # 0
    BY <1>1, <1>2, Zenon
  <2>2. QED
    BY <2>1, Zenon DEF Step
<1>5. QED
  BY <1>3, <1>4, Zenon DEF Grows

\* The units of the first n code points, for each n: they are a function.
LEMMA UpToExists ==
  ASSUME NEW e, NEW p, NEW N \in Nat
  PROVE  \E f : UpTo(e, p, N, f)
<1>1. SUFFICES ASSUME ~ \E f : UpTo(e, p, N, f)
               PROVE  FALSE
  OBVIOUS
<1>2. PICK m \in Nat : /\ ~ \E f : UpTo(e, p, m, f)
                       /\ \A k \in Nat : (~ \E f : UpTo(e, p, k, f)) => m <= k
  <2>1. PICK S : S = {k \in Nat : ~ \E f : UpTo(e, p, k, f)}
    OBVIOUS
  <2>2. S \in SUBSET Nat /\ S # {}
    BY <1>1, <2>1
  <2>3. PICK m \in S : \A k \in S : m <= k
    BY <2>2, Least
  <2>4. QED
    BY <2>1, <2>3
<1>3. CASE m = 0
  <2>1. PICK f : f = [n \in 0 .. 0 |-> <<>>]
    OBVIOUS
  <2>2. \A n \in 0 .. 0 : Step(e, p, f, n) = <<>>
    <3>1. Step(e, p, f, 0) = <<>>
      BY Steps
    <3>2. \A n \in 0 .. 0 : n = 0
      OBVIOUS
    <3>3. QED
      BY <3>1, <3>2, Zenon
  <2>3. UpTo(e, p, 0, f)
    BY <2>1, <2>2, Zenon DEF UpTo
  <2>4. QED
    BY <1>2, <1>3, <2>3
<1>4. CASE m # 0
  <2>1. m - 1 \in Nat /\ m - 1 < m
    BY <1>4
  <2>2. PICK g : UpTo(e, p, m - 1, g)
    BY <1>2, <2>1
  <2>3. PICK f : f = [n \in 0 .. m |-> IF n = m THEN Step(e, p, g, m) ELSE g[n]]
    OBVIOUS
  <2>4. ASSUME NEW n \in 0 .. m
        PROVE  f[n] = Step(e, p, f, n)
    <3>1. CASE n = 0
      <4>1. f[n] = g[0]
        BY <1>4, <2>3, <3>1
      <4>2. g[0] = <<>>
        BY <2>1, <2>2, UpToGrows DEF Grows
      <4>3. QED
        BY <3>1, <4>1, <4>2, Steps
    <3>2. CASE n # 0
      <4>1. f[n - 1] = g[n - 1]
        BY <2>3, <3>2
      <4>2. Step(e, p, f, n) = Step(e, p, g, n)
        BY <3>2, <4>1, Zenon DEF Step
      <4>3. CASE n = m
        BY <2>3, <4>2, <4>3
      <4>4. CASE n # m
        <5>1. n \in 1 .. m - 1 /\ f[n] = g[n]
          BY <2>3, <3>2, <4>4
        <5>2. g[n] = Step(e, p, g, n)
          <6>1. Grows(e, p, m - 1, g)
            BY <2>1, <2>2, UpToGrows
          <6>2. g[n] = g[n - 1] \o U!InUnits(e, p[n])
            BY <5>1, <6>1, Zenon DEF Grows
          <6>3. QED
            BY <3>2, <6>2, Steps, Zenon
        <5>3. QED
          BY <4>2, <5>1, <5>2
      <4>5. QED
        BY <4>3, <4>4
    <3>3. QED
      BY <3>1, <3>2
  <2>5. f = [n \in 0 .. m |-> f[n]]
    BY <2>3, Zenon
  <2>6. UpTo(e, p, m, f)
    BY <2>4, <2>5, Zenon DEF UpTo
  <2>7. QED
    BY <1>2, <2>6
<1>5. QED
  BY <1>3, <1>4

LEMMA InEncodingIs ==
  ASSUME NEW e, NEW p, Len(p) \in Nat
  PROVE  \E f : UpTo(e, p, Len(p), f) /\ U!InEncoding(e, p) = f[Len(p)]
<1>1. PICK N \in Nat : N = Len(p)
  OBVIOUS
<1>2. \E f : UpTo(e, p, N, f)
  BY UpToExists
<1>3. UpTo(e, p, N, CHOOSE f : UpTo(e, p, N, f))
  BY <1>2
<1>4. QED
  BY <1>1, <1>3, UpToChosen

\* They depend on those code points alone.
LEMMA UpToAgree ==
  ASSUME NEW e, NEW p, NEW q, NEW N \in Nat, NEW M \in Nat, NEW f, NEW g, N <= M,
         UpTo(e, p, N, f), UpTo(e, q, M, g), \A i \in 1 .. N : p[i] = q[i]
  PROVE  f[N] = g[N]
<1>1. SUFFICES ASSUME \E n \in 0 .. N : f[n] # g[n]
               PROVE  FALSE
  OBVIOUS
<1>2. PICK m \in 0 .. N : f[m] # g[m] /\ \A k \in 0 .. N : f[k] # g[k] => m <= k
  <2>1. PICK S : S = {k \in Nat : k <= N /\ f[k] # g[k]}
    OBVIOUS
  <2>2. S \in SUBSET Nat /\ S # {}
    BY <1>1, <2>1
  <2>3. PICK m \in S : \A k \in S : m <= k
    BY <2>2, Least
  <2>4. QED
    BY <2>1, <2>3
<1>3. Grows(e, p, N, f)
  BY UpToGrows
<1>4. Grows(e, q, M, g)
  BY UpToGrows
<1>5. m # 0
  BY <1>2, <1>3, <1>4, Zenon DEF Grows
<1>6. f[m - 1] = g[m - 1] /\ p[m] = q[m]
  BY <1>2, <1>5
<1>7. m \in 1 .. N /\ m \in 1 .. M
  BY <1>5
<1>8. f[m] = f[m - 1] \o U!InUnits(e, p[m])
  BY <1>3, <1>7, Zenon DEF Grows
<1>9. g[m] = g[m - 1] \o U!InUnits(e, q[m])
  BY <1>4, <1>7, Zenon DEF Grows
<1>10. QED
  BY <1>2, <1>6, <1>8, <1>9

\* A text and one more code point: their units follow.
LEMMA OneMore ==
  ASSUME NEW e, NEW D, NEW p \in Seq(D), NEW c \in D
  PROVE  /\ U!InEncoding(e, <<>>) = <<>>
         /\ U!InEncoding(e, p \o <<c>>) = U!InEncoding(e, p) \o U!InUnits(e, c)
<1>1. U!InEncoding(e, <<>>) = <<>>
  <2>1. Len(<<>>) = 0
    OBVIOUS
  <2>2. PICK f : UpTo(e, <<>>, 0, f) /\ U!InEncoding(e, <<>>) = f[0]
    BY <2>1, InEncodingIs
  <2>3. QED
    BY <2>2, UpToGrows DEF Grows
<1>2. PICK N \in Nat : N = Len(p)
  OBVIOUS
<1>3. PICK q : q = p \o <<c>>
  OBVIOUS
<1>4. Len(q) = N + 1 /\ q[N + 1] = c /\ \A i \in 1 .. N : p[i] = q[i]
  BY <1>2, <1>3
<1>5. PICK f : UpTo(e, p, N, f) /\ U!InEncoding(e, p) = f[N]
  BY <1>2, InEncodingIs
<1>6. PICK g : UpTo(e, q, N + 1, g) /\ U!InEncoding(e, q) = g[N + 1]
  BY <1>4, InEncodingIs
<1>7. f[N] = g[N]
  BY <1>4, <1>5, <1>6, UpToAgree
<1>8. g[N + 1] = g[N] \o U!InUnits(e, q[N + 1])
  <2>1. N + 1 \in Nat /\ N + 1 \in 1 .. N + 1 /\ (N + 1) - 1 = N
    OBVIOUS
  <2>2. Grows(e, q, N + 1, g)
    BY <1>6, <2>1, UpToGrows
  <2>3. g[N + 1] = g[(N + 1) - 1] \o U!InUnits(e, q[N + 1])
    BY <2>1, <2>2, Zenon DEF Grows
  <2>4. QED
    BY <2>1, <2>3
<1>9. QED
  BY <1>1, <1>3, <1>4, <1>5, <1>6, <1>7, <1>8

-----------------------------------------------------------------------------
LEMMA InUnitsIs ==
  ASSUME NEW c
  PROVE  /\ U!InUnits(8, c) = U!Utf8(c) /\ U!InUnits(16, c) = U!Utf16(c)
         /\ U!InUnits(32, c) = <<c>>
<1>1. U!InUnits(8, c) = U!Utf8(c)
  BY DEF U!InUnits
<1>2. U!InUnits(16, c) = U!Utf16(c)
  BY DEF U!InUnits
<1>3. U!InUnits(32, c) = <<c>>
  BY DEF U!InUnits
<1>4. QED
  BY <1>1, <1>2, <1>3

LEMMA UnitsFit ==
  ASSUME NEW e \in U!Encodings, NEW c \in Scalars
  PROVE  U!InUnits(e, c) \in Seq(U!UnitsOf(e)) /\ Len(U!InUnits(e, c)) \in 1 .. 4
<1>1. CASE e = 8
  <2>1. U!Utf8(c) \in Seq(Bytes) /\ Len(U!Utf8(c)) \in 1 .. 4
    BY ReadBack8, EmptySeq
  <2>2. QED
    BY <1>1, <2>1, InUnitsIs, UnitTypes, Zenon
<1>2. CASE e = 16
  <2>1. U!Utf16(c) \in Seq(Words) /\ Len(U!Utf16(c)) \in 1 .. 2
    BY ReadBack16, EmptySeq
  <2>2. Len(U!Utf16(c)) \in 1 .. 4
    BY <2>1
  <2>3. QED
    BY <1>2, <2>1, <2>2, InUnitsIs, UnitTypes, Zenon
<1>3. CASE e = 32
  <2>1. c \in Int
    BY DEF Scalars
  <2>2. <<c>> \in Seq(Int) /\ Len(<<c>>) \in 1 .. 4
    BY <2>1
  <2>3. QED
    BY <1>3, <2>2, InUnitsIs, UnitTypes, Zenon
<1>4. QED
  BY <1>1, <1>2, <1>3 DEF U!Encodings

\* The encoding of a text begins with the units of its first code point.
Opens(e, p) ==
  /\ U!InEncoding(e, p) \in Seq(U!UnitsOf(e))
  /\ \A c \in Scalars : U!InEncoding(e, <<c>> \o p) = U!InUnits(e, c) \o U!InEncoding(e, p)

LEMMA OpensEmpty ==
  ASSUME NEW e \in U!Encodings
  PROVE  Opens(e, <<>>)
<1>1. <<>> \in Seq(Scalars) /\ <<>> \in Seq(U!UnitsOf(e))
  BY EmptySeq
<1>2. U!InEncoding(e, <<>>) = <<>>
  <2>1. <<>> \in Seq({0}) /\ 0 \in {0}
    BY EmptySeq
  <2>2. QED
    BY <2>1, OneMore, Zenon
<1>3. ASSUME NEW c \in Scalars
      PROVE  U!InEncoding(e, <<c>> \o <<>>) = U!InUnits(e, c) \o <<>>
  <2>1. U!InEncoding(e, <<>> \o <<c>>) = <<>> \o U!InUnits(e, c)
    BY <1>1, <1>2, OneMore
  <2>2. <<c>> \in Seq(Scalars)
    OBVIOUS
  <2>3. <<>> \o <<c>> = <<c>> /\ <<c>> \o <<>> = <<c>>
    BY <2>2, ConcatEmptySeq
  <2>4. <<>> \o U!InUnits(e, c) = U!InUnits(e, c) /\ U!InUnits(e, c) \o <<>> = U!InUnits(e, c)
    BY UnitsFit, ConcatEmptySeq
  <2>5. QED
    BY <2>1, <2>3, <2>4, Zenon
<1>4. QED
  BY <1>1, <1>2, <1>3 DEF Opens

LEMMA OpensMore ==
  ASSUME NEW e \in U!Encodings, NEW p \in Seq(Scalars), NEW d \in Scalars, Opens(e, p)
  PROVE  Opens(e, p \o <<d>>)
<1>1. PICK V : V = U!UnitsOf(e)
  OBVIOUS
<1>2. PICK x, w : x = U!InEncoding(e, p) /\ w = U!InUnits(e, d)
  OBVIOUS
<1>3. x \in Seq(V) /\ w \in Seq(V)
  BY <1>1, <1>2, UnitsFit DEF Opens
<1>4. U!InEncoding(e, p \o <<d>>) = x \o w
  BY <1>2, OneMore
<1>5. x \o w \in Seq(V)
  BY <1>3, ConcatProperties
<1>6. ASSUME NEW c \in Scalars
      PROVE  U!InEncoding(e, <<c>> \o (p \o <<d>>)) = U!InUnits(e, c) \o (x \o w)
  <2>1. PICK u : u = U!InUnits(e, c)
    OBVIOUS
  <2>2. u \in Seq(V)
    BY <1>1, <2>1, UnitsFit
  <2>3. <<c>> \in Seq(Scalars) /\ <<d>> \in Seq(Scalars)
    OBVIOUS
  <2>4. <<c>> \o p \in Seq(Scalars) /\ (<<c>> \o p) \o <<d>> = <<c>> \o (p \o <<d>>)
    BY <2>3, ConcatProperties, ConcatAssociative
  <2>5. U!InEncoding(e, (<<c>> \o p) \o <<d>>) = U!InEncoding(e, <<c>> \o p) \o w
    BY <1>2, <2>4, OneMore
  <2>6. U!InEncoding(e, <<c>> \o p) = u \o x
    BY <1>2, <2>1, Zenon DEF Opens
  <2>7. (u \o x) \o w = u \o (x \o w)
    BY <1>3, <2>2, ConcatAssociative
  <2>8. QED
    BY <2>1, <2>4, <2>5, <2>6, <2>7, Zenon
<1>7. QED
  BY <1>1, <1>4, <1>5, <1>6, Zenon DEF Opens

\* It does: the shortest text of which it does not has one code point more
\* than one of which it does.
LEMMA AllOpen ==
  ASSUME NEW e \in U!Encodings, NEW p \in Seq(Scalars)
  PROVE  Opens(e, p)
<1>1. SUFFICES ASSUME ~ Opens(e, p)
               PROVE  FALSE
  OBVIOUS
<1>2. PICK S : S = {k \in Nat : \E q \in Seq(Scalars) : Len(q) = k /\ ~ Opens(e, q)}
  OBVIOUS
<1>3. S \in SUBSET Nat /\ S # {}
  <2>1. Len(p) \in Nat
    OBVIOUS
  <2>2. Len(p) \in S
    BY <1>1, <1>2, <2>1, Zenon
  <2>3. QED
    BY <1>2, <2>2, Zenon
<1>4. PICK m \in S : \A k \in S : m <= k
  BY <1>3, Least
<1>5. m \in Nat /\ \E r \in Seq(Scalars) : Len(r) = m /\ ~ Opens(e, r)
  BY <1>2, Zenon
<1>6. PICK q \in Seq(Scalars) : Len(q) = m /\ ~ Opens(e, q)
  BY <1>5
<1>7. m # 0
  <2>1. SUFFICES ASSUME m = 0
                 PROVE  FALSE
    OBVIOUS
  <2>2. q = <<>>
    BY <1>6, <2>1, EmptySeq
  <2>3. QED
    BY <1>6, <2>2, OpensEmpty
<1>8. PICK r, d : r = SubSeq(q, 1, m - 1) /\ d = q[m]
  OBVIOUS
<1>9. d \in Scalars /\ r \in Seq(Scalars) /\ Len(r) = m - 1 /\ m - 1 \in Nat
  <2>1. m \in 1 .. Len(q) /\ \A i \in 1 .. m - 1 : q[i] \in Scalars
    BY <1>5, <1>6, <1>7
  <2>2. QED
    BY <1>5, <1>6, <1>7, <1>8, <2>1, SubSeqProperties
<1>10. q = r \o <<d>>
  <2>1. 1 \in 1 .. Len(q) /\ m \in 1 .. Len(q)
    BY <1>5, <1>6, <1>7
  <2>2. SubSeq(q, 1, m) = SubSeq(q, 1, m - 1) \o <<q[m]>>
    BY <2>1, SubSeqRecursiveSecond
  <2>3. QED
    BY <1>6, <1>8, <2>2, SubSeqFull
<1>11. Opens(e, r)
  <2>1. SUFFICES ASSUME ~ Opens(e, r)
                 PROVE  FALSE
    OBVIOUS
  <2>2. m - 1 \in S
    BY <1>2, <1>9, <2>1, Zenon
  <2>3. QED
    BY <1>4, <1>5, <2>2
<1>12. QED
  BY <1>6, <1>9, <1>10, <1>11, OpensMore

-----------------------------------------------------------------------------
(* One step of a conversion *)

LEMMA Lengths ==
  /\ \A n \in 1 .. 4 : n # 0
  /\ \A n \in 1 .. 2 : n \in 1 .. 4 /\ n <= 2
OBVIOUS

\* Units written for a code point that is legal or not.
LEMMA Utf8Length ==
  ASSUME NEW d \in Nat
  PROVE  U!Utf8(d) \in Seq(Int) /\ Len(U!Utf8(d)) \in 1 .. 4
<1>1. /\ d \div 64 \in Int /\ d \div 4096 \in Int /\ d \div 262144 \in Int
      /\ d % 64 \in Int /\ (d \div 64) % 64 \in Int /\ (d \div 4096) % 64 \in Int
  BY SMTT(10)
<1>2. U!Utf8(d) \in {<<d>>, Two(d), Three(d), Four(d)}
  <2>1. U!BytesOf(d, U!BytesFor(d)) \in {<<d>>, Two(d), Three(d), Four(d)}
    BY WritesUtf8, WrittenBytes
  <2>2. QED
    BY <2>1, WritesUtf8, Zenon
<1>3. <<d>> \in Seq(Int) /\ Len(<<d>>) \in 1 .. 4
  OBVIOUS
<1>4. Two(d) \in Seq(Int) /\ Len(Two(d)) \in 1 .. 4
  BY <1>1, SMTT(10) DEF Two
<1>5. Three(d) \in Seq(Int) /\ Len(Three(d)) \in 1 .. 4
  BY <1>1, SMTT(10) DEF Three
<1>6. Four(d) \in Seq(Int) /\ Len(Four(d)) \in 1 .. 4
  BY <1>1, SMTT(10) DEF Four
<1>7. QED
  BY <1>2, <1>3, <1>4, <1>5, <1>6, Zenon

LEMMA Written16 ==
  ASSUME NEW c \in Int, U!code_point_utf32to16(c) # <<>>
  PROVE  /\ U!code_point_utf32to16(c) \in Seq(Int) /\ Len(U!code_point_utf32to16(c)) \in 1 .. 2
         /\ c <= 255 => Len(U!code_point_utf32to16(c)) = 1
<1>1. PICK one : one = IF 0 <= c /\ c <= \hFFFF /\ ~ (\hD800 <= c /\ c <= \hDC00)
                       THEN U!Char(c, 1) ELSE U!check_strict(1)
  OBVIOUS
<1>2. one.c \in Int
  BY <1>1, Strictly, CharIs, SMTT(10)
<1>3. CASE \hFFFF < c /\ c <= \h10FFFF
  <2>1. PICK h \in Int, l \in Int : /\ h = \hD800 + ((c - \h10000) \div 1024)
                                  /\ l = \hDC00 + ((c - \h10000) % 1024)
    BY SMTT(10)
  <2>2. U!code_point_utf32to16(c) = <<h, l>>
    BY <1>3, <2>1, SMTT(10) DEF U!code_point_utf32to16
  <2>3. ~ (c <= 255)
    BY <1>3, SMTT(10)
  <2>4. QED
    BY <2>2, <2>3, SMTT(10)
<1>4. CASE ~ (\hFFFF < c /\ c <= \h10FFFF)
  <2>1. U!code_point_utf32to16(c) = IF one = U!Throws THEN <<>> ELSE <<one.c>>
    BY <1>1, <1>4, SMTT(10) DEF U!code_point_utf32to16
  <2>2. U!code_point_utf32to16(c) = <<one.c>>
    BY <2>1, Zenon
  <2>3. QED
    BY <1>2, <2>2
<1>5. QED
  BY <1>3, <1>4, SMTT(10)

LEMMA Written ==
  ASSUME NEW c \in Int, U!to \in U!Encodings, U!dstlen - Len(dst) \in Int, U!Encoded(c) # <<>>
  PROVE  /\ U!Encoded(c) \in Seq(Int) /\ Len(U!Encoded(c)) \in 1 .. 4
         /\ U!to = 16 => Len(U!Encoded(c)) <= 2
         /\ U!to = 16 /\ c <= 255 => Len(U!Encoded(c)) = 1
         /\ U!to = 32 => Len(U!Encoded(c)) = 1
<1>1. CASE U!to = 8
  <2>1. \E d \in Nat : U!Encoded(c) = U!Utf8(d)
    BY <1>1, Encoders, Write8
  <2>2. U!Encoded(c) \in Seq(Int) /\ Len(U!Encoded(c)) \in 1 .. 4
    BY <2>1, Utf8Length, Zenon
  <2>3. QED
    BY <1>1, <2>2
<1>2. CASE U!to = 16
  <2>1. PICK w : w = U!code_point_utf32to16(c)
    OBVIOUS
  <2>2. U!Encoded(c) = w
    BY <1>2, <2>1, Encoders
  <2>3. w \in Seq(Int) /\ Len(w) \in 1 .. 2 /\ (c <= 255 => Len(w) = 1)
    BY <2>1, <2>2, Written16
  <2>4. Len(w) \in 1 .. 4 /\ Len(w) <= 2
    BY <2>3, Lengths, Zenon
  <2>5. U!to # 32
    BY <1>2
  <2>6. QED
    BY <2>2, <2>3, <2>4, <2>5, Zenon
<1>3. CASE U!to = 32
  <2>1. U!Encoded(c) = <<c>>
    BY <1>3, Encoders
  <2>2. QED
    BY <1>3, <2>1
<1>4. QED
  BY <1>1, <1>2, <1>3 DEF U!Encodings

\* A step reads one to four units; a byte alone is a small code point.
LEMMA Read ==
  ASSUME U!from \in U!Encodings, src \in Seq(U!UnitsOf(U!from)), src # <<>>, U!Decoded # U!Throws
  PROVE  /\ U!Decoded.c \in Int /\ U!Decoded.units \in 1 .. 4
         /\ U!from = 8 => U!Decoded.units <= Len(src)
         /\ U!from = 8 /\ U!Decoded.units = 1 => U!Decoded.c <= 255
<1>1. CASE U!from = 8
  <2>1. src \in Seq(Bytes) /\ U!Decoded = U!code_point_utf8to32(src)
    BY <1>1, Decoders, UnitTypes
  <2>2. QED
    BY <2>1, Decoded8
<1>2. CASE U!from = 16
  <2>1. src \in Seq(Words) /\ U!Decoded = U!code_point_utf16to32(src)
    BY <1>2, Decoders, UnitTypes
  <2>2. QED
    BY <1>2, <2>1, Decoded16
<1>3. CASE U!from = 32
  <2>1. src \in Seq(Int) /\ U!Decoded = U!Char(src[1], 1)
    BY <1>3, Decoders, UnitTypes
  <2>2. src[1] \in Int
    BY <2>1
  <2>3. QED
    BY <1>3, <2>1, <2>2, CharIs
<1>4. QED
  BY <1>1, <1>2, <1>3 DEF U!Encodings

\* A text that begins with the units of a code point loses just them.
LEMMA Dropped ==
  ASSUME NEW D, NEW w \in Seq(D), NEW rest \in Seq(D), Len(w) # 0
  PROVE  SubSeq(w \o rest, Len(w) + 1, Len(w \o rest)) = rest
<1>1. PICK s, n : s = w \o rest /\ n = Len(w)
  OBVIOUS
<1>2. /\ s \in Seq(D) /\ Len(s) = n + Len(rest) /\ n \in Nat \ {0} /\ Len(rest) \in Nat
      /\ \A i \in 1 .. Len(rest) : s[n + i] = rest[i]
  BY <1>1, ConcatProperties, LenProperties
<1>3. PICK t : t = SubSeq(s, n + 1, Len(s))
  OBVIOUS
<1>4. /\ n + 1 \in Int /\ Len(s) \in Int /\ \A i \in n + 1 .. Len(s) : s[i] \in D
      /\ Len(s) - (n + 1) + 1 = Len(rest)
  BY <1>2
<1>5. /\ t \in Seq(D) /\ Len(t) = IF n + 1 <= Len(s) THEN Len(s) - (n + 1) + 1 ELSE 0
      /\ \A i \in 1 .. Len(s) - (n + 1) + 1 : t[i] = s[(n + 1) + i - 1]
  BY <1>3, <1>4, SubSeqProperties
<1>6. Len(t) = Len(rest) /\ \A i \in 1 .. Len(t) : t[i] = rest[i]
  BY <1>2, <1>4, <1>5
<1>7. t = rest
  BY <1>5, <1>6, SeqEqual
<1>8. QED
  BY <1>1, <1>3, <1>7

\* A text that begins with a code point: it is read, and written, as it is.
LEMMA ReadsScalar ==
  ASSUME U!from \in U!Encodings, NEW c \in Scalars, NEW rest \in Seq(U!UnitsOf(U!from)),
         src = U!InUnits(U!from, c) \o rest
  PROVE  /\ U!Decoded = U!Char(c, Len(U!InUnits(U!from, c)))
         /\ SubSeq(src, Len(U!InUnits(U!from, c)) + 1, Len(src)) = rest
<1>1. PICK w : w = U!InUnits(U!from, c)
  OBVIOUS
<1>2. w \in Seq(U!UnitsOf(U!from)) /\ Len(w) \in 1 .. 4
  BY <1>1, UnitsFit
<1>3. Len(w) # 0
  BY <1>2, Lengths, Zenon
<1>4. SubSeq(w \o rest, Len(w) + 1, Len(w \o rest)) = rest
  BY <1>2, <1>3, Dropped
<1>5. CASE U!from = 8
  <2>1. rest \in Seq(Bytes) /\ w = U!Utf8(c) /\ U!Decoded = U!code_point_utf8to32(src)
    BY <1>1, <1>5, UnitTypes, InUnitsIs, Decoders
  <2>2. U!code_point_utf8to32(w \o rest) = U!Char(c, Len(w))
    BY <2>1, ReadBack8
  <2>3. QED
    BY <1>1, <1>4, <2>1, <2>2, Zenon
<1>6. CASE U!from = 16
  <2>1. rest \in Seq(Words) /\ w = U!Utf16(c) /\ U!Decoded = U!code_point_utf16to32(src)
    BY <1>1, <1>6, UnitTypes, InUnitsIs, Decoders
  <2>2. U!code_point_utf16to32(w \o rest) = U!Char(c, Len(w))
    BY <2>1, ReadBack16
  <2>3. QED
    BY <1>1, <1>4, <2>1, <2>2, Zenon
<1>7. CASE U!from = 32
  <2>1. rest \in Seq(Int) /\ w = <<c>> /\ U!Decoded = U!Char(src[1], 1)
    BY <1>1, <1>7, UnitTypes, InUnitsIs, Decoders
  <2>2. c \in Int
    BY DEF Scalars
  <2>3. (<<c>> \o rest)[1] = c /\ Len(<<c>>) = 1
    BY <2>1, <2>2
  <2>4. QED
    BY <1>1, <1>4, <2>1, <2>3, Zenon
<1>8. QED
  BY <1>5, <1>6, <1>7 DEF U!Encodings

LEMMA WritesScalar ==
  ASSUME U!to \in U!Encodings, NEW c \in Scalars, U!dstlen - Len(dst) \in Int,
         U!to = 8 => U!dstlen - Len(dst) >= 4
  PROVE  U!Encoded(c) = U!InUnits(U!to, c) /\ U!Encoded(c) # <<>>
<1>1. U!Encoded(c) = U!InUnits(U!to, c)
  <2>1. CASE U!to = 8
    BY <2>1, Encoders, InUnitsIs, WriteScalar8
  <2>2. CASE U!to = 16
    BY <2>2, Encoders, InUnitsIs, Write16
  <2>3. CASE U!to = 32
    BY <2>3, Encoders, InUnitsIs
  <2>4. QED
    BY <2>1, <2>2, <2>3 DEF U!Encodings
<1>2. Len(U!InUnits(U!to, c)) # 0
  BY UnitsFit, Lengths, Zenon
<1>3. QED
  BY <1>1, <1>2, EmptySeq

\* Between two steps a legal text is in two parts: what is written is the
\* first, in the new encoding, and what is left the second, in the old one.
Halfway(p, e, f, s, d) ==
  \E a \in Seq(Scalars), b \in Seq(Scalars) :
    p = a \o b /\ d = U!InEncoding(f, a) /\ s = U!InEncoding(e, b)

\* Only the empty text has no units.
LEMMA NoneLeft ==
  ASSUME NEW e \in U!Encodings, NEW b \in Seq(Scalars)
  PROVE  /\ U!InEncoding(e, <<>>) = <<>>
         /\ U!InEncoding(e, b) = <<>> => b = <<>>
         /\ b # <<>> => \E c \in Scalars, r \in Seq(Scalars) : b = <<c>> \o r
<1>1. U!InEncoding(e, <<>>) = <<>>
  <2>1. 0 \in {0} /\ <<>> \in Seq({0})
    BY EmptySeq
  <2>2. QED
    BY <2>1, OneMore, Zenon
<1>2. ASSUME b # <<>>
      PROVE  \E c \in Scalars, r \in Seq(Scalars) : b = <<c>> \o r
  <2>1. 1 \in 1 .. Len(b) /\ Len(b) \in 1 .. Len(b) /\ Len(b) \in Nat
    BY <1>2, EmptySeq
  <2>2. SubSeq(b, 1, Len(b)) = <<b[1]>> \o SubSeq(b, 1 + 1, Len(b))
    BY <2>1, SubSeqRecursiveFirst
  <2>3. b[1] \in Scalars /\ 1 + 1 \in Int /\ \A i \in 1 + 1 .. Len(b) : b[i] \in Scalars
    BY <2>1
  <2>4. SubSeq(b, 1 + 1, Len(b)) \in Seq(Scalars)
    BY <2>1, <2>3, SubSeqProperties
  <2>5. QED
    BY <2>2, <2>3, <2>4, SubSeqFull
<1>3. ASSUME b # <<>>
      PROVE  U!InEncoding(e, b) # <<>>
  <2>1. PICK c \in Scalars, r \in Seq(Scalars) : b = <<c>> \o r
    BY <1>2, <1>3
  <2>2. PICK w, x : w = U!InUnits(e, c) /\ x = U!InEncoding(e, r)
    OBVIOUS
  <2>3. U!InEncoding(e, b) = w \o x /\ x \in Seq(U!UnitsOf(e))
    BY <2>1, <2>2, AllOpen, Zenon DEF Opens
  <2>4. w \in Seq(U!UnitsOf(e)) /\ w # <<>>
    <3>1. w \in Seq(U!UnitsOf(e)) /\ Len(w) # 0
      BY <2>2, UnitsFit, Lengths, Zenon
    <3>2. QED
      BY <3>1, EmptySeq
  <2>5. QED
    BY <2>3, <2>4, ConcatEqualIffEmpty
<1>4. QED
  BY <1>1, <1>2, <1>3

\* A step of a legal text is never refused: it reads the first code point of
\* the second part and writes it after the first.
LEMMA HalfwayStep ==
  ASSUME U!from \in U!Encodings, U!to \in U!Encodings, NEW p,
         Halfway(p, U!from, U!to, src, dst), src # <<>>,
         U!dstlen - Len(dst) \in Int, U!to = 8 => U!dstlen - Len(dst) >= 4
  PROVE  /\ U!Decoded # U!Throws /\ U!Encoded(U!Decoded.c) # <<>>
         /\ Halfway(p, U!from, U!to, SubSeq(src, U!Decoded.units + 1, Len(src)),
                    dst \o U!Encoded(U!Decoded.c))
<1>1. PICK a \in Seq(Scalars), b \in Seq(Scalars) :
        p = a \o b /\ dst = U!InEncoding(U!to, a) /\ src = U!InEncoding(U!from, b)
  BY Zenon DEF Halfway
<1>2. b # <<>>
  BY <1>1, NoneLeft, Zenon
<1>3. PICK c \in Scalars, r \in Seq(Scalars) : b = <<c>> \o r
  BY <1>2, NoneLeft
<1>4. PICK rest : rest = U!InEncoding(U!from, r)
  OBVIOUS
<1>5. rest \in Seq(U!UnitsOf(U!from)) /\ src = U!InUnits(U!from, c) \o rest
  <2>1. Opens(U!from, r)
    BY AllOpen
  <2>2. QED
    BY <1>1, <1>3, <1>4, <2>1, Zenon DEF Opens
<1>6. /\ U!Decoded = U!Char(c, Len(U!InUnits(U!from, c)))
      /\ SubSeq(src, Len(U!InUnits(U!from, c)) + 1, Len(src)) = rest
  BY <1>5, ReadsScalar
<1>7. /\ U!Decoded.c = c /\ U!Decoded # U!Throws
      /\ SubSeq(src, U!Decoded.units + 1, Len(src)) = rest
  <2>1. Len(U!InUnits(U!from, c)) # 0
    BY UnitsFit, Lengths, Zenon
  <2>2. QED
    BY <1>6, <2>1, CharIs, Zenon
<1>8. U!Encoded(c) = U!InUnits(U!to, c) /\ U!Encoded(c) # <<>>
  BY WritesScalar
<1>9. U!InEncoding(U!to, a \o <<c>>) = dst \o U!Encoded(c)
  BY <1>1, <1>8, OneMore, Zenon
<1>10. <<c>> \in Seq(Scalars)
  OBVIOUS
<1>11. a \o <<c>> \in Seq(Scalars) /\ p = (a \o <<c>>) \o r
  <2>1. a \o <<c>> \in Seq(Scalars)
    BY <1>10, ConcatProperties
  <2>2. (a \o <<c>>) \o r = a \o (<<c>> \o r)
    BY <1>10, ConcatAssociative
  <2>3. QED
    BY <1>1, <1>3, <2>1, <2>2, Zenon
<1>12. Halfway(p, U!from, U!to, rest, dst \o U!Encoded(c))
  BY <1>4, <1>9, <1>11, Zenon DEF Halfway
<1>13. QED
  BY <1>7, <1>8, <1>12, Zenon

LEMMA Pairs ==
  ASSUME NEW D, NEW a \in D, NEW b \in D
  PROVE  <<a>> \in Seq(D) /\ <<b>> \in Seq(D) /\ <<a>> \o <<b>> = <<a, b>>
<1>1. <<a>> \in Seq(D) /\ <<b>> \in Seq(D) /\ <<a, b>> \in Seq(D)
  OBVIOUS
<1>2. PICK x, y, z : x = <<a>> /\ y = <<b>> /\ z = <<a>> \o <<b>>
  OBVIOUS
<1>3. /\ z \in Seq(D) /\ Len(z) = Len(x) + Len(y)
      /\ \A i \in 1 .. Len(x) + Len(y) : z[i] = IF i <= Len(x) THEN x[i] ELSE y[i - Len(x)]
  BY <1>1, <1>2, ConcatProperties
<1>4. Len(x) = 1 /\ Len(y) = 1 /\ x[1] = a /\ y[1] = b
  BY <1>2
<1>5. Len(z) = 2 /\ z[1] = a /\ z[2] = b
  BY <1>3, <1>4
<1>6. Len(z) = Len(<<a, b>>) /\ \A i \in 1 .. Len(z) : z[i] = <<a, b>>[i]
  BY <1>5
<1>7. QED
  BY <1>1, <1>2, <1>3, <1>6, SeqEqual

\* A strict step from UTF-16 takes the units of a code point off the text.
LEMMA StrictStep ==
  ASSUME strict, NEW s \in Seq(Words), s # <<>>, U!code_point_utf16to32(s) # U!Throws
  PROVE  \E c \in Scalars, n \in Nat :
           /\ U!code_point_utf16to32(s) = U!Char(c, n)
           /\ s = U!Utf16(c) \o SubSeq(s, n + 1, Len(s))
<1>1. Len(s) \in Nat \ {0} /\ s[1] \in Words
  BY EmptySeq
<1>2. \A n : U!check_strict(n) = U!Throws
  BY SMTT(10) DEF U!check_strict
<1>3. PICK next : next = IF Len(s) > 1 THEN s[2] ELSE 0
  OBVIOUS
<1>4. CASE U!IsHigh(s[1])
  <2>1. U!IsLow(next)
    <3>1. SUFFICES ASSUME ~ U!IsLow(next)
                   PROVE  FALSE
      OBVIOUS
    <3>2. U!code_point_utf16to32(s) = U!check_strict(2)
      BY <1>3, <1>4, <3>1, SMTT(10) DEF U!code_point_utf16to32
    <3>3. QED
      BY <1>2, <3>2, Zenon
  <2>2. Len(s) > 1
    <3>1. ~ U!IsLow(0)
      BY SMTT(10) DEF U!IsLow
    <3>2. QED
      BY <1>1, <1>3, <2>1, <3>1
  <2>3. PICK h \in Words, l \in Words : h = s[1] /\ l = s[2]
    BY <1>1, <2>2
  <2>4. h \in Nat /\ l \in Nat /\ l = next /\ U!IsHigh(h) /\ U!IsLow(l)
    BY <1>3, <1>4, <2>1, <2>2, <2>3 DEF Words
  <2>5. PICK q \in Int, r \in Int : q = h - \hD800 /\ r = l - \hDC00
    BY <2>4, SMTT(10)
  <2>6. q \in Nat /\ r \in Nat /\ q < 1024 /\ r < 1024
    BY <2>4, <2>5, SMTT(10) DEF U!IsHigh, U!IsLow
  <2>7. PICK n \in Nat, c \in Nat : n = q * 1024 + r /\ c = n + \h10000
    BY <2>6, SMTT(10)
  <2>8. U!code_point_utf16to32(s) = U!Char(c, 2)
    <3>1. U!code_point_utf16to32(s) = U!Char((h - \hD800) * 1024 + (l - \hDC00) + \h10000, 2)
      BY <1>3, <1>4, <2>1, <2>3, <2>4, SMTT(10) DEF U!code_point_utf16to32
    <3>2. (h - \hD800) * 1024 + (l - \hDC00) + \h10000 = c
      BY <2>4, <2>5, <2>7, SMTT(10)
    <3>3. QED
      BY <3>1, <3>2, SMTT(10)
  <2>9. n < 1048576 /\ n \div 1024 = q /\ n % 1024 = r
    BY <2>6, <2>7, SMTT(10)
  <2>10. U!Utf16(c) = <<h, l>>
    <3>1. ~ (c < \h10000) /\ c - \h10000 = n
      BY <2>7, SMTT(10)
    <3>2. U!Utf16(c) = <<\hD800 + (n \div 1024), \hDC00 + (n % 1024)>>
      BY <3>1, SMTT(10) DEF U!Utf16
    <3>3. \hD800 + q = h /\ \hDC00 + r = l
      BY <2>4, <2>5, SMTT(10)
    <3>4. QED
      BY <2>9, <3>2, <3>3, SMTT(10)
  <2>11. c \in Scalars
    BY <2>7, <2>9, SMTT(10) DEF Scalars, U!Scalar, U!IsHigh, U!IsLow
  <2>12. s = <<h, l>> \o SubSeq(s, 2 + 1, Len(s))
    <3>1. 1 \in 1 .. Len(s) /\ 2 \in 1 .. Len(s) /\ Len(s) \in 1 .. Len(s) /\ Len(s) \in 2 .. Len(s)
      BY <1>1, <2>2
    <3>2. /\ SubSeq(s, 1, Len(s)) = <<s[1]>> \o SubSeq(s, 1 + 1, Len(s))
          /\ SubSeq(s, 2, Len(s)) = <<s[2]>> \o SubSeq(s, 2 + 1, Len(s))
      BY <3>1, SubSeqRecursiveFirst
    <3>3. PICK t : t = SubSeq(s, 2 + 1, Len(s))
      OBVIOUS
    <3>4. s = <<h>> \o (<<l>> \o t)
      BY <2>3, <3>2, <3>3, SubSeqFull
    <3>5. t \in Seq(Words)
      <4>1. 2 + 1 \in Int /\ Len(s) \in Int /\ \A i \in 2 + 1 .. Len(s) : s[i] \in Words
        BY <1>1
      <4>2. QED
        BY <3>3, <4>1, SubSeqProperties
    <3>6. <<h>> \in Seq(Words) /\ <<l>> \in Seq(Words) /\ <<h>> \o <<l>> = <<h, l>>
      BY Pairs
    <3>7. (<<h>> \o <<l>>) \o t = <<h>> \o (<<l>> \o t)
      BY <3>5, <3>6, ConcatAssociative
    <3>8. QED
      BY <3>3, <3>4, <3>6, <3>7, Zenon
  <2>13. QED
    BY <2>8, <2>10, <2>11, <2>12
<1>5. CASE ~ U!IsHigh(s[1])
  <2>1. ~ U!IsLow(s[1])
    <3>1. SUFFICES ASSUME U!IsLow(s[1])
                   PROVE  FALSE
      OBVIOUS
    <3>2. U!code_point_utf16to32(s) = U!check_strict(1)
      BY <1>5, <3>1, SMTT(10) DEF U!code_point_utf16to32
    <3>3. QED
      BY <1>2, <3>2, Zenon
  <2>2. PICK c : c = s[1]
    OBVIOUS
  <2>3. U!code_point_utf16to32(s) = U!Char(c, 1)
    BY <1>5, <2>1, <2>2, SMTT(10) DEF U!code_point_utf16to32
  <2>4. c \in Scalars /\ U!Utf16(c) = <<c>>
    BY <1>1, <1>5, <2>1, <2>2, SMTT(10) DEF Words, Scalars, U!Scalar, U!Utf16
  <2>5. 1 \in 1 .. Len(s) /\ Len(s) \in 1 .. Len(s)
    BY <1>1
  <2>6. SubSeq(s, 1, Len(s)) = <<s[1]>> \o SubSeq(s, 1 + 1, Len(s))
    BY <2>5, SubSeqRecursiveFirst
  <2>7. s = <<c>> \o SubSeq(s, 1 + 1, Len(s))
    BY <2>2, <2>6, SubSeqFull
  <2>8. QED
    BY <2>3, <2>4, <2>7
<1>6. QED
  BY <1>4, <1>5

-----------------------------------------------------------------------------
(* Conversions *)

LEMMA Ways ==
  ASSUME conversion \in U!Conversions
  PROVE  /\ U!from \in U!Encodings /\ U!to \in U!Encodings
         /\ U!from < U!to => \/ U!from = 8 /\ U!to = 16
                            \/ U!to = 32
         /\ conversion = <<16, 32>> => U!from = 16 /\ U!to = 32
         /\ U!to = 8 => ~ (U!from < U!to)
<1>1. conversion \in {<<8, 16>>, <<8, 32>>, <<16, 8>>, <<16, 32>>, <<32, 8>>, <<32, 16>>}
  BY DEF U!Conversions
<1>2. U!from = conversion[1] /\ U!to = conversion[2]
  BY DEF U!from, U!to
<1>3. \/ U!from = 8 /\ U!to = 16 /\ conversion # <<16, 32>>
      \/ U!from = 8 /\ U!to = 32 /\ conversion # <<16, 32>>
      \/ U!from = 16 /\ U!to = 8 /\ conversion # <<16, 32>>
      \/ U!from = 16 /\ U!to = 32
      \/ U!from = 32 /\ U!to = 8 /\ conversion # <<16, 32>>
      \/ U!from = 32 /\ U!to = 16 /\ conversion # <<16, 32>>
  BY <1>1, <1>2
<1>4. QED
  BY <1>3 DEF U!Encodings

\* The most units that are written for one that is read.
Growth == IF U!from < U!to THEN 1 ELSE 4

\* No step writes more than Growth allows for what it takes.
LEMMA Grown ==
  ASSUME conversion \in U!Conversions, src \in Seq(U!UnitsOf(U!from)), src # <<>>,
         U!Decoded # U!Throws, U!dstlen - Len(dst) \in Int, U!Encoded(U!Decoded.c) # <<>>,
         NEW rest, rest = SubSeq(src, U!Decoded.units + 1, Len(src))
  PROVE  /\ rest \in Seq(U!UnitsOf(U!from)) /\ U!Encoded(U!Decoded.c) \in Seq(Int)
         /\ Len(U!Encoded(U!Decoded.c)) + Growth * Len(rest) <= Growth * Len(src)
<1>1. U!from \in U!Encodings /\ U!to \in U!Encodings
  BY Ways
<1>2. PICK c \in Int, n \in 1 .. 4 : c = U!Decoded.c /\ n = U!Decoded.units
  BY <1>1, Read
<1>3. (U!from = 8 => n <= Len(src)) /\ (U!from = 8 /\ n = 1 => c <= 255)
  BY <1>1, <1>2, Read
<1>4. PICK w : w = U!Encoded(c)
  OBVIOUS
<1>5. /\ w \in Seq(Int) /\ Len(w) \in 1 .. 4
      /\ U!to = 16 => Len(w) <= 2
      /\ U!to = 16 /\ c <= 255 => Len(w) = 1
      /\ U!to = 32 => Len(w) = 1
  BY <1>1, <1>2, <1>4, Written
<1>6. PICK left \in Nat \ {0} : left = Len(src)
  BY EmptySeq
<1>7. PICK D : D = U!UnitsOf(U!from)
  OBVIOUS
<1>8. n + 1 \in Int /\ left \in Int /\ \A i \in n + 1 .. left : src[i] \in D
  BY <1>6, <1>7
<1>9. rest \in Seq(D) /\ Len(rest) = IF n + 1 <= left THEN left - (n + 1) + 1 ELSE 0
  BY <1>2, <1>6, <1>8, SubSeqProperties
<1>10. PICK after \in Nat, wide \in 1 .. 4 : after = Len(rest) /\ wide = Len(w)
  BY <1>5, <1>9
<1>11. after < left /\ (n <= left => after = left - n)
  BY <1>9, <1>10
<1>12. wide + Growth * after <= Growth * left
  <2>1. CASE U!from < U!to
    <3>1. Growth = 1
      BY <2>1 DEF Growth
    <3>2. CASE U!from = 8 /\ U!to = 16
      <4>1. n <= left /\ (n = 1 => wide = 1) /\ wide <= 2
        BY <1>3, <1>5, <1>6, <1>10, <3>2, Zenon
      <4>2. after = left - n
        BY <1>11, <4>1
      <4>3. QED
        BY <3>1, <4>1, <4>2
    <3>3. CASE U!to = 32
      <4>1. wide = 1
        BY <1>5, <1>10, <3>3, Zenon
      <4>2. QED
        BY <1>11, <3>1, <4>1
    <3>4. QED
      BY <2>1, <3>2, <3>3, Ways
  <2>2. CASE ~ (U!from < U!to)
    <3>1. Growth = 4
      BY <2>2 DEF Growth
    <3>2. QED
      BY <1>11, <3>1
  <2>3. QED
    BY <2>1, <2>2
<1>13. QED
  BY <1>2, <1>4, <1>5, <1>6, <1>7, <1>9, <1>10, <1>12, Zenon

\* What every state of a conversion satisfies: what is left fits, however it
\* is converted, and legal and strict texts are converted as far as they are
\* read.
TextInv ==
  /\ conversion \in U!Conversions
  /\ src \in Seq(U!UnitsOf(U!from)) /\ dst \in Seq(Int) /\ U!dstlen \in Nat
  /\ Len(dst) + Growth * Len(src) <= U!dstlen
  /\ status = "done" => src = <<>>
  /\ \A p \in legal : status # "threw" /\ Halfway(p, U!from, U!to, src, dst)
  /\ conversion = <<16, 32>> /\ strict =>
       dst \in Seq(Scalars) /\ text = U!InEncoding(16, dst) \o src

LEMMA InputKept ==
  ASSUME UNCHANGED U!input
  PROVE  /\ UNCHANGED <<conversion, strict, text, legal>>
         /\ U!from' = U!from /\ U!to' = U!to /\ U!dstlen' = U!dstlen /\ Growth' = Growth
         /\ U!UnitsOf(U!from)' = U!UnitsOf(U!from)
<1>1. UNCHANGED <<conversion, strict, text, legal>>
  BY DEF U!input
<1>2. U!from' = U!from /\ U!to' = U!to
  BY <1>1 DEF U!from, U!to
<1>3. U!dstlen' = U!dstlen /\ Growth' = Growth
  BY <1>1, <1>2 DEF U!dstlen, Growth
<1>4. U!UnitsOf(U!from)' = U!UnitsOf(U!from)
  BY <1>2 DEF U!UnitsOf
<1>5. QED
  BY <1>1, <1>2, <1>3, <1>4

LEMMA ConvertKeeps ==
  ASSUME TextInv, U!Convert
  PROVE  TextInv'
<1>1. /\ conversion \in U!Conversions
      /\ src \in Seq(U!UnitsOf(U!from)) /\ dst \in Seq(Int) /\ U!dstlen \in Nat
      /\ Len(dst) + Growth * Len(src) <= U!dstlen
      /\ \A p \in legal : status # "threw" /\ Halfway(p, U!from, U!to, src, dst)
      /\ conversion = <<16, 32>> /\ strict =>
           dst \in Seq(Scalars) /\ text = U!InEncoding(16, dst) \o src
  BY Zenon DEF TextInv
<1>2. /\ status = "converting" /\ src # <<>> /\ UNCHANGED U!input
      /\ \/ /\ U!Decoded = U!Throws \/ U!Encoded(U!Decoded.c) = <<>>
            /\ status' = "threw" /\ src' = src /\ dst' = dst
         \/ /\ U!Decoded # U!Throws /\ U!Encoded(U!Decoded.c) # <<>>
            /\ src' = SubSeq(src, U!Decoded.units + 1, Len(src))
            /\ dst' = dst \o U!Encoded(U!Decoded.c) /\ status' = status
  BY Zenon DEF U!Convert, U!InLoop
<1>3. /\ UNCHANGED <<conversion, strict, text, legal>>
      /\ U!from' = U!from /\ U!to' = U!to /\ U!dstlen' = U!dstlen /\ Growth' = Growth
      /\ U!UnitsOf(U!from)' = U!UnitsOf(U!from)
  BY <1>2, InputKept
<1>4. PICK left \in Nat \ {0}, done \in Nat, room \in Nat :
        left = Len(src) /\ done = Len(dst) /\ room = U!dstlen
  BY <1>1, <1>2, EmptySeq
<1>5. /\ U!from \in U!Encodings /\ U!to \in U!Encodings
      /\ U!dstlen - Len(dst) \in Int /\ (U!to = 8 => U!dstlen - Len(dst) >= 4)
  <2>1. U!to = 8 => Growth = 4
    BY <1>1, Ways DEF Growth
  <2>2. U!to = 8 => room - done >= 4
    BY <1>1, <1>4, <2>1
  <2>3. QED
    BY <1>1, <1>4, <2>2, Ways
<1>6. \A p \in legal :
        /\ U!Decoded # U!Throws /\ U!Encoded(U!Decoded.c) # <<>>
        /\ Halfway(p, U!from, U!to, SubSeq(src, U!Decoded.units + 1, Len(src)),
                   dst \o U!Encoded(U!Decoded.c))
  BY <1>1, <1>2, <1>5, HalfwayStep
<1>7. CASE /\ U!Decoded = U!Throws \/ U!Encoded(U!Decoded.c) = <<>>
           /\ status' = "threw" /\ src' = src /\ dst' = dst
  <2>1. legal = {}
    BY <1>6, <1>7, Zenon
  <2>2. status' # "done"
    BY <1>7
  <2>3. QED
    BY <1>1, <1>3, <1>7, <2>1, <2>2, Zenon DEF TextInv
<1>8. CASE /\ U!Decoded # U!Throws /\ U!Encoded(U!Decoded.c) # <<>>
           /\ src' = SubSeq(src, U!Decoded.units + 1, Len(src))
           /\ dst' = dst \o U!Encoded(U!Decoded.c) /\ status' = status
  <2>1. PICK w, rest : w = U!Encoded(U!Decoded.c) /\ rest = SubSeq(src, U!Decoded.units + 1, Len(src))
    OBVIOUS
  <2>2. /\ rest \in Seq(U!UnitsOf(U!from)) /\ w \in Seq(Int)
        /\ Len(w) + Growth * Len(rest) <= Growth * Len(src)
    BY <1>1, <1>2, <1>5, <1>8, <2>1, Grown
  <2>3. dst \o w \in Seq(Int) /\ Len(dst \o w) = Len(dst) + Len(w)
    BY <1>1, <2>2, ConcatProperties
  <2>4. Len(dst \o w) + Growth * Len(rest) <= U!dstlen
    <3>1. PICK wide \in Nat, after \in Nat : wide = Len(w) /\ after = Len(rest)
      BY <2>2, LenProperties
    <3>2. Growth \in {1, 4}
      BY DEF Growth
    <3>3. done + Growth * left <= room /\ wide + Growth * after <= Growth * left
      BY <1>1, <1>4, <2>2, <3>1, Zenon
    <3>4. (done + wide) + Growth * after <= room
      BY <3>2, <3>3
    <3>5. QED
      BY <1>4, <2>3, <3>1, <3>4, Zenon
  <2>5. \A p \in legal : Halfway(p, U!from, U!to, rest, dst \o w)
    BY <1>6, <2>1, Zenon
  <2>6. ASSUME conversion = <<16, 32>>, strict
        PROVE  dst \o w \in Seq(Scalars) /\ text = U!InEncoding(16, dst \o w) \o rest
    <3>1. U!from = 16 /\ U!to = 32 /\ src \in Seq(Words) /\ U!Decoded = U!code_point_utf16to32(src)
      BY <1>1, <2>6, Ways, UnitTypes, Decoders
    <3>2. PICK c \in Scalars, n \in Nat :
            U!Decoded = U!Char(c, n) /\ src = U!Utf16(c) \o SubSeq(src, n + 1, Len(src))
      BY <1>2, <1>8, <2>6, <3>1, StrictStep
    <3>3. w = <<c>> /\ src = U!InUnits(16, c) \o rest
      <4>1. U!Decoded.c = c /\ U!Decoded.units = n
        BY <3>2, CharIs, Zenon
      <4>2. U!Encoded(c) = <<c>> /\ U!InUnits(16, c) = U!Utf16(c)
        BY <3>1, Encoders, InUnitsIs, Zenon
      <4>3. QED
        BY <2>1, <3>2, <4>1, <4>2, Zenon
    <3>4. <<c>> \in Seq(Scalars)
      OBVIOUS
    <3>5. dst \in Seq(Scalars) /\ text = U!InEncoding(16, dst) \o (U!InUnits(16, c) \o rest)
      BY <1>1, <2>6, <3>3, Zenon
    <3>6. U!InEncoding(16, dst \o <<c>>) = U!InEncoding(16, dst) \o U!InUnits(16, c)
      BY <3>5, OneMore
    <3>7. U!InEncoding(16, dst) \in Seq(Words) /\ U!InUnits(16, c) \in Seq(Words) /\ rest \in Seq(Words)
      <4>1. 16 \in U!Encodings /\ U!UnitsOf(16) = Words
        BY UnitTypes DEF U!Encodings
      <4>2. QED
        BY <2>2, <3>1, <3>5, <4>1, AllOpen, UnitsFit, Zenon DEF Opens
    <3>8. dst \o w \in Seq(Scalars)
      BY <3>3, <3>4, <3>5, ConcatProperties
    <3>9. PICK x, u : x = U!InEncoding(16, dst) /\ u = U!InUnits(16, c)
      OBVIOUS
    <3>10. (x \o u) \o rest = x \o (u \o rest)
      BY <3>7, <3>9, ConcatAssociative
    <3>11. QED
      BY <3>3, <3>5, <3>6, <3>8, <3>9, <3>10, Zenon
  <2>7. status' # "done" /\ status' # "threw"
    BY <1>2, <1>8
  <2>8. src' = rest /\ dst' = dst \o w
    BY <1>8, <2>1, Zenon
  <2>9. QED
    BY <1>1, <1>3, <2>2, <2>3, <2>4, <2>5, <2>6, <2>7, <2>8, Zenon DEF TextInv
<1>9. QED
  BY <1>2, <1>7, <1>8

LEMMA FinishKeeps ==
  ASSUME TextInv, U!Finish
  PROVE  TextInv'
<1>1. /\ conversion \in U!Conversions
      /\ src \in Seq(U!UnitsOf(U!from)) /\ dst \in Seq(Int) /\ U!dstlen \in Nat
      /\ Len(dst) + Growth * Len(src) <= U!dstlen
      /\ \A p \in legal : status # "threw" /\ Halfway(p, U!from, U!to, src, dst)
      /\ conversion = <<16, 32>> /\ strict =>
           dst \in Seq(Scalars) /\ text = U!InEncoding(16, dst) \o src
  BY Zenon DEF TextInv
<1>2. /\ UNCHANGED U!input /\ src' = src /\ dst' = dst /\ status' = "done"
      /\ src = <<>> \/ Len(dst) >= U!dstlen
  BY Zenon DEF U!Finish
<1>3. /\ UNCHANGED <<conversion, strict, text, legal>>
      /\ U!from' = U!from /\ U!to' = U!to /\ U!dstlen' = U!dstlen /\ Growth' = Growth
      /\ U!UnitsOf(U!from)' = U!UnitsOf(U!from)
  BY <1>2, InputKept
<1>4. src = <<>>
  <2>1. SUFFICES ASSUME src # <<>>
                 PROVE  FALSE
    OBVIOUS
  <2>2. PICK left \in Nat \ {0}, done \in Nat, room \in Nat :
          left = Len(src) /\ done = Len(dst) /\ room = U!dstlen
    BY <1>1, <2>1, EmptySeq
  <2>3. done >= room /\ done + Growth * left <= room
    BY <1>1, <1>2, <2>1, <2>2, Zenon
  <2>4. Growth \in {1, 4}
    BY DEF Growth
  <2>5. QED
    BY <2>3, <2>4
<1>5. status' # "threw"
  BY <1>2
<1>6. QED
  BY <1>1, <1>2, <1>3, <1>4, <1>5, Zenon DEF TextInv

LEMMA TextInit ==
  ASSUME NoText \/ U!Init
  PROVE  TextInv
<1>1. /\ <<>> \in Seq(Scalars) /\ <<>> \in Seq(Int) /\ Len(<<>>) = 0
      /\ \A e \in U!Encodings : U!InEncoding(e, <<>>) = <<>>
  <2>1. <<>> \in Seq(Scalars) /\ <<>> \in Seq(Int) /\ Len(<<>>) = 0 /\ <<>> \in Seq({0}) /\ 0 \in {0}
    BY EmptySeq
  <2>2. QED
    BY <2>1, OneMore, Zenon
<1>2. Growth \in {1, 4} /\ U!dstlen = Growth * Len(text)
  BY DEF Growth, U!dstlen
<1>3. CASE NoText
  <2>1. conversion = <<8, 16>> /\ text = <<>> /\ legal = {} /\ src = <<>> /\ dst = <<>> /\ status = "done"
    BY <1>3 DEF NoText
  <2>2. conversion \in U!Conversions /\ conversion # <<16, 32>>
    BY <2>1 DEF U!Conversions
  <2>3. src \in Seq(U!UnitsOf(U!from))
    BY <2>1, EmptySeq
  <2>4. U!dstlen \in Nat /\ Len(dst) + Growth * Len(src) <= U!dstlen
    BY <1>1, <1>2, <2>1
  <2>5. QED
    BY <1>1, <2>1, <2>2, <2>3, <2>4, Zenon DEF TextInv
<1>4. CASE U!Init
  <2>1. /\ conversion \in U!Conversions /\ src = text /\ dst = <<>> /\ status = "converting"
        /\ \/ \E points \in U!LegalTexts : legal = {points} /\ text = U!InEncoding(U!from, points)
           \/ legal = {} /\ text \in U!AnyTexts(U!from)
    BY <1>4, Zenon DEF U!Init
  <2>2. U!from \in U!Encodings /\ U!to \in U!Encodings
    BY <2>1, Ways
  <2>3. U!LegalTexts \subseteq Seq(Scalars)
    <3>1. MaxPoints \in Nat /\ Points \subseteq Scalars
      <4>1. MaxPoints \in Nat /\ \A c \in Points : U!Scalar(c)
        BY UtilitiesAssumption, Zenon DEF U!UnicodeAssumption
      <4>2. \A c : U!Scalar(c) => c \in Nat
        BY SMTT(10) DEF U!Scalar
      <4>3. QED
        BY <4>1, <4>2, Zenon DEF Scalars
    <3>2. QED
      BY <3>1 DEF U!LegalTexts
  <2>4. U!AnyTexts(U!from) \subseteq Seq(U!UnitsOf(U!from))
    <3>1. MaxLength[U!from] \in Nat /\ Units[U!from] \subseteq U!UnitsOf(U!from)
      BY <2>2, UtilitiesAssumption, Zenon DEF U!UnicodeAssumption
    <3>2. QED
      BY <3>1 DEF U!AnyTexts
  <2>5. text \in Seq(U!UnitsOf(U!from))
    BY <2>1, <2>2, <2>3, <2>4, AllOpen, Zenon DEF Opens
  <2>6. U!dstlen \in Nat /\ Len(dst) + Growth * Len(src) <= U!dstlen
    <3>1. PICK n \in Nat : n = Len(text)
      BY <2>5, LenProperties
    <3>2. Growth * n \in Nat /\ 0 + Growth * n <= Growth * n
      BY <1>2
    <3>3. QED
      BY <1>1, <1>2, <2>1, <3>1, <3>2, Zenon
  <2>7. ASSUME NEW p \in legal
        PROVE  Halfway(p, U!from, U!to, src, dst)
    <3>1. p \in Seq(Scalars) /\ text = U!InEncoding(U!from, p)
      BY <2>1, <2>3, <2>7, Zenon
    <3>2. p = <<>> \o p
      BY <3>1, ConcatEmptySeq
    <3>3. QED
      BY <1>1, <2>1, <2>2, <3>1, <3>2, Zenon DEF Halfway
  <2>8. ASSUME conversion = <<16, 32>>
        PROVE  text = U!InEncoding(16, dst) \o src
    <3>1. 16 \in U!Encodings
      BY DEF U!Encodings
    <3>2. text = <<>> \o text
      BY <2>5, ConcatEmptySeq
    <3>3. QED
      BY <1>1, <2>1, <3>1, <3>2, Zenon
  <2>9. status # "done" /\ status # "threw"
    BY <2>1
  <2>10. QED
    BY <1>1, <2>1, <2>5, <2>6, <2>7, <2>8, <2>9, Zenon DEF TextInv
<1>5. QED
  BY <1>3, <1>4

LEMMA TextKept ==
  ASSUME TextInv, UNCHANGED textVars
  PROVE  TextInv'
<1>1. UNCHANGED <<conversion, strict, text, src, dst, status, legal>>
  BY DEF textVars
<1>2. /\ U!from' = U!from /\ U!to' = U!to /\ U!dstlen' = U!dstlen /\ Growth' = Growth
      /\ U!UnitsOf(U!from)' = U!UnitsOf(U!from)
  BY <1>1, InputKept DEF U!input
<1>3. QED
  BY <1>1, <1>2, Zenon DEF TextInv

LEMMA TextGoal ==
  ASSUME TextInv
  PROVE  U!ConversionExact
<1>1. /\ conversion \in U!Conversions
      /\ src \in Seq(U!UnitsOf(U!from)) /\ dst \in Seq(Int) /\ U!dstlen \in Nat
      /\ Len(dst) + Growth * Len(src) <= U!dstlen
      /\ status = "done" => src = <<>>
      /\ \A p \in legal : status # "threw" /\ Halfway(p, U!from, U!to, src, dst)
      /\ conversion = <<16, 32>> /\ strict =>
           dst \in Seq(Scalars) /\ text = U!InEncoding(16, dst) \o src
  BY Zenon DEF TextInv
<1>2. U!from \in U!Encodings /\ U!to \in U!Encodings
  BY <1>1, Ways
<1>3. U!LegalExact
  <2>1. SUFFICES ASSUME NEW p \in legal, status = "done"
                 PROVE  dst = U!InEncoding(U!to, p)
    BY <1>1, Zenon DEF U!LegalExact
  <2>2. PICK a \in Seq(Scalars), b \in Seq(Scalars) :
          p = a \o b /\ dst = U!InEncoding(U!to, a) /\ src = U!InEncoding(U!from, b)
    BY <1>1, Zenon DEF Halfway
  <2>3. U!InEncoding(U!from, b) = <<>>
    BY <1>1, <2>1, <2>2, Zenon
  <2>4. b = <<>>
    BY <1>2, <2>3, NoneLeft
  <2>5. p = a
    BY <2>2, <2>4, ConcatEmptySeq
  <2>6. QED
    BY <2>2, <2>5, Zenon
<1>4. U!StrictFrom16
  <2>1. SUFFICES ASSUME conversion = <<16, 32>>, strict, status = "done"
                 PROVE  (\A i \in DOMAIN dst : U!Scalar(dst[i])) /\ U!InEncoding(16, dst) = text
    BY Zenon DEF U!StrictFrom16
  <2>2. dst \in Seq(Scalars) /\ text = U!InEncoding(16, dst) \o <<>>
    BY <1>1, <2>1, Zenon
  <2>3. U!InEncoding(16, dst) \in Seq(U!UnitsOf(16))
    <3>1. 16 \in U!Encodings
      BY DEF U!Encodings
    <3>2. QED
      BY <2>2, <3>1, AllOpen, Zenon DEF Opens
  <2>4. text = U!InEncoding(16, dst)
    BY <2>2, <2>3, ConcatEmptySeq
  <2>5. \A i \in DOMAIN dst : dst[i] \in Scalars
    BY <2>2
  <2>6. QED
    BY <2>4, <2>5, Zenon DEF Scalars
<1>5. U!BufferHolds
  <2>1. PICK left \in Nat, done \in Nat, room \in Nat :
          left = Len(src) /\ done = Len(dst) /\ room = U!dstlen
    BY <1>1, LenProperties
  <2>2. Growth \in {1, 4}
    BY DEF Growth
  <2>3. done + Growth * left <= room
    BY <1>1, <2>1, Zenon
  <2>4. done <= room
    BY <2>2, <2>3
  <2>5. QED
    BY <2>1, <2>4, Zenon DEF U!BufferHolds
<1>6. QED
  BY <1>3, <1>4, <1>5 DEF U!ConversionExact

\* A conversion of a text of Unicode scalars, of any length and between any
\* two encodings, is the same scalars in the other encoding and is never
\* refused; a strict one from UTF-16 to UTF-32 refuses every surrogate without its
\* other half; and no conversion, of any text, writes beyond the buffer that
\* was allocated for it (Unicode).
THEOREM ConversionsExact == Spec => []ConversionExact
<1>1. Init => TextInv
  BY TextInit DEF Init
<1>2. TextInv /\ [Next]_vars => TextInv'
  <2>1. SUFFICES ASSUME TextInv, [Next]_vars
                 PROVE  TextInv'
    OBVIOUS
  <2>2. U!Convert \/ U!Finish \/ UNCHANGED textVars
    BY <2>1, Zenon DEF Next, vars, U!Next
  <2>3. QED
    BY <2>1, <2>2, ConvertKeeps, FinishKeeps, TextKept
<1>3. TextInv => ConversionExact
  BY TextGoal DEF ConversionExact
<1>4. QED
  BY <1>1, <1>2, <1>3, PTL DEF Spec
=============================================================================
