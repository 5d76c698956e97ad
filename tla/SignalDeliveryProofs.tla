------------------------- MODULE SignalDeliveryProofs -------------------------
(***************************************************************************)
(* Signal implements SignalDelivery, for any connections and any depth of  *)
(* nested calls. Each step of a call is a step of the abstract one because *)
(* slots are in the order of birth and a call passes each of its own once. *)
(***************************************************************************)
EXTENDS SignalProofs

-----------------------------------------------------------------------------
(* The calls in progress, as SignalDelivery sees them *)

View(f) == [first |-> f.first, due |-> f.due, ran |-> f.ran, runs |-> f.runs]
ViewOf(s) == [k \in DOMAIN s |-> View(s[k])]
Views == [first : SUBSET Conns, due : SUBSET Conns, ran : SUBSET Conns,
          runs : Conns \union {Nothing}]

LEMMA ViewSeq ==
  ASSUME NEW s \in Seq(Frame)
  PROVE  /\ ViewOf(s) \in Seq(Views) /\ Len(ViewOf(s)) = Len(s)
         /\ DOMAIN ViewOf(s) = 1..Len(s)
         /\ Len(s) \in Nat
         /\ s = <<>> <=> ViewOf(s) = <<>>
         /\ \A k \in 1..Len(s) : ViewOf(s)[k] = View(s[k])
<1>1. Len(s) \in Nat /\ DOMAIN s = 1..Len(s) /\ s \in [1..Len(s) -> Frame]
  BY LenProperties
<1>2. ViewOf(s) = [k \in 1..Len(s) |-> View(s[k])]
  BY <1>1 DEF ViewOf
<1>3. \A k \in 1..Len(s) : View(s[k]) \in Views
  BY <1>1 DEF View, Views, Frame
<1>4. ViewOf(s) \in Seq(Views)
  BY <1>1, <1>2, <1>3, IsASeq
<1>5. DOMAIN ViewOf(s) = 1..Len(s)
  BY <1>2
<1>6. Len(ViewOf(s)) = Len(s)
  BY <1>1, <1>4, <1>5, LenProperties
<1>7. s = <<>> <=> ViewOf(s) = <<>>
  BY <1>1, <1>4, <1>6, EmptySeq
<1>8. QED
  BY <1>1, <1>2, <1>4, <1>5, <1>6, <1>7

LEMMA ViewTopReplaced ==
  ASSUME NEW s \in Seq(Frame), s # <<>>, NEW f \in Frame, NEW t, t = [s EXCEPT ![Len(s)] = f]
  PROVE  ViewOf(t) = [ViewOf(s) EXCEPT ![Len(ViewOf(s))] = View(f)]
<1>1. /\ t \in Seq(Frame) /\ Len(t) = Len(s) /\ t[Len(s)] = f
      /\ \A k \in 1..Len(s) : k # Len(s) => t[k] = s[k]
  BY TopReplaced
<1>2. /\ DOMAIN ViewOf(t) = 1..Len(s) /\ DOMAIN ViewOf(s) = 1..Len(s) /\ Len(ViewOf(s)) = Len(s)
      /\ \A k \in 1..Len(s) : ViewOf(s)[k] = View(s[k]) /\ ViewOf(t)[k] = View(t[k])
  BY <1>1, ViewSeq
<1>3. \A k \in 1..Len(s) : ViewOf(t)[k] = IF k = Len(s) THEN View(f) ELSE ViewOf(s)[k]
  BY <1>1, <1>2
<1>4. ViewOf(t) = [k \in 1..Len(s) |-> ViewOf(t)[k]]
  BY <1>1, <1>2 DEF ViewOf
<1>5. ViewOf(s) = [k \in 1..Len(s) |-> ViewOf(s)[k]]
  BY <1>1, <1>2 DEF ViewOf
<1> HIDE DEF ViewOf
<1>6. QED
  BY <1>2, <1>3, <1>4, <1>5

LEMMA ViewAdded ==
  ASSUME NEW s \in Seq(Frame), NEW f \in Frame, NEW t, t = Append(s, f)
  PROVE  ViewOf(t) = Append(ViewOf(s), View(f))
<1> DEFINE u == Append(ViewOf(s), View(f))
<1>1. /\ t \in Seq(Frame) /\ Len(t) = Len(s) + 1 /\ t[Len(s) + 1] = f
      /\ \A k \in 1..Len(s) : t[k] = s[k]
  BY SlotAdded
<1>2. ViewOf(s) \in Seq(Views) /\ View(f) \in Views /\ Len(ViewOf(s)) = Len(s)
  BY ViewSeq DEF View, Views, Frame
<1>3. /\ u \in Seq(Views) /\ Len(u) = Len(s) + 1 /\ u[Len(s) + 1] = View(f)
      /\ \A k \in 1..Len(s) : u[k] = ViewOf(s)[k]
  BY <1>2, SlotAdded
<1>4. ViewOf(t) \in Seq(Views) /\ Len(ViewOf(t)) = Len(t) /\ Len(s) \in Nat
  BY <1>1, ViewSeq
<1>5. \A k \in 1..Len(t) : ViewOf(t)[k] = View(t[k])
  BY <1>1, ViewSeq
<1>6. \A k \in 1..Len(s) : ViewOf(s)[k] = View(s[k])
  BY ViewSeq
<1>7. \A k \in 1..Len(t) : ViewOf(t)[k] = u[k]
  BY <1>1, <1>3, <1>4, <1>5, <1>6
<1> HIDE DEF u
<1>8. ViewOf(t) = u
  BY <1>1, <1>3, <1>4, <1>7, SeqEqual
<1>9. QED
  BY <1>8 DEF u

LEMMA ViewTopRemoved ==
  ASSUME NEW s \in Seq(Frame), s # <<>>, NEW t, t = SubSeq(s, 1, Len(s) - 1)
  PROVE  ViewOf(t) = SubSeq(ViewOf(s), 1, Len(ViewOf(s)) - 1)
<1> DEFINE v == ViewOf(s)
           u == SubSeq(v, 1, Len(v) - 1)
<1>1. t \in Seq(Frame) /\ Len(t) = Len(s) - 1 /\ \A k \in 1..Len(t) : t[k] = s[k]
  BY TopRemoved
<1>2. /\ v \in Seq(Views) /\ Len(v) = Len(s) /\ v # <<>> /\ Len(s) \in Nat
      /\ \A k \in 1..Len(s) : v[k] = View(s[k])
  BY ViewSeq
<1>3. /\ ViewOf(t) \in Seq(Views) /\ Len(ViewOf(t)) = Len(t) /\ Len(t) \in Nat
      /\ \A k \in 1..Len(t) : ViewOf(t)[k] = View(t[k])
  BY <1>1, ViewSeq
<1> HIDE DEF v
<1>4. u \in Seq(Views) /\ Len(u) = Len(v) - 1 /\ \A k \in 1..Len(u) : u[k] = v[k]
  BY <1>2, TopRemoved
<1> HIDE DEF u
<1>5. Len(ViewOf(t)) = Len(u) /\ \A k \in 1..Len(u) : ViewOf(t)[k] = u[k]
  BY <1>1, <1>2, <1>3, <1>4
<1>6. ViewOf(t) = u
  BY <1>3, <1>4, <1>5, SeqEqual
<1>7. QED
  BY <1>6 DEF u, v

LEMMA ViewExcused ==
  ASSUME TypeOK, NEW c \in Conns, NEW t, t = Excused(c)
  PROVE  ViewOf(t) = [k \in DOMAIN ViewOf(calls) |-> [ViewOf(calls)[k] EXCEPT !.due = @ \ {c}]]
<1>1. /\ t \in Seq(Frame) /\ Len(t) = Len(calls) /\ DOMAIN t = 1..Len(calls)
      /\ \A k \in 1..Len(calls) :
           /\ t[k].first = calls[k].first /\ t[k].ran = calls[k].ran
           /\ t[k].runs = calls[k].runs /\ t[k].due = calls[k].due \ {c}
  BY ExcusedFrames, FrameAt
<1>2. DOMAIN ViewOf(calls) = 1..Len(calls)
      /\ \A k \in 1..Len(calls) : ViewOf(calls)[k] = View(calls[k])
  BY ViewSeq DEF TypeOK
<1>3. ASSUME NEW f, NEW g, g.first = f.first, g.ran = f.ran, g.runs = f.runs, g.due = f.due \ {c}
      PROVE  View(g) = [View(f) EXCEPT !.due = @ \ {c}]
  BY <1>3 DEF View
<1>4. \A k \in 1..Len(calls) : View(t[k]) = [View(calls[k]) EXCEPT !.due = @ \ {c}]
  BY <1>1, <1>3
<1>5. ViewOf(t) = [k \in 1..Len(calls) |-> View(t[k])]
  BY <1>1 DEF ViewOf
<1>6. QED
  BY <1>2, <1>4, <1>5

-----------------------------------------------------------------------------
(* What the slots say about the calls in progress *)

\* Connections are born in the order of their slots.
BirthInv ==
  /\ \A c \in Conns : birth[c] <= made
  /\ \A c \in Live : birth[c] # 0
  /\ \A c, d \in Live : index[c] < index[d] => birth[c] < birth[d]

\* A call walks over connections of its beginning; those it has passed are older
\* than those it has not; and those that it owes are ahead.
FrameInv(f) ==
  /\ \A i \in 1..f.n : connections[i] # Nothing => connections[i] \in f.first
  /\ \A c \in f.ran : birth[c] # 0 /\ \A d \in Live : f.i <= index[d] => birth[c] < birth[d]
  /\ f.due \subseteq Live \ Blocked
  /\ \A c \in f.due \ f.ran : f.i <= index[c] /\ index[c] <= f.n

DeliveryInv == BirthInv /\ \A k \in DOMAIN calls : FrameInv(calls[k])

LEMMA DeliveryInit == Init => DeliveryInv
BY DEF Init, DeliveryInv, BirthInv, Live

LEMMA FrameSets ==
  ASSUME NEW f \in Frame
  PROVE  /\ f.i \in Nat \ {0} /\ f.n \in Nat /\ f.runs \in Conns \union {Nothing}
         /\ f.first \subseteq Conns /\ f.due \subseteq Conns /\ f.ran \subseteq Conns
BY DEF Frame

LEMMA LiveAt ==
  ASSUME SignalInv
  PROVE  /\ Live \subseteq Conns
         /\ \A c \in Live : /\ index[c] \in 1..Len(connections) /\ connections[index[c]] = c
                            /\ life[c] # "unmade" /\ swapped[c] \in {Nothing, c}
                            /\ callbacks[index[c]] = IF swapped[c] = c THEN Nothing ELSE c
         /\ \A c \in Conns : index[c] \in Nat /\ birth[c] \in Nat
         /\ made \in Nat
BY SlotAt DEF SignalInv, SlotInv, LifeInv, Valid, TypeOK, Live

LEMMA ConnectDelivery ==
  ASSUME SignalInv, DeliveryInv, NEW c \in Conns, Connect(c)
  PROVE  DeliveryInv'
<1> DEFINE m == Len(connections)
<1>1. /\ m \in Nat /\ from = 0 /\ UNCHANGED <<calls, swapped>>
      /\ connections' = Append(connections, c)
      /\ signal' = [signal EXCEPT ![c] = TRUE] /\ index' = [index EXCEPT ![c] = m + 1]
      /\ made' = made + 1 /\ birth' = [birth EXCEPT ![c] = made + 1]
      /\ birth[c] = 0 /\ swapped[c] = Nothing /\ c \notin Live
  BY SlotAt DEF Connect, InProgram, SignalInv, LifeInv, Live
<1>2. \A i \in 1..m : connections'[i] = connections[i]
  BY <1>1, SlotAdded DEF SignalInv, TypeOK
<1> HIDE DEF m
<1>3. Live' = Live \union {c} /\ Blocked' = Blocked
  BY <1>1 DEF SignalInv, TypeOK, Live, Blocked
<1>4. /\ index'[c] = m + 1 /\ birth'[c] = made + 1
      /\ \A d \in Conns : d # c => index'[d] = index[d] /\ birth'[d] = birth[d]
  BY <1>1 DEF SignalInv, TypeOK
<1>5. /\ Live \subseteq Conns /\ made \in Nat
      /\ \A d \in Conns : index[d] \in Nat /\ birth[d] \in Nat
      /\ \A d \in Live : index[d] \in 1..m
  BY LiveAt DEF m
<1>6. BirthInv'
  <2>1. \A d \in Conns : birth'[d] <= made'
    BY <1>1, <1>4, <1>5 DEF DeliveryInv, BirthInv
  <2>2. \A d \in Live' : birth'[d] # 0
    BY <1>1, <1>3, <1>4, <1>5 DEF DeliveryInv, BirthInv
  <2>3. ASSUME NEW d \in Live', NEW e \in Live', index'[d] < index'[e]
        PROVE  birth'[d] < birth'[e]
    <3>1. CASE e = c
      <4>1. d # c
        BY <1>1, <1>4, <2>3, <3>1
      <4>2. d \in Live /\ birth'[d] = birth[d] /\ birth[d] <= made /\ birth[d] \in Nat
        BY <1>3, <1>4, <1>5, <4>1 DEF DeliveryInv, BirthInv
      <4>3. QED
        BY <1>4, <1>5, <3>1, <4>2
    <3>2. CASE e # c
      <4>1. e \in Live /\ index'[e] = index[e] /\ index[e] \in 1..m
        BY <1>3, <1>4, <1>5, <3>2
      <4>2. d # c
        BY <1>1, <1>4, <2>3, <4>1
      <4>3. QED
        BY <1>3, <1>4, <1>5, <2>3, <4>1, <4>2 DEF DeliveryInv, BirthInv
    <3>3. QED
      BY <3>1, <3>2
  <2>4. QED
    BY <2>1, <2>2, <2>3 DEF BirthInv
<1>7. ASSUME NEW k \in DOMAIN calls
      PROVE  FrameInv(calls[k])'
  <2> DEFINE f == calls[k]
  <2>1. f \in Frame /\ f.n <= m /\ calls'[k] = f
    BY <1>1, FrameAt DEF SignalInv, m
  <2>2. FrameInv(f)
    BY DEF DeliveryInv
  <2> HIDE DEF f
  <2>3. /\ f.i \in Nat /\ f.n \in Nat /\ f.due \subseteq Conns /\ f.ran \subseteq Conns
    BY <2>1, FrameSets
  <2>4. \A i \in 1..f.n : connections'[i] = connections[i]
    <3>1. m \in Nat
      BY <1>1
    <3>2. \A i \in 1..f.n : i \in 1..m
      BY <2>1, <2>3, <3>1
    <3>3. QED
      BY <1>2, <3>2
  <2>5. \A d \in f.ran : d # c /\ birth'[d] = birth[d] /\ birth[d] <= made
    BY <1>1, <1>4, <1>5, <2>2, <2>3 DEF FrameInv, DeliveryInv, BirthInv
  <2>6. \A d \in f.ran : birth'[d] # 0 /\ \A e \in Live' : f.i <= index'[e] => birth'[d] < birth'[e]
    BY <1>3, <1>4, <1>5, <2>2, <2>3, <2>5 DEF FrameInv
  <2>7. f.due \subseteq Live' \ Blocked'
    BY <1>3, <2>2 DEF FrameInv
  <2>8. \A d \in f.due \ f.ran : f.i <= index'[d] /\ index'[d] <= f.n
    BY <1>1, <1>4, <1>5, <2>2 DEF FrameInv
  <2>9. QED
    BY <2>1, <2>2, <2>4, <2>6, <2>7, <2>8 DEF FrameInv
<1>8. QED
  BY <1>1, <1>6, <1>7 DEF DeliveryInv

\* Steps that leave the calls alone and block nothing.
LEMMA CallsKept ==
  ASSUME SignalInv, DeliveryInv, UNCHANGED <<calls, connections, index, birth, made, Live>>,
         Blocked' \subseteq Blocked
  PROVE  DeliveryInv'
<1>1. BirthInv'
  BY DEF DeliveryInv, BirthInv
<1>2. ASSUME NEW k \in DOMAIN calls
      PROVE  FrameInv(calls[k])'
  BY DEF FrameInv, DeliveryInv
<1>3. QED
  BY <1>1, <1>2 DEF DeliveryInv

\* Steps that cut or block c.
LEMMA CallsExcused ==
  ASSUME SignalInv, DeliveryInv, NEW c \in Conns, calls' = Excused(c),
         UNCHANGED <<index, birth, made>>,
         \A i \in DOMAIN connections : connections'[i] \in {connections[i], Nothing},
         Live' \subseteq Live, Live \ {c} \subseteq Live', Blocked' \subseteq Blocked \union {c}
  PROVE  DeliveryInv'
<1>1. BirthInv'
  BY DEF DeliveryInv, BirthInv
<1>2. /\ DOMAIN calls' = DOMAIN calls /\ DOMAIN calls = 1..Len(calls)
      /\ \A k \in 1..Len(calls) :
           /\ calls'[k].i = calls[k].i /\ calls'[k].n = calls[k].n
           /\ calls'[k].first = calls[k].first /\ calls'[k].ran = calls[k].ran
           /\ calls'[k].due = calls[k].due \ {c}
           /\ calls[k] \in Frame /\ calls[k].n <= Len(connections) /\ Len(connections) \in Nat
  BY ExcusedFrames, FrameAt, SlotAt DEF SignalInv
<1>3. ASSUME NEW k \in DOMAIN calls'
      PROVE  FrameInv(calls[k])'
  <2> DEFINE f == calls[k]
             g == calls'[k]
  <2>1. /\ g.i = f.i /\ g.n = f.n /\ g.first = f.first /\ g.ran = f.ran /\ g.due = f.due \ {c}
        /\ f \in Frame /\ f.n <= Len(connections) /\ Len(connections) \in Nat /\ FrameInv(f)
    BY <1>2, <1>3 DEF DeliveryInv
  <2> HIDE DEF f
  <2>2. f.n \in Nat
    BY <2>1, FrameSets
  <2>3. \A i \in 1..f.n : connections'[i] \in {connections[i], Nothing}
    BY <2>1, <2>2, SlotAt DEF SignalInv
  <2> HIDE DEF g
  <2>4. \A i \in 1..g.n : connections'[i] # Nothing => connections'[i] \in g.first
    BY <2>1, <2>3 DEF FrameInv
  <2>5. \A d \in g.ran : birth'[d] # 0 /\ \A e \in Live' : g.i <= index'[e] => birth'[d] < birth'[e]
    BY <2>1 DEF FrameInv
  <2>6. g.due \subseteq Live' \ Blocked'
    BY <2>1 DEF FrameInv
  <2>7. \A d \in g.due \ g.ran : g.i <= index'[d] /\ index'[d] <= g.n
    BY <2>1 DEF FrameInv
  <2>8. QED
    BY <2>4, <2>5, <2>6, <2>7 DEF FrameInv, g
<1>4. QED
  BY <1>1, <1>3 DEF DeliveryInv

\* Steps of a call, which leave the slots and connections alone.
LEMMA CallsChange ==
  ASSUME SignalInv, DeliveryInv, UNCHANGED <<connections, connVars>>,
         \A k \in DOMAIN calls' : FrameInv(calls'[k])
  PROVE  DeliveryInv'
<1>1. UNCHANGED <<connections, index, birth, made, Live, Blocked>>
  BY DEF connVars, Live, Blocked
<1>2. BirthInv'
  BY <1>1 DEF DeliveryInv, BirthInv
<1>3. ASSUME NEW k \in DOMAIN calls'
      PROVE  FrameInv(calls[k])'
  BY <1>1 DEF FrameInv
<1>4. QED
  BY <1>2, <1>3 DEF DeliveryInv

LEMMA CallDelivery ==
  ASSUME SignalInv, DeliveryInv, Call
  PROVE  DeliveryInv'
<1> DEFINE f == [i |-> 1, n |-> Len(callbacks), recursion |-> Recursion,
                 runs |-> Nothing, first |-> Live, due |-> Live \ Blocked, ran |-> {}]
           m == Len(calls)
<1>1. UNCHANGED <<connections, connVars>> /\ from = 0 /\ calls' = Append(calls, f)
  BY DEF Call, InProgram, slotVars
<1>2. /\ f.i = 1 /\ f.n = Len(connections) /\ f.first = Live /\ f.due = Live \ Blocked
      /\ f.ran = {} /\ f \in Frame
  BY SlotAt DEF Frame, Recursion, Live, Blocked, SignalInv, TypeOK
<1>3. FrameInv(f)
  <2>1. \A i \in 1..Len(connections) : connections[i] # Nothing => connections[i] \in Live
    BY <1>1, SlotAt DEF SignalInv, SlotInv, Valid
  <2>2. Len(connections) \in Nat
    BY SlotAt DEF SignalInv
  <2>3. \A c \in Live : index[c] \in 1..Len(connections)
    BY LiveAt
  <2> HIDE DEF f
  <2>4. QED
    BY <1>2, <2>1, <2>2, <2>3 DEF FrameInv
<1> HIDE DEF f
<1>4. m \in Nat /\ calls \in Seq(Frame) /\ DOMAIN calls = 1..m
  BY FrameAt DEF SignalInv, TypeOK
<1>5. /\ calls' \in Seq(Frame) /\ Len(calls') = m + 1 /\ calls'[m + 1] = f
      /\ \A k \in 1..m : calls'[k] = calls[k]
  BY <1>1, <1>2, <1>4, SlotAdded
<1>6. DOMAIN calls' = 1..(m + 1)
  BY <1>5, LenProperties
<1>7. \A k \in 1..(m + 1) : k = m + 1 \/ k \in 1..m
  BY <1>4
<1>8. \A k \in 1..m : FrameInv(calls[k])
  BY <1>4 DEF DeliveryInv
<1>9. \A k \in DOMAIN calls' : FrameInv(calls'[k])
  BY <1>3, <1>5, <1>6, <1>7, <1>8
<1>10. QED
  BY <1>1, <1>9, CallsChange

\* The innermost call goes on as f.
LEMMA TopDelivery ==
  ASSUME SignalInv, DeliveryInv, UNCHANGED <<connections, connVars>>,
         calls # <<>>, NEW f \in Frame, calls' = WithTop(f), FrameInv(f)
  PROVE  DeliveryInv'
<1>1. /\ calls' \in Seq(Frame) /\ Len(calls') = Len(calls) /\ calls'[Len(calls)] = f
      /\ \A k \in 1..Len(calls) : k # Len(calls) => calls'[k] = calls[k]
  BY TopReplaced DEF WithTop, SignalInv, TypeOK
<1>2. DOMAIN calls' = 1..Len(calls) /\ DOMAIN calls = 1..Len(calls)
  BY <1>1, LenProperties, FrameAt DEF SignalInv
<1>3. \A k \in DOMAIN calls' : FrameInv(calls'[k])
  BY <1>1, <1>2 DEF DeliveryInv
<1>4. QED
  BY <1>3, CallsChange

\* The innermost call is over.
LEMMA PopDelivery ==
  ASSUME SignalInv, DeliveryInv, UNCHANGED <<connections, connVars>>,
         calls # <<>>, calls' = WithoutTop
  PROVE  DeliveryInv'
<1>1. /\ calls' \in Seq(Frame) /\ Len(calls') = Len(calls) - 1
      /\ \A k \in 1..Len(calls') : calls'[k] = calls[k]
  <2>1. calls \in Seq(Frame)
    BY DEF SignalInv, TypeOK
  <2>2. QED
    BY <2>1, TopRemoved DEF WithoutTop
<1>2. DOMAIN calls' = 1..(Len(calls) - 1) /\ DOMAIN calls = 1..Len(calls) /\ Len(calls) \in Nat
  BY <1>1, LenProperties, FrameAt DEF SignalInv
<1>3. \A k \in 1..(Len(calls) - 1) : k \in 1..Len(calls)
  BY <1>2
<1>4. \A k \in DOMAIN calls' : FrameInv(calls'[k])
  BY <1>1, <1>2, <1>3 DEF DeliveryInv
<1>5. QED
  BY <1>4, CallsChange

\* What stands in the slot a call comes to.
LEMMA SlotVisited ==
  ASSUME SignalInv, from = 0, NEW i \in 1..Len(connections)
  PROVE  /\ callbacks[i] # Nothing =>
              callbacks[i] \in Live \ Blocked /\ index[callbacks[i]] = i
              /\ connections[i] = callbacks[i]
         /\ \A c \in Live \ Blocked : index[c] = i => callbacks[i] = c
<1>1. /\ IF connections[i] = Nothing THEN callbacks[i] = Nothing
         ELSE connections[i] \in Live /\ index[connections[i]] = i
  BY SlotAt DEF SignalInv, SlotInv, Valid
<1>2. \A c \in Live : /\ swapped[c] \in {Nothing, c} /\ c # Nothing
                      /\ callbacks[index[c]] = IF swapped[c] = c THEN Nothing ELSE c
  BY LiveAt, SignalAssumption
<1>3. QED
  BY <1>1, <1>2 DEF Blocked

\* The next frame of a visit.
LEMMA VisitFrame ==
  ASSUME SignalInv, Visit
  PROVE  \E f \in Frame :
           /\ calls' = WithTop(f)
           /\ f.i = Top.i + 1 /\ f.n = Top.n /\ f.recursion = Top.recursion
           /\ f.first = Top.first /\ f.due = Top.due /\ f.runs = callbacks[Top.i]
           /\ f.ran = IF callbacks[Top.i] = Nothing THEN Top.ran
                      ELSE Top.ran \union {callbacks[Top.i]}
<1> DEFINE h == Top
           g == callbacks[h.i]
           r == IF g = Nothing THEN h.ran ELSE h.ran \union {g}
           e == h.i + 1
           f == [h EXCEPT !.i = e, !.runs = g, !.ran = r]
<1>1. calls # <<>> /\ h.i <= h.n /\ calls' = WithTop(f)
  BY DEF Visit, Walking, Last
<1>2. /\ h \in Frame /\ h.i \in Nat \ {0} /\ h.n \in Nat /\ h.n <= Len(connections)
  BY <1>1, TopAt DEF SignalInv
<1>3. h.i \in 1..Len(connections)
  BY <1>1, <1>2, SlotAt DEF SignalInv
<1>4. g \in Conns \union {Nothing}
  BY <1>3, SlotAt DEF SignalInv
<1>5. r \in SUBSET Conns
  BY <1>2, <1>4 DEF Frame
<1>6. e \in Nat \ {0}
  BY <1>2
<1> HIDE DEF e, r, g
<1>7. /\ f \in Frame /\ f.i = e /\ f.n = h.n /\ f.recursion = h.recursion
      /\ f.first = h.first /\ f.due = h.due /\ f.runs = g /\ f.ran = r
  BY <1>2, <1>4, <1>5, <1>6 DEF Frame
<1> HIDE DEF f
<1>8. QED
  BY <1>1, <1>7 DEF e, r, g

LEMMA VisitDelivery ==
  ASSUME SignalInv, DeliveryInv, Visit
  PROVE  DeliveryInv'
<1>1. /\ UNCHANGED <<connections, connVars>> /\ calls # <<>> /\ Top.i <= Top.n
  BY DEF Visit, Walking, Last, slotVars
<1>2. from = 0
  BY <1>1 DEF SignalInv, TypeOK
<1> DEFINE h == Top
           g == callbacks[h.i]
<1>3. PICK f \in Frame :
        /\ calls' = WithTop(f)
        /\ f.i = h.i + 1 /\ f.n = h.n /\ f.first = h.first /\ f.due = h.due
        /\ f.ran = IF g = Nothing THEN h.ran ELSE h.ran \union {g}
  BY VisitFrame
<1>4. /\ h \in Frame /\ h.i \in Nat \ {0} /\ h.n \in Nat /\ h.n <= Len(connections)
      /\ Len(calls) \in DOMAIN calls /\ h = calls[Len(calls)]
  BY <1>1, TopAt, FrameAt DEF SignalInv
<1>5. h.i \in 1..Len(connections)
  BY <1>1, <1>4, SlotAt DEF SignalInv
<1>6. /\ g # Nothing => g \in Live \ Blocked /\ index[g] = h.i
      /\ \A c \in Live \ Blocked : index[c] = h.i => g = c
  BY <1>2, <1>5, SlotVisited
<1>7. FrameInv(h)
  BY <1>4 DEF DeliveryInv
<1> HIDE DEF g, h
<1>8. FrameInv(f)
  <2>1. \A c \in Live : index[c] \in Nat /\ c \in Conns
    BY LiveAt
  <2>2. \A c \in f.ran : birth[c] # 0 /\ \A d \in Live : f.i <= index[d] => birth[c] < birth[d]
    <3>1. \A d \in Live : f.i <= index[d] => h.i < index[d] /\ h.i <= index[d]
      BY <1>3, <1>4, <2>1
    <3>2. \A c \in h.ran : birth[c] # 0 /\ \A d \in Live : f.i <= index[d] => birth[c] < birth[d]
      BY <1>7, <3>1 DEF FrameInv
    <3>3. g # Nothing => birth[g] # 0 /\ \A d \in Live : f.i <= index[d] => birth[g] < birth[d]
      BY <1>6, <3>1 DEF DeliveryInv, BirthInv
    <3>4. QED
      BY <1>3, <3>2, <3>3
  <2>3. \A c \in f.due \ f.ran : f.i <= index[c] /\ index[c] <= f.n
    <3> SUFFICES ASSUME NEW c \in f.due \ f.ran
                 PROVE  f.i <= index[c] /\ index[c] <= f.n
      OBVIOUS
    <3>1. c \in h.due \ h.ran /\ c \in Live \ Blocked
      BY <1>3, <1>7 DEF FrameInv
    <3>2. h.i <= index[c] /\ index[c] <= h.n /\ index[c] \in Nat
      BY <1>7, <2>1, <3>1 DEF FrameInv
    <3>3. index[c] # h.i
      <4>1. SUFFICES ASSUME index[c] = h.i PROVE FALSE
        OBVIOUS
      <4>2. g = c /\ c # Nothing
        BY <1>6, <2>1, <3>1, <4>1, SignalAssumption
      <4>3. QED
        BY <1>3, <4>2
    <3>4. QED
      BY <1>3, <1>4, <3>2, <3>3
  <2>4. QED
    BY <1>3, <1>7, <2>2, <2>3 DEF FrameInv
<1>9. QED
  BY <1>1, <1>3, <1>8, TopDelivery

LEMMA CallbackReturnsDelivery ==
  ASSUME SignalInv, DeliveryInv, CallbackReturns
  PROVE  DeliveryInv'
<1> DEFINE h == Top
           f == [h EXCEPT !.runs = Nothing]
<1>1. UNCHANGED <<connections, connVars>> /\ calls # <<>> /\ calls' = WithTop(f)
  BY DEF CallbackReturns, slotVars
<1>2. h \in Frame /\ Len(calls) \in DOMAIN calls /\ h = calls[Len(calls)]
  BY <1>1, TopAt, FrameAt DEF SignalInv
<1>3. FrameInv(h)
  BY <1>2 DEF DeliveryInv
<1> HIDE DEF h
<1>4. /\ f \in Frame /\ f.i = h.i /\ f.n = h.n /\ f.first = h.first /\ f.due = h.due
      /\ f.ran = h.ran
  BY <1>2 DEF Frame
<1> HIDE DEF f
<1>5. FrameInv(f)
  BY <1>3, <1>4 DEF FrameInv
<1>6. QED
  BY <1>1, <1>4, <1>5, TopDelivery

\* A slot that moves keeps its place among the others.
LEMMA MoveSlotDelivery ==
  ASSUME SignalInv, DeliveryInv, MoveSlot
  PROVE  DeliveryInv'
<1> DEFINE e == connections[from]
<1>1. /\ from \in DOMAIN connections /\ e # Nothing /\ index' = [index EXCEPT ![e] = to]
      /\ UNCHANGED <<signal, made, birth, calls>>
  BY DEF MoveSlot, Patched
<1>2. to \in 1..from /\ from \in Nat \ {0} /\ calls = <<>>
  BY <1>1, SlotAt DEF SignalInv, TypeOK
<1>3. e \in Live /\ index[e] = from
  BY <1>1, <1>2 DEF SignalInv, SlotInv, Valid
<1>4. \A c \in Live : /\ c \in Conns /\ index[c] \in Nat /\ connections[index[c]] = c
                      /\ index[c] < to \/ index[c] >= from
  BY <1>2, LiveAt DEF SignalInv, SlotInv, Valid
<1>5. Live' = Live
  BY <1>1 DEF Live
<1>6. index'[e] = to /\ \A c \in Live : c # e => index'[c] = index[c]
  BY <1>1, <1>3, <1>4 DEF SignalInv, TypeOK
<1> HIDE DEF e
<1>7. \A c, d \in Live : index'[c] < index'[d] => index[c] < index[d]
  <2> SUFFICES ASSUME NEW c \in Live, NEW d \in Live, index'[c] < index'[d]
               PROVE  index[c] < index[d]
    OBVIOUS
  <2>1. CASE c = e
    <3>1. d # e /\ index[d] # from
      BY <1>2, <1>3, <1>4, <1>6, <2>1 DEF e
    <3>2. QED
      BY <1>2, <1>3, <1>4, <1>6, <2>1, <3>1
  <2>2. CASE c # e /\ d = e
    BY <1>2, <1>3, <1>4, <1>6, <2>2
  <2>3. CASE c # e /\ d # e
    BY <1>6, <2>3
  <2>4. QED
    BY <2>1, <2>2, <2>3
<1>8. BirthInv'
  BY <1>1, <1>5, <1>7 DEF DeliveryInv, BirthInv
<1>9. QED
  BY <1>1, <1>2, <1>8 DEF DeliveryInv

LEMMA DeliveryStep ==
  ASSUME SignalInv, DeliveryInv, [Next]_vars
  PROVE  DeliveryInv'
<1>1. CASE UNCHANGED vars
  BY <1>1, CallsKept DEF vars, slotVars, flagVars, connVars, Live, Blocked
<1>2. ASSUME NEW c \in Conns, Connect(c)
      PROVE  DeliveryInv'
  BY <1>2, ConnectDelivery
<1>3. ASSUME NEW c \in Conns, MarkOwned(c)
      PROVE  DeliveryInv'
  BY <1>3, CallsKept DEF MarkOwned, slotVars, Live, Blocked
<1>4. ASSUME NEW c \in Conns, Disconnect(c)
      PROVE  DeliveryInv'
  <2>1. /\ calls' = Excused(c) /\ UNCHANGED <<index, birth, made>>
        /\ signal' = [signal EXCEPT ![c] = FALSE] /\ swapped' = [swapped EXCEPT ![c] = Nothing]
    BY <1>4 DEF Disconnect
  <2>2. Live' \subseteq Live /\ Live \ {c} \subseteq Live' /\ Blocked' \subseteq Blocked
    BY <2>1 DEF Live, Blocked, SignalInv, TypeOK
  <2>3. \A i \in DOMAIN connections : connections'[i] \in {connections[i], Nothing}
    BY <1>4, SlotAt DEF Disconnect, slotVars, SignalInv
  <2>4. QED
    BY <2>1, <2>2, <2>3, CallsExcused
<1>5. ASSUME NEW c \in Conns, Block(c)
      PROVE  DeliveryInv'
  <2>1. /\ calls' = Excused(c) /\ UNCHANGED <<index, birth, made, signal, connections>>
        /\ swapped' = [swapped EXCEPT ![c] = callbacks[index[c]]]
    BY <1>5 DEF Block, SwapCallback
  <2>2. Live' = Live /\ Blocked' \subseteq Blocked \union {c}
    BY <2>1 DEF Live, Blocked, SignalInv, TypeOK
  <2>3. QED
    BY <2>1, <2>2, CallsExcused
<1>6. ASSUME NEW c \in Conns, Unblock(c)
      PROVE  DeliveryInv'
  <2>1. /\ UNCHANGED <<calls, index, birth, made, signal, connections>> /\ swapped[c] # Nothing
        /\ swapped' = [swapped EXCEPT ![c] = callbacks[index[c]]]
    BY <1>6 DEF Unblock, SwapCallback
  <2>2. Live' = Live /\ Blocked' \subseteq Blocked
    BY <1>6, <2>1 DEF Live, Blocked, SignalInv, TypeOK, Unblock
  <2>3. QED
    BY <2>1, <2>2, CallsKept
<1>7. CASE CallbackThrows
  BY <1>7, PopDelivery DEF CallbackThrows, slotVars
<1>8. CASE CallReturns
  BY <1>8, PopDelivery DEF CallReturns, Walking, slotVars
<1>9. CASE SkipSlot
  BY <1>9, CallsKept DEF SkipSlot, slotVars, connVars, Live, Blocked
<1>10. CASE Resize
  <2>1. calls' = <<>> /\ UNCHANGED <<connVars, Live>>
    BY <1>10, SlotAt DEF Resize, SignalInv, TypeOK, connVars, Live
  <2>2. BirthInv'
    BY <2>1 DEF DeliveryInv, BirthInv, connVars
  <2>3. QED
    BY <2>1, <2>2 DEF DeliveryInv
<1>11. CASE Destroy
  <2>1. calls' = <<>> /\ Live' = {} /\ UNCHANGED <<made, birth>>
    BY <1>11 DEF Destroy, Live
  <2>2. BirthInv'
    BY <2>1 DEF DeliveryInv, BirthInv
  <2>3. QED
    BY <2>1, <2>2 DEF DeliveryInv
<1>12. QED
  BY <1>1, <1>2, <1>3, <1>4, <1>5, <1>6, <1>7, <1>8, <1>9, <1>10, <1>11, CallDelivery,
     VisitDelivery, CallbackReturnsDelivery, MoveSlotDelivery
  DEF Next

-----------------------------------------------------------------------------
(* Each step is one of SignalDelivery, or none *)

LEMMA ViewTop ==
  ASSUME SignalInv, calls # <<>>
  PROVE  /\ ViewOf(calls) # <<>> /\ Delivery!Top = View(Top)
         /\ Delivery!Top.runs = Top.runs /\ Delivery!Top.ran = Top.ran
         /\ Delivery!Top.first = Top.first /\ Delivery!Top.due = Top.due
<1>1. calls \in Seq(Frame) /\ Len(calls) \in 1..Len(calls)
  BY TopAt DEF SignalInv, TypeOK
<1>2. /\ ViewOf(calls) # <<>> /\ Len(ViewOf(calls)) = Len(calls)
      /\ ViewOf(calls)[Len(calls)] = View(calls[Len(calls)])
  BY <1>1, ViewSeq
<1>3. Delivery!Top = ViewOf(calls)[Len(ViewOf(calls))]
  BY DEF Delivery!Top, ViewOf, View
<1>4. Delivery!Top = View(Top)
  BY <1>2, <1>3 DEF Top
<1>5. QED
  BY <1>2, <1>4 DEF View

LEMMA ViewInProgram ==
  ASSUME SignalInv, InProgram
  PROVE  Delivery!InProgram
<1>1. CASE calls = <<>>
  <2>1. ViewOf(calls) = <<>>
    BY <1>1, ViewSeq DEF SignalInv, TypeOK
  <2>2. QED
    BY <2>1 DEF Delivery!InProgram, ViewOf, View
<1>2. CASE calls # <<>>
  BY <1>2, ViewTop DEF Delivery!InProgram, InProgram
<1>3. QED
  BY <1>1, <1>2

LEMMA ConnectMaps ==
  ASSUME SignalInv, NEW c \in Conns, Connect(c)
  PROVE  Delivery!Connect(c)
<1>1. /\ made' = made + 1 /\ birth' = [birth EXCEPT ![c] = made + 1] /\ UNCHANGED calls
      /\ signal' = [signal EXCEPT ![c] = TRUE] /\ UNCHANGED swapped
      /\ birth[c] = 0 /\ ~signal[c] /\ swapped[c] = Nothing
  BY DEF Connect, SignalInv, LifeInv
<1>2. Live' = Live \union {c} /\ Blocked' = Blocked
  BY <1>1 DEF SignalInv, TypeOK, Live, Blocked
<1>3. Delivery!InProgram
  BY ViewInProgram DEF Connect
<1>4. QED
  BY <1>1, <1>2, <1>3 DEF Delivery!Connect

LEMMA ExcusedMaps ==
  ASSUME SignalInv, NEW c \in Conns, calls' = Excused(c)
  PROVE  ViewOf(calls') = Delivery!Excused(c)
<1>1. ViewOf(calls') = [k \in DOMAIN ViewOf(calls) |-> [ViewOf(calls)[k] EXCEPT !.due = @ \ {c}]]
  BY ViewExcused DEF SignalInv
<1>2. QED
  BY <1>1 DEF Delivery!Excused, ViewOf, View

LEMMA DisconnectMaps ==
  ASSUME SignalInv, NEW c \in Conns, Disconnect(c)
  PROVE  Delivery!Disconnect(c)
<1>1. /\ UNCHANGED <<made, birth>> /\ calls' = Excused(c)
      /\ signal' = [signal EXCEPT ![c] = FALSE] /\ swapped' = [swapped EXCEPT ![c] = Nothing]
  BY DEF Disconnect
<1>2. Live' = Live \ {c} /\ Blocked' = Blocked \ {c}
  BY <1>1 DEF SignalInv, TypeOK, Live, Blocked
<1>3. Delivery!InProgram /\ ViewOf(calls') = Delivery!Excused(c)
  BY <1>1, ViewInProgram, ExcusedMaps DEF Disconnect
<1>4. QED
  BY <1>1, <1>2, <1>3 DEF Delivery!Disconnect, ViewOf, View

LEMMA BlockMaps ==
  ASSUME SignalInv, NEW c \in Conns, Block(c)
  PROVE  Delivery!Block(c)
<1>1. /\ UNCHANGED <<made, birth, signal>> /\ calls' = Excused(c) /\ signal[c]
      /\ swapped' = [swapped EXCEPT ![c] = callbacks[index[c]]]
      /\ swapped'[c] = c
  BY SwapInv DEF Block, SwapCallback
<1>2. Live' = Live /\ Blocked' = Blocked \union {c} /\ c \in Live
  BY <1>1, SignalAssumption DEF SignalInv, TypeOK, Live, Blocked
<1>3. Delivery!InProgram /\ ViewOf(calls') = Delivery!Excused(c)
  BY <1>1, ViewInProgram, ExcusedMaps DEF Block
<1>4. QED
  BY <1>1, <1>2, <1>3 DEF Delivery!Block, ViewOf, View

LEMMA UnblockMaps ==
  ASSUME SignalInv, NEW c \in Conns, Unblock(c)
  PROVE  Delivery!Unblock(c)
<1>1. /\ UNCHANGED <<made, birth, signal, calls>> /\ signal[c]
      /\ swapped' = [swapped EXCEPT ![c] = callbacks[index[c]]]
      /\ swapped'[c] = Nothing
  BY SwapInv DEF Unblock, SwapCallback
<1>2. Live' = Live /\ Blocked' = Blocked \ {c}
  BY <1>1 DEF SignalInv, TypeOK, Live, Blocked
<1>3. Delivery!InProgram
  BY ViewInProgram DEF Unblock
<1>4. QED
  BY <1>1, <1>2, <1>3 DEF Delivery!Unblock

\* Steps that change the calls alone.
LEMMA Kept ==
  ASSUME UNCHANGED connVars
  PROVE  UNCHANGED <<made, birth, Live, Blocked>>
BY DEF connVars, Live, Blocked

LEMMA CallMaps ==
  ASSUME SignalInv, Call
  PROVE  Delivery!Call
<1> DEFINE f == [i |-> 1, n |-> Len(callbacks), recursion |-> Recursion,
                 runs |-> Nothing, first |-> Live, due |-> Live \ Blocked, ran |-> {}]
           v == [first |-> Live, due |-> Live \ Blocked, ran |-> {}, runs |-> Nothing]
<1>1. UNCHANGED connVars /\ InProgram /\ calls' = Append(calls, f) /\ calls \in Seq(Frame)
  BY DEF Call, SignalInv, TypeOK
<1>2. f \in Frame /\ View(f) = v
  BY SlotAt DEF Frame, Recursion, Live, Blocked, SignalInv, TypeOK, View
<1> HIDE DEF f
<1>3. ViewOf(calls') = Append(ViewOf(calls), v)
  BY <1>1, <1>2, ViewAdded
<1>4. UNCHANGED <<made, birth, Live, Blocked>>
  BY <1>1, Kept
<1>5. Delivery!InProgram
  BY <1>1, ViewInProgram
<1>6. QED
  BY <1>3, <1>4, <1>5 DEF Delivery!Call, ViewOf, View

LEMMA WithTopMaps ==
  ASSUME SignalInv, calls # <<>>, NEW f \in Frame, calls' = WithTop(f)
  PROVE  ViewOf(calls') = Delivery!WithTop(View(f))
<1>1. calls \in Seq(Frame)
  BY DEF SignalInv, TypeOK
<1>2. ViewOf(calls') = [ViewOf(calls) EXCEPT ![Len(ViewOf(calls))] = View(f)]
  BY <1>1, ViewTopReplaced DEF WithTop
<1>3. QED
  BY <1>2 DEF Delivery!WithTop, ViewOf, View

LEMMA WithoutTopMaps ==
  ASSUME SignalInv, calls # <<>>, calls' = WithoutTop
  PROVE  ViewOf(calls') = Delivery!WithoutTop
<1>1. calls \in Seq(Frame)
  BY DEF SignalInv, TypeOK
<1>2. ViewOf(calls') = SubSeq(ViewOf(calls), 1, Len(ViewOf(calls)) - 1)
  BY <1>1, ViewTopRemoved DEF WithoutTop
<1>3. QED
  BY <1>2 DEF Delivery!WithoutTop, ViewOf, View

LEMMA ViewRuns ==
  ASSUME NEW f, NEW g, NEW c \in Conns, NEW h \in Views, h = View(f),
         NEW e, e = [h EXCEPT !.runs = c, !.ran = @ \union {c}],
         g.first = f.first, g.due = f.due, g.runs = c, g.ran = f.ran \union {c}
  PROVE  View(g) = e
<1> DEFINE r == h.ran \union {c}
<1>1. h.first = f.first /\ h.due = f.due /\ h.ran = f.ran
  BY DEF View
<1>2. View(g) = [first |-> h.first, due |-> h.due, ran |-> r, runs |-> c]
  BY <1>1 DEF View
<1>3. r \in SUBSET Conns
  BY DEF Views
<1>4. e = [h EXCEPT !.runs = c, !.ran = r]
  OBVIOUS
<1> HIDE DEF r
<1>5. e = [first |-> h.first, due |-> h.due, ran |-> r, runs |-> c]
  BY <1>3, <1>4 DEF Views
<1>6. QED
  BY <1>2, <1>5

\* An empty slot is passed over; at another the turn of its connection has come.
LEMMA VisitMaps ==
  ASSUME SignalInv, DeliveryInv, Visit
  PROVE  \/ UNCHANGED <<made, birth, Live, Blocked>> /\ ViewOf(calls') = ViewOf(calls)
         \/ \E c \in Conns : Delivery!Run(c)
<1> DEFINE h == Top
           g == callbacks[h.i]
<1>1. /\ UNCHANGED connVars /\ calls # <<>> /\ h.i <= h.n /\ h.runs = Nothing
  BY DEF Visit, Walking, Last
<1>2. from = 0 /\ calls \in Seq(Frame)
  BY <1>1 DEF SignalInv, TypeOK
<1>3. PICK f \in Frame :
        /\ calls' = WithTop(f)
        /\ f.first = h.first /\ f.due = h.due /\ f.runs = g
        /\ f.ran = IF g = Nothing THEN h.ran ELSE h.ran \union {g}
  BY VisitFrame
<1>4. /\ h \in Frame /\ h.i \in Nat \ {0} /\ h.n \in Nat /\ h.n <= Len(connections)
      /\ Len(calls) \in DOMAIN calls /\ h = calls[Len(calls)]
  BY <1>1, TopAt, FrameAt DEF SignalInv
<1>5. UNCHANGED <<made, birth, Live, Blocked>>
  BY <1>1, Kept
<1>6. ViewOf(calls') = Delivery!WithTop(View(f))
  BY <1>1, <1>3, WithTopMaps
<1>7. /\ Delivery!Top.runs = Nothing /\ Delivery!Top.ran = h.ran
      /\ Delivery!Top.first = h.first /\ Delivery!Top.due = h.due
      /\ Delivery!Top = View(h) /\ ViewOf(calls) # <<>>
  BY <1>1, ViewTop
<1>8. CASE g = Nothing
  <2>1. View(f) = View(h)
    BY <1>1, <1>3, <1>8 DEF View
  <2>2. /\ ViewOf(calls) \in Seq(Views) /\ Len(ViewOf(calls)) \in 1..Len(ViewOf(calls))
        /\ View(h) = ViewOf(calls)[Len(ViewOf(calls))]
    BY <1>2, <1>4, FrameAt, ViewSeq DEF SignalInv
  <2>3. Delivery!WithTop(View(f)) = [ViewOf(calls) EXCEPT ![Len(ViewOf(calls))] = View(f)]
    BY DEF Delivery!WithTop, ViewOf, View
  <2> HIDE DEF h
  <2>4. ViewOf(calls') = [ViewOf(calls) EXCEPT ![Len(ViewOf(calls))] = ViewOf(calls)[Len(ViewOf(calls))]]
    BY <1>6, <2>1, <2>2, <2>3
  <2>5. \A s \in Seq(Views), j \in Nat : j \in 1..Len(s) => [s EXCEPT ![j] = s[j]] = s
    OBVIOUS
  <2>6. ViewOf(calls') = ViewOf(calls)
    BY <2>2, <2>4, <2>5
  <2>7. QED
    BY <1>5, <2>6
<1>9. CASE g # Nothing
  <2>1. h.i \in 1..Len(connections) /\ h.i \in 1..h.n
    BY <1>1, <1>4, SlotAt DEF SignalInv
  <2>2. g \in Live \ Blocked /\ index[g] = h.i /\ connections[h.i] = g
    BY <1>2, <1>9, <2>1, SlotVisited
  <2>3. FrameInv(h)
    BY <1>4 DEF DeliveryInv
  <2>4. g \in h.first /\ \A c \in h.ran : birth[c] < birth[g]
    BY <1>4, <1>9, <2>1, <2>2, <2>3 DEF FrameInv
  <2>5. g \in Conns /\ birth[g] \in Nat
    BY <2>2, LiveAt
  <2>6. g \notin h.ran
    BY <2>4, <2>5
  <2>7. PICK c \in Conns : c = g
    BY <2>5
  <2> HIDE DEF g, h
  <2>8. /\ f.first = h.first /\ f.due = h.due /\ f.runs = c /\ f.ran = h.ran \union {c}
    BY <1>3, <1>9, <2>7
  <2> DEFINE t == Delivery!Top
             e == [t EXCEPT !.runs = c, !.ran = @ \union {c}]
  <2>9. View(f) = e
    <3>1. t = View(h) /\ t \in Views
      BY <1>4, <1>7 DEF View, Views, Frame
    <3> HIDE DEF t
    <3>2. e = [t EXCEPT !.runs = c, !.ran = @ \union {c}]
      OBVIOUS
    <3> HIDE DEF e
    <3>3. QED
      BY <2>8, <3>1, <3>2, ViewRuns, ZenonT(30)
  <2>10. ViewOf(calls') = Delivery!WithTop([Delivery!Top EXCEPT !.runs = c, !.ran = @ \union {c}])
    BY <1>6, <2>9
  <2>11. /\ c \in (Delivery!Top.first \intersect Live) \ (Blocked \union Delivery!Top.ran)
         /\ \A d \in Delivery!Top.ran : birth[d] < birth[c]
    BY <1>7, <2>2, <2>4, <2>6, <2>7
  <2>12. Delivery!Run(c)
    BY <1>5, <1>7, <2>10, <2>11 DEF Delivery!Run, ViewOf, View
  <2>13. QED
    BY <2>12
<1>10. QED
  BY <1>8, <1>9

LEMMA CallbackReturnsMaps ==
  ASSUME SignalInv, CallbackReturns
  PROVE  Delivery!CallbackReturns
<1> DEFINE h == Top
           f == [h EXCEPT !.runs = Nothing]
<1>1. UNCHANGED connVars /\ calls # <<>> /\ calls' = WithTop(f) /\ h.runs # Nothing
  BY DEF CallbackReturns
<1>2. h \in Frame
  BY <1>1, TopAt DEF SignalInv
<1>3. Delivery!Top = View(h) /\ Delivery!Top.runs # Nothing /\ ViewOf(calls) # <<>>
  BY <1>1, ViewTop
<1> HIDE DEF h
<1>4. f \in Frame /\ View(f) = [View(h) EXCEPT !.runs = Nothing]
  BY <1>2 DEF Frame, View
<1> HIDE DEF f
<1>5. ViewOf(calls') = Delivery!WithTop([Delivery!Top EXCEPT !.runs = Nothing])
  BY <1>1, <1>3, <1>4, WithTopMaps
<1>6. UNCHANGED <<made, birth, Live, Blocked>>
  BY <1>1, Kept
<1>7. QED
  BY <1>3, <1>5, <1>6 DEF Delivery!CallbackReturns, ViewOf, View

LEMMA CallbackThrowsMaps ==
  ASSUME SignalInv, CallbackThrows
  PROVE  Delivery!CallbackThrows
<1>1. UNCHANGED connVars /\ calls # <<>> /\ calls' = WithoutTop /\ Top.runs # Nothing
  BY DEF CallbackThrows
<1>2. Delivery!Top.runs # Nothing /\ ViewOf(calls) # <<>>
  BY <1>1, ViewTop
<1>3. ViewOf(calls') = Delivery!WithoutTop
  BY <1>1, WithoutTopMaps
<1>4. UNCHANGED <<made, birth, Live, Blocked>>
  BY <1>1, Kept
<1>5. QED
  BY <1>2, <1>3, <1>4 DEF Delivery!CallbackThrows, ViewOf, View

\* Past the last slot nothing is owed.
LEMMA CallReturnsMaps ==
  ASSUME SignalInv, DeliveryInv, CallReturns
  PROVE  Delivery!CallReturns
<1> DEFINE h == Top
<1>1. /\ UNCHANGED connVars /\ calls # <<>> /\ calls' = WithoutTop
      /\ h.runs = Nothing /\ h.i > h.n
  BY DEF CallReturns, Walking, Last
<1>2. /\ h \in Frame /\ h.i \in Nat /\ h.n \in Nat
      /\ Len(calls) \in DOMAIN calls /\ h = calls[Len(calls)]
  BY <1>1, TopAt, FrameAt DEF SignalInv
<1>3. FrameInv(h)
  BY <1>2 DEF DeliveryInv
<1>4. Delivery!Top.runs = Nothing /\ ViewOf(calls) # <<>>
      /\ Delivery!Top.due = h.due /\ Delivery!Top.ran = h.ran
  BY <1>1, ViewTop
<1> HIDE DEF h
<1>5. h.due \subseteq h.ran
  <2> SUFFICES ASSUME NEW c \in h.due, c \notin h.ran PROVE FALSE
    OBVIOUS
  <2>1. h.i <= index[c] /\ index[c] <= h.n /\ c \in Live
    BY <1>3 DEF FrameInv
  <2>2. index[c] \in Nat
    BY <2>1, LiveAt
  <2>3. QED
    BY <1>1, <1>2, <2>1, <2>2
<1>6. ViewOf(calls') = Delivery!WithoutTop
  BY <1>1, WithoutTopMaps
<1>7. UNCHANGED <<made, birth, Live, Blocked>>
  BY <1>1, Kept
<1>8. QED
  BY <1>4, <1>5, <1>6, <1>7 DEF Delivery!CallReturns, ViewOf, View

LEMMA DestroyMaps ==
  ASSUME SignalInv, Destroy
  PROVE  Delivery!Destroy
<1>1. /\ calls = <<>> /\ UNCHANGED <<calls, made, birth>>
      /\ Live' = {} /\ Blocked' = {}
  BY DEF Destroy, Live, Blocked
<1>2. ViewOf(calls) = <<>>
  BY <1>1, ViewSeq DEF SignalInv, TypeOK
<1>3. QED
  BY <1>1, <1>2 DEF Delivery!Destroy, ViewOf, View

\* Steps that callers do not see: ownership, and the removal of empty slots.
LEMMA HiddenMaps ==
  ASSUME \/ UNCHANGED vars \/ SkipSlot \/ MoveSlot \/ Resize
         \/ \E c \in Conns : MarkOwned(c)
  PROVE  UNCHANGED Delivery!vars
<1>1. UNCHANGED <<made, birth, signal, swapped, calls>>
  BY DEF vars, connVars, SkipSlot, MoveSlot, Resize, MarkOwned
<1>2. QED
  BY <1>1 DEF Delivery!vars, Live, Blocked

LEMMA DeliveryMaps ==
  ASSUME SignalInv, DeliveryInv, [Next]_vars
  PROVE  [Delivery!Next]_(Delivery!vars)
<1>1. ASSUME NEW c \in Conns, Connect(c) \/ Disconnect(c) \/ Block(c) \/ Unblock(c)
      PROVE  Delivery!Next
  BY <1>1, ConnectMaps, DisconnectMaps, BlockMaps, UnblockMaps DEF Delivery!Next
<1>2. CASE Visit
  <2>1. CASE UNCHANGED <<made, birth, Live, Blocked>> /\ ViewOf(calls') = ViewOf(calls)
    BY <2>1 DEF Delivery!vars, ViewOf, View
  <2>2. CASE \E c \in Conns : Delivery!Run(c)
    BY <2>2 DEF Delivery!Next
  <2>3. QED
    BY <1>2, <2>1, <2>2, VisitMaps
<1>3. CASE Call \/ CallbackReturns \/ CallbackThrows \/ CallReturns \/ Destroy
  BY <1>3, CallMaps, CallbackReturnsMaps, CallbackThrowsMaps, CallReturnsMaps, DestroyMaps
  DEF Delivery!Next
<1>4. CASE \/ UNCHANGED vars \/ SkipSlot \/ MoveSlot \/ Resize
           \/ \E c \in Conns : MarkOwned(c)
  BY <1>4, HiddenMaps
<1>5. QED
  BY <1>1, <1>2, <1>3, <1>4 DEF Next

\* Each call runs the callbacks that SignalDelivery promises, whatever callbacks
\* do to the signal that is calling them.
THEOREM DeliveryCorrect == Spec => ImplementsDelivery
<1>1. Init => Delivery!Init
  <2> SUFFICES ASSUME Init PROVE Delivery!Init
    OBVIOUS
  <2>1. /\ made = 0 /\ birth = [c \in Conns |-> 0] /\ calls = <<>> /\ Live = {} /\ Blocked = {}
    BY DEF Init, Live, Blocked
  <2>2. ViewOf(calls) = <<>>
    BY <2>1, ViewSeq, SignalInit DEF SignalInv, TypeOK
  <2>3. QED
    BY <2>1, <2>2 DEF Delivery!Init, ViewOf, View
<1>2. QED
  BY <1>1, SignalInit, SignalStep, DeliveryInit, DeliveryStep, DeliveryMaps, PTL
  DEF Spec, ImplementsDelivery, Delivery!Spec
=============================================================================
