----------------------------- MODULE SignalProofs -----------------------------
(***************************************************************************)
(* Signal for any connections and any depth of nested calls: its types,    *)
(* connections that find their slots, and empty slots that are not         *)
(* forgotten.                                                              *)
(***************************************************************************)
EXTENDS Signal, SequenceTheorems, TLAPS

-----------------------------------------------------------------------------
(* The stack of calls and the slots, as sequences *)

LEMMA TopReplaced ==
  ASSUME NEW S, NEW s \in Seq(S), s # <<>>, NEW e \in S,
         NEW t, t = [s EXCEPT ![Len(s)] = e]
  PROVE  /\ t \in Seq(S) /\ Len(t) = Len(s) /\ t[Len(s)] = e
         /\ \A k \in 1..Len(s) : k # Len(s) => t[k] = s[k]
OBVIOUS

LEMMA SlotReplaced ==
  ASSUME NEW S, NEW s \in Seq(S), NEW i \in 1..Len(s), NEW e \in S,
         NEW t, t = [s EXCEPT ![i] = e]
  PROVE  /\ t \in Seq(S) /\ Len(t) = Len(s) /\ t[i] = e
         /\ \A k \in 1..Len(s) : k # i => t[k] = s[k]
BY ExceptSeq

LEMMA SlotAdded ==
  ASSUME NEW S, NEW s \in Seq(S), NEW e \in S, NEW t, t = Append(s, e)
  PROVE  /\ t \in Seq(S) /\ Len(t) = Len(s) + 1 /\ t[Len(s) + 1] = e
         /\ \A k \in 1..Len(s) : t[k] = s[k]
OBVIOUS

LEMMA SlotsResized ==
  ASSUME NEW S, NEW s \in Seq(S), NEW m \in 1..(Len(s) + 1), NEW t, t = SubSeq(s, 1, m - 1)
  PROVE  /\ t \in Seq(S) /\ Len(t) = m - 1
         /\ \A k \in 1..(m - 1) : t[k] = s[k]
<1>1. Len(s) \in Nat /\ \A k \in 1..(m - 1) : s[k] \in S
  OBVIOUS
<1>2. QED
  BY <1>1, SubSeqProperties

LEMMA TopRemoved ==
  ASSUME NEW S, NEW s \in Seq(S), s # <<>>, NEW t, t = SubSeq(s, 1, Len(s) - 1)
  PROVE  /\ t \in Seq(S) /\ Len(t) = Len(s) - 1
         /\ \A k \in 1..Len(t) : t[k] = s[k]
<1> DEFINE m == Len(s)
<1>1. m \in 1..(Len(s) + 1) /\ m \in Nat
  OBVIOUS
<1>2. t = SubSeq(s, 1, m - 1)
  OBVIOUS
<1> HIDE DEF m
<1>3. t \in Seq(S) /\ Len(t) = m - 1 /\ \A k \in 1..(m - 1) : t[k] = s[k]
  BY <1>1, <1>2, SlotsResized
<1>4. QED
  BY <1>3 DEF m

LEMMA FrameAt ==
  ASSUME TypeOK
  PROVE  /\ Len(calls) \in Nat /\ DOMAIN calls = 1..Len(calls)
         /\ \A k \in 1..Len(calls) :
              /\ calls[k] \in Frame /\ calls[k].i \in Nat \ {0} /\ calls[k].n \in Nat
              /\ calls[k].recursion \in BOOLEAN /\ calls[k].runs \in Conns \union {Nothing}
              /\ calls[k].i <= calls[k].n + 1 /\ calls[k].n <= Len(connections)
<1>1. calls \in Seq(Frame)
  BY DEF TypeOK
<1>2. Len(calls) \in Nat /\ DOMAIN calls = 1..Len(calls) /\ calls \in [1..Len(calls) -> Frame]
  BY <1>1, LenProperties
<1>3. \A f \in Frame : /\ f.i \in Nat \ {0} /\ f.n \in Nat /\ f.recursion \in BOOLEAN
                       /\ f.runs \in Conns \union {Nothing}
  BY DEF Frame
<1>4. \A k \in DOMAIN calls : calls[k].i <= calls[k].n + 1 /\ calls[k].n <= Len(connections)
  BY DEF TypeOK
<1>5. QED
  BY <1>2, <1>3, <1>4

LEMMA SlotAt ==
  ASSUME TypeOK
  PROVE  /\ Len(connections) \in Nat /\ Len(callbacks) = Len(connections)
         /\ DOMAIN connections = 1..Len(connections)
         /\ DOMAIN callbacks = 1..Len(connections)
         /\ \A i \in 1..Len(connections) : /\ connections[i] \in Conns \union {Nothing}
                                           /\ callbacks[i] \in Conns \union {Nothing}
<1>1. /\ connections \in Seq(Conns \union {Nothing}) /\ callbacks \in Seq(Conns \union {Nothing})
      /\ Len(callbacks) = Len(connections)
  BY DEF TypeOK
<1>2. QED
  BY <1>1, LenProperties

-----------------------------------------------------------------------------
(* Slots *)

\* During the removal of empty slots, the part already written and the part not
\* yet read make up the signal.
Valid(i) == i \in DOMAIN connections /\ (from = 0 \/ i < to \/ i >= from)

\* A connection that is not made has nothing; a signal that is gone has no slot;
\* and only the outermost call removes slots, when no other is in progress.
LifeInv ==
  /\ \A c \in Conns : life[c] = "unmade" => ~signal[c] /\ swapped[c] = Nothing /\ birth[c] = 0
  /\ \A c \in Conns : signal[c] => life[c] \in {"raw", "owned"}
  /\ ~open => \A c \in Conns : ~signal[c]
NestInv ==
  /\ calls # <<>> => calling
  /\ \A k \in DOMAIN calls : k > 1 => calls[k].recursion

\* IndexExact for the valid slots, at every moment.
SlotInv ==
  /\ \A c \in Live :
       /\ Valid(index[c]) /\ connections[index[c]] = c
       /\ swapped[c] \in {Nothing, c}
       /\ callbacks[index[c]] = IF swapped[c] = c THEN Nothing ELSE c
  /\ \A i \in DOMAIN connections : Valid(i) =>
       IF connections[i] = Nothing THEN callbacks[i] = Nothing
       ELSE connections[i] \in Live /\ index[connections[i]] = i

\* EmptyIsDirty; while empty slots are removed, what was written is not empty.
EmptyInv ==
  /\ EmptyIsDirty
  /\ from # 0 => \A i \in DOMAIN connections : i < to => connections[i] # Nothing

SignalInv == TypeOK /\ LifeInv /\ NestInv /\ SlotInv /\ EmptyInv

LEMMA SignalInit == Init => SignalInv
<1> SUFFICES ASSUME Init PROVE SignalInv
  OBVIOUS
<1>1. TypeOK
  <2>1. /\ callbacks \in Seq(Conns \union {Nothing}) /\ connections \in Seq(Conns \union {Nothing})
        /\ calls \in Seq(Frame)
        /\ Len(callbacks) = 0 /\ Len(connections) = 0
    BY EmptySeq DEF Init
  <2>2. \A k \in DOMAIN calls : calls[k].i <= calls[k].n + 1 /\ calls[k].n <= Len(callbacks)
    BY DEF Init
  <2>3. /\ dirty \in BOOLEAN /\ calling \in BOOLEAN /\ open \in BOOLEAN
        /\ signal \in [Conns -> BOOLEAN] /\ index \in [Conns -> Nat]
        /\ swapped \in [Conns -> Conns \union {Nothing}]
        /\ life \in [Conns -> {"unmade", "raw", "owned", "gone"}]
        /\ from = 0 /\ to = 0 /\ made \in Nat /\ birth \in [Conns -> Nat]
    BY DEF Init
  <2>4. QED
    BY <2>1, <2>2, <2>3 DEF TypeOK
<1>2. LifeInv /\ NestInv /\ SlotInv /\ EmptyInv
  BY DEF Init, LifeInv, NestInv, SlotInv, EmptyInv, EmptyIsDirty, Live, Valid
<1>3. QED
  BY <1>1, <1>2 DEF SignalInv

LEMMA ConnectInv ==
  ASSUME SignalInv, NEW c \in Conns, Connect(c)
  PROVE  SignalInv'
<1> DEFINE m == Len(connections)
           T == Conns \union {Nothing}
<1>1. m \in Nat /\ DOMAIN connections = 1..m /\ Len(callbacks) = m
  BY SlotAt DEF SignalInv
<1>2. /\ callbacks' \in Seq(T) /\ Len(callbacks') = m + 1 /\ callbacks'[m + 1] = c
      /\ \A k \in 1..m : callbacks'[k] = callbacks[k]
  BY <1>1, SlotAdded DEF Connect, SignalInv, TypeOK
<1>3. /\ connections' \in Seq(T) /\ Len(connections') = m + 1 /\ connections'[m + 1] = c
      /\ \A k \in 1..m : connections'[k] = connections[k]
  BY SlotAdded DEF Connect, SignalInv, TypeOK
<1>4. /\ from = 0 /\ UNCHANGED <<from, to, dirty, calling, open, calls, swapped>>
      /\ signal' = [signal EXCEPT ![c] = TRUE] /\ index' = [index EXCEPT ![c] = m + 1]
      /\ life[c] = "unmade" /\ life' = [life EXCEPT ![c] = "raw"] /\ open
      /\ made' = made + 1 /\ birth' = [birth EXCEPT ![c] = made + 1]
  BY DEF Connect, InProgram, sweepVars, flagVars
<1>5. DOMAIN connections' = 1..(m + 1)
  BY <1>3, LenProperties
<1>6. \A i \in 1..(m + 1) : i = m + 1 \/ i \in 1..m
  BY <1>1
<1> HIDE DEF m
<1>7. TypeOK'
  <2>1. \A k \in DOMAIN calls : calls[k].n <= m /\ calls[k].n \in Nat
    BY FrameAt DEF SignalInv, m
  <2>2. \A k \in DOMAIN calls : calls[k].n <= Len(callbacks')
    BY <1>1, <1>2, <2>1
  <2>3. QED
    BY <1>1, <1>2, <1>3, <1>4, <2>2 DEF SignalInv, TypeOK
<1>8. LifeInv' /\ NestInv'
  BY <1>4 DEF LifeInv, NestInv, SignalInv, TypeOK
<1>9. Live' = Live \union {c} /\ c \notin Live /\ swapped[c] = Nothing
  BY <1>4 DEF Live, LifeInv, SignalInv, TypeOK
<1>10. SlotInv'
  <2>1. \A d \in Live : index[d] \in 1..m /\ index'[d] = index[d]
    BY <1>1, <1>4, <1>9 DEF SlotInv, Valid, Live, SignalInv, TypeOK
  <2>2. index'[c] = m + 1
    BY <1>4 DEF SignalInv, TypeOK
  <2>3. \A d \in Live' :
          /\ Valid(index[d])' /\ connections'[index'[d]] = d
          /\ swapped'[d] \in {Nothing, d}
          /\ callbacks'[index'[d]] = IF swapped'[d] = d THEN Nothing ELSE d
    BY <1>1, <1>2, <1>3, <1>4, <1>5, <1>9, <2>1, <2>2, SignalAssumption
    DEF SlotInv, Valid, SignalInv
  <2>4. \A i \in 1..(m + 1) : IF connections'[i] = Nothing THEN callbacks'[i] = Nothing
                        ELSE connections'[i] \in Live' /\ index'[connections'[i]] = i
    <3>1. \A i \in 1..m : IF connections[i] = Nothing THEN callbacks[i] = Nothing
                          ELSE connections[i] \in Live /\ index[connections[i]] = i
      BY <1>1, <1>4 DEF SlotInv, Valid, SignalInv
    <3>2. \A i \in 1..m : IF connections'[i] = Nothing THEN callbacks'[i] = Nothing
                          ELSE connections'[i] \in Live' /\ index'[connections'[i]] = i
      BY <1>2, <1>3, <1>9, <2>1, <3>1
    <3>3. QED
      BY <1>3, <1>6, <1>9, <2>2, <3>2, SignalAssumption
  <2>5. QED
    BY <1>5, <2>3, <2>4 DEF SlotInv
<1>11. EmptyInv'
  <2>1. \A i \in 1..m : connections[i] = Nothing => dirty
    BY <1>1, <1>4 DEF EmptyInv, EmptyIsDirty, SignalInv
  <2>2. \A i \in 1..(m + 1) : connections'[i] = Nothing => dirty'
    BY <1>3, <1>4, <1>6, <2>1, SignalAssumption
  <2>3. QED
    BY <1>4, <1>5, <2>2 DEF EmptyInv, EmptyIsDirty
<1>12. QED
  BY <1>7, <1>8, <1>10, <1>11 DEF SignalInv

\* Steps that leave the slots and connections alone.
LEMMA SlotFrame ==
  ASSUME SignalInv, UNCHANGED <<slotVars, signal, index, swapped, sweepVars>>
  PROVE  /\ SlotInv'
         /\ dirty' = dirty => EmptyInv'
BY DEF SignalInv, SlotInv, EmptyInv, EmptyIsDirty, Valid, Live, slotVars, sweepVars

LEMMA MarkOwnedInv ==
  ASSUME SignalInv, NEW c \in Conns, MarkOwned(c)
  PROVE  SignalInv'
<1>1. SlotInv' /\ EmptyInv'
  BY SlotFrame DEF MarkOwned, slotVars, flagVars
<1>2. TypeOK'
  BY DEF MarkOwned, SignalInv, TypeOK, slotVars, flagVars, sweepVars
<1>3. LifeInv' /\ NestInv'
  BY DEF MarkOwned, SignalInv, TypeOK, LifeInv, NestInv, flagVars
<1>4. QED
  BY <1>1, <1>2, <1>3 DEF SignalInv

LEMMA ExcusedFrames ==
  ASSUME TypeOK, NEW c \in Conns, NEW t, t = Excused(c)
  PROVE  /\ t \in Seq(Frame) /\ Len(t) = Len(calls) /\ DOMAIN t = DOMAIN calls
         /\ calls = <<>> <=> t = <<>>
         /\ \A k \in 1..Len(calls) :
              /\ t[k].i = calls[k].i /\ t[k].n = calls[k].n
              /\ t[k].recursion = calls[k].recursion /\ t[k].runs = calls[k].runs
              /\ t[k].first = calls[k].first /\ t[k].ran = calls[k].ran
              /\ t[k].due = calls[k].due \ {c}
<1> DEFINE e(k) == [calls[k] EXCEPT !.due = @ \ {c}]
<1>1. Len(calls) \in Nat /\ t = [k \in 1..Len(calls) |-> e(k)]
  BY FrameAt DEF Excused
<1>2. ASSUME NEW f \in Frame, NEW g, g = [f EXCEPT !.due = @ \ {c}]
      PROVE  /\ g \in Frame
             /\ g.i = f.i /\ g.n = f.n /\ g.recursion = f.recursion /\ g.runs = f.runs
             /\ g.first = f.first /\ g.ran = f.ran /\ g.due = f.due \ {c}
  BY <1>2 DEF Frame
<1>3. \A k \in 1..Len(calls) : e(k) \in Frame
  BY <1>2, FrameAt
<1>4. t \in Seq(Frame)
  BY <1>1, <1>3, IsASeq
<1>5. t \in [1..Len(calls) -> Frame] /\ Len(t) = Len(calls) /\ DOMAIN t = 1..Len(calls)
  BY <1>1, <1>3
<1>6. calls = <<>> <=> t = <<>>
  BY <1>4, <1>5, EmptySeq DEF TypeOK
<1>7. QED
  BY <1>1, <1>2, <1>4, <1>5, <1>6, FrameAt

\* The calls in progress are as before, except for what they owe.
LEMMA ExcusedInv ==
  ASSUME SignalInv, NEW c \in Conns, calls' = Excused(c), UNCHANGED calling,
         Len(callbacks') = Len(callbacks)
  PROVE  /\ NestInv'
         /\ calls' \in Seq(Frame) /\ (calls' = <<>> <=> calls = <<>>)
         /\ \A k \in DOMAIN calls' : /\ calls'[k].i <= calls'[k].n + 1
                                     /\ calls'[k].n <= Len(callbacks')
<1>1. /\ calls' \in Seq(Frame) /\ (calls' = <<>> <=> calls = <<>>) /\ DOMAIN calls' = DOMAIN calls
      /\ DOMAIN calls = 1..Len(calls)
      /\ \A k \in 1..Len(calls) : /\ calls'[k].i = calls[k].i /\ calls'[k].n = calls[k].n
                                  /\ calls'[k].recursion = calls[k].recursion
  BY ExcusedFrames, FrameAt DEF SignalInv
<1>2. NestInv'
  BY <1>1 DEF NestInv, SignalInv
<1>3. QED
  BY <1>1, <1>2, FrameAt, SlotAt DEF SignalInv

LEMMA DisconnectInv ==
  ASSUME SignalInv, NEW c \in Conns, Disconnect(c), signal[c]
  PROVE  SignalInv'
<1> DEFINE m == Len(connections)
           j == index[c]
           T == Conns \union {Nothing}
<1>1. m \in Nat /\ DOMAIN connections = 1..m /\ Len(callbacks) = m
  BY SlotAt DEF SignalInv
<1>2. /\ from = 0 /\ UNCHANGED <<from, to, calling, open, index, made, birth>>
      /\ callbacks' = [callbacks EXCEPT ![j] = Nothing]
      /\ connections' = [connections EXCEPT ![j] = Nothing]
      /\ signal' = [signal EXCEPT ![c] = FALSE] /\ swapped' = [swapped EXCEPT ![c] = Nothing]
      /\ life[c] = "owned" /\ life' = [life EXCEPT ![c] = "gone"] /\ dirty' = TRUE
      /\ calls' = Excused(c)
  BY DEF Disconnect, InProgram, sweepVars, flagVars, Marked
<1>3. c \in Live /\ j \in 1..m
  BY <1>1 DEF Live, SlotInv, Valid, SignalInv
<1>4. /\ callbacks' \in Seq(T) /\ Len(callbacks') = m /\ callbacks'[j] = Nothing
      /\ \A k \in 1..m : k # j => callbacks'[k] = callbacks[k]
  BY <1>1, <1>2, <1>3, SlotReplaced DEF SignalInv, TypeOK
<1>5. /\ connections' \in Seq(T) /\ Len(connections') = m /\ connections'[j] = Nothing
      /\ \A k \in 1..m : k # j => connections'[k] = connections[k]
  BY <1>1, <1>2, <1>3, SlotReplaced DEF SignalInv, TypeOK
<1>6. DOMAIN connections' = 1..m
  BY <1>5, LenProperties
<1>7. /\ NestInv' /\ calls' \in Seq(Frame)
      /\ \A k \in DOMAIN calls' : calls'[k].i <= calls'[k].n + 1 /\ calls'[k].n <= Len(callbacks')
  BY <1>1, <1>2, <1>4, ExcusedInv
<1> HIDE DEF m, j
<1>8. TypeOK'
  BY <1>1, <1>2, <1>4, <1>5, <1>7 DEF SignalInv, TypeOK
<1>9. LifeInv'
  BY <1>2 DEF LifeInv, SignalInv, TypeOK
<1>10. Live' = Live \ {c}
  BY <1>2 DEF Live, SignalInv, TypeOK
<1>11. SlotInv'
  <2>1. \A d \in Live : /\ index[d] \in 1..m /\ connections[index[d]] = d
                        /\ swapped[d] \in {Nothing, d}
                        /\ callbacks[index[d]] = IF swapped[d] = d THEN Nothing ELSE d
    BY <1>1 DEF SlotInv, Valid, SignalInv
  <2>2. \A d \in Live' : index[d] # j /\ swapped'[d] = swapped[d]
    <3>1. \A d \in Live' : index[d] # j
      BY <1>3, <1>10, <2>1 DEF j
    <3>2. \A d \in Live' : swapped'[d] = swapped[d]
      BY <1>2, <1>10 DEF SignalInv, TypeOK, Live
    <3>3. QED
      BY <3>1, <3>2
  <2>3. \A d \in Live' :
          /\ Valid(index[d])' /\ connections'[index'[d]] = d
          /\ swapped'[d] \in {Nothing, d}
          /\ callbacks'[index'[d]] = IF swapped'[d] = d THEN Nothing ELSE d
    BY <1>2, <1>4, <1>5, <1>6, <1>10, <2>1, <2>2 DEF Valid
  <2>4. \A i \in 1..m : IF connections[i] = Nothing THEN callbacks[i] = Nothing
                        ELSE connections[i] \in Live /\ index[connections[i]] = i
    BY <1>1, <1>2 DEF SlotInv, Valid, SignalInv
  <2>5. \A i \in 1..m : IF connections'[i] = Nothing THEN callbacks'[i] = Nothing
                        ELSE connections'[i] \in Live' /\ index'[connections'[i]] = i
    BY <1>2, <1>4, <1>5, <1>10, <2>4 DEF j
  <2>6. QED
    BY <1>6, <2>3, <2>5 DEF SlotInv
<1>12. EmptyInv'
  BY <1>2 DEF EmptyInv, EmptyIsDirty
<1>13. QED
  BY <1>7, <1>8, <1>9, <1>11, <1>12 DEF SignalInv

\* The signal is gone already: nothing of it changes.
LEMMA DisconnectLateInv ==
  ASSUME SignalInv, NEW c \in Conns, Disconnect(c), ~signal[c]
  PROVE  SignalInv'
<1>1. /\ UNCHANGED <<slotVars, dirty, calling, from, to, open, index, signal, made, birth>>
      /\ swapped' = [swapped EXCEPT ![c] = Nothing] /\ calls' = Excused(c)
      /\ life[c] = "owned" /\ life' = [life EXCEPT ![c] = "gone"]
  BY DEF Disconnect, sweepVars, flagVars, SignalInv, TypeOK
<1>2. /\ NestInv' /\ calls' \in Seq(Frame) /\ (calls' = <<>> <=> calls = <<>>)
      /\ \A k \in DOMAIN calls' : calls'[k].i <= calls'[k].n + 1 /\ calls'[k].n <= Len(callbacks')
  BY <1>1, ExcusedInv DEF slotVars
<1>3. TypeOK'
  BY <1>1, <1>2 DEF SignalInv, TypeOK, slotVars
<1>4. LifeInv'
  BY <1>1 DEF LifeInv, SignalInv, TypeOK
<1>5. \A d \in Live : swapped'[d] = swapped[d]
  BY <1>1 DEF Live, SignalInv, TypeOK
<1>6. SlotInv' /\ EmptyInv'
  BY <1>1, <1>5 DEF SignalInv, SlotInv, EmptyInv, EmptyIsDirty, Valid, Live, slotVars
<1>7. QED
  BY <1>2, <1>3, <1>4, <1>6 DEF SignalInv

LEMMA SwapInv ==
  ASSUME SignalInv, NEW c \in Conns, Block(c) \/ Unblock(c)
  PROVE  /\ SignalInv'
         /\ swapped'[c] = IF swapped[c] = Nothing THEN c ELSE Nothing
<1> DEFINE m == Len(connections)
           j == index[c]
           T == Conns \union {Nothing}
<1>1. m \in Nat /\ DOMAIN connections = 1..m /\ Len(callbacks) = m
  BY SlotAt DEF SignalInv
<1>2. /\ from = 0 /\ signal[c]
      /\ UNCHANGED <<connections, dirty, calling, from, to, open, index, signal, life, made, birth>>
      /\ swapped' = [swapped EXCEPT ![c] = callbacks[j]]
      /\ callbacks' = [callbacks EXCEPT ![j] = swapped[c]]
  BY DEF Block, Unblock, SwapCallback, InProgram, sweepVars, flagVars
<1>3. c \in Live /\ j \in 1..m
  BY <1>1, <1>2 DEF Live, SlotInv, Valid, SignalInv
<1>4. /\ callbacks' \in Seq(T) /\ Len(callbacks') = m /\ callbacks'[j] = swapped[c]
      /\ \A k \in 1..m : k # j => callbacks'[k] = callbacks[k]
  BY <1>1, <1>2, <1>3, SlotReplaced DEF SignalInv, TypeOK
<1>5. /\ NestInv' /\ calls' \in Seq(Frame) /\ (calls' = <<>> <=> calls = <<>>)
      /\ \A k \in DOMAIN calls' : calls'[k].i <= calls'[k].n + 1 /\ calls'[k].n <= Len(callbacks')
  <2>1. CASE calls' = Excused(c)
    BY <1>1, <1>2, <1>4, <2>1, ExcusedInv
  <2>2. CASE UNCHANGED calls
    BY <1>1, <1>2, <1>4, <2>2, FrameAt DEF SignalInv, NestInv, TypeOK
  <2>3. QED
    BY <2>1, <2>2 DEF Block, Unblock
<1> HIDE DEF m
<1>6. \A d \in Live : /\ index[d] \in 1..m /\ connections[index[d]] = d
                      /\ swapped[d] \in {Nothing, d}
                      /\ callbacks[index[d]] = IF swapped[d] = d THEN Nothing ELSE d
  BY <1>1 DEF SlotInv, Valid, SignalInv
<1>7. swapped'[c] = IF swapped[c] = Nothing THEN c ELSE Nothing
  BY <1>2, <1>3, <1>6, SignalAssumption DEF SignalInv, TypeOK
<1>8. TypeOK'
  BY <1>1, <1>2, <1>4, <1>5, <1>7 DEF SignalInv, TypeOK
<1>9. LifeInv'
  BY <1>2 DEF LifeInv, SignalInv, TypeOK
<1>10. SlotInv'
  <2>1. \A d \in Live : d # c => index[d] # j /\ swapped'[d] = swapped[d]
    BY <1>2, <1>3, <1>6 DEF SignalInv, TypeOK, Live
  <2>2. \A d \in Live :
          /\ swapped'[d] \in {Nothing, d}
          /\ callbacks'[index[d]] = IF swapped'[d] = d THEN Nothing ELSE d
    BY <1>3, <1>4, <1>6, <1>7, <2>1, SignalAssumption
  <2>3. \A i \in 1..m : IF connections[i] = Nothing THEN callbacks'[i] = Nothing
                        ELSE connections[i] \in Live /\ index[connections[i]] = i
    <3>1. \A i \in 1..m : IF connections[i] = Nothing THEN callbacks[i] = Nothing
                          ELSE connections[i] \in Live /\ index[connections[i]] = i
      BY <1>1, <1>2 DEF SlotInv, Valid, SignalInv
    <3>2. connections[j] # Nothing
      BY <1>3, <1>6, SignalAssumption DEF Live
    <3>3. QED
      BY <1>4, <3>1, <3>2
  <2>4. Live' = Live
    BY <1>2 DEF Live
  <2>5. QED
    BY <1>1, <1>2, <1>6, <2>2, <2>3, <2>4 DEF SlotInv, Valid
<1>11. EmptyInv'
  BY <1>2 DEF EmptyInv, EmptyIsDirty, SignalInv
<1>12. QED
  BY <1>5, <1>7, <1>8, <1>9, <1>10, <1>11 DEF SignalInv

\* Steps of a call leave everything but the calls and calling_ alone.
LEMMA CallsOnly ==
  ASSUME SignalInv, UNCHANGED <<slotVars, dirty, connVars, open, sweepVars>>, from = 0,
         calling' \in BOOLEAN, calls' \in Seq(Frame), NestInv',
         \A k \in 1..Len(calls') : /\ calls'[k].i <= calls'[k].n + 1
                                   /\ calls'[k].n <= Len(connections)
  PROVE  SignalInv'
<1>1. SlotInv' /\ EmptyInv'
  BY SlotFrame DEF connVars, slotVars
<1>2. LifeInv'
  BY DEF LifeInv, SignalInv, connVars
<1>3. DOMAIN calls' = 1..Len(calls') /\ Len(callbacks') = Len(connections)
  BY LenProperties, SlotAt DEF SignalInv, slotVars
<1>4. \A k \in DOMAIN calls' : calls'[k].i <= calls'[k].n + 1 /\ calls'[k].n <= Len(callbacks')
  BY <1>3
<1>5. TypeOK'
  BY <1>4 DEF SignalInv, TypeOK, slotVars, connVars, sweepVars
<1>6. QED
  BY <1>1, <1>2, <1>5 DEF SignalInv

LEMMA CallInv ==
  ASSUME SignalInv, Call
  PROVE  SignalInv'
<1> DEFINE f == [i |-> 1, n |-> Len(callbacks), recursion |-> Recursion,
                 runs |-> Nothing, first |-> Live, due |-> Live \ Blocked, ran |-> {}]
           m == Len(calls)
<1>1. /\ UNCHANGED <<slotVars, dirty, connVars, open, sweepVars>> /\ from = 0
      /\ calls' = Append(calls, f) /\ calling'
  BY DEF Call, InProgram
<1>2. /\ f \in Frame /\ f.i = 1 /\ f.n = Len(connections) /\ f.recursion = calling
      /\ Len(connections) \in Nat
  BY SlotAt DEF Frame, Recursion, Live, Blocked, SignalInv, TypeOK
<1> HIDE DEF f
<1>3. m \in Nat /\ calls \in Seq(Frame) /\ (m # 0 => calls # <<>>)
  BY FrameAt DEF SignalInv, TypeOK
<1>4. /\ calls' \in Seq(Frame) /\ Len(calls') = m + 1 /\ calls'[m + 1] = f
      /\ \A k \in 1..m : calls'[k] = calls[k]
  BY <1>1, <1>2, <1>3, SlotAdded
<1>5. DOMAIN calls' = 1..(m + 1)
  BY <1>4, LenProperties
<1>6. \A k \in 1..(m + 1) : k = m + 1 \/ k \in 1..m
  BY <1>3
<1>7. \A k \in 1..m : /\ calls[k].i <= calls[k].n + 1 /\ calls[k].n <= Len(connections)
                      /\ k > 1 => calls[k].recursion
  BY FrameAt DEF SignalInv, NestInv
<1>8. m + 1 > 1 => calling
  BY <1>3 DEF NestInv, SignalInv
<1> HIDE DEF m
<1>9. \A k \in 1..(m + 1) : /\ calls'[k].i <= calls'[k].n + 1 /\ calls'[k].n <= Len(connections)
                            /\ k > 1 => calls'[k].recursion
  <2>1. \A k \in 1..m : /\ calls'[k].i <= calls'[k].n + 1 /\ calls'[k].n <= Len(connections)
                        /\ k > 1 => calls'[k].recursion
    BY <1>4, <1>7
  <2>2. /\ calls'[m + 1].i <= calls'[m + 1].n + 1 /\ calls'[m + 1].n <= Len(connections)
        /\ m + 1 > 1 => calls'[m + 1].recursion
    BY <1>2, <1>4, <1>8
  <2>3. QED
    BY <1>6, <2>1, <2>2
<1>10. NestInv'
  BY <1>1, <1>5, <1>9 DEF NestInv
<1>11. QED
  BY <1>1, <1>4, <1>9, <1>10, CallsOnly

\* The innermost call goes on as f.
LEMMA WithTopInv ==
  ASSUME SignalInv, UNCHANGED <<slotVars, dirty, calling, connVars, open, sweepVars>>,
         from = 0, calls # <<>>, NEW f \in Frame, calls' = WithTop(f),
         f.n = Top.n, f.recursion = Top.recursion, f.i <= f.n + 1
  PROVE  SignalInv'
<1> DEFINE m == Len(calls)
<1>1. /\ m \in Nat \ {0} /\ calls \in Seq(Frame) /\ DOMAIN calls = 1..m
      /\ \A k \in 1..m : calls[k].i <= calls[k].n + 1 /\ calls[k].n <= Len(connections)
  BY FrameAt, EmptySeq DEF SignalInv, TypeOK
<1>2. calls' = [calls EXCEPT ![m] = f] /\ Top = calls[m]
  BY DEF WithTop, Top
<1>3. /\ calls' \in Seq(Frame) /\ Len(calls') = m /\ calls'[m] = f
      /\ \A k \in 1..m : k # m => calls'[k] = calls[k]
  BY <1>1, <1>2, TopReplaced
<1>4. DOMAIN calls' = 1..m
  BY <1>3, LenProperties
<1> HIDE DEF m
<1>5. \A k \in 1..m : calls'[k].i <= calls'[k].n + 1 /\ calls'[k].n <= Len(connections)
  BY <1>1, <1>2, <1>3
<1>6. NestInv'
  BY <1>1, <1>2, <1>3, <1>4 DEF NestInv, SignalInv
<1>7. QED
  BY <1>3, <1>5, <1>6, CallsOnly DEF SignalInv, TypeOK

LEMMA WithoutTopInv ==
  ASSUME SignalInv, UNCHANGED <<slotVars, dirty, calling, connVars, open, sweepVars>>,
         from = 0, calls # <<>>, calls' = WithoutTop
  PROVE  SignalInv'
<1> DEFINE m == Len(calls) - 1
<1>1. /\ m \in Nat /\ calls \in Seq(Frame) /\ DOMAIN calls = 1..(m + 1)
      /\ \A k \in 1..(m + 1) : calls[k].i <= calls[k].n + 1 /\ calls[k].n <= Len(connections)
  BY FrameAt, EmptySeq DEF SignalInv, TypeOK
<1>2. /\ calls' \in Seq(Frame) /\ Len(calls') = m
      /\ \A k \in 1..m : calls'[k] = calls[k]
  <2>1. /\ calls' \in Seq(Frame) /\ Len(calls') = Len(calls) - 1
        /\ \A k \in 1..Len(calls') : calls'[k] = calls[k]
    BY <1>1, TopRemoved DEF WithoutTop
  <2>2. QED
    BY <2>1
<1>3. DOMAIN calls' = 1..m
  BY <1>2, LenProperties
<1> HIDE DEF m
<1>4. \A k \in 1..m : calls'[k].i <= calls'[k].n + 1 /\ calls'[k].n <= Len(connections)
  BY <1>1, <1>2
<1>5. NestInv'
  BY <1>1, <1>2, <1>3 DEF NestInv, SignalInv
<1>6. QED
  BY <1>2, <1>4, <1>5, CallsOnly DEF SignalInv, TypeOK

LEMMA TopAt ==
  ASSUME TypeOK, calls # <<>>
  PROVE  /\ Top \in Frame /\ Len(calls) \in Nat \ {0} /\ Top = calls[Len(calls)]
         /\ Top.i \in Nat \ {0} /\ Top.n \in Nat
         /\ Top.i <= Top.n + 1 /\ Top.n <= Len(connections)
<1>1. Len(calls) \in Nat \ {0}
  BY EmptySeq DEF TypeOK
<1>2. QED
  BY <1>1, FrameAt DEF Top

LEMMA VisitInv ==
  ASSUME SignalInv, Visit
  PROVE  SignalInv'
<1> DEFINE h == Top
           g == callbacks[h.i]
           r == IF g = Nothing THEN h.ran ELSE h.ran \union {g}
           e == h.i + 1
           f == [h EXCEPT !.i = e, !.runs = g, !.ran = r]
<1>1. /\ UNCHANGED <<slotVars, dirty, calling, connVars, open, sweepVars>>
      /\ calls # <<>> /\ h.i <= h.n /\ calls' = WithTop(f)
  BY DEF Visit, Walking, Last, flagVars
<1>2. from = 0
  BY <1>1 DEF SignalInv, TypeOK
<1>3. /\ h \in Frame /\ h.i \in Nat \ {0} /\ h.n \in Nat /\ h.n <= Len(connections)
  BY <1>1, TopAt DEF SignalInv
<1>4. h.i \in 1..Len(connections)
  BY <1>1, <1>3, SlotAt DEF SignalInv
<1>5. g \in Conns \union {Nothing}
  BY <1>4, SlotAt DEF SignalInv
<1>6. r \in SUBSET Conns
  BY <1>3, <1>5 DEF Frame
<1>7. e \in Nat \ {0} /\ e <= h.n + 1
  BY <1>1, <1>3
<1> HIDE DEF e, r, g, h
<1>8. f \in Frame /\ f.n = h.n /\ f.recursion = h.recursion /\ f.i = e
  BY <1>3, <1>5, <1>6, <1>7 DEF Frame
<1> HIDE DEF f
<1>9. f.i <= f.n + 1
  BY <1>7, <1>8
<1>10. QED
  BY <1>1, <1>2, <1>8, <1>9, WithTopInv DEF h

LEMMA CallbackReturnsInv ==
  ASSUME SignalInv, CallbackReturns
  PROVE  SignalInv'
<1> DEFINE f == [Top EXCEPT !.runs = Nothing]
<1>1. /\ UNCHANGED <<slotVars, dirty, calling, connVars, open, sweepVars>>
      /\ from = 0 /\ calls # <<>> /\ calls' = WithTop(f)
  BY DEF CallbackReturns, flagVars
<1>2. Top \in Frame /\ Top.i <= Top.n + 1
  BY <1>1, TopAt DEF SignalInv
<1>3. f \in Frame /\ f.n = Top.n /\ f.recursion = Top.recursion /\ f.i = Top.i
  BY <1>2 DEF Frame
<1> HIDE DEF f
<1>4. QED
  BY <1>1, <1>2, <1>3, WithTopInv

LEMMA CallbackThrowsInv ==
  ASSUME SignalInv, CallbackThrows
  PROVE  SignalInv'
BY WithoutTopInv DEF CallbackThrows, flagVars

LEMMA CallReturnsInv ==
  ASSUME SignalInv, CallReturns
  PROVE  SignalInv'
<1>1. calls # <<>> /\ calls' = WithoutTop /\ UNCHANGED <<slotVars, connVars, open>>
  BY DEF CallReturns, Walking
<1>2. from = 0
  BY <1>1 DEF SignalInv, TypeOK
<1>3. CASE Top.recursion
  BY <1>1, <1>2, <1>3, WithoutTopInv DEF CallReturns, flagVars
<1>4. CASE ~Top.recursion
  <2>1. calls' = <<>>
    <3>1. Len(calls) \in Nat \ {0} /\ DOMAIN calls = 1..Len(calls) /\ Top = calls[Len(calls)]
      BY <1>1, TopAt, FrameAt DEF SignalInv
    <3>2. Len(calls) = 1
      BY <1>4, <3>1 DEF NestInv, SignalInv
    <3>3. QED
      BY <1>1, <3>2, SubSeqEmpty DEF WithoutTop
  <2>2. /\ calling' = FALSE /\ dirty' = FALSE
        /\ IF dirty THEN from' = 1 /\ to' = 1 ELSE UNCHANGED sweepVars
    BY <1>4 DEF CallReturns
  <2>3. Len(connections) \in Nat /\ DOMAIN connections = 1..Len(connections)
    BY SlotAt DEF SignalInv
  <2>4. TypeOK'
    <3>1. calls' \in Seq(Frame) /\ DOMAIN calls' = {}
      BY <2>1, EmptySeq
    <3>2. from' \in Nat /\ to' \in Nat /\ from' <= Len(connections) + 1
          /\ (from' # 0 => to' \in 1..from')
      BY <1>2, <2>2, <2>3 DEF sweepVars, SignalInv, TypeOK
    <3>3. QED
      BY <1>1, <2>1, <2>2, <3>1, <3>2 DEF TypeOK, SignalInv, slotVars, connVars
  <2>5. LifeInv' /\ NestInv'
    BY <1>1, <2>1 DEF SignalInv, LifeInv, NestInv, connVars
  <2>6. \A i \in 1..Len(connections) : Valid(i)' /\ Valid(i)
    BY <1>1, <1>2, <2>2, <2>3 DEF Valid, slotVars, sweepVars
  <2>7. SlotInv'
    BY <1>1, <2>3, <2>6 DEF SlotInv, SignalInv, Valid, Live, slotVars, connVars
  <2>8. EmptyInv'
    BY <1>1, <1>2, <2>2, <2>3 DEF EmptyInv, EmptyIsDirty, SignalInv, slotVars, sweepVars
  <2>9. QED
    BY <2>4, <2>5, <2>7, <2>8 DEF SignalInv
<1>5. QED
  BY <1>3, <1>4

LEMMA SkipSlotInv ==
  ASSUME SignalInv, SkipSlot
  PROVE  SignalInv'
<1> DEFINE m == Len(connections)
<1>1. m \in Nat /\ DOMAIN connections = 1..m
  BY SlotAt DEF SignalInv
<1>2. /\ from \in 1..m /\ connections[from] = Nothing
      /\ from' = from + 1 /\ to' = to
      /\ UNCHANGED <<callbacks, connections, dirty, calling, connVars, open, calls>>
  BY <1>1 DEF SkipSlot, slotVars, flagVars
<1>3. to \in 1..from /\ calls = <<>>
  BY <1>1, <1>2 DEF SignalInv, TypeOK
<1> HIDE DEF m
<1>4. TypeOK'
  <2>1. from' \in Nat /\ to' \in Nat /\ from' <= m + 1 /\ to' \in 1..from'
    BY <1>1, <1>2, <1>3
  <2>2. QED
    BY <1>2, <1>3, <2>1 DEF TypeOK, SignalInv, connVars, m
<1>5. LifeInv' /\ NestInv'
  BY <1>2 DEF SignalInv, LifeInv, NestInv, connVars
<1>6. \A i \in 1..m : Valid(i)' <=> Valid(i) /\ i # from
  BY <1>1, <1>2, <1>3 DEF Valid
<1>7. SlotInv'
  <2>1. \A c \in Live : index[c] \in 1..m /\ index[c] # from
    BY <1>1, <1>2, SignalAssumption DEF SlotInv, SignalInv, Valid, Live
  <2>2. QED
    BY <1>1, <1>2, <1>6, <2>1 DEF SlotInv, SignalInv, Live, connVars
<1>8. EmptyInv'
  BY <1>1, <1>2, <1>3 DEF EmptyInv, EmptyIsDirty, SignalInv
<1>9. QED
  BY <1>4, <1>5, <1>7, <1>8 DEF SignalInv

\* The slot that is read moves to where the next one is written; what was there
\* is either the same slot or no longer part of the signal.
LEMMA MoveSlotInv ==
  ASSUME SignalInv, MoveSlot
  PROVE  SignalInv'
<1> DEFINE m == Len(connections)
           e == connections[from]
           T == Conns \union {Nothing}
<1>1. m \in Nat /\ DOMAIN connections = 1..m /\ Len(callbacks) = m
  BY SlotAt DEF SignalInv
<1>2. /\ from \in 1..m /\ e # Nothing
      /\ connections' = [connections EXCEPT ![to] = e]
      /\ callbacks' = [callbacks EXCEPT ![to] = callbacks[from]]
      /\ index' = [index EXCEPT ![e] = to]
      /\ from' = from + 1 /\ to' = to + 1
      /\ UNCHANGED <<dirty, calling, signal, swapped, life, made, birth, open, calls>>
  BY <1>1 DEF MoveSlot, Patched, flagVars
<1>3. to \in 1..from /\ calls = <<>> /\ to \in 1..m
  BY <1>1, <1>2 DEF SignalInv, TypeOK
<1>4. e \in Live /\ e \in Conns /\ index[e] = from /\ Valid(from)
  BY <1>1, <1>2, <1>3 DEF SlotInv, SignalInv, Valid, Live
<1>5. /\ connections' \in Seq(T) /\ Len(connections') = m /\ connections'[to] = e
      /\ \A k \in 1..m : k # to => connections'[k] = connections[k]
  BY <1>1, <1>2, <1>3, <1>4, SlotReplaced DEF SignalInv, TypeOK
<1>6. /\ callbacks' \in Seq(T) /\ Len(callbacks') = m /\ callbacks'[to] = callbacks[from]
      /\ \A k \in 1..m : k # to => callbacks'[k] = callbacks[k]
  BY <1>1, <1>2, <1>3, SlotAt, SlotReplaced DEF SignalInv, TypeOK
<1>7. DOMAIN connections' = 1..m
  BY <1>5, LenProperties
<1> HIDE DEF m, e
<1>8. TypeOK'
  <2>1. from' \in Nat /\ to' \in Nat /\ from' <= m + 1 /\ to' \in 1..from'
    BY <1>1, <1>2, <1>3
  <2>2. index' \in [Conns -> Nat]
    BY <1>2, <1>3, <1>4 DEF SignalInv, TypeOK
  <2>3. calls' \in Seq(Frame) /\ \A k \in DOMAIN calls' : /\ calls'[k].i <= calls'[k].n + 1
                                                          /\ calls'[k].n <= Len(callbacks')
    BY <1>1, <1>2, <1>6 DEF SignalInv, TypeOK
  <2>4. QED
    BY <1>1, <1>2, <1>3, <1>5, <1>6, <2>1, <2>2, <2>3 DEF TypeOK, SignalInv
<1>9. LifeInv' /\ NestInv'
  BY <1>2 DEF SignalInv, LifeInv, NestInv
<1>10. \A i \in 1..m : Valid(i)' <=> i = to \/ (Valid(i) /\ i # from)
  BY <1>1, <1>2, <1>3, <1>7 DEF Valid
<1>11. Live' = Live
  BY <1>2 DEF Live
<1>12. \A c \in Live : /\ Valid(index[c]) /\ index[c] \in 1..m /\ connections[index[c]] = c
                       /\ swapped[c] \in {Nothing, c}
                       /\ callbacks[index[c]] = IF swapped[c] = c THEN Nothing ELSE c
  BY <1>1 DEF SlotInv, SignalInv, Valid
<1>13. index'[e] = to /\ \A c \in Live : c # e => index'[c] = index[c] /\ index[c] # from
  BY <1>2, <1>4, <1>12 DEF SignalInv, TypeOK, Live, e
<1>14. ~(Valid(to) /\ to # from)
  BY <1>2, <1>3 DEF Valid
<1>15. SlotInv'
  <2>1. \A c \in Live :
          /\ Valid(index[c])' /\ connections'[index'[c]] = c
          /\ swapped'[c] \in {Nothing, c}
          /\ callbacks'[index'[c]] = IF swapped'[c] = c THEN Nothing ELSE c
    <3> SUFFICES ASSUME NEW c \in Live
                 PROVE  /\ Valid(index[c])' /\ connections'[index'[c]] = c
                        /\ swapped'[c] \in {Nothing, c}
                        /\ callbacks'[index'[c]] = IF swapped'[c] = c THEN Nothing ELSE c
      OBVIOUS
    <3>1. CASE c = e
      <4>1. index'[c] = to /\ callbacks[from] = IF swapped[c] = c THEN Nothing ELSE c
        BY <1>4, <1>12, <1>13, <3>1
      <4>2. to \in DOMAIN connections' /\ to < to'
        BY <1>1, <1>2, <1>3, <1>7
      <4>3. Valid(index[c])'
        BY <4>1, <4>2 DEF Valid
      <4>4. QED
        BY <1>2, <1>5, <1>6, <1>12, <3>1, <4>1, <4>3
    <3>2. CASE c # e
      <4>1. index'[c] = index[c] /\ index[c] # from /\ index[c] # to /\ index[c] \in 1..m
        BY <1>4, <1>12, <1>13, <1>14, <3>2
      <4>2. Valid(index[c])'
        BY <1>2, <1>3, <1>7, <1>12, <4>1 DEF Valid
      <4>3. QED
        BY <1>2, <1>5, <1>6, <1>12, <4>1, <4>2
    <3>3. QED
      BY <3>1, <3>2
  <2>2. \A i \in 1..m : Valid(i)' =>
          IF connections'[i] = Nothing THEN callbacks'[i] = Nothing
          ELSE connections'[i] \in Live /\ index'[connections'[i]] = i
    <3> SUFFICES ASSUME NEW i \in 1..m, Valid(i)'
                 PROVE  IF connections'[i] = Nothing THEN callbacks'[i] = Nothing
                        ELSE connections'[i] \in Live /\ index'[connections'[i]] = i
      OBVIOUS
    <3>1. CASE i = to
      BY <1>2, <1>4, <1>5, <1>13, <3>1
    <3>2. CASE i # to
      <4>1. Valid(i) /\ i # from
        BY <1>10, <3>2
      <4>2. IF connections[i] = Nothing THEN callbacks[i] = Nothing
            ELSE connections[i] \in Live /\ index[connections[i]] = i
        BY <1>1, <4>1 DEF SlotInv, SignalInv
      <4>3. QED
        BY <1>4, <1>5, <1>6, <1>13, <3>2, <4>1, <4>2
    <3>3. QED
      BY <3>1, <3>2
  <2>3. QED
    BY <1>7, <1>11, <2>1, <2>2 DEF SlotInv
<1>16. EmptyInv'
  <2>1. \A i \in 1..m : i < to' => connections'[i] # Nothing
    BY <1>1, <1>2, <1>3, <1>5 DEF EmptyInv, SignalInv
  <2>2. QED
    BY <1>2, <1>3, <1>7, <2>1 DEF EmptyInv, EmptyIsDirty
<1>17. QED
  BY <1>8, <1>9, <1>15, <1>16 DEF SignalInv

LEMMA ResizeInv ==
  ASSUME SignalInv, Resize
  PROVE  SignalInv'
<1> DEFINE m == Len(connections)
           T == Conns \union {Nothing}
<1>1. m \in Nat /\ DOMAIN connections = 1..m /\ Len(callbacks) = m
  BY SlotAt DEF SignalInv
<1>2. /\ from = m + 1
      /\ connections' = SubSeq(connections, 1, to - 1)
      /\ callbacks' = SubSeq(callbacks, 1, to - 1)
      /\ from' = 0 /\ to' = 0
      /\ UNCHANGED <<dirty, calling, connVars, open, calls>>
  BY DEF Resize, flagVars
<1>3. to \in 1..(m + 1) /\ calls = <<>>
  BY <1>1, <1>2 DEF SignalInv, TypeOK
<1>4. /\ connections' \in Seq(T) /\ Len(connections') = to - 1
      /\ \A k \in 1..(to - 1) : connections'[k] = connections[k]
  BY <1>2, <1>3, SlotsResized DEF SignalInv, TypeOK
<1>5. /\ callbacks' \in Seq(T) /\ Len(callbacks') = to - 1
      /\ \A k \in 1..(to - 1) : callbacks'[k] = callbacks[k]
  BY <1>1, <1>2, <1>3, SlotsResized DEF SignalInv, TypeOK
<1>6. DOMAIN connections' = 1..(to - 1)
  BY <1>4, LenProperties
<1> HIDE DEF m
<1>7. TypeOK'
  <2>1. calls' \in Seq(Frame) /\ DOMAIN calls' = {}
    BY <1>2, <1>3, EmptySeq
  <2>2. Len(connections') \in Nat
    BY <1>4, LenProperties
  <2>3. QED
    BY <1>2, <1>4, <1>5, <2>1, <2>2 DEF TypeOK, SignalInv, connVars
<1>8. LifeInv' /\ NestInv'
  BY <1>2 DEF SignalInv, LifeInv, NestInv, connVars
<1>9. \A i \in 1..m : Valid(i) <=> i \in 1..(to - 1)
  BY <1>1, <1>2, <1>3 DEF Valid
<1>10. \A i \in 1..(to - 1) : i \in 1..m /\ Valid(i)'
  BY <1>1, <1>2, <1>3, <1>6 DEF Valid
<1>11. SlotInv'
  <2>1. \A c \in Live : /\ index[c] \in 1..(to - 1) /\ connections[index[c]] = c
                        /\ swapped[c] \in {Nothing, c}
                        /\ callbacks[index[c]] = IF swapped[c] = c THEN Nothing ELSE c
    BY <1>1, <1>9 DEF SlotInv, SignalInv, Valid
  <2>2. \A i \in 1..(to - 1) : IF connections[i] = Nothing THEN callbacks[i] = Nothing
                               ELSE connections[i] \in Live /\ index[connections[i]] = i
    BY <1>1, <1>9, <1>10 DEF SlotInv, SignalInv
  <2>3. UNCHANGED <<index, swapped, Live>>
    BY <1>2 DEF connVars, Live
  <2>4. \A c \in Live' :
          /\ Valid(index[c])' /\ connections'[index'[c]] = c
          /\ swapped'[c] \in {Nothing, c}
          /\ callbacks'[index'[c]] = IF swapped'[c] = c THEN Nothing ELSE c
    BY <1>2, <1>4, <1>5, <1>6, <2>1, <2>3 DEF Valid
  <2>5. \A i \in 1..(to - 1) : IF connections'[i] = Nothing THEN callbacks'[i] = Nothing
                               ELSE connections'[i] \in Live' /\ index'[connections'[i]] = i
    BY <1>4, <1>5, <2>2, <2>3
  <2>6. QED
    BY <1>6, <2>4, <2>5 DEF SlotInv
<1>12. EmptyInv'
  <2>1. from # 0
    BY <1>1, <1>2
  <2>2. \A i \in 1..(to - 1) : i \in DOMAIN connections /\ i < to
    BY <1>1, <1>3, <1>10
  <2>3. \A i \in 1..(to - 1) : connections'[i] # Nothing
    BY <1>4, <2>1, <2>2 DEF EmptyInv, SignalInv
  <2>4. QED
    BY <1>2, <1>6, <2>3 DEF EmptyInv, EmptyIsDirty
<1>13. QED
  BY <1>7, <1>8, <1>11, <1>12 DEF SignalInv

LEMMA DestroyInv ==
  ASSUME SignalInv, Destroy
  PROVE  SignalInv'
<1>1. /\ from = 0 /\ calls = <<>> /\ open' = FALSE
      /\ callbacks' = <<>> /\ connections' = <<>>
      /\ signal' = [c \in Conns |-> FALSE]
      /\ life' = [c \in Conns |-> IF life[c] = "raw" THEN "gone" ELSE life[c]]
      /\ UNCHANGED <<dirty, calling, index, swapped, made, birth, calls, from, to>>
  BY DEF Destroy, InProgram, flagVars, sweepVars
<1>2. /\ callbacks' \in Seq(Conns \union {Nothing}) /\ connections' \in Seq(Conns \union {Nothing})
      /\ Len(callbacks') = 0 /\ Len(connections') = 0 /\ DOMAIN connections' = {}
      /\ calls' \in Seq(Frame) /\ DOMAIN calls' = {}
  BY <1>1, EmptySeq
<1>3. TypeOK'
  <2>1. \A k \in DOMAIN calls' : calls'[k].i <= calls'[k].n + 1 /\ calls'[k].n <= Len(callbacks')
    BY <1>2
  <2>2. /\ signal' \in [Conns -> BOOLEAN] /\ open' \in BOOLEAN
        /\ life' \in [Conns -> {"unmade", "raw", "owned", "gone"}]
    BY <1>1 DEF TypeOK, SignalInv
  <2>3. from' = 0 /\ from' \in Nat /\ to' \in Nat /\ from' <= Len(connections') + 1
    BY <1>1, <1>2 DEF TypeOK, SignalInv
  <2>4. /\ dirty' \in BOOLEAN /\ calling' \in BOOLEAN /\ index' \in [Conns -> Nat]
        /\ swapped' \in [Conns -> Conns \union {Nothing}]
        /\ made' \in Nat /\ birth' \in [Conns -> Nat]
    BY <1>1 DEF TypeOK, SignalInv
  <2>5. QED
    BY <1>2, <2>1, <2>2, <2>3, <2>4 DEF TypeOK
<1>4. LifeInv' /\ NestInv'
  BY <1>1 DEF SignalInv, LifeInv, NestInv, TypeOK
<1>5. SlotInv' /\ EmptyInv'
  BY <1>1, <1>2 DEF SlotInv, EmptyInv, EmptyIsDirty, Live
<1>6. QED
  BY <1>3, <1>4, <1>5 DEF SignalInv

LEMMA SignalStep ==
  ASSUME SignalInv, [Next]_vars
  PROVE  SignalInv'
<1>1. CASE UNCHANGED vars
  BY <1>1 DEF vars, slotVars, flagVars, connVars, sweepVars, SignalInv, TypeOK, LifeInv,
              NestInv, SlotInv, EmptyInv, EmptyIsDirty, Valid, Live
<1>2. ASSUME NEW c \in Conns, Disconnect(c)
      PROVE  SignalInv'
  BY <1>2, DisconnectInv, DisconnectLateInv
<1>3. QED
  BY <1>1, <1>2, ConnectInv, MarkOwnedInv, SwapInv, CallInv, VisitInv, CallbackReturnsInv,
     CallbackThrowsInv, CallReturnsInv, SkipSlotInv, MoveSlotInv, ResizeInv, DestroyInv
  DEF Next

\* Every variable keeps its type, and no call walks past the slots there are.
THEOREM TypeCorrect == Spec => []TypeOK
<1>1. SignalInv => TypeOK
  BY DEF SignalInv
<1>2. QED
  BY <1>1, SignalInit, SignalStep, PTL DEF Spec

\* Each connection finds its own slot, whatever callbacks do to the signal that
\* is calling them.
THEOREM IndexCorrect == Spec => []IndexExact
<1>1. SignalInv => IndexExact
  BY DEF SignalInv, SlotInv, Valid, IndexExact
<1>2. QED
  BY <1>1, SignalInit, SignalStep, PTL DEF Spec

\* No empty slot is forgotten.
THEOREM EmptyCorrect == Spec => []EmptyIsDirty
<1>1. SignalInv => EmptyIsDirty
  BY DEF SignalInv, EmptyInv
<1>2. QED
  BY <1>1, SignalInit, SignalStep, PTL DEF Spec
=============================================================================
