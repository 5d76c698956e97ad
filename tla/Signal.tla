-------------------------------- MODULE Signal --------------------------------
(***************************************************************************)
(* nodec::signals::Signal and its Connections (include/nodec/signals/), by *)
(* the slots of details::SignalImpl. Everything happens on one thread; the *)
(* difficulty is that callbacks act on the signal that is calling them.    *)
(*                                                                         *)
(* A slot is a position in callbacks and in connections; positions count   *)
(* from 1. A connection stands for its function too. The removal of empty  *)
(* slots after a call is modelled step by step, as the loop does it.       *)
(*                                                                         *)
(* Left to the program: functions that survive being moved or destroyed    *)
(* while they run, no move of a Signal, and no end of it during a call.    *)
(***************************************************************************)
EXTENDS Naturals, Sequences

CONSTANTS
  Conns,    \* connections, each made once (bound)
  Nothing,  \* no connection, no function (nullptr)
  MaxDepth  \* how deep calls are nested (bound)

ASSUME SignalAssumption == Nothing \notin Conns /\ MaxDepth \in Nat

VARIABLES
  callbacks,    \* callbacks_: the function in each slot
  connections,  \* connections_: the connection of each slot
  dirty,        \* dirty_
  calling,      \* calling_
  signal,       \* signal_ of each connection: whether it has one
  index,        \* index_ of each connection
  swapped,      \* swapped_callback_ of each connection
  life,         \* what has become of each connection
  open,         \* the signal exists
  calls,        \* the calls in progress, outermost first
  from, to,     \* the removal of empty slots: next slot to read, to write; or 0
  made, birth   \* connections made, and when each was  (history)

slotVars == <<callbacks, connections>>
flagVars == <<dirty, calling>>
connVars == <<signal, index, swapped, life, made, birth>>
sweepVars == <<from, to>>
vars == <<slotVars, flagVars, connVars, open, calls, sweepVars>>

-----------------------------------------------------------------------------
Top == calls[Len(calls)]
WithTop(f) == [calls EXCEPT ![Len(calls)] = f]
WithoutTop == SubSeq(calls, 1, Len(calls) - 1)

\* The program has control, in a callback or outside of all calls.
InProgram == from = 0 /\ (calls # <<>> => Top.runs # Nothing)

Live == {c \in Conns : signal[c]}
Blocked == {c \in Live : swapped[c] # Nothing}

\* In the history of the calls, c is no longer due.
Excused(c) == [k \in DOMAIN calls |-> [calls[k] EXCEPT !.due = @ \ {c}]]

-----------------------------------------------------------------------------
(* Connections *)

Connect(c) ==
  /\ InProgram /\ open
  /\ life[c] = "unmade"
  /\ callbacks' = Append(callbacks, c)
  /\ connections' = Append(connections, c)
  /\ signal' = [signal EXCEPT ![c] = TRUE]
  /\ index' = [index EXCEPT ![c] = Len(connections) + 1]
  /\ life' = [life EXCEPT ![c] = "raw"]
  /\ made' = made + 1 /\ birth' = [birth EXCEPT ![c] = made + 1]
  /\ UNCHANGED <<flagVars, swapped, open, calls, sweepVars>>

\* A Connection object takes the raw connection over.
MarkOwned(c) ==
  /\ InProgram
  /\ life[c] = "raw"
  /\ life' = [life EXCEPT ![c] = "owned"]
  /\ UNCHANGED <<slotVars, flagVars, signal, index, swapped, made, birth, open, calls,
                 sweepVars>>

\* What disconnect() does to dirty_.
Unmarked == dirty                                              \* defect
Marked == TRUE

\* disconnect(), or the end of the Connection object.
Disconnect(c) ==
  /\ InProgram
  /\ life[c] = "owned"
  /\ IF signal[c]
     THEN /\ callbacks' = [callbacks EXCEPT ![index[c]] = Nothing]
          /\ connections' = [connections EXCEPT ![index[c]] = Nothing]
          /\ dirty' = Marked
     ELSE UNCHANGED <<slotVars, dirty>>
  /\ signal' = [signal EXCEPT ![c] = FALSE]
  /\ swapped' = [swapped EXCEPT ![c] = Nothing]
  /\ life' = [life EXCEPT ![c] = "gone"]
  /\ calls' = Excused(c)
  /\ UNCHANGED <<calling, index, made, birth, open, sweepVars>>

\* std::swap(swapped_callback_, callbacks_[index_])
SwapCallback(c) ==
  /\ swapped' = [swapped EXCEPT ![c] = callbacks[index[c]]]
  /\ callbacks' = [callbacks EXCEPT ![index[c]] = swapped[c]]
  /\ UNCHANGED <<connections, flagVars, signal, index, life, made, birth, open, sweepVars>>

\* block() and unblock() need the signal; done twice, they change nothing.
Block(c) ==
  /\ InProgram
  /\ life[c] = "owned" /\ signal[c]
  /\ swapped[c] = Nothing
  /\ SwapCallback(c)
  /\ calls' = Excused(c)

Unblock(c) ==
  /\ InProgram
  /\ life[c] = "owned" /\ signal[c]
  /\ swapped[c] # Nothing
  /\ SwapCallback(c)
  /\ UNCHANGED calls

-----------------------------------------------------------------------------
(* Calls *)

\* Whether a call takes itself for a nested one.
AlwaysOutermost == FALSE                                       \* defect
Recursion == calling

\* operator(): the number of slots is read once.
Call ==
  /\ InProgram /\ open
  /\ Len(calls) < MaxDepth
  /\ calls' = Append(calls, [i |-> 1, n |-> Len(callbacks), recursion |-> Recursion,
                             runs |-> Nothing, first |-> Live, due |-> Live \ Blocked,
                             ran |-> {}])
  /\ calling' = TRUE
  /\ UNCHANGED <<slotVars, dirty, connVars, open, sweepVars>>

\* Where a call stops.
LastNow == Len(callbacks)                                      \* defect
Last == Top.n

Walking == calls # <<>> /\ Top.runs = Nothing

\* The next slot: an empty one is passed over.
Visit ==
  /\ Walking /\ Top.i <= Last
  /\ LET f == callbacks[Top.i]
     IN calls' = WithTop([Top EXCEPT !.i = @ + 1, !.runs = f,
                                     !.ran = IF f = Nothing THEN @ ELSE @ \union {f}])
  /\ UNCHANGED <<slotVars, flagVars, connVars, open, sweepVars>>

CallbackReturns ==
  /\ from = 0 /\ calls # <<>> /\ Top.runs # Nothing
  /\ calls' = WithTop([Top EXCEPT !.runs = Nothing])
  /\ UNCHANGED <<slotVars, flagVars, connVars, open, sweepVars>>

\* The exception leaves the call, which changes nothing more.
CallbackThrows ==
  /\ from = 0 /\ calls # <<>> /\ Top.runs # Nothing
  /\ calls' = WithoutTop
  /\ UNCHANGED <<slotVars, flagVars, connVars, open, sweepVars>>

\* After the last slot the outermost call begins to remove the empty ones.
CallReturns ==
  /\ Walking /\ Top.i > Last
  /\ calls' = WithoutTop
  /\ IF Top.recursion
     THEN UNCHANGED <<flagVars, sweepVars>>
     ELSE /\ calling' = FALSE /\ dirty' = FALSE
          /\ IF dirty THEN from' = 1 /\ to' = 1 ELSE UNCHANGED sweepVars
  /\ UNCHANGED <<slotVars, connVars, open>>

\* The index of a connection whose slot moves to another.
Unpatched(c) == index                                          \* defect
Patched(c) == [index EXCEPT ![c] = to]

SkipSlot ==
  /\ from \in DOMAIN connections /\ connections[from] = Nothing
  /\ from' = from + 1
  /\ UNCHANGED <<slotVars, flagVars, connVars, open, calls, to>>

MoveSlot ==
  /\ from \in DOMAIN connections /\ connections[from] # Nothing
  /\ connections' = [connections EXCEPT ![to] = connections[from]]
  /\ callbacks' = [callbacks EXCEPT ![to] = callbacks[from]]
  /\ index' = Patched(connections[from])
  /\ from' = from + 1 /\ to' = to + 1
  /\ UNCHANGED <<flagVars, signal, swapped, life, made, birth, open, calls>>

Resize ==
  /\ from = Len(connections) + 1
  /\ connections' = SubSeq(connections, 1, to - 1)
  /\ callbacks' = SubSeq(callbacks, 1, to - 1)
  /\ from' = 0 /\ to' = 0
  /\ UNCHANGED <<flagVars, connVars, open, calls>>

-----------------------------------------------------------------------------
(* The end of the signal *)

\* A connection without an owner is deleted, the others learn that it is gone.
Destroy ==
  /\ InProgram /\ open /\ calls = <<>>
  /\ open' = FALSE
  /\ callbacks' = <<>> /\ connections' = <<>>
  /\ signal' = [c \in Conns |-> FALSE]
  /\ life' = [c \in Conns |-> IF life[c] = "raw" THEN "gone" ELSE life[c]]
  /\ UNCHANGED <<flagVars, index, swapped, made, birth, calls, sweepVars>>

-----------------------------------------------------------------------------
Init ==
  /\ callbacks = <<>> /\ connections = <<>>
  /\ dirty = FALSE /\ calling = FALSE
  /\ signal = [c \in Conns |-> FALSE] /\ index = [c \in Conns |-> 0]
  /\ swapped = [c \in Conns |-> Nothing] /\ life = [c \in Conns |-> "unmade"]
  /\ open = TRUE
  /\ calls = <<>>
  /\ from = 0 /\ to = 0
  /\ made = 0 /\ birth = [c \in Conns |-> 0]

Next ==
  \/ \E c \in Conns : Connect(c) \/ MarkOwned(c) \/ Disconnect(c) \/ Block(c) \/ Unblock(c)
  \/ Call \/ Visit \/ CallbackReturns \/ CallbackThrows \/ CallReturns
  \/ SkipSlot \/ MoveSlot \/ Resize
  \/ Destroy

Spec == Init /\ [][Next]_vars

-----------------------------------------------------------------------------
(* Properties *)

Frame == [i : Nat \ {0}, n : Nat, recursion : BOOLEAN, runs : Conns \union {Nothing},
          first : SUBSET Conns, due : SUBSET Conns, ran : SUBSET Conns]

\* Besides the types: a call never walks past the slots there are, and the
\* removal of empty slots writes behind where it reads.
TypeOK ==
  /\ callbacks \in Seq(Conns \union {Nothing})
  /\ connections \in Seq(Conns \union {Nothing})
  /\ Len(callbacks) = Len(connections)
  /\ dirty \in BOOLEAN /\ calling \in BOOLEAN /\ open \in BOOLEAN
  /\ signal \in [Conns -> BOOLEAN]
  /\ index \in [Conns -> Nat]
  /\ swapped \in [Conns -> Conns \union {Nothing}]
  /\ life \in [Conns -> {"unmade", "raw", "owned", "gone"}]
  /\ calls \in Seq(Frame)
  /\ \A k \in DOMAIN calls : calls[k].i <= calls[k].n + 1 /\ calls[k].n <= Len(callbacks)
  /\ from \in Nat /\ to \in Nat /\ from <= Len(connections) + 1
  /\ from # 0 => to \in 1..from /\ calls = <<>>
  /\ made \in Nat /\ birth \in [Conns -> Nat]

\* Each connection finds its own slot through its index, with its function there
\* or, while it is blocked, with itself; and a slot without a connection is empty.
\* Calls, callbacks that connect, cut and block, exceptions, and the removal of
\* slots leave it so whenever the program has control.
IndexExact ==
  from = 0 =>
    /\ \A c \in Live :
         /\ index[c] \in DOMAIN connections /\ connections[index[c]] = c
         /\ swapped[c] \in {Nothing, c}
         /\ callbacks[index[c]] = IF swapped[c] = c THEN Nothing ELSE c
    /\ \A i \in DOMAIN connections :
         IF connections[i] = Nothing THEN callbacks[i] = Nothing
         ELSE connections[i] \in Live /\ index[connections[i]] = i

\* No empty slot is forgotten: as long as there is one, dirty_ asks the next
\* outermost call to remove it.
EmptyIsDirty ==
  from = 0 => \A i \in DOMAIN connections : connections[i] = Nothing => dirty

Delivery == INSTANCE SignalDelivery WITH
  live <- Live,
  blocked <- Blocked,
  calls <- [k \in DOMAIN calls |->
              [first |-> calls[k].first, due |-> calls[k].due,
               ran |-> calls[k].ran, runs |-> calls[k].runs]]

\* Each call keeps the promise of SignalDelivery, nested or not, whatever the
\* callbacks do to the signal.
ImplementsDelivery == Delivery!Spec
=============================================================================
