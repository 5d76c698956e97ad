---------------------------- MODULE SignalDelivery ----------------------------
(***************************************************************************)
(* What nodec::signals::Signal promises those who connect callbacks to it: *)
(* a call runs, in the order of their connection, each callback connected  *)
(* before the call began, once, unless its connection is cut or blocked    *)
(* when its turn comes. Callbacks may connect, cut, block and call the     *)
(* signal again. Connections stand for their callbacks.                    *)
(***************************************************************************)
EXTENDS Naturals, Sequences

CONSTANTS
  Conns,    \* connections, each made once
  Nothing   \* no connection

VARIABLES
  made,     \* how many connections have been made
  birth,    \* when each was: the first is 1, and 0 is not yet
  live,     \* the connections that exist and whose signal does
  blocked,  \* those that are blocked
  calls     \* the calls in progress, each made by the callback that runs before

vars == <<made, birth, live, blocked, calls>>

Top == calls[Len(calls)]
WithTop(f) == [calls EXCEPT ![Len(calls)] = f]
WithoutTop == SubSeq(calls, 1, Len(calls) - 1)

\* The program has control, in a callback or outside of all calls.
InProgram == calls # <<>> => Top.runs # Nothing

\* Calls no longer have to reach c.
Excused(c) == [k \in DOMAIN calls |-> [calls[k] EXCEPT !.due = @ \ {c}]]

Init == /\ made = 0 /\ birth = [c \in Conns |-> 0]
        /\ live = {} /\ blocked = {}
        /\ calls = <<>>

Connect(c) ==
  /\ InProgram /\ birth[c] = 0
  /\ made' = made + 1 /\ birth' = [birth EXCEPT ![c] = made + 1]
  /\ live' = live \union {c}
  /\ UNCHANGED <<blocked, calls>>

Disconnect(c) ==
  /\ InProgram
  /\ live' = live \ {c} /\ blocked' = blocked \ {c}
  /\ calls' = Excused(c)
  /\ UNCHANGED <<made, birth>>

Block(c) ==
  /\ InProgram /\ c \in live
  /\ blocked' = blocked \union {c}
  /\ calls' = Excused(c)
  /\ UNCHANGED <<made, birth, live>>

Unblock(c) ==
  /\ InProgram
  /\ blocked' = blocked \ {c}
  /\ UNCHANGED <<made, birth, live, calls>>

Call ==
  /\ InProgram
  /\ calls' = Append(calls, [first |-> live, due |-> live \ blocked,
                             ran |-> {}, runs |-> Nothing])
  /\ UNCHANGED <<made, birth, live, blocked>>

\* The turn of c: in order, once, and only if it was there at the beginning.
Run(c) ==
  /\ calls # <<>> /\ Top.runs = Nothing
  /\ c \in (Top.first \intersect live) \ (blocked \union Top.ran)
  /\ \A d \in Top.ran : birth[d] < birth[c]
  /\ calls' = WithTop([Top EXCEPT !.runs = c, !.ran = @ \union {c}])
  /\ UNCHANGED <<made, birth, live, blocked>>

CallbackReturns ==
  /\ calls # <<>> /\ Top.runs # Nothing
  /\ calls' = WithTop([Top EXCEPT !.runs = Nothing])
  /\ UNCHANGED <<made, birth, live, blocked>>

\* The exception leaves the call, for the callback or program that made it.
CallbackThrows ==
  /\ calls # <<>> /\ Top.runs # Nothing
  /\ calls' = WithoutTop
  /\ UNCHANGED <<made, birth, live, blocked>>

\* A call returns only when no callback is due any more.
CallReturns ==
  /\ calls # <<>> /\ Top.runs = Nothing
  /\ Top.due \subseteq Top.ran
  /\ calls' = WithoutTop
  /\ UNCHANGED <<made, birth, live, blocked>>

Destroy ==
  /\ calls = <<>>
  /\ live' = {} /\ blocked' = {}
  /\ UNCHANGED <<made, birth, calls>>

Next == \/ \E c \in Conns : Connect(c) \/ Disconnect(c) \/ Block(c) \/ Unblock(c) \/ Run(c)
        \/ Call \/ CallbackReturns \/ CallbackThrows \/ CallReturns \/ Destroy

Spec == Init /\ [][Next]_vars
=============================================================================
