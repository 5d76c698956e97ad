------------------------------- MODULE Utilities -------------------------------
(***************************************************************************)
(* The library's parts that stand alone. They do not interact: a behaviour *)
(* is one of the part chosen at its start, and the others keep their first *)
(* state, so that their state spaces add up instead of multiplying.        *)
(***************************************************************************)
EXTENDS Integers, Sequences

CONSTANTS
  Indices, Values, GroupSize, None,        \* SparseTable
  Points, MaxPoints, Units, MaxLength,     \* Unicode
  Observer, Nobody, MaxSlots, MaxWalks,    \* Observers
  Threads, Loggers, Parent, Handlers, Home, Levels,
  NoLogger, NoHandler, NoThread            \* Logging

VARIABLES
  part,
  groups, content,
  conversion, strict, text, src, dst, status, legal,
  observers, observer_indices, walks,
  loggers, level, owner, connections, blocked, added, record

tableVars == <<groups, content>>
textVars == <<conversion, strict, text, src, dst, status, legal>>
observerVars == <<observers, observer_indices, walks>>
loggingVars == <<loggers, level, owner, connections, blocked, added, record>>
vars == <<part, tableVars, textVars, observerVars, loggingVars>>

T == INSTANCE SparseTable
U == INSTANCE Unicode
O == INSTANCE Observers
L == INSTANCE Logging

ASSUME UtilitiesAssumption ==
  T!TableAssumption /\ U!UnicodeAssumption /\ O!ObserversAssumption /\ L!LoggingAssumption

-----------------------------------------------------------------------------
NoText ==
  /\ conversion = <<8, 16>> /\ strict = FALSE /\ text = <<>> /\ legal = {}
  /\ src = <<>> /\ dst = <<>> /\ status = "done"

Init ==
  /\ T!Init /\ O!Init /\ L!Init
  /\ \/ part = "text" /\ U!Init
     \/ part \in {"table", "observers", "logging"} /\ NoText

Next ==
  /\ UNCHANGED part
  /\ \/ /\ part = "table" /\ T!Next
        /\ UNCHANGED <<textVars, observerVars, loggingVars>>
     \/ /\ part = "text" /\ U!Next
        /\ UNCHANGED <<tableVars, observerVars, loggingVars>>
     \/ /\ part = "observers" /\ O!Next
        /\ UNCHANGED <<tableVars, textVars, loggingVars>>
     \/ /\ part = "logging" /\ L!Next
        /\ UNCHANGED <<tableVars, textVars, observerVars>>

Spec == Init /\ [][Next]_vars

-----------------------------------------------------------------------------
\* A sparse table finds what was put into it (SparseTable).
FindsContent == T!FindsContent

\* Conversions between encodings are exact and stay in their buffer (Unicode).
ConversionExact == U!ConversionExact

\* A walk over observers notifies each that is there, once (Observers).
NotifiedExactly == O!NotifiedExactly

\* A handler runs on one thread at a time, and not once it was dropped
\* (Logging).
HandlersGuarded == L!HandlersGuarded
=============================================================================
