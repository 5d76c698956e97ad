------------------------------- MODULE Logging -------------------------------
(***************************************************************************)
(* nodec::logging: the loggers of a LoggerRepository, which pass records   *)
(* up to their parents, and the connections of their handlers. Threads log *)
(* and drop connections while others are in the middle of a record.        *)
(*                                                                         *)
(* A logger's handlers are called in some order (module Signal has it).    *)
(* Left to the program: a handler does not log, add a handler or drop a    *)
(* connection, since its logger's mutex is not recursive; connections are  *)
(* not moved, since the destructor of the old one would have no mutex.     *)
(***************************************************************************)
EXTENDS Naturals, FiniteSets

CONSTANTS
  Threads,
  Loggers,   \* names of loggers
  Parent,    \* the name before the last dot, or NoLogger for the root
  Handlers,  \* handlers, each added once (bound)
  Home,      \* the logger each is added to
  Levels,    \* levels of records and loggers, a range that starts at Unset
  NoLogger, NoHandler, NoThread

LoggingAssumption ==
  /\ Parent \in [Loggers -> Loggers \cup {NoLogger}]
  /\ Home \in [Handlers -> Loggers]
  /\ NoLogger \notin Loggers /\ NoHandler \notin Handlers /\ NoThread \notin Threads

VARIABLES
  loggers,      \* loggers_ of the repository: those that were made
  level,        \* level_ of each logger
  owner,        \* handlers_mutex_ of each logger: the thread that holds it
  connections,  \* the HandlerConnections that are alive
  blocked,      \* those that are blocked
  added,        \* handlers ever added (history)
  record        \* the record each thread is passing on, or NoRecord

repositoryVars == <<loggers, level>>
connectionVars == <<connections, blocked, added>>
vars == <<repositoryVars, owner, connectionVars, record>>

\* at: before the test of the level, before the lock, or holding it; running:
\* the handler that has control; left: handlers that are still to be called.
Record(at, logger, severity, left) ==
  [at |-> at, logger |-> logger, severity |-> severity, left |-> left,
   running |-> NoHandler]

NoRecord == Record("none", NoLogger, 0, {})

Idle(t) == record[t].at = "none"

Ancestors[l \in Loggers \cup {NoLogger}] ==
  IF l = NoLogger THEN {} ELSE {l} \cup Ancestors[Parent[l]]

-----------------------------------------------------------------------------
(* The repository *)

\* Under a recursive mutex: the parents are made as well.
get_logger(t, l) ==
  /\ Idle(t) /\ l \notin loggers
  /\ loggers' = loggers \cup Ancestors[l]
  /\ UNCHANGED <<level, owner, connectionVars, record>>

set_level(t, l, severity) ==
  /\ Idle(t) /\ l \in loggers
  /\ level' = [level EXCEPT ![l] = severity]
  /\ UNCHANGED <<loggers, owner, connectionVars, record>>

-----------------------------------------------------------------------------
(* Handlers *)

add_handler(t, h) ==
  /\ Idle(t) /\ Home[h] \in loggers
  /\ h \notin added
  /\ owner[Home[h]] = NoThread
  /\ connections' = connections \cup {h}
  /\ added' = added \cup {h}
  /\ UNCHANGED <<repositoryVars, owner, blocked, record>>

DropAtOnce(t, h) ==                                                \* defect
  /\ Idle(t) /\ h \in connections
  /\ connections' = connections \ {h}
  /\ UNCHANGED <<repositoryVars, owner, blocked, added, record>>

\* The destructor of a HandlerConnection waits for the mutex.
DropConnection(t, h) ==
  /\ Idle(t) /\ h \in connections
  /\ owner[Home[h]] = NoThread
  /\ connections' = connections \ {h}
  /\ UNCHANGED <<repositoryVars, owner, blocked, added, record>>

\* To be used while a handler of the same logger runs.
SetBlocked(t, h) ==
  /\ record[t].running # NoHandler /\ h \in connections
  /\ Home[h] = record[t].logger
  /\ blocked' \in {blocked \cup {h}, blocked \ {h}} \ {blocked}
  /\ UNCHANGED <<repositoryVars, owner, connections, added, record>>

-----------------------------------------------------------------------------
(* Records *)

log(t, l, severity) ==
  /\ Idle(t) /\ l \in loggers
  /\ record' = [record EXCEPT ![t] = Record("filter", l, severity, {})]
  /\ UNCHANGED <<repositoryVars, owner, connectionVars>>

\* handle(): a logger's level also stops what its children pass on.
Filter(t) ==
  /\ record[t].at = "filter"
  /\ record' = [record EXCEPT ![t] =
                  IF record[t].severity < level[record[t].logger]
                  THEN NoRecord ELSE [@ EXCEPT !.at = "lock"]]
  /\ UNCHANGED <<repositoryVars, owner, connectionVars>>

Lock(t) ==
  /\ record[t].at = "lock"
  /\ LET l == record[t].logger IN
       /\ owner[l] = NoThread
       /\ owner' = [owner EXCEPT ![l] = t]
       /\ record' = [record EXCEPT ![t] =
                       [@ EXCEPT !.at = "call",
                                 !.left = {h \in connections : Home[h] = l}]]
  /\ UNCHANGED <<repositoryVars, connectionVars>>

Emitting(t) == record[t].at = "call" /\ record[t].running = NoHandler

HandlerStarts(t, h) ==
  /\ Emitting(t) /\ h \in record[t].left \ blocked
  /\ record' = [record EXCEPT ![t].running = h, ![t].left = @ \ {h}]
  /\ UNCHANGED <<repositoryVars, owner, connectionVars>>

HandlerReturns(t) ==
  /\ record[t].running # NoHandler
  /\ record' = [record EXCEPT ![t].running = NoHandler]
  /\ UNCHANGED <<repositoryVars, owner, connectionVars>>

Unlock(t) == owner' = [owner EXCEPT ![record[t].logger] = NoThread]

HandlerThrows(t) ==
  /\ record[t].running # NoHandler
  /\ Unlock(t)
  /\ record' = [record EXCEPT ![t] = NoRecord]
  /\ UNCHANGED <<repositoryVars, connectionVars>>

\* Every handler was called: the parent handles the record.
PassUp(t) ==
  /\ Emitting(t) /\ record[t].left \subseteq blocked
  /\ Unlock(t)
  /\ LET parent == Parent[record[t].logger] IN
     record' = [record EXCEPT ![t] =
                  IF parent = NoLogger THEN NoRecord
                  ELSE Record("filter", parent, @.severity, {})]
  /\ UNCHANGED <<repositoryVars, connectionVars>>

-----------------------------------------------------------------------------
Init ==
  /\ loggers = {l \in Loggers : Parent[l] = NoLogger}
  /\ level = [l \in Loggers |-> 0]
  /\ owner = [l \in Loggers |-> NoThread]
  /\ connections = {} /\ blocked = {} /\ added = {}
  /\ record = [t \in Threads |-> NoRecord]

Step(t) ==
  \/ \E l \in Loggers : get_logger(t, l)
  \/ \E l \in Loggers, s \in Levels : set_level(t, l, s) \/ log(t, l, s)
  \/ \E h \in Handlers : add_handler(t, h) \/ DropConnection(t, h)
                         \/ SetBlocked(t, h) \/ HandlerStarts(t, h)
  \/ Filter(t) \/ Lock(t) \/ HandlerReturns(t) \/ HandlerThrows(t) \/ PassUp(t)

Next == \E t \in Threads : Step(t)

Spec == Init /\ [][Next]_vars

-----------------------------------------------------------------------------
\* When the destructor of a connection has returned, its handler does not run
\* on any thread, and never will; the handlers of one logger never run on two
\* threads at a time, although records come up to it from all its children.
HandlersGuarded ==
  /\ \A t \in Threads :
       /\ record[t].running # NoHandler => record[t].running \in connections
       /\ record[t].left \subseteq connections
  /\ \A t, u \in Threads :
       t # u /\ record[t].running # NoHandler /\ record[u].running # NoHandler =>
         record[t].logger # record[u].logger
=============================================================================
