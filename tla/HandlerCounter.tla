--------------------------- MODULE HandlerCounter ---------------------------
(***************************************************************************)
(* A counter in the handler store, as docs/handlers.md shows it and        *)
(* handlers/smtp.lua keeps its "mails" count: every connection of the      *)
(* handler gets the value, adds one and sets it, in two critical sections. *)
(* The result of set is not looked at.                                     *)
(***************************************************************************)
EXTENDS Store

CONSTANTS handler, count  \* the handler's store and the key of the counter

ASSUME CounterAssumption ==
  handler \in Shared /\ count \in Keys /\ 0 .. Cardinality(Connections) \subseteq Values

VARIABLES
  read,       \* what each connection's script got, Absent before it did
  counted,    \* the connections whose script has counted itself
  overlapped, \* history: a connection read while another was between its calls
  refused     \* history: a set of the counter was refused

counterVars == <<read, counted, overlapped, refused>>
allVars == <<vars, counterVars>>

CounterTypeOK ==
  /\ TypeOK
  /\ read \in [Connections -> Values \cup {Absent}]
  /\ counted \subseteq Connections
  /\ overlapped \in BOOLEAN /\ refused \in BOOLEAN
  /\ \A c \in Connections : read[c] # Absent => conn[c] = "running"

CounterInit ==
  /\ Init
  /\ read = [c \in Connections |-> Absent]
  /\ counted = {} /\ overlapped = FALSE /\ refused = FALSE

Number(v) == IF v = Absent THEN 0 ELSE v

MutOwnStore(c) == c
\* The store the counter is kept in.
Scope(c) == handler

\* tonumber(handler:get("count") or "0")
GetCount(c) ==
  /\ conn[c] = "running" /\ read[c] = Absent /\ c \notin counted
  /\ read' = [read EXCEPT ![c] = Number(data[Scope(c)][count])]
  /\ overlapped' = (overlapped \/ \E d \in Connections : read[d] # Absent)
  /\ UNCHANGED <<vars, counted, refused>>

\* handler:set("count", tostring(count + 1))
SetCount(c) ==
  /\ conn[c] = "running" /\ read[c] # Absent
  /\ \/ Set(Scope(c), count, read[c] + 1) /\ UNCHANGED refused
     \/ ~Accepted(Scope(c), count, read[c] + 1) /\ refused' = TRUE /\ UNCHANGED vars
  /\ read' = [read EXCEPT ![c] = Absent]
  /\ counted' = counted \cup {c}
  /\ UNCHANGED overlapped

\* The script is not between its get and its set.
BetweenVisits(c) == read[c] = Absent

\* The script stores or deletes something else, and ends.
Other(c) ==
  /\ \/ ConnStart(c)
     \/ BetweenVisits(c) /\ ConnEnd(c)
     \/ /\ conn[c] = "running" /\ BetweenVisits(c)
        /\ \E st \in Shared \cup {c}, k \in Keys :
             /\ <<st, k>> # <<handler, count>>
             /\ Delete(st, k) \/ \E v \in Values : Set(st, k, v)
  /\ UNCHANGED counterVars

CounterNext == \E c \in Connections : GetCount(c) \/ SetCount(c) \/ Other(c)
CounterSpec == CounterInit /\ [][CounterNext]_allVars

-----------------------------------------------------------------------------
Stored == IF data[handler][count] = Absent THEN 0 ELSE data[handler][count]

\* The counter never runs ahead of the connections, and connections served one
\* after the other are counted exactly, unless the budget refused an update.
CountHonest ==
  /\ Stored <= Cardinality(counted)
  /\ ~overlapped /\ ~refused => Stored = Cardinality(counted)

=============================================================================
