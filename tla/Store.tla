------------------------------- MODULE Store -------------------------------
(***************************************************************************)
(* The budgeted key/value stores (internal/store/kv.go) and their scopes   *)
(* (internal/script/engine.go, api_state.go): one global store, one store  *)
(* per handler, one store per TCP connection, all charged to one Budget.   *)
(* Every operation is one critical section of Budget.mu.                   *)
(***************************************************************************)
EXTENDS Integers, FiniteSets, Functions

CONSTANTS
  Shared,       \* the global store and the handlers' stores
  Connections,  \* each has a store of its own while its handler runs
  Keys, Values, Absent,
  KeySize, ValueSize,          \* their lengths in bytes
  MaxKeyLen, MaxValueLen,
  Limit         \* the total budget

Stores == Shared \cup Connections

\* A run of the program has finitely many stores and keys, of any number.
ASSUME StoreAssumption ==
  /\ IsFiniteSet(Shared) /\ IsFiniteSet(Connections) /\ IsFiniteSet(Keys)
  /\ Shared \cap Connections = {}
  /\ Absent \notin Values
  /\ KeySize \in [Keys -> Nat] /\ ValueSize \in [Values -> Nat]
  /\ MaxKeyLen \in Nat /\ MaxValueLen \in Nat /\ Limit \in Nat

VARIABLES
  data,  \* of each store, the value under each key
  used,  \* Budget.used
  conn   \* the handler of each connection: new, running, ended

vars == <<data, used, conn>>

TypeOK ==
  /\ data \in [Stores -> [Keys -> Values \cup {Absent}]]
  /\ used \in Int
  /\ conn \in [Connections -> {"new", "running", "ended"}]
  /\ \A st \in Stores, k \in Keys : data[st][k] # Absent =>
       KeySize[k] \in 1 .. MaxKeyLen /\ ValueSize[data[st][k]] <= MaxValueLen

\* len(s.data[key]), 0 for a missing key.
SizeOf(v) == IF v = Absent THEN 0 ELSE ValueSize[v]

\* A handler can reach the shared stores and the one of its own connection.
Reachable(st) == IF st \in Connections THEN conn[st] = "running" ELSE TRUE

Init ==
  /\ data = [st \in Stores |-> [k \in Keys |-> Absent]]
  /\ used = 0
  /\ conn = [c \in Connections |-> "new"]

MutChargeWhole(st, k, v) == ValueSize[v]
\* What storing v under k adds to the budget.
Delta(st, k, v) == ValueSize[v] - SizeOf(data[st][k])

MutEmptyKeyAllowed(k, v) == KeySize[k] <= MaxKeyLen /\ ValueSize[v] <= MaxValueLen
ValidSizes(k, v) == KeySize[k] \in 1 .. MaxKeyLen /\ ValueSize[v] <= MaxValueLen

Affordable(st, k, v) == used + Delta(st, k, v) <= Limit

Accepted(st, k, v) == ValidSizes(k, v) /\ Affordable(st, k, v)

\* Store.Set; a refused one changes nothing.
Set(st, k, v) ==
  /\ Reachable(st) /\ Accepted(st, k, v)
  /\ used' = used + Delta(st, k, v)
  /\ data' = [data EXCEPT ![st][k] = v]
  /\ UNCHANGED conn

\* Store.Delete
Delete(st, k) ==
  /\ Reachable(st) /\ data[st][k] # Absent
  /\ used' = used - SizeOf(data[st][k])
  /\ data' = [data EXCEPT ![st][k] = Absent]
  /\ UNCHANGED conn

\* LuaHandler.ServeTCP makes the connection's store; when it returns the store
\* is garbage, and nobody gives what it held back to the budget.
ConnStart(c) ==
  /\ conn[c] = "new"
  /\ conn' = [conn EXCEPT ![c] = "running"]
  /\ UNCHANGED <<data, used>>

ConnEnd(c) ==
  /\ conn[c] = "running"
  /\ conn' = [conn EXCEPT ![c] = "ended"]
  /\ UNCHANGED <<data, used>>

Next ==
  \/ \E st \in Stores, k \in Keys : Delete(st, k) \/ \E v \in Values : Set(st, k, v)
  \/ \E c \in Connections : ConnStart(c) \/ ConnEnd(c)

Spec == Init /\ [][Next]_vars

-----------------------------------------------------------------------------
\* The bytes of the values held by one store, and by a set of them.
HeldBy(st) == SumFunctionOnSet([k \in Keys |-> SizeOf(data[st][k])], Keys)
Held(stores) == SumFunctionOnSet([st \in Stores |-> HeldBy(st)], stores)

\* The budget's running total is what the stores hold, whatever was overwritten
\* or deleted, and it never passes the limit.
BudgetExact == used = Held(Stores) /\ used <= Limit

=============================================================================
