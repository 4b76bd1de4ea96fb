-------------------------- MODULE MCHandlerCounter --------------------------
(* Instances of HandlerCounter for TLC: sizes around the limits. *)
EXTENDS HandlerCounter

CONSTANTS emptyKey, longKey

\* An empty key, a key of one byte more than MaxKeyLen, an ordinary one.
MCKeySize == [k \in Keys |-> IF k = emptyKey THEN 0 ELSE IF k = longKey THEN MaxKeyLen + 1 ELSE 1]
\* Numbers have one digit below 2 and two digits from there.  Two more values
\* stand for a text that is one byte too long and for the empty text.
MCValueSize ==
  LET n == Cardinality(Connections)
  IN [v \in Values |-> IF v = n + 1 THEN MaxValueLen + 1
                       ELSE IF v > n THEN 0 ELSE IF v < 2 THEN 1 ELSE 2]

=============================================================================
