------------------------------ MODULE Listener ------------------------------
(***************************************************************************)
(* What ServeTCP and ServeUDP (internal/network) promise the run group     *)
(* that calls them: a listener serves peers until it returns, returns when *)
(* the last handler is through, and returns nil only because it was        *)
(* stopped.  TcpListener, UdpListener and Simulator are held against it.   *)
(***************************************************************************)
CONSTANT Peers  \* the connections, or the remote addresses of datagrams

VARIABLES
  stopped,  \* the context has ended
  serving,  \* the peers whose handler runs
  result    \* none, nil, error

vars == <<stopped, serving, result>>

Init == stopped = FALSE /\ serving = {} /\ result = "none"

Stop == ~stopped /\ stopped' = TRUE /\ UNCHANGED <<serving, result>>

Serve(p) ==
  /\ result = "none" /\ p \notin serving
  /\ serving' = serving \cup {p}
  /\ UNCHANGED <<stopped, result>>

End(p) ==
  /\ p \in serving
  /\ serving' = serving \ {p}
  /\ UNCHANGED <<stopped, result>>

Return(r) ==
  /\ result = "none" /\ serving = {}
  /\ r = "nil" => stopped
  /\ result' = r
  /\ UNCHANGED <<stopped, serving>>

Next ==
  \/ Stop
  \/ \E p \in Peers : Serve(p) \/ End(p)
  \/ \E r \in {"nil", "error"} : Return(r)

Spec == Init /\ [][Next]_vars

=============================================================================
