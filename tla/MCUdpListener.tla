--------------------------- MODULE MCUdpListener ---------------------------
(* Instances of UdpListener for TLC: one TCP listener beside it. *)
EXTENDS UdpListener

CONSTANT tcpListener

MCListenerOf == [s \in Sessions |-> IF s \in Udp THEN Self ELSE tcpListener]

=============================================================================
