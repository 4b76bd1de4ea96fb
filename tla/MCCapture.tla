----------------------------- MODULE MCCapture -----------------------------
(***************************************************************************)
(* Instances of Capture for TLC: one TCP listener and one UDP listener.    *)
(***************************************************************************)
EXTENDS CaptureTrace, TLC

CONSTANTS tcpListener, udpListener

MCListenerOf == [s \in Sessions |-> IF s \in Udp THEN udpListener ELSE tcpListener]

\* The connections are accepted on one listener and the notes are only ever
\* compared, so both sets can be permuted.
MCSymmetry == Permutations(Tcp) \cup Permutations(Notes)

=============================================================================
