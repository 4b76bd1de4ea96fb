----------------------------- MODULE TcpTrace -----------------------------
(***************************************************************************)
(* What the capture promises about TCP connections (the package comment of *)
(* internal/pcap and the Session comments): the frames of each, in file    *)
(* order, are a TCP conversation with synthetic numbers.  SYN, SYN-ACK,    *)
(* data in both directions, FIN, FIN, where every frame starts at the      *)
(* number of units its side has sent and acknowledges all the other side   *)
(* has sent.                                                               *)
(***************************************************************************)
EXTENDS Integers, Sequences, SequencesExt

CONSTANTS Connections, Lens, Modulus

VARIABLE trace \* the frames of each connection

Span(f) == f.len + IF f.flag = "data" THEN 0 ELSE 1

\* What one side of a conversation has sent so far.
Sent(frames, fromClient) ==
  FoldLeft(LAMBDA n, f : IF f.fromClient = fromClient THEN (n + Span(f)) % Modulus ELSE n, 0, frames)

Ended(frames, fromClient) ==
  \E i \in DOMAIN frames : frames[i].flag = "fin" /\ frames[i].fromClient = fromClient

Frame(c, fromClient, flag, n) ==
  trace' = [trace EXCEPT ![c] =
              Append(@, [fromClient |-> fromClient, flag |-> flag, seq |-> Sent(@, fromClient),
                         ack |-> Sent(@, ~fromClient), len |-> n])]

Syn(c) == trace[c] = <<>> /\ Frame(c, TRUE, "syn", 0)
SynAck(c) == Len(trace[c]) = 1 /\ Frame(c, FALSE, "synack", 0)
Data(c, up, n) == Len(trace[c]) >= 2 /\ ~Ended(trace[c], TRUE) /\ Frame(c, up, "data", n)
Fin(c) == Len(trace[c]) >= 3 /\ ~Ended(trace[c], TRUE) /\ Frame(c, TRUE, "fin", 0)
FinAck(c) == Ended(trace[c], TRUE) /\ ~Ended(trace[c], FALSE) /\ Frame(c, FALSE, "fin", 0)

Init == trace = [c \in Connections |-> <<>>]
Next == \E c \in Connections :
  \/ Syn(c) \/ SynAck(c) \/ (\E up \in BOOLEAN, n \in Lens : Data(c, up, n))
  \/ Fin(c) \/ FinAck(c)
Spec == Init /\ [][Next]_trace

=============================================================================
