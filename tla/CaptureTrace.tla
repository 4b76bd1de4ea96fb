---------------------------- MODULE CaptureTrace ----------------------------
(***************************************************************************)
(* The TCP connections of the capture file are conversations: Capture      *)
(* implements TcpTrace, the trace of a connection being its packets in     *)
(* file order.                                                             *)
(***************************************************************************)
EXTENDS Capture, SequencesExt

FrameIn(b) ==
  [fromClient |-> b.fromClient, flag |-> b.flag, seq |-> b.seq, ack |-> b.ack, len |-> b.len]
FramesOf(s, blocks) ==
  FoldLeft(LAMBDA frames, b : IF b.owner = s THEN Append(frames, FrameIn(b)) ELSE frames, <<>>, blocks)

\* The connections whose handshake nobody interrupts.
Uninterrupted == Tcp \ Tls
Traces == [s \in Uninterrupted |-> FramesOf(s, file)]
Conversations == INSTANCE TcpTrace WITH
  trace <- Traces, Connections <- Uninterrupted, Modulus <- SeqSpace

\* Whatever the other sessions do, the frames of a connection whose handshake is
\* not interrupted are appended as one TCP conversation, until a write fails.
ConversationsRefine ==
  Conversations!Init /\ [][faults' = 0 => UNCHANGED Traces \/ Conversations!Next]_vars

=============================================================================
