------------------------------ MODULE Capture ------------------------------
(***************************************************************************)
(* The pcapng capture of one run: internal/pcap.  Every listener declares  *)
(* an interface block, every connection (or UDP flow) owns a Session, and  *)
(* all of them append packet blocks to ONE file under Run.mu.  A packet    *)
(* block reserves a comment slot that capture:comment fills in afterwards. *)
(*                                                                         *)
(* The unit of the file is the block.  A block is written by several       *)
(* write(2) calls; end tells how many of its parts reached the file before *)
(* one of them failed, which is what a later comment depends on.           *)
(* Truncation of a comment to 256 bytes and the encoding of the frames are *)
(* left out; sequence numbers keep their width (SeqSpace, 2^32 in the code). *)
(***************************************************************************)
EXTENDS Integers, Sequences, FiniteSets

CONSTANTS
  Listeners,    \* the listeners of the run
  Tcp, Udp,     \* the capture sessions: TCP connections and UDP flows
  ListenerOf,   \* the listener each session was accepted on
  Tls,          \* the TCP connections accepted with TLS
  Notes,        \* comment texts, each used once
  NoNote,       \* the empty string
  Free,         \* Run.mu is not held
  Lens,         \* the byte counts one socket read or write can move
  SeqSpace,       \* the modulus of the synthetic sequence numbers
  MaxIO,        \* bound: socket reads and writes in one behaviour
  MaxFaults     \* bound: failing writes to the capture file

Sessions == Tcp \cup Udp

ASSUME CaptureAssumption ==
  /\ Tcp \cap Udp = {}
  /\ Listeners \cap Sessions = {}
  /\ ListenerOf \in [Sessions -> Listeners]
  /\ Tls \subseteq Tcp
  /\ NoNote \notin Notes
  /\ Free \notin Sessions
  /\ Lens \subseteq Nat \ {0}
  /\ SeqSpace \in Nat \ {0}
  /\ MaxIO \in Nat
  /\ MaxFaults \in Nat

(***************************************************************************)
(* How far the writes of one block got: nothing at all, a torn head or     *)
(* frame, everything before the comment slot, everything before the        *)
(* trailer, the whole block.                                               *)
(***************************************************************************)
Nothing == 0
TornBody == 1
NoSlot == 2
NoTrailer == 3
Whole == 4
Outcomes == Nothing .. Whole

Flags == {"syn", "synack", "data", "fin", "none"}
SeqNum == 0 .. (SeqSpace - 1)
Wrap(n) == n % SeqSpace

NoIO == [fromClient |-> FALSE, len |-> 0]
Idle == "idle"

VARIABLES
  file,         \* the blocks of the capture file, in file order
  ifaces,       \* Run.ifaces
  packets,      \* Run.packets
  closed,       \* Run.f = nil
  ifaceOf,      \* the id NewInterface gave each listener, or Undeclared / Refused
  state,        \* where the goroutine serving each session is
  hold,         \* bytes moved by the socket, not yet handed to Session.Write
  handshake,    \* conn:sni()/conn:tls(): none, running, closing (interrupted), over
  synSent, clientSeq, serverSeq, lastOptions, pending,   \* Session fields
  mu, step,     \* the session holding Run.mu and the frame it emits next
  io, faults,   \* bounded counters
  author        \* history: which session passed each note to Comment

runVars == <<file, packets, lastOptions, pending, faults>>
seqVars == <<synSent, clientSeq, serverSeq>>
lockVars == <<mu, step>>
ifaceVars == <<ifaces, ifaceOf>>
connVars == <<state, hold, handshake, io>>
vars == <<runVars, seqVars, lockVars, ifaceVars, connVars, closed, author>>

Undeclared == -1
Refused == -2

Block == [kind : {"idb", "epb"}, owner : Listeners \cup Sessions, iface : Nat,
          fromClient : BOOLEAN, flag : Flags, seq : SeqNum, ack : SeqNum,
          len : Nat, end : Outcomes, note : Notes \cup {NoNote}, hit : BOOLEAN]

TypeOK ==
  /\ file \in Seq(Block)
  /\ ifaces \in Nat /\ packets \in Nat /\ closed \in BOOLEAN
  /\ ifaceOf \in [Listeners -> Nat \cup {Undeclared, Refused}]
  /\ state \in [Sessions -> {"absent", "open", "shut", "closed", "done"}]
  /\ hold \in [Sessions -> [fromClient : BOOLEAN, len : Nat]]
  /\ handshake \in [Sessions -> {"none", "running", "closing", "over"}]
  /\ synSent \in [Sessions -> BOOLEAN]
  /\ clientSeq \in [Sessions -> SeqNum] /\ serverSeq \in [Sessions -> SeqNum]
  /\ lastOptions \in [Sessions -> Nat]
  /\ \A s \in Sessions : lastOptions[s] <= Len(file)
  /\ pending \in [Sessions -> Notes \cup {NoNote}]
  /\ mu \in Sessions \cup {Free}
  /\ step \in {Idle, "syn", "synack", "data", "fin", "finack"}
  /\ (mu = Free) <=> (step = Idle)
  /\ io \in Nat /\ faults \in Nat
  /\ author \in [Notes -> Sessions \cup {Free}]

-----------------------------------------------------------------------------
(* Writing blocks *)

\* Every write to the file may fail; MaxFaults bounds how often it does.
Faulty(o) ==
  /\ o # Whole => faults < MaxFaults
  /\ faults' = IF o = Whole THEN faults ELSE faults + 1

IfaceBlock(l, id, o) ==
  [kind |-> "idb", owner |-> l, iface |-> id, fromClient |-> FALSE, flag |-> "none",
   seq |-> 0, ack |-> 0, len |-> 0, end |-> o, note |-> NoNote, hit |-> FALSE]

PacketBlock(s, fromClient, flag, n, seq, ack, o, note) ==
  [kind |-> "epb", owner |-> s, iface |-> ifaceOf[ListenerOf[s]],
   fromClient |-> fromClient, flag |-> flag, seq |-> seq, ack |-> ack, len |-> n,
   end |-> o, note |-> note, hit |-> FALSE]

Appended(b) == IF b.end = Nothing THEN file ELSE Append(file, b)

\* Where the slot of the new block is: remembered once the frame is in the file.
SlotOffset(s, o) ==
  IF o >= NoSlot THEN [lastOptions EXCEPT ![s] = Len(file) + 1] ELSE lastOptions

MutKeepPending(s, o) == pending
\* A waiting comment is consumed before the slot that holds it is written.
PendingAfter(s, o) == IF o >= NoSlot THEN [pending EXCEPT ![s] = NoNote] ELSE pending

MutCountedBeforeTrailer(o) == IF o >= NoTrailer THEN packets + 1 ELSE packets
Counted(o) == IF o = Whole THEN packets + 1 ELSE packets

\* Session.epb
Epb(s, fromClient, flag, n, seq, ack, o) ==
  /\ Faulty(o)
  /\ file' = Appended(PacketBlock(s, fromClient, flag, n, seq, ack, o,
                                  IF o >= NoTrailer THEN pending[s] ELSE NoNote))
  /\ lastOptions' = SlotOffset(s, o)
  /\ pending' = PendingAfter(s, o)
  /\ packets' = Counted(o)

MutIdUsedUp(o) == ifaces + 1
\* Only an interface block that was written takes an id.
IfacesAfter(o) == IF o = Whole THEN ifaces + 1 ELSE ifaces

\* Run.NewInterface: the id is the number of interface blocks written so far.
NewInterface(l, o) ==
  /\ mu = Free /\ ~closed /\ ifaceOf[l] = Undeclared
  /\ o \in {Nothing, TornBody, Whole}
  /\ Faulty(o)
  /\ file' = Appended(IfaceBlock(l, ifaces, o))
  /\ ifaceOf' = [ifaceOf EXCEPT ![l] = IF o = Whole THEN ifaces ELSE Refused]
  /\ ifaces' = IfacesAfter(o)
  /\ UNCHANGED <<packets, lastOptions, pending, seqVars, lockVars, connVars, closed, author>>

-----------------------------------------------------------------------------
(* Sessions: one goroutine each, plus the TLS handshake interrupter *)

Unlock == mu' = Free /\ step' = Idle

Release(s) == Unlock /\ hold' = [hold EXCEPT ![s] = NoIO]

\* serveConn / PacketConn.record create the session of a listener's new peer.
NewSession(s) ==
  /\ state[s] = "absent" /\ ~closed
  /\ ifaceOf[ListenerOf[s]] >= 0
  /\ state' = [state EXCEPT ![s] = "open"]
  /\ UNCHANGED <<runVars, seqVars, lockVars, ifaceVars, hold, handshake, io, closed, author>>

\* The socket half of Conn.Read / Conn.Write: the bytes have moved, the
\* recorder has not seen them yet.
SocketIO(s, fromClient, n) ==
  /\ state[s] = "open" /\ hold[s] = NoIO /\ mu # s /\ io < MaxIO
  /\ hold' = [hold EXCEPT ![s] = [fromClient |-> fromClient, len |-> n]]
  /\ io' = io + 1
  /\ UNCHANGED <<runVars, seqVars, lockVars, ifaceVars, state, handshake, closed, author>>

MutAlwaysSynAck(seq) == "synack"
\* writeTCP: a SYN-ACK while serverSeq is 0.
AfterSyn(seq) == IF seq = 0 THEN "synack" ELSE "data"

MutSynAgain(s) == IF s \in Udp THEN "data" ELSE "syn"
\* writeUDP; writeTCP: a SYN unless one was sent, a SYN-ACK while serverSeq is 0.
FirstFrame(s) ==
  IF s \in Udp THEN "data" ELSE IF ~synSent[s] THEN "syn" ELSE AfterSyn(serverSeq[s])

\* Session.Write takes Run.mu.
WriteStart(s) ==
  /\ hold[s] # NoIO /\ mu = Free
  /\ mu' = s /\ step' = FirstFrame(s)
  /\ UNCHANGED <<runVars, seqVars, ifaceVars, connVars, closed, author>>

EmitSyn(s, o) ==
  /\ mu = s /\ step = "syn"
  /\ Epb(s, TRUE, "syn", 0, clientSeq[s], serverSeq[s], o)
  /\ IF o = Whole
     THEN /\ synSent' = [synSent EXCEPT ![s] = TRUE]
          /\ clientSeq' = [clientSeq EXCEPT ![s] = Wrap(@ + 1)]
          /\ step' = AfterSyn(serverSeq[s])
          /\ UNCHANGED <<mu, hold>>
     ELSE Release(s) /\ UNCHANGED <<synSent, clientSeq>>
  /\ UNCHANGED <<serverSeq, ifaceVars, state, handshake, io, closed, author>>

EmitSynAck(s, o) ==
  /\ mu = s /\ step = "synack"
  /\ Epb(s, FALSE, "synack", 0, serverSeq[s], clientSeq[s], o)
  /\ IF o = Whole
     THEN /\ serverSeq' = [serverSeq EXCEPT ![s] = Wrap(@ + 1)]
          /\ step' = "data"
          /\ UNCHANGED <<mu, hold>>
     ELSE Release(s) /\ UNCHANGED serverSeq
  /\ UNCHANGED <<synSent, clientSeq, ifaceVars, state, handshake, io, closed, author>>

MutNotSwapped(s, up) == [seq |-> clientSeq[s], ack |-> serverSeq[s]]
\* The numbers of a data frame, seen from the side that sends it.
Numbers(s, up) == [seq |-> IF up THEN clientSeq[s] ELSE serverSeq[s],
                   ack |-> IF up THEN serverSeq[s] ELSE clientSeq[s]]

\* The data frame.  Its bytes are counted whether or not the block was written.
EmitTcpData(s, o) ==
  LET n == hold[s].len
      up == hold[s].fromClient
  IN /\ mu = s /\ step = "data" /\ s \in Tcp
     /\ Epb(s, up, "data", n, Numbers(s, up).seq, Numbers(s, up).ack, o)
     /\ clientSeq' = IF up THEN [clientSeq EXCEPT ![s] = Wrap(@ + n)] ELSE clientSeq
     /\ serverSeq' = IF up THEN serverSeq ELSE [serverSeq EXCEPT ![s] = Wrap(@ + n)]
     /\ Release(s)
     /\ UNCHANGED <<synSent, ifaceVars, state, handshake, io, closed, author>>

EmitUdpData(s, o) ==
  /\ mu = s /\ step = "data" /\ s \in Udp
  /\ Epb(s, hold[s].fromClient, "data", hold[s].len, 0, 0, o)
  /\ Release(s)
  /\ UNCHANGED <<seqVars, ifaceVars, state, handshake, io, closed, author>>

-----------------------------------------------------------------------------
(* Session.Close *)

\* The critical section of Session.Close: two FIN frames if a SYN was sent.
CloseStart(s) ==
  /\ mu = Free
  /\ \/ /\ s \in Tcp /\ synSent[s]
        /\ mu' = s /\ step' = "fin"
        /\ UNCHANGED synSent
     \/ /\ s \in Udp \/ ~synSent[s]
        /\ synSent' = [synSent EXCEPT ![s] = FALSE]
        /\ UNCHANGED lockVars
  /\ UNCHANGED <<clientSeq, serverSeq>>

EmitFin(s, o) ==
  /\ mu = s /\ step = "fin"
  /\ Epb(s, TRUE, "fin", 0, clientSeq[s], serverSeq[s], o)
  /\ IF o = Whole
     THEN clientSeq' = [clientSeq EXCEPT ![s] = Wrap(@ + 1)] /\ step' = "finack" /\ UNCHANGED mu
     ELSE Unlock /\ UNCHANGED clientSeq
  /\ UNCHANGED <<synSent, serverSeq, ifaceVars, connVars, closed, author>>

EmitFinAck(s, o) ==
  /\ mu = s /\ step = "finack"
  /\ Epb(s, FALSE, "fin", 0, serverSeq[s], clientSeq[s], o)
  /\ synSent' = [synSent EXCEPT ![s] = @ /\ o # Whole]
  /\ Unlock
  /\ UNCHANGED <<clientSeq, serverSeq, ifaceVars, connVars, closed, author>>

\* The goroutine serving s is between two calls: no socket call, no recording
\* and no handshake is under way.
AtRest(s) ==
  /\ hold[s] = NoIO /\ mu # s
  /\ handshake[s] \in {"none", "over"}

\* conn:close() by the handler: the socket (or tls.Conn), then the session.
HandlerClose(s) ==
  /\ s \in Tcp /\ state[s] \in {"open", "shut"} /\ AtRest(s)
  /\ CloseStart(s)
  /\ state' = [state EXCEPT ![s] = "closed"]
  /\ UNCHANGED <<runVars, ifaceVars, hold, handshake, io, closed, author>>

\* serveConn's deferred final.Close(), or PacketConn closing an idle UDP flow
\* or, in CloseAll, every flow.  A tls.Conn the handler has closed returns
\* net.ErrClosed and does not reach the recorder again.
Finish(s) ==
  /\ state[s] \in {"open", "shut", "closed"} /\ AtRest(s)
  /\ \/ s \in Tls /\ state[s] = "closed" /\ UNCHANGED <<seqVars, lockVars>>
     \/ ~(s \in Tls /\ state[s] = "closed") /\ CloseStart(s)
  /\ state' = [state EXCEPT ![s] = "done"]
  /\ UNCHANGED <<runVars, ifaceVars, hold, handshake, io, closed, author>>

\* conn:sni() / conn:tls(): HandshakeContext(ctx) returns once the handshake is
\* over and its interrupter, if it fired, has closed the connection.
HandshakeStart(s) ==
  /\ s \in Tls /\ state[s] = "open" /\ AtRest(s) /\ handshake[s] = "none"
  /\ handshake' = [handshake EXCEPT ![s] = "running"]
  /\ UNCHANGED <<runVars, seqVars, lockVars, ifaceVars, state, hold, io, closed, author>>

HandshakeEnd(s) ==
  /\ handshake[s] = "running" /\ hold[s] = NoIO /\ mu # s
  /\ handshake' = [handshake EXCEPT ![s] = "over"]
  /\ UNCHANGED <<runVars, seqVars, lockVars, ifaceVars, state, hold, io, closed, author>>

\* The context ends inside HandshakeContext: crypto/tls closes the recorder
\* from another goroutine, first the socket, then, under the lock, the session.
Interrupt(s) ==
  /\ handshake[s] = "running"
  /\ handshake' = [handshake EXCEPT ![s] = "closing"]
  /\ state' = [state EXCEPT ![s] = "shut"]
  /\ UNCHANGED <<runVars, seqVars, lockVars, ifaceVars, hold, io, closed, author>>

InterruptClose(s) ==
  /\ handshake[s] = "closing"
  /\ CloseStart(s)
  /\ handshake' = [handshake EXCEPT ![s] = "over"]
  /\ UNCHANGED <<runVars, ifaceVars, state, hold, io, closed, author>>

-----------------------------------------------------------------------------
(* Session.Comment and Run.Close *)

\* A block that can be shorter than the 264 bytes of a slot: an interface block,
\* or a packet that was torn before its slot was complete.
Short(b) == b.kind = "idb" \/ b.end < NoTrailer

\* A block whose head is gone, and with it what its own slot held.
Overwritten(b) == [b EXCEPT !.hit = TRUE, !.note = NoNote]

\* The block a full slot written at the torn slot of block at may reach last: the
\* next one in any case, a later one if all before it are short.  Behind the end
\* of the file there is nothing to destroy: what the slot leaves there is
\* overwritten by the blocks appended next.
Overrun(at) ==
  IF at = Len(file) THEN {at}
  ELSE {last \in (at + 1) .. Len(file) : \A j \in (at + 1) .. (last - 1) : Short(file[j])}

MutAnnotateTail(s, c, last) == [file EXCEPT ![Len(file)].note = c]
\* WriteAt(lastOptions).  If the slot of that block never reached the file as a
\* whole, the rest of the note lands on the blocks behind it, whoever owns them.
\* A note in the slot of an overwritten block is not readable.
Annotated(s, c, last) ==
  LET at == lastOptions[s]
  IN IF file[at].end # NoSlot
     THEN [file EXCEPT ![at] = IF @.hit THEN @ ELSE [@ EXCEPT !.note = c]]
     ELSE [i \in DOMAIN file |-> IF i \in (at + 1) .. last THEN Overwritten(file[i]) ELSE file[i]]

\* A WriteAt that fails is taken to have written nothing.
Comment(s, c) ==
  /\ state[s] \in {"open", "shut", "closed"} /\ AtRest(s) /\ mu = Free
  /\ author[c] = Free
  /\ author' = [author EXCEPT ![c] = s]
  /\ \/ /\ lastOptions[s] = 0
        /\ pending' = [pending EXCEPT ![s] = c]
        /\ UNCHANGED <<file, faults>>
     \/ /\ lastOptions[s] # 0
        /\ \E last \in Overrun(lastOptions[s]) : file' = Annotated(s, c, last)
        /\ UNCHANGED <<pending, faults>>
     \/ /\ lastOptions[s] # 0 /\ Faulty(Nothing)
        /\ pending' = [pending EXCEPT ![s] = c]
        /\ UNCHANGED file
  /\ UNCHANGED <<packets, lastOptions, seqVars, lockVars, ifaceVars, connVars, closed>>

\* runTargets closes the run when every listener has returned, hence after
\* every serveConn.
RunClose ==
  /\ ~closed /\ mu = Free
  /\ \A s \in Sessions : state[s] \in {"absent", "done"}
  /\ closed' = TRUE
  /\ UNCHANGED <<runVars, seqVars, lockVars, ifaceVars, connVars, author>>

-----------------------------------------------------------------------------
Init ==
  /\ file = <<>> /\ ifaces = 0 /\ packets = 0 /\ closed = FALSE
  /\ ifaceOf = [l \in Listeners |-> Undeclared]
  /\ state = [s \in Sessions |-> "absent"]
  /\ hold = [s \in Sessions |-> NoIO]
  /\ handshake = [s \in Sessions |-> "none"]
  /\ synSent = [s \in Sessions |-> FALSE]
  /\ clientSeq = [s \in Sessions |-> 0] /\ serverSeq = [s \in Sessions |-> 0]
  /\ lastOptions = [s \in Sessions |-> 0]
  /\ pending = [s \in Sessions |-> NoNote]
  /\ mu = Free /\ step = Idle /\ io = 0 /\ faults = 0
  /\ author = [c \in Notes |-> Free]

Emit(s, o) ==
  \/ EmitSyn(s, o) \/ EmitSynAck(s, o) \/ EmitTcpData(s, o) \/ EmitUdpData(s, o)
  \/ EmitFin(s, o) \/ EmitFinAck(s, o)

SessionStep(s) ==
  \/ NewSession(s)
  \/ \E up \in BOOLEAN, n \in Lens : SocketIO(s, up, n)
  \/ WriteStart(s)
  \/ \E o \in Outcomes : Emit(s, o)
  \/ HandlerClose(s) \/ Finish(s)
  \/ HandshakeStart(s) \/ HandshakeEnd(s) \/ Interrupt(s) \/ InterruptClose(s)
  \/ \E c \in Notes : Comment(s, c)

Next ==
  \/ \E l \in Listeners, o \in Outcomes : NewInterface(l, o)
  \/ \E s \in Sessions : SessionStep(s)
  \/ RunClose

Spec == Init /\ [][Next]_vars

-----------------------------------------------------------------------------
(* Safety *)

IsPacket(b) == b.kind = "epb"

\* A pcapng reader that skips what it cannot parse sees the blocks that were
\* written whole and that no note has overwritten.
Readable(b) == b.end = Whole /\ ~b.hit
IsIface(b) == b.kind = "idb" /\ Readable(b)

\* The number a pcapng reader gives the interface block at position i.
ReaderId(i) == Cardinality({j \in 1 .. (i - 1) : IsIface(file[j])})

\* A note has overwritten an interface block before position i.
IfaceLost(i) == \E j \in 1 .. (i - 1) : file[j].kind = "idb" /\ file[j].end = Whole /\ file[j].hit

\* As long as no note has overwritten an interface block, a reader resolves a
\* packet's interface id to the block of the listener that accepted the
\* connection, which lies earlier in the file: ids handed out under the lock never
\* disagree with the order in which the blocks were appended.
PacketOnOwnInterface ==
  \A i \in DOMAIN file : IsPacket(file[i]) /\ ~IfaceLost(i) =>
    \E j \in 1 .. (i - 1) :
      /\ IsIface(file[j]) /\ file[j].owner = ListenerOf[file[i].owner]
      /\ ReaderId(j) = file[i].iface

\* The packets a reader finds, and those torn at their comment slot.
ReadablePackets == {i \in DOMAIN file : IsPacket(file[i]) /\ Readable(file[i])}
TornAtSlot == {i \in DOMAIN file : IsPacket(file[i]) /\ file[i].end = NoSlot}

\* The count Stats reports against the packets that can be read back: never fewer,
\* and more only by packets a note has overwritten, of which each packet torn at
\* its slot costs at most one, however often its session comments and whoever
\* appends behind it.
StatsMatch ==
  /\ Cardinality(ReadablePackets) <= packets
  /\ packets <= Cardinality(ReadablePackets) + Cardinality(TornAtSlot)

\* A frame of session s going up (from the client) or down.
FrameOf(b, s, up) == IsPacket(b) /\ b.owner = s /\ b.fromClient = up

\* The sequence number after a frame: its bytes, and one for SYN and for FIN.
EndSeq(b) == Wrap(b.seq + b.len + (IF b.flag = "data" THEN 0 ELSE 1))

\* n is the number the stream of s in one direction has reached before block i.
Reached(s, up, i, n) ==
  \/ n = 0 /\ \A j \in 1 .. (i - 1) : ~FrameOf(file[j], s, up)
  \/ \E j \in 1 .. (i - 1) :
       /\ FrameOf(file[j], s, up) /\ n = EndSeq(file[j])
       /\ \A k \in (j + 1) .. (i - 1) : ~FrameOf(file[k], s, up)

\* While the file accepts writes, the conversation of a connection whose
\* handshake nobody interrupts reassembles: each frame starts where the previous
\* one of its direction ended and acknowledges all the other direction has sent,
\* from SYN to FIN and across the wrap of the 32-bit counters.
NumbersChain ==
  faults = 0 =>
    \A i \in DOMAIN file : \A s \in Tcp \ Tls : \A up \in BOOLEAN :
      FrameOf(file[i], s, up) =>
        /\ Reached(s, up, i, file[i].seq)
        /\ Reached(s, ~up, i, file[i].ack)

\* i is the latest packet of its session.
Latest(i) == \A j \in DOMAIN file : j > i => file[j].owner # file[i].owner

\* While the file accepts writes a step only appends, or writes a note on the
\* latest packet of the session that commented, whatever other sessions have
\* appended behind that packet.
Annotates(i) ==
  /\ i \in DOMAIN file'
  /\ file'[i] # file[i] =>
       /\ IsPacket(file[i]) /\ Latest(i)
       /\ \E c \in Notes : /\ file'[i] = [file[i] EXCEPT !.note = c]
                           /\ author'[c] = file[i].owner
AnnotatesLatest == [][faults' = 0 => \A i \in DOMAIN file : Annotates(i)]_vars

\* A note is in one place at most (waiting, or on one packet), and a packet
\* only carries a note of its own session, even when writes fail.
NoteOnAuthorsPacket ==
  \A c \in Notes :
    LET waiting == {s \in Sessions : pending[s] = c}
        on == {i \in DOMAIN file : file[i].note = c}
    IN /\ \A s \in waiting : author[c] = s
       /\ \A i \in on : author[c] = file[i].owner
       /\ Cardinality(waiting) + Cardinality(on) <= 1

\* The packets of i's connection before i; the last of them is a FIN.
Before(i) == {j \in 1 .. (i - 1) : file[j].owner = file[i].owner}
IsFin(b, up) == b.flag = "fin" /\ b.fromClient = up
AfterFin(i, up) == \E j \in Before(i) : IsFin(file[j], up) /\ \A k \in Before(i) : k <= j

\* While the file accepts writes, conversations are delimited: a SYN is the first
\* packet of its connection or comes right behind the FINs of an earlier
\* conversation (a write that loses the race against the close of an interrupted
\* handshake opens a second one); and when the run is closed every conversation
\* has ended with its two FINs, whoever closed it: the handler, the interrupter or
\* serveConn.
ConversationsDelimited ==
  faults = 0 =>
    \A i \in DOMAIN file :
      /\ (IsPacket(file[i]) /\ file[i].flag = "syn") =>
           (Before(i) = {} \/ AfterFin(i, FALSE))
      /\ (closed /\ IsPacket(file[i]) /\ file[i].owner \in Tcp /\ Latest(i)) =>
           IsFin(file[i], FALSE) /\ AfterFin(i, TRUE)

=============================================================================
