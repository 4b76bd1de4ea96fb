------------------------- MODULE ConversationProofs -------------------------
(***************************************************************************)
(* Proofs about the TCP conversations of the capture file, for every value *)
(* of the constants: where they begin and end, their sequence numbers, and *)
(* that Capture implements TcpTrace.                                       *)
(***************************************************************************)
EXTENDS CaptureProofs, CaptureTrace, WellFoundedInduction

-----------------------------------------------------------------------------
(* The life of a session and the frames it writes *)

Ended(s) == state[s] \in {"closed", "done"}

\* Where a session can be while no write has failed.  A session that has ended
\* moves no bytes and has written its FINs or holds the lock to write them; a
\* TCP frame other than a SYN is only written once the SYN was; no frame is left
\* to write when the run is closed.
LifeInv ==
  faults = 0 =>
    /\ \A s \in Sessions :
         /\ state[s] = "absent" => ~synSent[s]
         /\ Ended(s) => hold[s] = NoIO /\ handshake[s] \in {"none", "over"}
         /\ mu = s /\ Ended(s) => step \in {"fin", "finack"}
         /\ closed => state[s] \in {"absent", "done"}
    /\ \A s \in Tcp :
         /\ mu = s => (step = "syn" <=> ~synSent[s])
         /\ Ended(s) /\ synSent[s] => mu = s
    /\ \A s \in Udp : ~synSent[s] /\ (mu = s => step = "data")
    /\ \A s \in Tcp \ Tls :
         /\ handshake[s] = "none" /\ state[s] # "shut"
         /\ mu = s /\ step \in {"fin", "finack"} => Ended(s)
    /\ closed => mu = Free

LEMMA LifeInit == Init => LifeInv
BY CaptureAssumption DEF Init, LifeInv, Ended, Sessions

\* What sessions are told apart by.
LEMMA SessionKinds ==
  /\ Tcp \subseteq Sessions /\ Udp \subseteq Sessions /\ Tls \subseteq Tcp /\ Free \notin Sessions
  /\ \A s \in Sessions : s \in Tcp <=> s \notin Udp
BY CaptureAssumption DEF Sessions

\* A frame of a TCP connection, written whole: its numbers, and what they become.
TcpFrame(s, b) ==
  /\ b.seq = Numbers(s, b.fromClient).seq /\ b.ack = Numbers(s, b.fromClient).ack
  /\ b.flag = IF step = "finack" THEN "fin" ELSE step
  /\ step = "fin" => b.fromClient
  /\ step = "finack" => ~b.fromClient
  /\ clientSeq' = IF b.fromClient THEN [clientSeq EXCEPT ![s] = EndSeq(b)] ELSE clientSeq
  /\ serverSeq' = IF b.fromClient \/ step = "finack" THEN serverSeq
                  ELSE [serverSeq EXCEPT ![s] = EndSeq(b)]
  /\ synSent' = [synSent EXCEPT ![s] = (step # "finack")]
  /\ step = "fin" <=> mu' = s /\ step' = "finack"

\* A step that leaves faults at 0 and writes a frame.
Framed(s) ==
  \E b \in Block :
    /\ file' = Append(file, b)
    /\ b.kind = "epb" /\ b.owner = s
    /\ s \in Tcp => TcpFrame(s, b)
    /\ s \in Udp => b.flag = "data" /\ UNCHANGED seqVars

LEMMA EmitFramed ==
  ASSUME TypeInv, LifeInv, NEW s \in Sessions, NEW o \in Outcomes, Emit(s, o), faults' = 0
  PROVE  faults = 0 /\ o = Whole /\ mu = s /\ UNCHANGED <<state, handshake, closed>> /\ Framed(s)
<1> DEFINE Goal == faults = 0 /\ o = Whole /\ mu = s /\ UNCHANGED <<state, handshake, closed>> /\ Framed(s)
<1>0. /\ mu = s /\ ifaceOf[ListenerOf[s]] \in Nat
      /\ clientSeq[s] \in SeqNum /\ serverSeq[s] \in SeqNum
      /\ hold[s].len \in Nat /\ hold[s].fromClient \in BOOLEAN
      /\ synSent \in [Sessions -> BOOLEAN]
      /\ "syn" \in Flags /\ "synack" \in Flags /\ "data" \in Flags /\ "fin" \in Flags
      /\ 0 \in Nat /\ TRUE \in BOOLEAN /\ FALSE \in BOOLEAN
  BY EmitEpb, SessionFacts DEF TypeInv, TypeOK, Flags
<1>z. 0 \in SeqNum
  BY CaptureAssumption DEF SeqNum
<1> DEFINE note == IF o >= NoTrailer THEN pending[s] ELSE NoNote
<1>d. ASSUME Faulty(o), NEW b, file' = Appended(b), b.end = o
      PROVE  faults = 0 /\ o = Whole /\ file' = Append(file, b)
  BY <1>d, NoFault DEF TypeInv, Appended, Whole, Nothing
<1>e. ASSUME NEW up \in BOOLEAN, NEW flag \in Flags, NEW n \in Nat, NEW seq \in SeqNum, NEW ack \in SeqNum
      PROVE  PacketBlock(s, up, flag, n, seq, ack, o, note) \in Block
  BY <1>0 DEF TypeInv, TypeOK, PacketBlock, Block
<1> HIDE DEF note
<1>a. \A seq \in SeqNum, n \in Nat : seq + 0 + 1 = seq + 1 /\ seq + n + 0 = seq + n
  BY DEF SeqNum
<1>b. s \in Tcp /\ faults = 0 => (step = "syn" <=> ~synSent[s])
  BY <1>0 DEF LifeInv
<1>c. s \in Udp /\ faults = 0 => step = "data"
  BY <1>0 DEF LifeInv
<1> USE <1>0, <1>z, SessionKinds DEF seqVars, connVars, Unlock, Release, Idle
<1>1. ASSUME EmitSyn(s, o) PROVE Goal
  <2> DEFINE b == PacketBlock(s, TRUE, "syn", 0, clientSeq[s], serverSeq[s], o, note)
  <2>1. step = "syn" /\ Faulty(o) /\ file' = Appended(b)
    BY <1>1 DEF EmitSyn, Epb, note
  <2>2. faults = 0 /\ o = Whole /\ file' = Append(file, b)
    BY <1>d, <2>1 DEF PacketBlock
  <2>3. /\ b \in Block /\ b.kind = "epb" /\ b.owner = s
        /\ b.fromClient = TRUE /\ b.flag = "syn" /\ b.len = 0
        /\ b.seq = clientSeq[s] /\ b.ack = serverSeq[s]
    BY <1>e DEF PacketBlock
  <2> HIDE DEF b
  <2>4. /\ synSent' = [synSent EXCEPT ![s] = TRUE]
        /\ clientSeq' = [clientSeq EXCEPT ![s] = Wrap(@ + 1)]
        /\ step' = AfterSyn(serverSeq[s]) /\ UNCHANGED <<serverSeq, state, handshake, closed>>
    BY <1>1, <2>2 DEF EmitSyn
  <2>5. EndSeq(b) = Wrap(clientSeq[s] + 1)
    BY <1>a, <2>3 DEF EndSeq
  <2>6. TcpFrame(s, b)
    BY <2>1, <2>3, <2>4, <2>5 DEF TcpFrame, Numbers, AfterSyn
  <2>7. s \in Tcp
    BY <1>c, <2>1, <2>2
  <2> QED BY <2>2, <2>3, <2>4, <2>6, <2>7 DEF Framed
<1>2. ASSUME EmitSynAck(s, o) PROVE Goal
  <2> DEFINE b == PacketBlock(s, FALSE, "synack", 0, serverSeq[s], clientSeq[s], o, note)
  <2>1. step = "synack" /\ Faulty(o) /\ file' = Appended(b)
    BY <1>2 DEF EmitSynAck, Epb, note
  <2>2. faults = 0 /\ o = Whole /\ file' = Append(file, b)
    BY <1>d, <2>1 DEF PacketBlock
  <2>3. /\ b \in Block /\ b.kind = "epb" /\ b.owner = s
        /\ b.fromClient = FALSE /\ b.flag = "synack" /\ b.len = 0
        /\ b.seq = serverSeq[s] /\ b.ack = clientSeq[s]
    BY <1>e DEF PacketBlock
  <2> HIDE DEF b
  <2>4. /\ serverSeq' = [serverSeq EXCEPT ![s] = Wrap(@ + 1)] /\ step' = "data"
        /\ UNCHANGED <<synSent, clientSeq, state, handshake, closed>>
    BY <1>2, <2>2 DEF EmitSynAck
  <2>5. EndSeq(b) = Wrap(serverSeq[s] + 1)
    BY <1>a, <2>3 DEF EndSeq
  <2>6. s \in Tcp /\ synSent[s] = TRUE
    BY <1>b, <1>c, <2>1, <2>2
  <2>7. TcpFrame(s, b)
    BY <2>1, <2>3, <2>4, <2>5, <2>6 DEF TcpFrame, Numbers
  <2> QED BY <2>2, <2>3, <2>4, <2>6, <2>7 DEF Framed
<1>3. ASSUME EmitTcpData(s, o) PROVE Goal
  <2> DEFINE n == hold[s].len
             up == hold[s].fromClient
             b == PacketBlock(s, up, "data", n, Numbers(s, up).seq, Numbers(s, up).ack, o, note)
  <2>1. step = "data" /\ s \in Tcp /\ Faulty(o) /\ file' = Appended(b)
    BY <1>3 DEF EmitTcpData, Epb, note
  <2>2. Numbers(s, up).seq \in SeqNum /\ Numbers(s, up).ack \in SeqNum
    BY DEF Numbers
  <2>3. faults = 0 /\ o = Whole /\ file' = Append(file, b)
    BY <1>d, <2>1 DEF PacketBlock
  <2>4. /\ b \in Block /\ b.kind = "epb" /\ b.owner = s
        /\ b.fromClient = up /\ b.flag = "data" /\ b.len = n
        /\ b.seq = Numbers(s, up).seq /\ b.ack = Numbers(s, up).ack
    BY <1>e, <2>2 DEF PacketBlock
  <2> HIDE DEF b
  <2>5. /\ clientSeq' = IF up THEN [clientSeq EXCEPT ![s] = Wrap(@ + n)] ELSE clientSeq
        /\ serverSeq' = IF up THEN serverSeq ELSE [serverSeq EXCEPT ![s] = Wrap(@ + n)]
        /\ mu' = Free /\ UNCHANGED <<synSent, state, handshake, closed>>
    BY <1>3 DEF EmitTcpData
  <2>6. EndSeq(b) = Wrap((IF up THEN clientSeq[s] ELSE serverSeq[s]) + n)
    BY <1>a, <2>4 DEF EndSeq, Numbers
  <2>7. synSent[s] = TRUE
    BY <1>b, <2>1, <2>3
  <2> HIDE DEF n, up
  <2>8. TcpFrame(s, b)
    <3>1. /\ clientSeq' = IF b.fromClient THEN [clientSeq EXCEPT ![s] = EndSeq(b)] ELSE clientSeq
          /\ serverSeq' = IF b.fromClient THEN serverSeq ELSE [serverSeq EXCEPT ![s] = EndSeq(b)]
      BY <2>4, <2>5, <2>6
    <3>2. synSent' = [synSent EXCEPT ![s] = TRUE] /\ mu' # s
      BY <2>5, <2>7
    <3> QED BY <2>1, <2>4, <3>1, <3>2 DEF TcpFrame
  <2> QED BY <2>1, <2>3, <2>4, <2>5, <2>8 DEF Framed
<1>4. ASSUME EmitUdpData(s, o) PROVE Goal
  <2> DEFINE b == PacketBlock(s, hold[s].fromClient, "data", hold[s].len, 0, 0, o, note)
  <2>1. step = "data" /\ s \in Udp /\ Faulty(o) /\ file' = Appended(b)
    BY <1>4 DEF EmitUdpData, Epb, note
  <2>2. faults = 0 /\ o = Whole /\ file' = Append(file, b)
    BY <1>d, <2>1 DEF PacketBlock
  <2>3. b \in Block /\ b.kind = "epb" /\ b.owner = s /\ b.flag = "data"
    BY <1>e DEF PacketBlock
  <2> HIDE DEF b
  <2>4. UNCHANGED <<seqVars, state, handshake, closed>>
    BY <1>4 DEF EmitUdpData
  <2> QED BY <2>1, <2>2, <2>3, <2>4 DEF Framed
<1>5. ASSUME EmitFin(s, o) PROVE Goal
  <2> DEFINE b == PacketBlock(s, TRUE, "fin", 0, clientSeq[s], serverSeq[s], o, note)
  <2>1. step = "fin" /\ Faulty(o) /\ file' = Appended(b)
    BY <1>5 DEF EmitFin, Epb, note
  <2>2. faults = 0 /\ o = Whole /\ file' = Append(file, b)
    BY <1>d, <2>1 DEF PacketBlock
  <2>3. /\ b \in Block /\ b.kind = "epb" /\ b.owner = s
        /\ b.fromClient = TRUE /\ b.flag = "fin" /\ b.len = 0
        /\ b.seq = clientSeq[s] /\ b.ack = serverSeq[s]
    BY <1>e DEF PacketBlock
  <2> HIDE DEF b
  <2>4. /\ clientSeq' = [clientSeq EXCEPT ![s] = Wrap(@ + 1)] /\ step' = "finack" /\ mu' = s
        /\ UNCHANGED <<synSent, serverSeq, state, handshake, closed>>
    BY <1>5, <2>2 DEF EmitFin
  <2>5. EndSeq(b) = Wrap(clientSeq[s] + 1)
    BY <1>a, <2>3 DEF EndSeq
  <2>6. s \in Tcp /\ synSent[s] = TRUE
    BY <1>b, <1>c, <2>1, <2>2
  <2>7. TcpFrame(s, b)
    BY <2>1, <2>3, <2>4, <2>5, <2>6 DEF TcpFrame, Numbers
  <2> QED BY <2>2, <2>3, <2>4, <2>6, <2>7 DEF Framed
<1>6. ASSUME EmitFinAck(s, o) PROVE Goal
  <2> DEFINE b == PacketBlock(s, FALSE, "fin", 0, serverSeq[s], clientSeq[s], o, note)
  <2>1. step = "finack" /\ Faulty(o) /\ file' = Appended(b)
    BY <1>6 DEF EmitFinAck, Epb, note
  <2>2. faults = 0 /\ o = Whole /\ file' = Append(file, b)
    BY <1>d, <2>1 DEF PacketBlock
  <2>3. /\ b \in Block /\ b.kind = "epb" /\ b.owner = s
        /\ b.fromClient = FALSE /\ b.flag = "fin" /\ b.len = 0
        /\ b.seq = serverSeq[s] /\ b.ack = clientSeq[s]
    BY <1>e DEF PacketBlock
  <2> HIDE DEF b
  <2>4. /\ synSent' = [synSent EXCEPT ![s] = FALSE] /\ mu' = Free
        /\ UNCHANGED <<clientSeq, serverSeq, state, handshake, closed>>
    BY <1>6, <2>2 DEF EmitFinAck
  <2>5. s \in Tcp
    BY <1>c, <2>1, <2>2
  <2>6. TcpFrame(s, b)
    BY <2>1, <2>3, <2>4 DEF TcpFrame, Numbers
  <2> QED BY <2>2, <2>3, <2>4, <2>5, <2>6 DEF Framed
<1> QED BY <1>1, <1>2, <1>3, <1>4, <1>5, <1>6 DEF Emit

\* The close of a session, as any of its callers does it.
LEMMA LifeClose ==
  ASSUME TypeInv, LifeInv, faults = 0, NEW s \in Sessions, CloseStart(s)
  PROVE  /\ mu = Free /\ UNCHANGED <<clientSeq, serverSeq, synSent>>
         /\ \/ s \in Tcp /\ synSent[s] /\ mu' = s /\ step' = "fin"
            \/ ~synSent[s] /\ UNCHANGED lockVars
<1>1. synSent \in [Sessions -> BOOLEAN] /\ (s \in Udp => ~synSent[s])
  BY DEF TypeInv, TypeOK, LifeInv
<1> QED BY <1>1 DEF CloseStart, lockVars

LEMMA LifeQuiet ==
  ASSUME TypeInv, LifeInv, faults = 0, NEW s \in Sessions,
         \/ NewSession(s)
         \/ \E up \in BOOLEAN, n \in Lens : SocketIO(s, up, n)
         \/ WriteStart(s) \/ HandlerClose(s) \/ Finish(s)
         \/ HandshakeStart(s) \/ HandshakeEnd(s) \/ Interrupt(s) \/ InterruptClose(s)
  PROVE  LifeInv'
<1>0. /\ state \in [Sessions -> {"absent", "open", "shut", "closed", "done"}]
      /\ hold \in [Sessions -> [fromClient : BOOLEAN, len : Nat]]
      /\ handshake \in [Sessions -> {"none", "running", "closing", "over"}]
      /\ synSent \in [Sessions -> BOOLEAN]
      /\ mu = Free <=> step = Idle
      /\ closed => state[s] \in {"absent", "done"}
  BY DEF TypeInv, TypeOK, LifeInv
<1> USE <1>0, SessionKinds DEF LifeInv, Ended, runVars, seqVars, lockVars, connVars, Idle
<1>1. CASE NewSession(s)
  BY <1>1 DEF NewSession, TypeInv, Accepted
<1>2. ASSUME NEW up \in BOOLEAN, NEW n \in Lens, SocketIO(s, up, n) PROVE LifeInv'
  BY <1>2 DEF SocketIO
<1>3. CASE WriteStart(s)
  BY <1>3 DEF WriteStart, FirstFrame, AfterSyn, TypeInv, Accepted
<1>4. CASE HandlerClose(s)
  BY <1>4, LifeClose DEF HandlerClose, AtRest
<1>5. CASE Finish(s)
  BY <1>5, LifeClose DEF Finish, AtRest
<1>6. CASE HandshakeStart(s)
  BY <1>6 DEF HandshakeStart
<1>7. CASE HandshakeEnd(s)
  BY <1>7 DEF HandshakeEnd
<1>8. CASE Interrupt(s)
  BY <1>8 DEF Interrupt, TypeInv, Accepted
<1>9. CASE InterruptClose(s)
  BY <1>9, LifeClose DEF InterruptClose
<1> QED BY <1>1, <1>2, <1>3, <1>4, <1>5, <1>6, <1>7, <1>8, <1>9

LEMMA LifeEmit ==
  ASSUME TypeInv, LifeInv, NEW s \in Sessions, NEW o \in Outcomes, Emit(s, o), faults' = 0
  PROVE  LifeInv'
<1>0. /\ hold \in [Sessions -> [fromClient : BOOLEAN, len : Nat]]
      /\ synSent \in [Sessions -> BOOLEAN]
      /\ mu = Free <=> step = Idle
      /\ mu = s /\ o = Whole /\ faults = 0 /\ UNCHANGED <<state, handshake, closed>>
      /\ NoIO \in [fromClient : BOOLEAN, len : Nat]
      /\ ~closed
  BY EmitFramed, SessionFacts, SessionKinds DEF TypeInv, TypeOK, LifeInv
<1> USE <1>0, SessionKinds DEF LifeInv, Ended, Unlock, Release, Idle
<1>1. CASE EmitSyn(s, o)
  <2>1. /\ step = "syn" /\ mu' = mu /\ hold' = hold /\ synSent' = [synSent EXCEPT ![s] = TRUE]
        /\ step' \in {"synack", "data"}
    BY <1>1 DEF EmitSyn, AfterSyn
  <2>2. state[s] # "absent" /\ s \in Tcp
    BY <2>1 DEF TypeInv, Accepted
  <2> QED BY <2>1, <2>2
<1>2. CASE EmitSynAck(s, o)
  BY <1>2 DEF EmitSynAck
<1>3. CASE EmitTcpData(s, o)
  BY <1>3 DEF EmitTcpData
<1>4. CASE EmitUdpData(s, o)
  BY <1>4 DEF EmitUdpData, seqVars
<1>5. CASE EmitFin(s, o)
  BY <1>5 DEF EmitFin, connVars
<1>6. CASE EmitFinAck(s, o)
  <2>1. /\ mu' = Free /\ step' = Idle /\ hold' = hold /\ synSent' = [synSent EXCEPT ![s] = FALSE]
    BY <1>6 DEF EmitFinAck, connVars
  <2> QED BY <2>1
<1> QED BY <1>1, <1>2, <1>3, <1>4, <1>5, <1>6 DEF Emit

LEMMA LifeStep == TypeInv /\ LifeInv /\ [Next]_vars => LifeInv'
<1> SUFFICES ASSUME TypeInv, LifeInv, [Next]_vars, faults' = 0 PROVE LifeInv'
  BY DEF LifeInv
<1>1. ASSUME NEW s \in Sessions, NEW c \in Notes, Comment(s, c) PROVE LifeInv'
  <2>1. faults = 0
    BY <1>1, NoFault DEF Comment, TypeInv, TypeOK, Faulty
  <2> QED BY <1>1, <2>1 DEF Comment, LifeInv, Ended, seqVars, lockVars, connVars
<1>2. ASSUME NEW s \in Sessions, NEW o \in Outcomes, Emit(s, o) PROVE LifeInv'
  BY <1>2, LifeEmit
<1>3. ASSUME NEW l \in Listeners, NEW o \in Outcomes, NewInterface(l, o) PROVE LifeInv'
  <2>1. faults = 0
    BY <1>3, NewInterfaceStep
  <2> QED BY <1>3, <2>1 DEF NewInterface, LifeInv, Ended, seqVars, lockVars, connVars
<1>4. ASSUME UNCHANGED faults, NEW s \in Sessions, SessionStep(s),
             \A c \in Notes : ~Comment(s, c), \A o \in Outcomes : ~Emit(s, o)
      PROVE  LifeInv'
  BY <1>4, LifeQuiet DEF SessionStep
<1>5. CASE RunClose
  BY <1>5 DEF RunClose, LifeInv, Ended, runVars, seqVars, lockVars, connVars
<1>6. CASE UNCHANGED vars
  BY <1>6 DEF vars, LifeInv, Ended, runVars, seqVars, lockVars, connVars
<1> QED BY <1>1, <1>2, <1>3, <1>4, <1>5, <1>6, QuietRun DEF Next, runVars

\* The blocks of the file keep what they say of the conversation.
SameFrames ==
  /\ Len(file) <= Len(file')
  /\ \A i \in DOMAIN file : /\ file'[i].kind = file[i].kind /\ file'[i].owner = file[i].owner
                            /\ file'[i].fromClient = file[i].fromClient
                            /\ file'[i].flag = file[i].flag /\ file'[i].len = file[i].len
                            /\ file'[i].seq = file[i].seq /\ file'[i].ack = file[i].ack

\* A step that writes no frame leaves every conversation as it is.
Unframed ==
  /\ SameFrames
  /\ \A i \in DOMAIN file' \ DOMAIN file : ~IsPacket(file'[i]) /\ file'[i].owner \notin Sessions
  /\ UNCHANGED <<lastOptions, seqVars>>
  /\ \A s \in Sessions : /\ mu' = s /\ step' = "finack" => mu = s /\ step = "finack"
                         /\ Ended(s) => Ended(s)'

LEMMA CommentUnframed ==
  ASSUME TypeInv, SlotInv, NEW s \in Sessions, NEW c \in Notes, Comment(s, c), faults' = 0
  PROVE  faults = 0 /\ Unframed
<1>1. faults = 0 /\ UNCHANGED <<lastOptions, seqVars, lockVars, connVars>>
  BY CommentStep DEF Comment
<1>2. SameFrames /\ DOMAIN file' = DOMAIN file
  <2>1. CASE file' = file
    BY <2>1 DEF SameFrames, TypeInv, TypeOK
  <2>2. CASE lastOptions[s] # 0 /\ file' = [file EXCEPT ![lastOptions[s]].note = c]
    <3>1. DOMAIN file' = DOMAIN file /\ Len(file') = Len(file) /\ Len(file) \in Nat
      BY <2>2 DEF TypeInv, TypeOK
    <3>2. \A i \in DOMAIN file : file'[i] = file[i] \/ file'[i] = [file[i] EXCEPT !.note = c]
      BY <2>2
    <3>3. \A i \in DOMAIN file : file[i] \in Block
      BY DEF TypeInv, TypeOK
    <3> QED BY <3>1, <3>2, <3>3 DEF SameFrames, Block
  <2> QED BY <2>1, <2>2, CommentStep
<1> QED BY <1>1, <1>2 DEF Unframed, Ended, lockVars, connVars

LEMMA NewInterfaceUnframed ==
  ASSUME TypeInv, NEW l \in Listeners, NEW o \in Outcomes, NewInterface(l, o), faults' = 0
  PROVE  faults = 0 /\ Unframed
<1> DEFINE b == IfaceBlock(l, ifaces, o)
<1>1. faults = 0 /\ o = Whole
  BY NoFault DEF NewInterface, TypeInv
<1>2. b \in Block /\ b.owner = l /\ ~IsPacket(b) /\ l \notin Sessions /\ b.end = o
  BY CaptureAssumption DEF TypeInv, TypeOK, IfaceBlock, Block, Flags, SeqNum, IsPacket
<1>3. file' = Append(file, b)
  BY <1>1, <1>2 DEF NewInterface, Appended, Whole, Nothing
<1>4. UNCHANGED <<lastOptions, seqVars, lockVars, state>>
  BY DEF NewInterface, connVars
<1> HIDE DEF b
<1>5. /\ Len(file) \in Nat /\ DOMAIN file = 1 .. Len(file)
      /\ DOMAIN file' = 1 .. (Len(file) + 1) /\ file'[Len(file) + 1] = b
      /\ \A j \in DOMAIN file : file'[j] = file[j]
      /\ Len(file') = Len(file) + 1
  BY <1>2, <1>3 DEF TypeInv, TypeOK
<1>6. SameFrames
  BY <1>5 DEF SameFrames
<1>7. \A i \in DOMAIN file' \ DOMAIN file : ~IsPacket(file'[i]) /\ file'[i].owner \notin Sessions
  BY <1>2, <1>5
<1> QED BY <1>1, <1>4, <1>6, <1>7 DEF Unframed, Ended, lockVars

LEMMA OtherStep ==
  ASSUME TypeInv, SlotInv, LifeInv, [Next]_vars, faults' = 0,
         \A s \in Sessions, o \in Outcomes : ~Emit(s, o)
  PROVE  faults = 0 /\ Unframed
<1>a. Len(file) \in Nat
  BY DEF TypeInv, TypeOK
<1>b. ASSUME UNCHANGED <<runVars, seqVars>>,
             \A s \in Sessions : /\ mu' = s /\ step' = "finack" => mu = s /\ step = "finack"
                                 /\ Ended(s) => Ended(s)'
      PROVE  faults = 0 /\ Unframed
  BY <1>a, <1>b DEF Unframed, SameFrames, runVars
<1>1. ASSUME NEW l \in Listeners, NEW o \in Outcomes, NewInterface(l, o) PROVE faults = 0 /\ Unframed
  BY <1>1, NewInterfaceUnframed
<1>2. ASSUME NEW s \in Sessions, NEW c \in Notes, Comment(s, c) PROVE faults = 0 /\ Unframed
  BY <1>2, CommentUnframed
<1>3. ASSUME NEW s \in Sessions,
             \/ NewSession(s)
             \/ \E up \in BOOLEAN, n \in Lens : SocketIO(s, up, n)
             \/ WriteStart(s) \/ HandlerClose(s) \/ Finish(s)
             \/ HandshakeStart(s) \/ HandshakeEnd(s) \/ Interrupt(s) \/ InterruptClose(s)
      PROVE  faults = 0 /\ Unframed
  <2>0. /\ state \in [Sessions -> {"absent", "open", "shut", "closed", "done"}]
        /\ handshake[s] = "running" => ~Ended(s)
        /\ UNCHANGED runVars /\ faults = 0
    <3>1. UNCHANGED runVars /\ faults = 0
      BY <1>3 DEF NewSession, SocketIO, WriteStart, HandlerClose, Finish, HandshakeStart,
                  HandshakeEnd, Interrupt, InterruptClose, runVars
    <3> QED BY <3>1 DEF TypeInv, TypeOK, LifeInv
  <2> USE <2>0, SessionKinds DEF Ended, lockVars, connVars
  <2>c. ASSUME CloseStart(s), \A t \in Sessions : Ended(t) => Ended(t)'
        PROVE  faults = 0 /\ Unframed
    <3>1. UNCHANGED seqVars /\ (step' = "fin" \/ UNCHANGED lockVars)
      BY <2>c, LifeClose DEF seqVars
    <3> QED BY <1>b, <2>c, <3>1
  <2>1. CASE NewSession(s)
    BY <1>b, <2>1 DEF NewSession
  <2>2. CASE \E up \in BOOLEAN, n \in Lens : SocketIO(s, up, n)
    BY <1>b, <2>2 DEF SocketIO
  <2>3. CASE WriteStart(s)
    BY <1>b, <2>3 DEF WriteStart, FirstFrame, AfterSyn
  <2>4. CASE HandlerClose(s)
    BY <2>c, <2>4 DEF HandlerClose
  <2>5. CASE Finish(s)
    <3>1. \A t \in Sessions : Ended(t) => Ended(t)'
      BY <2>5 DEF Finish
    <3>2. CASE UNCHANGED <<seqVars, lockVars>>
      BY <1>b, <3>1, <3>2
    <3> QED BY <2>c, <2>5, <3>1, <3>2 DEF Finish
  <2>6. CASE HandshakeStart(s) \/ HandshakeEnd(s)
    BY <1>b, <2>6 DEF HandshakeStart, HandshakeEnd
  <2>7. CASE Interrupt(s)
    BY <1>b, <2>7 DEF Interrupt
  <2>8. CASE InterruptClose(s)
    BY <2>c, <2>8 DEF InterruptClose
  <2> QED BY <1>3, <2>1, <2>2, <2>3, <2>4, <2>5, <2>6, <2>7, <2>8
<1>4. CASE RunClose \/ UNCHANGED vars
  BY <1>b, <1>4 DEF RunClose, vars, Ended, lockVars, connVars
<1> QED BY <1>1, <1>2, <1>3, <1>4 DEF Next, SessionStep

-----------------------------------------------------------------------------
(* Conversations are delimited *)

BothFins(i) == IsFin(file[i], FALSE) /\ AfterFin(i, TRUE)

\* While no write has failed: a connection with no SYN to its name has written
\* nothing or, last, two FINs; the one that is about to write its second FIN has
\* just written the first; a SYN opens the file or follows two FINs.
ConvInv ==
  faults = 0 =>
    /\ \A s \in Tcp :
         /\ ~synSent[s] /\ lastOptions[s] # 0 => BothFins(lastOptions[s])
         /\ mu = s /\ step = "finack" => lastOptions[s] # 0 /\ IsFin(file[lastOptions[s]], TRUE)
    /\ \A i \in DOMAIN file : (IsPacket(file[i]) /\ file[i].flag = "syn") =>
         (Before(i) = {} \/ AfterFin(i, FALSE))

\* What the blocks in front of a block say stays.
LEMMA BeforeKept ==
  ASSUME TypeInv, SameFrames, NEW i \in DOMAIN file
  PROVE  /\ Before(i)' = Before(i)
         /\ \A up \in BOOLEAN : AfterFin(i, up)' <=> AfterFin(i, up)
         /\ BothFins(i)' <=> BothFins(i)
<1>1. \A j \in 1 .. i : j \in DOMAIN file
  BY DEF TypeInv, TypeOK
<1>2. i \in Nat /\ \A j \in 1 .. (i - 1) : j \in 1 .. i
  BY DEF TypeInv, TypeOK
<1>3. \A j \in 1 .. i : /\ file'[j].owner = file[j].owner
                        /\ \A up \in BOOLEAN : IsFin(file'[j], up) <=> IsFin(file[j], up)
  BY <1>1 DEF SameFrames, IsFin
<1>4. Before(i)' = Before(i)
  BY <1>2, <1>3 DEF Before
<1>5. ASSUME NEW up \in BOOLEAN PROVE AfterFin(i, up)' <=> AfterFin(i, up)
  <2>1. \A j \in Before(i) : j \in 1 .. i
    BY <1>2 DEF Before
  <2> QED BY <1>3, <1>4, <2>1 DEF AfterFin
<1>6. i \in 1 .. i
  BY <1>2, <1>1 DEF TypeInv, TypeOK
<1> QED BY <1>3, <1>4, <1>5, <1>6 DEF BothFins

\* A frame of s comes behind the one in the slot s remembers, or is its first.
LEMMA BeforeNew ==
  ASSUME TypeInv, SlotInv, faults = 0, NEW s \in Sessions,
         NEW b \in Block, file' = Append(file, b), b.owner = s,
         NEW n, n = Len(file) + 1
  PROVE  /\ SameFrames /\ n \in Nat /\ DOMAIN file' = 1 .. n /\ file'[n] = b
         /\ lastOptions[s] = 0 => Before(n)' = {}
         /\ \A up \in BOOLEAN : lastOptions[s] # 0 /\ IsFin(file[lastOptions[s]], up)
                                  => AfterFin(n, up)'
<1> DEFINE at == lastOptions[s]
<1>1. /\ Len(file) \in Nat /\ DOMAIN file = 1 .. Len(file) /\ DOMAIN file' = 1 .. n
      /\ file'[n] = b /\ Len(file') = n /\ n - 1 = Len(file)
      /\ \A i \in DOMAIN file : file'[i] = file[i]
  BY DEF TypeInv, TypeOK
<1>2. SameFrames
  BY <1>1 DEF SameFrames
<1>3. Before(n)' = {j \in DOMAIN file : file[j].owner = s}
  BY <1>1 DEF Before
<1>4. at = 0 => \A j \in DOMAIN file : file[j].owner # s
  BY DEF SlotInv
<1>5. at # 0 => /\ at \in DOMAIN file /\ file[at].owner = s
                /\ \A j \in DOMAIN file : j > at => file[j].owner # s
  BY DEF SlotInv, Latest
<1> HIDE DEF at
<1>6. ASSUME NEW up \in BOOLEAN, at # 0, IsFin(file[at], up) PROVE AfterFin(n, up)'
  <2>1. at \in Before(n)' /\ IsFin(file'[at], up)
    BY <1>1, <1>3, <1>5, <1>6
  <2>2. \A k \in Before(n)' : k <= at
    BY <1>1, <1>3, <1>5, <1>6
  <2> QED BY <2>1, <2>2 DEF AfterFin
<1>7. at = 0 => Before(n)' = {}
  BY <1>3, <1>4
<1> QED BY <1>1, <1>2, <1>6, <1>7 DEF at

LEMMA ConvInit == Init => ConvInv
<1>1. Init => DOMAIN file = {} /\ mu = Free /\ \A s \in Tcp : lastOptions[s] = 0
  BY SessionKinds DEF Init
<1> QED BY <1>1, SessionKinds DEF ConvInv

LEMMA ConvStep == TypeInv /\ SlotInv /\ LifeInv /\ ConvInv /\ [Next]_vars => ConvInv'
<1> SUFFICES ASSUME TypeInv, SlotInv, LifeInv, ConvInv, [Next]_vars, faults' = 0 PROVE ConvInv'
  BY DEF ConvInv
<1> USE SessionKinds
<1>0. file \in Seq(Block) /\ synSent \in [Sessions -> BOOLEAN] /\ lastOptions \in [Sessions -> Nat]
      /\ DOMAIN file = 1 .. Len(file) /\ Len(file) \in Nat
  BY DEF TypeInv, TypeOK
<1>1. ASSUME NEW s \in Sessions, NEW o \in Outcomes, Emit(s, o) PROVE ConvInv'
  <2> PICK n : n = Len(file) + 1
    OBVIOUS
  <2>1. faults = 0 /\ mu = s /\ Framed(s) /\ lastOptions' = [lastOptions EXCEPT ![s] = n]
    BY <1>1, EmitFramed, EmitStep
  <2>2. PICK b \in Block :
          /\ file' = Append(file, b) /\ b.kind = "epb" /\ b.owner = s
          /\ s \in Tcp => TcpFrame(s, b)
          /\ s \in Udp => b.flag = "data" /\ UNCHANGED seqVars
    BY <2>1 DEF Framed
  <2>3. /\ SameFrames /\ DOMAIN file' = 1 .. n /\ file'[n] = b
        /\ lastOptions[s] = 0 => Before(n)' = {}
        /\ \A up \in BOOLEAN : lastOptions[s] # 0 /\ IsFin(file[lastOptions[s]], up)
                                 => AfterFin(n, up)'
    BY <2>1, <2>2, BeforeNew
  <2>4. n \in Nat /\ \A i \in DOMAIN file' : i \in DOMAIN file \/ i = n
    BY <1>0, <2>3
  <2>5. ASSUME NEW t \in Tcp, ~synSent'[t], lastOptions'[t] # 0 PROVE BothFins(lastOptions[t])'
    <3>1. CASE t = s
      <4>1. TcpFrame(s, b) /\ step = "finack"
        BY <1>0, <2>2, <2>5, <3>1 DEF TcpFrame
      <4>2. IsFin(b, FALSE)
        BY <4>1 DEF TcpFrame, IsFin, Block
      <4>3. lastOptions[s] # 0 /\ IsFin(file[lastOptions[s]], TRUE)
        BY <2>1, <2>5, <3>1, <4>1 DEF ConvInv
      <4>4. AfterFin(n, TRUE)' /\ lastOptions'[t] = n
        BY <1>0, <2>1, <2>3, <3>1, <4>3
      <4> QED BY <2>3, <4>2, <4>4 DEF BothFins, AfterFin, Before
    <3>2. CASE t # s
      <4> PICK at : at = lastOptions[t]
        OBVIOUS
      <4>1. synSent'[t] = synSent[t] /\ lastOptions'[t] = lastOptions[t]
        BY <1>0, <2>1, <2>2, <3>2 DEF TcpFrame, seqVars
      <4>2. BothFins(lastOptions[t]) /\ lastOptions[t] \in DOMAIN file
        BY <2>1, <2>5, <4>1 DEF ConvInv, SlotInv
      <4>3. BothFins(at)' /\ at = lastOptions'[t]
        BY <2>3, <4>1, <4>2, BeforeKept
      <4> QED BY <4>3 DEF BothFins, AfterFin, Before
    <3> QED BY <3>1, <3>2
  <2>6. ASSUME NEW t \in Tcp, mu' = t, step' = "finack"
        PROVE  lastOptions'[t] # 0 /\ IsFin(file'[lastOptions'[t]], TRUE)
    <3>1. t = s
      BY <1>1, <2>1, <2>6 DEF Emit, EmitSyn, EmitSynAck, EmitTcpData, EmitUdpData, EmitFin,
                             EmitFinAck, Unlock, Release
    <3>2. TcpFrame(s, b) /\ step = "fin"
      BY <2>2, <2>6, <3>1 DEF TcpFrame
    <3>3. IsFin(b, TRUE) /\ lastOptions'[t] = n /\ n # 0
      <4>1. n # 0 /\ lastOptions'[t] = n
        BY <1>0, <2>1, <3>1
      <4> QED BY <3>2, <4>1 DEF TcpFrame, IsFin, Block
    <3> QED BY <2>3, <3>3
  <2>7. ASSUME NEW i \in DOMAIN file', IsPacket(file'[i]), file'[i].flag = "syn"
        PROVE  Before(i)' = {} \/ AfterFin(i, FALSE)'
    <3>1. CASE i \in DOMAIN file
      <4>1. IsPacket(file[i]) /\ file[i].flag = "syn"
        BY <2>3, <2>7, <3>1 DEF SameFrames, IsPacket
      <4> QED BY <2>1, <2>3, <3>1, <4>1, BeforeKept DEF ConvInv
    <3>2. CASE i = n
      <4>1. s \in Tcp /\ TcpFrame(s, b) /\ step = "syn"
        BY <2>2, <2>3, <2>7, <3>2 DEF TcpFrame
      <4>2. ~synSent[s]
        BY <2>1, <4>1 DEF LifeInv
      <4>3. lastOptions[s] # 0 => IsFin(file[lastOptions[s]], FALSE)
        BY <2>1, <4>1, <4>2 DEF ConvInv, BothFins
      <4> QED BY <2>3, <3>2, <4>3
    <3> QED BY <2>4, <3>1, <3>2
  <2> QED BY <2>5, <2>6, <2>7 DEF ConvInv
<1>2. ASSUME \A s \in Sessions, o \in Outcomes : ~Emit(s, o) PROVE ConvInv'
  <2>1. faults = 0 /\ Unframed
    BY <1>2, OtherStep
  <2>2. ASSUME NEW t \in Tcp, lastOptions[t] # 0
        PROVE  lastOptions[t] \in DOMAIN file
               /\ \A up \in BOOLEAN : IsFin(file'[lastOptions[t]], up) <=> IsFin(file[lastOptions[t]], up)
    BY <2>1, <2>2 DEF SlotInv, Unframed, SameFrames, IsFin
  <2>3. ASSUME NEW t \in Tcp, ~synSent'[t], lastOptions'[t] # 0 PROVE BothFins(lastOptions[t])'
    <3> PICK at : at = lastOptions[t]
      OBVIOUS
    <3>1. at # 0 /\ at = lastOptions'[t] /\ BothFins(at) /\ at \in DOMAIN file /\ SameFrames
      BY <2>1, <2>2, <2>3 DEF Unframed, seqVars, ConvInv
    <3>2. BothFins(at)'
      BY <3>1, BeforeKept
    <3> QED BY <3>1, <3>2 DEF BothFins, AfterFin, Before
  <2>4. ASSUME NEW t \in Tcp, mu' = t, step' = "finack"
        PROVE  lastOptions'[t] # 0 /\ IsFin(file'[lastOptions'[t]], TRUE)
    BY <2>1, <2>2, <2>4 DEF Unframed, ConvInv
  <2>5. ASSUME NEW i \in DOMAIN file', IsPacket(file'[i]), file'[i].flag = "syn"
        PROVE  Before(i)' = {} \/ AfterFin(i, FALSE)'
    <3>1. i \in DOMAIN file
      BY <2>1, <2>5 DEF Unframed
    <3>2. IsPacket(file[i]) /\ file[i].flag = "syn"
      BY <2>1, <2>5, <3>1 DEF Unframed, SameFrames, IsPacket
    <3> QED BY <2>1, <3>1, <3>2, BeforeKept DEF Unframed, ConvInv
  <2> QED BY <2>3, <2>4, <2>5 DEF ConvInv
<1> QED BY <1>1, <1>2

\* A capture whose writes succeeded shows each conversation from SYN to the two
\* FINs, and a second conversation of a connection only behind them.
THEOREM ConversationsDelimitedHolds == Spec => []ConversationsDelimited
<1> DEFINE Inv == TypeInv /\ SlotInv /\ LifeInv /\ ConvInv
<1>1. Inv => ConversationsDelimited
  <2> SUFFICES ASSUME Inv, faults = 0, NEW i \in DOMAIN file
               PROVE  /\ (IsPacket(file[i]) /\ file[i].flag = "syn") =>
                           (Before(i) = {} \/ AfterFin(i, FALSE))
                      /\ (closed /\ IsPacket(file[i]) /\ file[i].owner \in Tcp /\ Latest(i)) =>
                           IsFin(file[i], FALSE) /\ AfterFin(i, TRUE)
    BY DEF ConversationsDelimited
  <2>1. ASSUME closed, file[i].owner \in Tcp, Latest(i) PROVE BothFins(i)
    <3> DEFINE s == file[i].owner
    <3>1. s \in Sessions /\ ~synSent[s]
      BY <2>1, SessionKinds DEF LifeInv, Ended
    <3>2. lastOptions[s] # 0 /\ lastOptions[s] \in DOMAIN file /\ file[lastOptions[s]].owner = s
          /\ Latest(lastOptions[s])
      BY <3>1 DEF SlotInv
    <3>3. lastOptions[s] = i
      <4>1. i \in Int /\ lastOptions[s] \in Int
        BY <3>2 DEF TypeInv, TypeOK
      <4> QED BY <2>1, <3>2, <4>1 DEF Latest
    <3> QED BY <2>1, <3>1, <3>2, <3>3 DEF ConvInv
  <2> QED BY <2>1 DEF ConvInv, BothFins
<1>2. Init => Inv
  BY TypeInit, SlotInit, LifeInit, ConvInit
<1>3. Inv /\ [Next]_vars => Inv'
  BY TypeStep, SlotStep, LifeStep, ConvStep
<1> QED BY <1>1, <1>2, <1>3, PTL DEF Spec

-----------------------------------------------------------------------------
(* The sequence numbers chain *)

\* While no write has failed: the counters of a session are the numbers its two
\* streams have reached, but for the server's once the last FIN is out, which
\* nobody counts and nothing follows.
SeqInv ==
  faults = 0 =>
    \A s \in Tcp \ Tls :
      /\ Reached(s, TRUE, Len(file) + 1, clientSeq[s])
      /\ Reached(s, FALSE, Len(file) + 1, serverSeq[s]) \/ (Ended(s) /\ ~synSent[s])

LEMMA FrameKept ==
  ASSUME SameFrames, NEW i \in DOMAIN file, NEW s, NEW up
  PROVE  (FrameOf(file'[i], s, up) <=> FrameOf(file[i], s, up)) /\ EndSeq(file'[i]) = EndSeq(file[i])
BY DEF SameFrames, FrameOf, IsPacket, EndSeq

\* What a stream has reached in front of an old block, or of the next one, stays.
LEMMA ReachedKept ==
  ASSUME TypeInv, SameFrames, NEW s, NEW up, NEW n, NEW i \in 1 .. (Len(file) + 1)
  PROVE  Reached(s, up, i, n)' <=> Reached(s, up, i, n)
<1>1. Len(file) \in Nat /\ DOMAIN file = 1 .. Len(file)
  BY DEF TypeInv, TypeOK
<1>2. \A j \in 1 .. (i - 1) : j \in DOMAIN file /\ \A k \in (j + 1) .. (i - 1) : k \in DOMAIN file
  BY <1>1
<1>3. \A j \in DOMAIN file : /\ FrameOf(file'[j], s, up) <=> FrameOf(file[j], s, up)
                             /\ EndSeq(file'[j]) = EndSeq(file[j])
  BY FrameKept
<1> QED BY <1>2, <1>3 DEF Reached

\* New blocks that are no frames of the stream leave it where it is.
LEMMA ReachedQuiet ==
  ASSUME TypeInv, TypeInv', SameFrames, NEW s, NEW up, NEW n, NEW i, NEW j,
         i = Len(file) + 1, j = Len(file') + 1,
         \A k \in DOMAIN file' \ DOMAIN file : ~FrameOf(file'[k], s, up),
         Reached(s, up, i, n)
  PROVE  Reached(s, up, j, n)'
<1>1. /\ Len(file) \in Nat /\ DOMAIN file = 1 .. (i - 1) /\ i \in Nat
      /\ Len(file') \in Nat /\ DOMAIN file' = 1 .. (j - 1) /\ j \in Nat /\ i <= j
  <2>1. Len(file) \in Nat /\ DOMAIN file = 1 .. Len(file)
    BY DEF TypeInv, TypeOK
  <2>2. Len(file') \in Nat /\ DOMAIN file' = 1 .. Len(file')
    BY DEF TypeInv, TypeOK
  <2> QED BY <2>1, <2>2 DEF SameFrames
<1>2. Reached(s, up, i, n)'
  BY <1>1, ReachedKept
<1>3. \A k \in 1 .. (j - 1) : k \in 1 .. (i - 1) \/ ~FrameOf(file'[k], s, up)
  BY <1>1
<1>4. CASE n = 0 /\ \A k \in 1 .. (i - 1) : ~FrameOf(file'[k], s, up)
  BY <1>3, <1>4 DEF Reached
<1>5. CASE \E k \in 1 .. (i - 1) :
             /\ FrameOf(file'[k], s, up) /\ n = EndSeq(file'[k])
             /\ \A m \in (k + 1) .. (i - 1) : ~FrameOf(file'[m], s, up)
  <2>1. PICK k \in 1 .. (i - 1) :
             /\ FrameOf(file'[k], s, up) /\ n = EndSeq(file'[k])
             /\ \A m \in (k + 1) .. (i - 1) : ~FrameOf(file'[m], s, up)
    BY <1>5
  <2>2. k \in 1 .. (j - 1)
    BY <1>1
  <2>3. \A m \in (k + 1) .. (j - 1) : ~FrameOf(file'[m], s, up)
    <3> SUFFICES ASSUME NEW m \in (k + 1) .. (j - 1) PROVE ~FrameOf(file'[m], s, up)
      OBVIOUS
    <3>1. m \in 1 .. (j - 1) /\ (m \in 1 .. (i - 1) => m \in (k + 1) .. (i - 1))
      BY <1>1
    <3> QED BY <1>3, <2>1, <3>1
  <2> QED BY <2>1, <2>2, <2>3 DEF Reached
<1> QED BY <1>2, <1>4, <1>5 DEF Reached

\* A new frame of the stream is where it has got to.
LEMMA ReachedFrame ==
  ASSUME TypeInv, NEW s, NEW up, NEW i \in Nat, NEW j, i = Len(file) + 1, j = i + 1,
         FrameOf(file'[i], s, up), NEW n, n = EndSeq(file'[i])
  PROVE  Reached(s, up, j, n)'
<1>1. i \in 1 .. (j - 1) /\ \A k \in (i + 1) .. (j - 1) : FALSE
  BY DEF TypeInv, TypeOK
<1> QED BY <1>1 DEF Reached

LEMMA SeqInit == Init => SeqInv /\ NumbersChain
<1> SUFFICES ASSUME Init PROVE SeqInv /\ NumbersChain
  OBVIOUS
<1>1. Len(file) = 0 /\ DOMAIN file = {} /\ \A s \in Tcp : clientSeq[s] = 0 /\ serverSeq[s] = 0
  BY SessionKinds DEF Init
<1>2. \A s \in Tcp : /\ Reached(s, TRUE, Len(file) + 1, clientSeq[s])
                     /\ Reached(s, FALSE, Len(file) + 1, serverSeq[s])
  BY <1>1 DEF Reached
<1> QED BY <1>1, <1>2 DEF SeqInv, NumbersChain

LEMMA SeqStep ==
  TypeInv /\ SlotInv /\ LifeInv /\ SeqInv /\ NumbersChain /\ [Next]_vars => SeqInv' /\ NumbersChain'
<1> SUFFICES ASSUME TypeInv, SlotInv, LifeInv, SeqInv, NumbersChain, [Next]_vars, faults' = 0
             PROVE  SeqInv' /\ NumbersChain'
  BY DEF SeqInv, NumbersChain
<1> USE SessionKinds
<1> PICK n : n = Len(file) + 1
  OBVIOUS
<1> PICK m : m = Len(file') + 1
  OBVIOUS
<1>0. /\ file \in Seq(Block) /\ synSent \in [Sessions -> BOOLEAN]
      /\ clientSeq \in [Sessions -> SeqNum] /\ serverSeq \in [Sessions -> SeqNum]
      /\ DOMAIN file = 1 .. (n - 1) /\ n \in Nat /\ TypeInv'
  <2>1. TypeInv'
    BY TypeStep
  <2>2. /\ file \in Seq(Block) /\ synSent \in [Sessions -> BOOLEAN]
        /\ clientSeq \in [Sessions -> SeqNum] /\ serverSeq \in [Sessions -> SeqNum]
    BY DEF TypeInv, TypeOK
  <2> QED BY <2>1, <2>2
\* What is left to show once the counters are known.
<1>a. ASSUME faults = 0,
             \A s \in Tcp \ Tls : /\ \E c : c = clientSeq'[s] /\ Reached(s, TRUE, m, c)'
                                  /\ \/ \E c : c = serverSeq'[s] /\ Reached(s, FALSE, m, c)'
                                     \/ (Ended(s) /\ ~synSent[s])'
      PROVE  SeqInv'
  <2>1. ASSUME NEW s \in Tcp \ Tls
        PROVE  /\ Reached(s, TRUE, Len(file) + 1, clientSeq[s])'
               /\ Reached(s, FALSE, Len(file) + 1, serverSeq[s])' \/ (Ended(s) /\ ~synSent[s])'
    <3>1. Reached(s, TRUE, Len(file) + 1, clientSeq[s])'
      BY <1>a DEF Reached
    <3>2. CASE (Ended(s) /\ ~synSent[s])'
      BY <3>1, <3>2
    <3>3. CASE \E c : c = serverSeq'[s] /\ Reached(s, FALSE, m, c)'
      BY <3>1, <3>3 DEF Reached
    <3> QED BY <1>a, <3>2, <3>3
  <2> QED BY <2>1 DEF SeqInv
<1>b. ASSUME faults = 0, SameFrames,
             \A i \in DOMAIN file' \ DOMAIN file : \A s \in Tcp \ Tls : \A up \in BOOLEAN :
               FrameOf(file'[i], s, up) =>
                 \E seq, ack : /\ seq = file'[i].seq /\ Reached(s, up, i, seq)'
                               /\ ack = file'[i].ack /\ Reached(s, ~up, i, ack)'
      PROVE  NumbersChain'
  <2> SUFFICES ASSUME NEW i \in DOMAIN file', NEW s \in Tcp \ Tls, NEW up \in BOOLEAN,
                      FrameOf(file'[i], s, up)
               PROVE  \E seq, ack : /\ seq = file'[i].seq /\ Reached(s, up, i, seq)'
                                    /\ ack = file'[i].ack /\ Reached(s, ~up, i, ack)'
    BY DEF NumbersChain, Reached
  <2>1. CASE i \in DOMAIN file
    <3> PICK seq, ack : seq = file[i].seq /\ ack = file[i].ack
      OBVIOUS
    <3>1. Reached(s, up, i, seq) /\ Reached(s, ~up, i, ack)
      BY <1>b, <2>1, FrameKept DEF NumbersChain
    <3>2. Reached(s, up, i, seq)' /\ Reached(s, ~up, i, ack)'
      BY <1>0, <1>b, <2>1, <3>1, ReachedKept
    <3>3. file'[i].seq = seq /\ file'[i].ack = ack
      BY <1>b, <2>1 DEF SameFrames
    <3> QED BY <3>2, <3>3
  <2> QED BY <1>b, <2>1
<1>1. ASSUME NEW s \in Sessions, NEW o \in Outcomes, Emit(s, o) PROVE SeqInv' /\ NumbersChain'
  <2>1. faults = 0 /\ mu = s /\ UNCHANGED state /\ Framed(s)
    BY <1>1, EmitFramed
  <2>2. PICK b \in Block :
          /\ file' = Append(file, b) /\ b.kind = "epb" /\ b.owner = s
          /\ s \in Tcp => TcpFrame(s, b)
          /\ s \in Udp => b.flag = "data" /\ UNCHANGED seqVars
    BY <2>1 DEF Framed
  <2>3. SameFrames /\ DOMAIN file' = 1 .. n /\ file'[n] = b /\ m = n + 1
    BY <1>0, <2>1, <2>2, BeforeNew
  <2>4. DOMAIN file' \ DOMAIN file = {n}
    BY <1>0, <2>3
  <2>5. \A t \in Tcp, up \in BOOLEAN : FrameOf(b, t, up) <=> t = s /\ up = b.fromClient
    BY <2>2 DEF FrameOf, IsPacket
  <2>6. b.fromClient \in BOOLEAN
    BY DEF Block
  <2>7. ASSUME NEW t \in Tcp \ Tls, t # s
        PROVE  /\ \E c : c = clientSeq'[t] /\ Reached(t, TRUE, m, c)'
               /\ \/ \E c : c = serverSeq'[t] /\ Reached(t, FALSE, m, c)'
                  \/ (Ended(t) /\ ~synSent[t])'
    <3>1. UNCHANGED <<clientSeq[t], serverSeq[t], synSent[t]>>
      BY <1>0, <2>2, <2>7 DEF TcpFrame, seqVars
    <3>2. ASSUME NEW up \in BOOLEAN, NEW c, Reached(t, up, n, c) PROVE Reached(t, up, m, c)'
      BY <1>0, <2>3, <2>4, <2>5, <2>7, <3>2, ReachedQuiet
    <3>3. /\ Reached(t, TRUE, n, clientSeq[t])
          /\ Reached(t, FALSE, n, serverSeq[t]) \/ (Ended(t) /\ ~synSent[t])
      BY <2>1 DEF SeqInv
    <3> QED BY <2>1, <3>1, <3>2, <3>3 DEF Ended
  <2>8. ASSUME s \in Tcp \ Tls
        PROVE  /\ TcpFrame(s, b)
               /\ Reached(s, TRUE, n, clientSeq[s]) /\ Reached(s, FALSE, n, serverSeq[s])
    <3>1. TcpFrame(s, b)
      BY <2>2, <2>8
    <3>2. ~(Ended(s) /\ ~synSent[s])
      BY <2>1, <2>8 DEF LifeInv
    <3> QED BY <2>1, <2>8, <3>1, <3>2 DEF SeqInv
  <2>9. ASSUME s \in Tcp \ Tls
        PROVE  /\ \E c : c = clientSeq'[s] /\ Reached(s, TRUE, m, c)'
               /\ \/ \E c : c = serverSeq'[s] /\ Reached(s, FALSE, m, c)'
                  \/ (Ended(s) /\ ~synSent[s])'
    <3>1. ASSUME NEW up \in BOOLEAN, up # b.fromClient, NEW c, Reached(s, up, n, c)
          PROVE  Reached(s, up, m, c)'
      BY <1>0, <2>3, <2>4, <2>5, <2>9, <3>1, ReachedQuiet
    <3> PICK e : e = EndSeq(b)
      OBVIOUS
    <3>2. Reached(s, b.fromClient, m, e)'
      BY <1>0, <2>3, <2>5, <2>6, <2>9, ReachedFrame
    <3>3. CASE b.fromClient
      <4>1. clientSeq'[s] = e /\ serverSeq'[s] = serverSeq[s]
        BY <1>0, <2>8, <2>9, <3>3 DEF TcpFrame
      <4> QED BY <2>8, <2>9, <3>1, <3>2, <3>3, <4>1
    <3>4. CASE ~b.fromClient /\ step # "finack"
      <4>1. serverSeq'[s] = e /\ clientSeq'[s] = clientSeq[s]
        BY <1>0, <2>8, <2>9, <3>4 DEF TcpFrame
      <4>2. Reached(s, TRUE, n, clientSeq[s]) /\ b.fromClient = FALSE
        BY <2>6, <2>8, <2>9, <3>4
      <4>3. Reached(s, FALSE, m, e)'
        BY <3>2, <4>2
      <4> PICK c : c = clientSeq[s]
        OBVIOUS
      <4>4. Reached(s, TRUE, m, c)'
        BY <3>1, <4>2
      <4> QED BY <4>1, <4>3, <4>4
    <3>5. CASE ~b.fromClient /\ step = "finack"
      <4>1. ~synSent'[s] /\ clientSeq'[s] = clientSeq[s]
        BY <1>0, <2>8, <2>9, <3>5 DEF TcpFrame
      <4>2. Ended(s)'
        BY <2>1, <2>9, <3>5 DEF LifeInv, Ended
      <4> QED BY <2>8, <2>9, <3>1, <3>5, <4>1, <4>2
    <3> QED BY <2>6, <3>3, <3>4, <3>5
  <2>10. SeqInv'
    BY <1>a, <2>1, <2>7, <2>9
  <2>11. ASSUME NEW t \in Tcp \ Tls, NEW up \in BOOLEAN, FrameOf(b, t, up)
         PROVE  \E seq, ack : /\ seq = b.seq /\ Reached(t, up, n, seq)'
                              /\ ack = b.ack /\ Reached(t, ~up, n, ack)'
    <3>1. t = s /\ up = b.fromClient
      BY <2>5, <2>11
    <3>2. Reached(s, up, n, b.seq) /\ Reached(s, ~up, n, b.ack)
      BY <2>8, <3>1 DEF TcpFrame, Numbers
    <3> QED BY <1>0, <2>3, <3>1, <3>2, ReachedKept
  <2>12. NumbersChain'
    BY <1>b, <2>1, <2>3, <2>4, <2>11
  <2> QED BY <2>10, <2>12
<1>2. ASSUME \A s \in Sessions, o \in Outcomes : ~Emit(s, o) PROVE SeqInv' /\ NumbersChain'
  <2>1. faults = 0 /\ Unframed
    BY <1>2, OtherStep
  <2>2. \A k \in DOMAIN file' \ DOMAIN file : \A s, up : ~FrameOf(file'[k], s, up)
    BY <2>1 DEF Unframed, FrameOf
  <2>3. ASSUME NEW t \in Tcp, NEW up \in BOOLEAN, NEW c, Reached(t, up, n, c) PROVE Reached(t, up, m, c)'
    BY <1>0, <2>1, <2>2, <2>3, ReachedQuiet DEF Unframed
  <2>4. SeqInv'
    <3>1. \A t \in Tcp \ Tls : /\ Reached(t, TRUE, n, clientSeq[t])
                               /\ Reached(t, FALSE, n, serverSeq[t]) \/ (Ended(t) /\ ~synSent[t])
      BY <2>1 DEF SeqInv
    <3> QED BY <1>a, <2>1, <2>3, <3>1 DEF Unframed, seqVars
  <2>5. NumbersChain'
    BY <1>b, <2>1, <2>2 DEF Unframed
  <2> QED BY <2>4, <2>5
<1> QED BY <1>1, <1>2

\* The conversation of a connection whose handshake nobody interrupts reassembles,
\* from SYN to FIN, for any modulus and any interleaving with other sessions.
THEOREM NumbersChainHolds == Spec => []NumbersChain
<1> DEFINE Inv == TypeInv /\ SlotInv /\ LifeInv /\ SeqInv /\ NumbersChain
<1>1. Init => Inv
  BY TypeInit, SlotInit, LifeInit, SeqInit
<1>2. Inv /\ [Next]_vars => Inv'
  BY TypeStep, SlotStep, LifeStep, SeqStep
<1> QED BY <1>1, <1>2, PTL DEF Spec

-----------------------------------------------------------------------------
(* Folds over sequences: FoldLeft takes the elements one by one, in order.   *)
(* The induction is by a smallest counterexample.                            *)

LEMMA SmallestNumber ==
  ASSUME NEW T, T \subseteq Nat, T # {}
  PROVE  \E m \in T : \A k \in T : m <= k
<1>1. PICK m \in T : \A k \in T : ~(<<k, m>> \in OpToRel(<, Nat))
  BY NatLessThanWellFounded, WFMin
<1>2. \A k \in T : ~(k < m)
  BY <1>1 DEF OpToRel
<1> QED BY <1>2

LEMMA LargestOf ==
  ASSUME NEW n \in Nat, NEW s \in SUBSET (1 .. n), s # {}
  PROVE  Max(s) \in s /\ (n \in s => Max(s) = n)
<1> DEFINE below == {k \in Nat : n - k \in s}
<1>1. below \subseteq Nat /\ below # {}
  <2>1. PICK i \in s : TRUE
    OBVIOUS
  <2>2. i \in 1 .. n /\ n - i \in Nat /\ n - (n - i) = i
    OBVIOUS
  <2> QED BY <2>1, <2>2
<1>2. PICK m \in below : \A k \in below : m <= k
  <2> HIDE DEF below
  <2>1. PICK m \in below : \A k \in below : ~(<<k, m>> \in OpToRel(<, Nat))
    BY <1>1, NatLessThanWellFounded, WFMin
  <2>2. m \in Nat /\ \A k \in below : k \in Nat /\ ~(k < m)
    BY <1>1, <2>1 DEF OpToRel
  <2> QED BY <2>2
<1>3. n - m \in s /\ m \in Nat
  BY <1>2
<1>4. \A i \in s : n - m >= i
  <2> TAKE i \in s
  <2>1. i \in 1 .. n /\ n - i \in Nat /\ n - (n - i) = i
    OBVIOUS
  <2>2. n - i \in below
    BY <2>1
  <2> QED BY <1>2, <1>3, <2>1, <2>2
<1>5. Max(s) \in s /\ \A i \in s : Max(s) >= i
  BY <1>3, <1>4 DEF Max
<1>6. Max(s) \in 1 .. n /\ (n \in s => Max(s) >= n)
  BY <1>5
<1> QED BY <1>5, <1>6

\* G makes a value in V of one and the next element, of X, of seq; b is the first.
Foldable(X, V, G, b, seq) == G \in [V -> [X -> V]] /\ b \in V /\ seq \in Seq(X)

\* it holds what G makes of the elements of seq at each set of positions.
IsTable(V, G, b, seq, it) ==
  /\ it \in [SUBSET DOMAIN seq -> V] /\ it[{}] = b
  /\ \A s \in SUBSET DOMAIN seq : s # {} => it[s] = G[it[s \ {Max(s)}]][seq[Max(s)]]

\* The same of any c, as far as it stays in V.
Follows(V, G, b, seq, c) ==
  /\ c[{}] = b
  /\ \A s \in SUBSET DOMAIN seq : s # {} /\ c[s \ {Max(s)}] \in V =>
       c[s] = G[c[s \ {Max(s)}]][seq[Max(s)]]

LEMMA FoldUnique ==
  ASSUME NEW X, NEW V, NEW G, NEW b, NEW seq, Foldable(X, V, G, b, seq),
         NEW it, IsTable(V, G, b, seq, it), NEW c, Follows(V, G, b, seq, c)
  PROVE  c[DOMAIN seq] = it[DOMAIN seq]
<1> USE DEF Foldable, IsTable, Follows
<1> DEFINE Differ(n) == \E s \in SUBSET (1 .. n) : c[s] # it[s]
           bad == {n \in 0 .. Len(seq) : Differ(n)}
<1>1. DOMAIN seq = 1 .. Len(seq) /\ Len(seq) \in Nat
  OBVIOUS
<1>2. bad = {}
  <2> SUFFICES ASSUME bad # {} PROVE FALSE
    OBVIOUS
  <2>1. bad \subseteq Nat
    BY <1>1
  <2> HIDE DEF bad
  <2>2. PICK n \in bad : \A k \in bad : n <= k
    BY <2>1, SmallestNumber
  <2>3. n \in Nat /\ n - 1 \notin bad
    BY <2>1, <2>2
  <2> USE DEF bad
  <2>4. PICK s \in SUBSET (1 .. n) : c[s] # it[s]
    BY <2>2
  <2>5. s \in SUBSET DOMAIN seq
    BY <1>1, <2>2
  <2>6. s # {}
    BY <2>4
  <2>7. Max(s) \in s /\ (n \in s => Max(s) = n)
    BY <2>3, <2>6, LargestOf
  <2>8. n - 1 \in 0 .. Len(seq)
    <3>1. Max(s) \in 1 .. n /\ n \in 0 .. Len(seq)
      BY <2>2, <2>7
    <3> QED BY <1>1, <2>3, <3>1
  <2>a. \A i \in s \ {Max(s)} : i \in 1 .. (n - 1)
    <3> TAKE i \in s \ {Max(s)}
    <3>1. i \in 1 .. n /\ i # n
      BY <2>7
    <3> QED BY <2>3, <3>1
  <2>b. s \ {Max(s)} \in SUBSET (1 .. (n - 1)) /\ s \ {Max(s)} \in SUBSET DOMAIN seq
    BY <2>5, <2>a
  <2>9. c[s \ {Max(s)}] = it[s \ {Max(s)}]
    BY <2>3, <2>8, <2>b
  <2>10. it[s \ {Max(s)}] \in V
    BY <2>b
  <2> QED BY <2>4, <2>5, <2>6, <2>9, <2>10
<1>3. Len(seq) \in 0 .. Len(seq)
  BY <1>1
<1> HIDE DEF Differ
<1>4. ~Differ(Len(seq))
  BY <1>2, <1>3
<1>5. \A s \in SUBSET (1 .. Len(seq)) : c[s] = it[s]
  BY <1>4 DEF Differ
<1> QED BY <1>1, <1>5

LEMMA FoldExists ==
  ASSUME NEW X, NEW V, NEW G, NEW b, NEW seq, Foldable(X, V, G, b, seq)
  PROVE  \E it : IsTable(V, G, b, seq, it)
<1> USE DEF Foldable
<1> DEFINE D(n) == SUBSET (1 .. n)
           OK(n, it) == /\ it[{}] = b
                        /\ \A s \in D(n) : s # {} => it[s] = G[it[s \ {Max(s)}]][seq[Max(s)]]
           bad == {n \in 0 .. Len(seq) : ~ \E it \in [D(n) -> V] : OK(n, it)}
<1>1. DOMAIN seq = 1 .. Len(seq) /\ Len(seq) \in Nat /\ \A i \in 1 .. Len(seq) : seq[i] \in X
  OBVIOUS
<1>2. bad = {}
  <2> SUFFICES ASSUME bad # {} PROVE FALSE
    OBVIOUS
  <2>1. bad \subseteq Nat
    BY <1>1
  <2> HIDE DEF bad
  <2>2. PICK m \in bad : \A k \in bad : m <= k
    BY <2>1, SmallestNumber
  <2>3. m \in Nat /\ m - 1 \notin bad
    BY <2>1, <2>2
  <2> USE DEF bad
  <2>4. CASE m = 0
    <3>1. 1 .. m = {}
      BY <2>4
    <3>2. [s \in D(m) |-> b] \in [D(m) -> V] /\ OK(m, [s \in D(m) |-> b])
      BY <3>1
    <3> QED BY <2>2, <3>2
  <2>5. CASE m # 0
    <3>1. m - 1 \in 0 .. Len(seq) /\ m \in 1 .. Len(seq)
      BY <1>1, <2>2, <2>3, <2>5
    <3>2. PICK g \in [D(m - 1) -> V] : OK(m - 1, g)
      BY <2>3, <3>1
    <3>3. D(m - 1) \subseteq D(m) /\ \A s \in D(m) : m \notin s => s \in D(m - 1)
      BY <2>3, <3>1
    <3> DEFINE h == [s \in D(m) |-> IF m \in s THEN G[g[s \ {m}]][seq[m]] ELSE g[s]]
    <3>4. \A s \in D(m) : s \ {m} \in D(m - 1)
      BY <2>3, <3>1
    <3>5. seq[m] \in X
      BY <1>1, <3>1
    <3>6. h \in [D(m) -> V]
      BY <3>3, <3>4, <3>5
    <3>7. h[{}] = b
      BY <3>2, <3>3
    <3>8. \A s \in D(m) : s # {} => h[s] = G[h[s \ {Max(s)}]][seq[Max(s)]]
      <4> SUFFICES ASSUME NEW s \in D(m), s # {} PROVE h[s] = G[h[s \ {Max(s)}]][seq[Max(s)]]
        OBVIOUS
      <4>1. Max(s) \in s /\ (m \in s => Max(s) = m)
        BY <2>3, LargestOf
      <4>2. CASE m \in s
        <5>1. s \ {m} \in D(m) /\ m \notin s \ {m} /\ h[s \ {m}] = g[s \ {m}]
          OBVIOUS
        <5> QED BY <4>1, <4>2, <5>1
      <4>3. CASE m \notin s
        <5>1. s \in D(m - 1) /\ s \ {Max(s)} \in D(m) /\ m \notin s \ {Max(s)}
          BY <3>3, <4>3
        <5>2. h[s] = g[s] /\ h[s \ {Max(s)}] = g[s \ {Max(s)}]
          BY <4>3, <5>1
        <5> QED BY <3>2, <5>1, <5>2
      <4> QED BY <4>2, <4>3
    <3> HIDE DEF h, D
    <3>9. OK(m, h)
      BY <3>7, <3>8
    <3> QED BY <2>2, <3>6, <3>9
  <2> QED BY <2>4, <2>5
<1>3. Len(seq) \notin bad
  BY <1>2
<1>4. D(Len(seq)) = SUBSET DOMAIN seq
  BY <1>1
<1> HIDE DEF OK, D
<1>5. PICK it \in [D(Len(seq)) -> V] : OK(Len(seq), it)
  BY <1>1, <1>3
<1> USE DEF OK, D
<1> QED BY <1>4, <1>5 DEF IsTable

\* What G makes of the whole of seq.
Folded(V, G, b, seq) == (CHOOSE it : IsTable(V, G, b, seq, it))[DOMAIN seq]

LEMMA FoldedTable ==
  ASSUME NEW X, NEW V, NEW G, NEW b, NEW seq, Foldable(X, V, G, b, seq)
  PROVE  \E it : IsTable(V, G, b, seq, it) /\ Folded(V, G, b, seq) = it[DOMAIN seq]
BY FoldExists DEF Folded

LEMMA FoldedType ==
  ASSUME NEW X, NEW V, NEW G, NEW b, NEW seq, Foldable(X, V, G, b, seq)
  PROVE  Folded(V, G, b, seq) \in V
<1>1. PICK it : IsTable(V, G, b, seq, it) /\ Folded(V, G, b, seq) = it[DOMAIN seq]
  BY FoldedTable
<1> QED BY <1>1 DEF IsTable

LEMMA FoldedIs ==
  ASSUME NEW X, NEW V, NEW G, NEW b, NEW seq, Foldable(X, V, G, b, seq),
         NEW c, Follows(V, G, b, seq, c)
  PROVE  c[DOMAIN seq] = Folded(V, G, b, seq)
<1>1. PICK it : IsTable(V, G, b, seq, it) /\ Folded(V, G, b, seq) = it[DOMAIN seq]
  BY FoldedTable
<1>2. c[DOMAIN seq] = it[DOMAIN seq]
  BY <1>1, FoldUnique
<1> QED BY <1>1, <1>2

LEMMA FoldedEmpty ==
  ASSUME NEW X, NEW V, NEW G, NEW b, Foldable(X, V, G, b, <<>>)
  PROVE  Folded(V, G, b, <<>>) = b
<1>1. PICK it : IsTable(V, G, b, <<>>, it) /\ Folded(V, G, b, <<>>) = it[DOMAIN <<>>]
  BY FoldedTable
<1> QED BY <1>1 DEF IsTable

\* Sequences whose elements G does not tell apart.
LEMMA FoldedAgree ==
  ASSUME NEW X, NEW V, NEW G, NEW b, NEW seq, Foldable(X, V, G, b, seq),
         NEW new, Foldable(X, V, G, b, new), Len(new) = Len(seq),
         \A i \in 1 .. Len(seq), v \in V : G[v][new[i]] = G[v][seq[i]]
  PROVE  Folded(V, G, b, new) = Folded(V, G, b, seq)
<1>1. PICK c : IsTable(V, G, b, new, c) /\ Folded(V, G, b, new) = c[DOMAIN new]
  BY FoldedTable
<1>2. DOMAIN new = DOMAIN seq /\ DOMAIN seq = 1 .. Len(seq) /\ Len(seq) \in Nat
  BY DEF Foldable
<1>3. ASSUME NEW s \in SUBSET DOMAIN seq, s # {}, c[s \ {Max(s)}] \in V
      PROVE  c[s] = G[c[s \ {Max(s)}]][seq[Max(s)]]
  <2>1. s \in SUBSET (1 .. Len(seq))
    BY <1>2
  <2>2. Max(s) \in 1 .. Len(seq)
    BY <1>2, <1>3, <2>1, LargestOf
  <2> QED BY <1>1, <1>2, <1>3, <2>2 DEF IsTable
<1>4. Follows(V, G, b, seq, c)
  BY <1>1, <1>3 DEF Follows, IsTable
<1>5. c[DOMAIN seq] = Folded(V, G, b, seq)
  BY <1>4, FoldedIs
<1> QED BY <1>1, <1>2, <1>5

\* x behind seq.
Extended(seq, x, new) == new = Append(seq, x)

LEMMA FoldedAppend ==
  ASSUME NEW X, NEW V, NEW G, NEW b, NEW seq, Foldable(X, V, G, b, seq), NEW x \in X,
         NEW new, Extended(seq, x, new)
  PROVE  /\ Foldable(X, V, G, b, new)
         /\ Folded(V, G, b, new) = G[Folded(V, G, b, seq)][x]
<1> DEFINE n == Len(seq)
<1>0. Foldable(X, V, G, b, new)
  BY DEF Foldable, Extended
<1>1. /\ DOMAIN seq = 1 .. n /\ n \in Nat /\ DOMAIN new = 1 .. (n + 1)
      /\ new[n + 1] = x /\ \A i \in 1 .. n : new[i] = seq[i]
  BY DEF Foldable, Extended
<1> HIDE DEF n
<1>2. PICK c : IsTable(V, G, b, new, c) /\ Folded(V, G, b, new) = c[DOMAIN new]
  BY ONLY <1>0, FoldedTable
<1>3. ASSUME NEW s \in SUBSET DOMAIN seq, s # {}, c[s \ {Max(s)}] \in V
      PROVE  c[s] = G[c[s \ {Max(s)}]][seq[Max(s)]]
  <2>1. s \in SUBSET (1 .. n) /\ s \in SUBSET DOMAIN new
    BY <1>1
  <2>2. Max(s) \in 1 .. n
    BY <1>1, <1>3, <2>1, LargestOf
  <2> QED BY <1>1, <1>2, <1>3, <2>1, <2>2 DEF IsTable
<1>4. Follows(V, G, b, seq, c)
  BY <1>2, <1>3 DEF Follows, IsTable
<1>5. c[DOMAIN seq] = Folded(V, G, b, seq)
  BY <1>4, FoldedIs
<1>6. Max(1 .. (n + 1)) = n + 1
  <2>1. n + 1 \in Nat /\ 1 .. (n + 1) \in SUBSET (1 .. (n + 1)) /\ n + 1 \in 1 .. (n + 1)
    BY <1>1
  <2> QED BY <2>1, LargestOf
<1>7. DOMAIN new \ {n + 1} = DOMAIN seq /\ DOMAIN new # {}
  BY <1>1
<1>8. c[DOMAIN new] = G[c[DOMAIN new \ {Max(DOMAIN new)}]][new[Max(DOMAIN new)]]
  BY <1>2, <1>7 DEF IsTable
<1> QED BY <1>0, <1>1, <1>2, <1>5, <1>6, <1>7, <1>8

-----------------------------------------------------------------------------
(* The frames of a connection are a fold over the file, and the numbers of   *)
(* TcpTrace a fold over the frames.                                          *)

FrameSet == [fromClient : BOOLEAN, flag : Flags, seq : SeqNum, ack : SeqNum, len : Nat]

\* What FoldLeft does in Sent and in FramesOf, one element at a time.
AddSpan(up) ==
  [n \in SeqNum |-> [f \in FrameSet |->
     IF f.fromClient = up THEN (n + Conversations!Span(f)) % SeqSpace ELSE n]]
PickFrame(s) ==
  [frames \in Seq(FrameSet) |-> [b \in Block |->
     IF b.owner = s THEN Append(frames, FrameIn(b)) ELSE frames]]

LEMMA AddFoldable ==
  ASSUME NEW up, NEW T \in Seq(FrameSet)
  PROVE  Foldable(FrameSet, SeqNum, AddSpan(up), 0, T)
<1>1. ASSUME NEW n \in SeqNum, NEW f \in FrameSet
      PROVE  (n + Conversations!Span(f)) % SeqSpace \in SeqNum
  <2>1. n \in Nat /\ n + Conversations!Span(f) \in Nat
    BY CaptureAssumption DEF SeqNum, FrameSet, Conversations!Span
  <2> PICK m \in Nat : m = n + Conversations!Span(f)
    BY <2>1
  <2>2. Wrap(m) \in SeqNum
    BY WrapType
  <2>3. Wrap(n + Conversations!Span(f)) \in SeqNum
    BY <2>2
  <2> QED BY <2>3 DEF Wrap
<1>2. 0 \in SeqNum
  BY CaptureAssumption DEF SeqNum
<1>3. AddSpan(up) \in [SeqNum -> [FrameSet -> SeqNum]]
  BY <1>1 DEF AddSpan
<1> QED BY <1>2, <1>3 DEF Foldable

LEMMA PickFoldable ==
  ASSUME NEW s, NEW blocks \in Seq(Block)
  PROVE  Foldable(Block, Seq(FrameSet), PickFrame(s), <<>>, blocks)
<1>1. ASSUME NEW frames \in Seq(FrameSet), NEW b \in Block
      PROVE  Append(frames, FrameIn(b)) \in Seq(FrameSet)
  <2>1. FrameIn(b) \in FrameSet
    BY DEF Block, FrameSet, FrameIn
  <2> QED BY <2>1
<1>2. <<>> \in Seq(FrameSet)
  OBVIOUS
<1>3. PickFrame(s) \in [Seq(FrameSet) -> [Block -> Seq(FrameSet)]]
  <2> DEFINE V == Seq(FrameSet)
  <2>1. ASSUME NEW frames \in V, NEW b \in Block
        PROVE  (IF b.owner = s THEN Append(frames, FrameIn(b)) ELSE frames) \in V
    BY <1>1
  <2>2. PickFrame(s) = [frames \in V |-> [b \in Block |->
                          IF b.owner = s THEN Append(frames, FrameIn(b)) ELSE frames]]
    BY DEF PickFrame
  <2> HIDE DEF V
  <2>3. PickFrame(s) \in [V -> [Block -> V]]
    BY ONLY <2>1, <2>2
  <2> QED BY <2>3 DEF V
<1> QED BY <1>2, <1>3 DEF Foldable

LEMMA SentFolded ==
  ASSUME NEW up, NEW T \in Seq(FrameSet)
  PROVE  Conversations!Sent(T, up) = Folded(SeqNum, AddSpan(up), 0, T)
<1> DEFINE Row(it) ==
      [s \in SUBSET DOMAIN T |->
         IF s = {} THEN 0
         ELSE IF T[Max(s)].fromClient = up
              THEN (it[s \ {Max(s)}] + Conversations!Span(T[Max(s)])) % SeqSpace
              ELSE it[s \ {Max(s)}]]
<1>1. Conversations!Sent(T, up) = (CHOOSE it : it = Row(it))[DOMAIN T]
  BY DEF Conversations!Sent, Conversations!FoldLeft, Conversations!MapThenFoldSet,
         Conversations!Max, Max
<1>0. Foldable(FrameSet, SeqNum, AddSpan(up), 0, T)
  BY AddFoldable
<1>2. PICK it : IsTable(SeqNum, AddSpan(up), 0, T, it)
  BY <1>0, FoldExists
<1>3. ASSUME NEW s \in SUBSET DOMAIN T, s # {}
      PROVE  /\ Max(s) \in s /\ T[Max(s)] \in FrameSet /\ s \ {Max(s)} \in SUBSET DOMAIN T
             /\ \A n \in SeqNum : AddSpan(up)[n][T[Max(s)]] =
                  IF T[Max(s)].fromClient = up
                  THEN (n + Conversations!Span(T[Max(s)])) % SeqSpace ELSE n
  <2>1. s \in SUBSET (1 .. Len(T)) /\ Len(T) \in Nat
    OBVIOUS
  <2>2. Max(s) \in s
    BY <1>3, <2>1, LargestOf
  <2> QED BY <2>2 DEF AddSpan
<1>4. it = Row(it)
  <2>1. ASSUME NEW s \in SUBSET DOMAIN T PROVE it[s] = Row(it)[s]
    BY <1>2, <1>3, <2>1 DEF IsTable
  <2> HIDE DEF Row
  <2>2. it \in [SUBSET DOMAIN T -> SeqNum] /\ DOMAIN Row(it) = SUBSET DOMAIN T
    BY <1>2 DEF IsTable, Row
  <2> USE DEF Row
  <2> QED BY <2>1, <2>2
<1>5. PICK c : c = (CHOOSE h : h = Row(h))
  OBVIOUS
<1>6. c = Row(c)
  <2> HIDE DEF Row
  <2> QED BY <1>4, <1>5
<1>7. Follows(SeqNum, AddSpan(up), 0, T, c)
  <2>1. c[{}] = 0
    BY <1>6
  <2>2. ASSUME NEW s \in SUBSET DOMAIN T, s # {}, c[s \ {Max(s)}] \in SeqNum
        PROVE  c[s] = AddSpan(up)[c[s \ {Max(s)}]][T[Max(s)]]
    BY <1>3, <1>6, <2>2
  <2> QED BY <2>1, <2>2 DEF Follows
<1> HIDE DEF Row
<1>8. c[DOMAIN T] = Folded(SeqNum, AddSpan(up), 0, T)
  BY <1>0, <1>7, FoldedIs
<1> QED BY <1>1, <1>5, <1>8

LEMMA FramesFolded ==
  ASSUME NEW s, NEW blocks \in Seq(Block)
  PROVE  FramesOf(s, blocks) = Folded(Seq(FrameSet), PickFrame(s), <<>>, blocks)
<1> DEFINE V == Seq(FrameSet)
           Row(it) ==
      [u \in SUBSET DOMAIN blocks |->
         IF u = {} THEN <<>>
         ELSE IF blocks[Max(u)].owner = s
              THEN Append(it[u \ {Max(u)}], FrameIn(blocks[Max(u)]))
              ELSE it[u \ {Max(u)}]]
<1>1. FramesOf(s, blocks) = (CHOOSE it : it = Row(it))[DOMAIN blocks]
  BY DEF FramesOf, FoldLeft, MapThenFoldSet, Max
<1>0. Foldable(Block, V, PickFrame(s), <<>>, blocks)
  BY PickFoldable
<1>a. \A frames \in V, b \in Block :
        PickFrame(s)[frames][b] = IF b.owner = s THEN Append(frames, FrameIn(b)) ELSE frames
  BY DEF PickFrame
<1> HIDE DEF V
<1>2. PICK it : IsTable(V, PickFrame(s), <<>>, blocks, it)
  BY <1>0, FoldExists
<1>3. ASSUME NEW u \in SUBSET DOMAIN blocks, u # {}
      PROVE  /\ Max(u) \in u /\ blocks[Max(u)] \in Block /\ u \ {Max(u)} \in SUBSET DOMAIN blocks
             /\ \A frames \in V : PickFrame(s)[frames][blocks[Max(u)]] =
                  IF blocks[Max(u)].owner = s
                  THEN Append(frames, FrameIn(blocks[Max(u)])) ELSE frames
  <2>1. u \in SUBSET (1 .. Len(blocks)) /\ Len(blocks) \in Nat
    OBVIOUS
  <2>2. Max(u) \in u
    BY <1>3, <2>1, LargestOf
  <2> QED BY <1>a, <2>2
<1>4. it = Row(it)
  <2>1. ASSUME NEW u \in SUBSET DOMAIN blocks PROVE it[u] = Row(it)[u]
    BY <1>2, <1>3, <2>1 DEF IsTable
  <2> HIDE DEF Row
  <2>2. it \in [SUBSET DOMAIN blocks -> V] /\ DOMAIN Row(it) = SUBSET DOMAIN blocks
    BY <1>2 DEF IsTable, Row
  <2> USE DEF Row
  <2> QED BY <2>1, <2>2
<1>5. PICK c : c = (CHOOSE h : h = Row(h))
  OBVIOUS
<1>6. c = Row(c)
  <2> HIDE DEF Row
  <2> QED BY <1>4, <1>5
<1>7. Follows(V, PickFrame(s), <<>>, blocks, c)
  <2>1. c[{}] = <<>>
    BY <1>6
  <2>2. ASSUME NEW u \in SUBSET DOMAIN blocks, u # {}, c[u \ {Max(u)}] \in V
        PROVE  c[u] = PickFrame(s)[c[u \ {Max(u)}]][blocks[Max(u)]]
    BY <1>3, <1>6, <2>2
  <2> QED BY <2>1, <2>2 DEF Follows
<1> HIDE DEF Row
<1>8. c[DOMAIN blocks] = Folded(V, PickFrame(s), <<>>, blocks)
  BY <1>0, <1>7, FoldedIs
<1> QED BY <1>1, <1>5, <1>8 DEF V

LEMMA SentTyped ==
  ASSUME NEW up, NEW T \in Seq(FrameSet)
  PROVE  Conversations!Sent(T, up) \in SeqNum
BY SentFolded, AddFoldable, FoldedType

LEMMA FramesTyped ==
  ASSUME NEW s, NEW blocks \in Seq(Block)
  PROVE  FramesOf(s, blocks) \in Seq(FrameSet)
<1> DEFINE V == Seq(FrameSet)
<1>1. Foldable(Block, V, PickFrame(s), <<>>, blocks)
  BY PickFoldable
<1>2. FramesOf(s, blocks) = Folded(V, PickFrame(s), <<>>, blocks)
  BY FramesFolded
<1> HIDE DEF V
<1>3. FramesOf(s, blocks) \in V
  BY <1>1, <1>2, FoldedType
<1> QED BY <1>3 DEF V

LEMMA SentNothing == ASSUME NEW up PROVE Conversations!Sent(<<>>, up) = 0
<1>1. <<>> \in Seq(FrameSet)
  OBVIOUS
<1> QED BY <1>1, SentFolded, AddFoldable, FoldedEmpty

LEMMA SentNext ==
  ASSUME NEW up \in BOOLEAN, NEW T \in Seq(FrameSet), NEW f \in FrameSet
  PROVE  Conversations!Sent(Append(T, f), up) =
           IF f.fromClient = up
           THEN Wrap(Conversations!Sent(T, up) + Conversations!Span(f))
           ELSE Conversations!Sent(T, up)
<1> PICK new : new = Append(T, f)
  OBVIOUS
<1>0. Extended(T, f, new)
  BY DEF Extended
<1>1. new \in Seq(FrameSet) /\ Foldable(FrameSet, SeqNum, AddSpan(up), 0, T)
  BY AddFoldable
<1>2. Folded(SeqNum, AddSpan(up), 0, new) = AddSpan(up)[Folded(SeqNum, AddSpan(up), 0, T)][f]
  BY <1>0, <1>1, FoldedAppend
<1>3. Conversations!Sent(new, up) = AddSpan(up)[Conversations!Sent(T, up)][f]
  BY <1>1, <1>2, SentFolded
<1>4. Conversations!Sent(T, up) \in SeqNum
  BY SentTyped
<1> PICK n \in SeqNum : n = Conversations!Sent(T, up)
  BY <1>4
<1>5. AddSpan(up)[n][f] = IF f.fromClient = up THEN (n + Conversations!Span(f)) % SeqSpace ELSE n
  BY DEF AddSpan
<1> QED BY <1>3, <1>5 DEF Wrap

LEMMA FramesNone == ASSUME NEW s PROVE FramesOf(s, <<>>) = <<>>
<1> DEFINE V == Seq(FrameSet)
<1>1. <<>> \in Seq(Block)
  OBVIOUS
<1>2. Foldable(Block, V, PickFrame(s), <<>>, <<>>)
  BY <1>1, PickFoldable
<1>3. FramesOf(s, <<>>) = Folded(V, PickFrame(s), <<>>, <<>>)
  BY <1>1, FramesFolded
<1> HIDE DEF V
<1> QED BY <1>2, <1>3, FoldedEmpty

LEMMA FramesNext ==
  ASSUME NEW s, NEW blocks \in Seq(Block), NEW b \in Block, NEW new,
         Extended(blocks, b, new)
  PROVE  FramesOf(s, new) = IF b.owner = s THEN Append(FramesOf(s, blocks), FrameIn(b))
                            ELSE FramesOf(s, blocks)
<1> DEFINE V == Seq(FrameSet)
<1>1. new \in Seq(Block) /\ FramesOf(s, blocks) \in V
  BY FramesTyped DEF Extended
<1>2. Foldable(Block, V, PickFrame(s), <<>>, blocks)
  BY PickFoldable
<1>3. FramesOf(s, blocks) = Folded(V, PickFrame(s), <<>>, blocks)
  BY FramesFolded
<1>4. FramesOf(s, new) = Folded(V, PickFrame(s), <<>>, new)
  BY <1>1, FramesFolded
<1>a. PickFrame(s)[FramesOf(s, blocks)][b] =
        IF b.owner = s THEN Append(FramesOf(s, blocks), FrameIn(b)) ELSE FramesOf(s, blocks)
  BY <1>1 DEF PickFrame
<1> HIDE DEF V
<1>5. Folded(V, PickFrame(s), <<>>, new) = PickFrame(s)[Folded(V, PickFrame(s), <<>>, blocks)][b]
  BY <1>2, FoldedAppend
<1> QED BY <1>3, <1>4, <1>5, <1>a

\* Notes do not show in the frames.
LEMMA FramesSame ==
  ASSUME NEW s, NEW blocks \in Seq(Block), NEW new \in Seq(Block), Len(new) = Len(blocks),
         \A i \in 1 .. Len(blocks) : /\ new[i].owner = blocks[i].owner
                                     /\ FrameIn(new[i]) = FrameIn(blocks[i])
  PROVE  FramesOf(s, new) = FramesOf(s, blocks)
<1> DEFINE V == Seq(FrameSet)
<1>1. /\ Foldable(Block, V, PickFrame(s), <<>>, blocks)
      /\ Foldable(Block, V, PickFrame(s), <<>>, new)
  BY PickFoldable
<1>2. /\ FramesOf(s, blocks) = Folded(V, PickFrame(s), <<>>, blocks)
      /\ FramesOf(s, new) = Folded(V, PickFrame(s), <<>>, new)
  BY FramesFolded
<1>3. ASSUME NEW i \in 1 .. Len(blocks), NEW frames \in V
      PROVE  PickFrame(s)[frames][new[i]] = PickFrame(s)[frames][blocks[i]]
  <2>1. new[i] \in Block /\ blocks[i] \in Block
    OBVIOUS
  <2> QED BY <2>1 DEF PickFrame
<1> HIDE DEF V
<1>4. Folded(V, PickFrame(s), <<>>, new) = Folded(V, PickFrame(s), <<>>, blocks)
  BY <1>1, <1>3, FoldedAgree
<1> QED BY <1>2, <1>4

-----------------------------------------------------------------------------
(* Capture implements TcpTrace *)

\* What a block written whole does to the session that writes it.
LEMMA EmitMoves ==
  ASSUME TypeInv, NEW s \in Sessions, NEW o \in Outcomes, Emit(s, o), o = Whole,
         NEW b \in Block, file' = Append(file, b)
  PROVE  /\ mu = s /\ io' = io /\ mu' \in {s, Free}
         /\ \A t \in Sessions \ {s} : hold'[t] = hold[t]
         /\ step = "syn" => /\ b.fromClient = TRUE /\ b.len = 0
                            /\ mu' = s /\ step' = AfterSyn(serverSeq[s]) /\ hold' = hold
         /\ step = "synack" => /\ b.fromClient = FALSE /\ b.len = 0
                               /\ mu' = s /\ step' = "data" /\ hold' = hold
         /\ step = "data" => /\ b.fromClient = hold[s].fromClient /\ b.len = hold[s].len
                             /\ mu' = Free /\ hold' = [hold EXCEPT ![s] = NoIO]
         /\ step = "fin" => b.len = 0 /\ hold' = hold
         /\ step = "finack" => b.len = 0 /\ mu' = Free /\ hold' = hold
<1> DEFINE note == IF o >= NoTrailer THEN pending[s] ELSE NoNote
<1>1. /\ file \in Seq(Block) /\ hold \in [Sessions -> [fromClient : BOOLEAN, len : Nat]]
      /\ mu = s
  BY EmitEpb DEF TypeInv, TypeOK
<1>2. ASSUME NEW e, file' = Appended(e), e.end = o PROVE b = e
  <2>1. file' = Append(file, e)
    BY <1>2 DEF Appended, Whole, Nothing
  <2>2. Append(file, e)[Len(file) + 1] = e /\ Append(file, b)[Len(file) + 1] = b
    BY <1>1
  <2> QED BY <2>1, <2>2
<1> HIDE DEF note
<1> USE <1>1 DEF connVars, Unlock, Release
<1>3. CASE EmitSyn(s, o)
  <2>1. b = PacketBlock(s, TRUE, "syn", 0, clientSeq[s], serverSeq[s], o, note)
    BY <1>2, <1>3 DEF EmitSyn, Epb, note, PacketBlock
  <2> QED BY <1>3, <2>1 DEF EmitSyn, PacketBlock
<1>4. CASE EmitSynAck(s, o)
  <2>1. b = PacketBlock(s, FALSE, "synack", 0, serverSeq[s], clientSeq[s], o, note)
    BY <1>2, <1>4 DEF EmitSynAck, Epb, note, PacketBlock
  <2> QED BY <1>4, <2>1 DEF EmitSynAck, PacketBlock
<1>5. CASE EmitTcpData(s, o)
  <2> DEFINE up == hold[s].fromClient
  <2>1. b = PacketBlock(s, up, "data", hold[s].len, Numbers(s, up).seq, Numbers(s, up).ack, o, note)
    BY <1>2, <1>5 DEF EmitTcpData, Epb, note, PacketBlock
  <2> QED BY <1>5, <2>1 DEF EmitTcpData, PacketBlock
<1>6. CASE EmitUdpData(s, o)
  <2>1. b = PacketBlock(s, hold[s].fromClient, "data", hold[s].len, 0, 0, o, note)
    BY <1>2, <1>6 DEF EmitUdpData, Epb, note, PacketBlock
  <2> QED BY <1>6, <2>1 DEF EmitUdpData, PacketBlock
<1>7. CASE EmitFin(s, o)
  <2>1. b = PacketBlock(s, TRUE, "fin", 0, clientSeq[s], serverSeq[s], o, note)
    BY <1>2, <1>7 DEF EmitFin, Epb, note, PacketBlock
  <2> QED BY <1>7, <2>1 DEF EmitFin, PacketBlock
<1>8. CASE EmitFinAck(s, o)
  <2>1. b = PacketBlock(s, FALSE, "fin", 0, serverSeq[s], clientSeq[s], o, note)
    BY <1>2, <1>8 DEF EmitFinAck, Epb, note, PacketBlock
  <2> QED BY <1>8, <2>1 DEF EmitFinAck, PacketBlock
<1> QED BY <1>3, <1>4, <1>5, <1>6, <1>7, <1>8 DEF Emit

\* A frame behind a conversation.
LEMMA EndedNext ==
  ASSUME NEW up \in BOOLEAN, NEW T \in Seq(FrameSet), NEW f \in FrameSet
  PROVE  /\ Conversations!Ended(Append(T, f), up) <=>
              Conversations!Ended(T, up) \/ (f.flag = "fin" /\ f.fromClient = up)
         /\ Len(Append(T, f)) = Len(T) + 1 /\ Len(T) \in Nat
<1> PICK new : new = Append(T, f)
  OBVIOUS
<1>1. /\ Len(T) \in Nat /\ DOMAIN T = 1 .. Len(T) /\ DOMAIN new = 1 .. (Len(T) + 1)
      /\ new[Len(T) + 1] = f /\ \A i \in DOMAIN T : new[i] = T[i]
      /\ Len(new) = Len(T) + 1
  OBVIOUS
<1>2. Conversations!Ended(new, up) <=>
        Conversations!Ended(T, up) \/ (f.flag = "fin" /\ f.fromClient = up)
  BY <1>1 DEF Conversations!Ended
<1> QED BY <1>1, <1>2

LEMMA EndedNothing == ASSUME NEW up PROVE ~Conversations!Ended(<<>>, up)
BY DEF Conversations!Ended

\* The most bytes n socket calls move.
Room(K, n) == K * n

LEMMA RoomGrows ==
  ASSUME NEW K \in Nat, NEW m \in Nat, NEW n \in Nat, m <= n
  PROVE  Room(K, m) \in Nat /\ Room(K, n) \in Nat /\ Room(K, m) <= Room(K, n)
BY DEF Room

LEMMA RoomNext ==
  ASSUME NEW K \in Nat, NEW m \in Nat
  PROVE  Room(K, m) \in Nat /\ Room(K, m + 1) = Room(K, m) + K
BY DEF Room

LEMMA RoomEmpty == ASSUME NEW K \in Nat PROVE Room(K, 0) = 0
BY DEF Room

\* No socket call moves more than K bytes, and those of a whole run leave the
\* server's counter below its modulus.  The code takes a counter at 0 for a
\* handshake not yet answered: one that came back to 0 would answer it again.
NoWrap(K) == K \in Nat /\ (\A n \in Lens : n <= K) /\ Room(K, MaxIO) + 1 < SeqSpace

\* The bytes a session has sent and not yet recorded.
Down(s) == IF hold[s].fromClient THEN 0 ELSE hold[s].len

\* The session's counters are the numbers of its conversation, the lock holder's
\* next frame is the one the conversation lacks, and the bytes recorded and held
\* are those of the socket calls made.
TraceOf(K, s) ==
  LET frames == FramesOf(s, file) IN
    /\ clientSeq[s] = Conversations!Sent(frames, TRUE)
    /\ serverSeq[s] = Conversations!Sent(frames, FALSE) \/ (Ended(s) /\ ~synSent[s])
    /\ ~synSent[s] /\ ~Ended(s) => frames = <<>>
    /\ mu = s /\ step = "synack" => Len(frames) = 1 /\ serverSeq[s] = 0
    /\ mu = s /\ step = "data" => Len(frames) >= 2
    /\ synSent[s] /\ ~(mu = s /\ step \in {"synack", "data"}) => Len(frames) >= 3
    /\ synSent[s] /\ ~(mu = s /\ step = "synack") => serverSeq[s] # 0
    /\ synSent[s] => /\ ~Conversations!Ended(frames, FALSE)
                     /\ Conversations!Ended(frames, TRUE) <=> mu = s /\ step = "finack"
    /\ hold[s] # NoIO => hold[s].len \in Lens
    /\ mu = s /\ step \in {"syn", "synack", "data"} => hold[s] # NoIO
    /\ serverSeq[s] + Down(s) + (IF serverSeq[s] = 0 THEN 1 ELSE 0) <= 1 + Room(K, io)

TraceInv(K) == io <= MaxIO /\ (faults = 0 => \A s \in Uninterrupted : TraceOf(K, s))

LEMMA TraceInit == ASSUME NEW K, NoWrap(K), Init PROVE TraceInv(K) /\ Conversations!Init
<1>1. ASSUME NEW s \in Uninterrupted PROVE TraceOf(K, s) /\ FramesOf(s, file) = <<>>
  <2>1. FramesOf(s, file) = <<>> /\ s \in Sessions
    BY FramesNone DEF Init, Uninterrupted, Sessions
  <2>2. Free \notin Sessions
    BY SessionKinds
  <2>3. Room(K, 0) = 0
    BY RoomEmpty DEF NoWrap
  <2>4. /\ clientSeq[s] = 0 /\ serverSeq[s] = 0 /\ ~synSent[s] /\ hold[s] = NoIO /\ mu # s /\ io = 0
        /\ Down(s) = 0
    BY <2>1, <2>2 DEF Init, Down, NoIO
  <2>5. Conversations!Sent(<<>>, TRUE) = 0 /\ Conversations!Sent(<<>>, FALSE) = 0
    BY SentNothing
  <2>6. serverSeq[s] + Down(s) + (IF serverSeq[s] = 0 THEN 1 ELSE 0) <= 1 + Room(K, io)
    BY <2>3, <2>4
  <2>7. /\ Conversations!Sent(FramesOf(s, file), TRUE) = clientSeq[s]
        /\ Conversations!Sent(FramesOf(s, file), FALSE) = serverSeq[s]
    BY <2>1, <2>4, <2>5
  <2> QED BY <2>1, <2>4, <2>6, <2>7 DEF TraceOf
<1>2. Traces = [s \in Uninterrupted |-> <<>>]
  BY <1>1 DEF Traces
<1>3. io <= MaxIO
  BY CaptureAssumption DEF Init
<1> QED BY <1>1, <1>2, <1>3 DEF TraceInv, Conversations!Init

\* A step that does not touch the session.
LEMMA TraceKept ==
  ASSUME TypeInv, TypeInv', NEW K \in Nat, NEW s \in Uninterrupted, TraceOf(K, s),
         FramesOf(s, file') = FramesOf(s, file),
         UNCHANGED <<clientSeq[s], serverSeq[s], synSent[s], hold[s]>>,
         Ended(s) => Ended(s)', mu' = s <=> mu = s, mu = s => step' = step, io <= io'
  PROVE  TraceOf(K, s)'
<1>1. /\ io \in Nat /\ io' \in Nat /\ s \in Sessions
      /\ serverSeq[s] \in SeqNum /\ hold[s].len \in Nat /\ Down(s)' = Down(s)
  BY DEF TypeInv, TypeOK, Uninterrupted, Sessions, Down
<1>2. Room(K, io) <= Room(K, io') /\ Room(K, io) \in Nat /\ Room(K, io') \in Nat
  <2> PICK m, n : m = io /\ n = io'
    OBVIOUS
  <2>1. Room(K, m) <= Room(K, n) /\ Room(K, m) \in Nat /\ Room(K, n) \in Nat
    BY <1>1, RoomGrows
  <2> QED BY <2>1
<1>3. Down(s) \in Nat /\ serverSeq[s] \in Nat
  BY <1>1 DEF Down, SeqNum
<1>4. PICK d, a, b : d = Down(s) /\ a = Room(K, io) /\ b = Room(K, io')
  OBVIOUS
<1>5. (serverSeq[s] + Down(s) + (IF serverSeq[s] = 0 THEN 1 ELSE 0) <= 1 + Room(K, io))'
  <2>1. serverSeq[s] + d + (IF serverSeq[s] = 0 THEN 1 ELSE 0) <= 1 + a
    BY <1>4 DEF TraceOf
  <2>2. serverSeq[s] + d + (IF serverSeq[s] = 0 THEN 1 ELSE 0) <= 1 + b
    BY <1>2, <1>3, <1>4, <2>1
  <2> QED BY <1>1, <1>4, <2>2
<1> QED BY <1>1, <1>5 DEF TraceOf

\* No step but a frame shows in a conversation.
LEMMA FramesOther ==
  ASSUME TypeInv, TypeInv', SlotInv, [Next]_vars, faults' = 0,
         \A s \in Sessions, o \in Outcomes : ~Emit(s, o), NEW t \in Sessions
  PROVE  FramesOf(t, file') = FramesOf(t, file)
<1>0. file \in Seq(Block) /\ file' \in Seq(Block)
  BY DEF TypeInv, TypeOK
<1> PICK old, new : old = file /\ new = file'
  OBVIOUS
<1>1. ASSUME NEW l \in Listeners, NEW o \in Outcomes, NewInterface(l, o)
      PROVE  FramesOf(t, new) = FramesOf(t, old)
  <2>1. PICK b \in Block : file' = Append(file, b) /\ b.owner = l
    BY <1>1, NewInterfaceStep
  <2>2. l # t
    BY CaptureAssumption
  <2>3. Extended(old, b, new)
    BY <2>1 DEF Extended
  <2> QED BY <1>0, <2>1, <2>2, <2>3, FramesNext
<1>2. ASSUME NEW s \in Sessions, NEW c \in Notes, Comment(s, c)
      PROVE  FramesOf(t, new) = FramesOf(t, old)
  <2>1. CASE file' = file
    BY <2>1
  <2>2. CASE lastOptions[s] # 0 /\ file' = [file EXCEPT ![lastOptions[s]].note = c]
    <3>1. Len(new) = Len(old) /\ Len(old) \in Nat /\ DOMAIN old = 1 .. Len(old)
      BY <1>0, <2>2
    <3>2. ASSUME NEW i \in 1 .. Len(old)
          PROVE  new[i].owner = old[i].owner /\ FrameIn(new[i]) = FrameIn(old[i])
      <4>1. old[i] \in Block
        BY <1>0
      <4>2. new[i] = old[i] \/ new[i] = [old[i] EXCEPT !.note = c]
        BY <2>2, <3>1
      <4> QED BY <4>1, <4>2 DEF Block, FrameIn
    <3> QED BY <1>0, <3>1, <3>2, FramesSame
  <2> QED BY <1>2, <2>1, <2>2, CommentStep
<1>3. CASE UNCHANGED file
  BY <1>3
<1>4. FramesOf(t, new) = FramesOf(t, old)
  BY <1>1, <1>2, <1>3, QuietStep
<1> QED BY <1>4

\* The steps of a session that write no frame.
LEMMA TraceMoves ==
  ASSUME NEW K, NoWrap(K), TypeInv, TypeInv', LifeInv, faults = 0, faults' = 0, TraceInv(K),
         NEW s \in Uninterrupted, FramesOf(s, file') = FramesOf(s, file),
         \/ NewSession(s)
         \/ \E up \in BOOLEAN, n \in Lens : SocketIO(s, up, n)
         \/ WriteStart(s) \/ HandlerClose(s) \/ Finish(s)
         \/ HandshakeStart(s) \/ HandshakeEnd(s) \/ Interrupt(s) \/ InterruptClose(s)
  PROVE  TraceOf(K, s)'
<1>0. /\ K \in Nat /\ TraceOf(K, s) /\ io \in Nat
      /\ s \in Tcp /\ s \in Sessions /\ s \notin Udp /\ Free # s
      /\ state \in [Sessions -> {"absent", "open", "shut", "closed", "done"}]
      /\ hold \in [Sessions -> [fromClient : BOOLEAN, len : Nat]]
      /\ synSent \in [Sessions -> BOOLEAN]
      /\ serverSeq[s] \in Nat /\ Down(s) \in Nat
      /\ mu = Free <=> step = Idle
  <2>1. s \in Tcp /\ s \in Sessions /\ s \notin Udp /\ Free # s
    BY SessionKinds DEF Uninterrupted
  <2>2. /\ state \in [Sessions -> {"absent", "open", "shut", "closed", "done"}]
        /\ hold \in [Sessions -> [fromClient : BOOLEAN, len : Nat]]
        /\ synSent \in [Sessions -> BOOLEAN]
        /\ serverSeq[s] \in SeqNum /\ (mu = Free <=> step = Idle) /\ io \in Nat
    BY <2>1 DEF TypeInv, TypeOK
  <2>3. serverSeq[s] \in Nat /\ Down(s) \in Nat
    BY <2>1, <2>2 DEF Down, SeqNum
  <2> QED BY <2>1, <2>2, <2>3 DEF TraceInv, NoWrap
<1>k. ASSUME UNCHANGED <<clientSeq, serverSeq, synSent, hold, mu, step, io>>, Ended(s) => Ended(s)'
      PROVE  TraceOf(K, s)'
  BY <1>0, <1>k, TraceKept
<1>c. ASSUME CloseStart(s), UNCHANGED <<hold, io>>, Ended(s) => Ended(s)'
      PROVE  TraceOf(K, s)'
  <2>1. /\ mu = Free /\ UNCHANGED <<clientSeq, serverSeq, synSent>>
        /\ \/ synSent[s] /\ mu' = s /\ step' = "fin"
           \/ UNCHANGED lockVars
    BY <1>0, <1>c, LifeClose
  <2>2. CASE UNCHANGED lockVars
    BY <1>c, <1>k, <2>1, <2>2 DEF lockVars
  <2>3. CASE synSent[s] /\ mu' = s /\ step' = "fin"
    <3>1. Down(s)' = Down(s)
      BY <1>c DEF Down
    <3>2. Room(K, io)' = Room(K, io)
      BY <1>c
    <3> QED BY <1>0, <1>c, <2>1, <2>3, <3>1, <3>2 DEF TraceOf
  <2> QED BY <2>1, <2>2, <2>3
<1>1. CASE NewSession(s)
  BY <1>0, <1>k, <1>1 DEF NewSession, Ended, seqVars, lockVars
<1>2. ASSUME NEW up \in BOOLEAN, NEW n \in Lens, SocketIO(s, up, n) PROVE TraceOf(K, s)'
  <2>1. /\ hold[s] = NoIO /\ mu # s /\ io' = io + 1
        /\ hold'[s] = [fromClient |-> up, len |-> n]
        /\ UNCHANGED <<clientSeq, serverSeq, synSent, mu, step, state>>
    BY <1>0, <1>2 DEF SocketIO, seqVars, lockVars
  <2>2. /\ Down(s) = 0 /\ Down(s)' \in Nat /\ Down(s)' <= K
    BY <1>0, <2>1, CaptureAssumption DEF Down, NoIO, NoWrap
  <2> PICK m : m = io
    OBVIOUS
  <2>3. Room(K, m + 1) = Room(K, m) + K /\ Room(K, m) \in Nat
    BY <1>0, RoomNext
  <2>4. Room(K, io)' = Room(K, io) + K /\ Room(K, io) \in Nat
    BY <2>1, <2>3
  <2>5. serverSeq[s] + Down(s) + (IF serverSeq[s] = 0 THEN 1 ELSE 0) <= 1 + Room(K, io)
    BY <1>0 DEF TraceOf
  <2>6. (serverSeq[s] + Down(s) + (IF serverSeq[s] = 0 THEN 1 ELSE 0) <= 1 + Room(K, io))'
    BY <1>0, <2>1, <2>2, <2>4, <2>5
  <2>7. hold'[s].len \in Lens
    BY <2>1
  <2> QED BY <1>0, <2>1, <2>6, <2>7 DEF TraceOf, Ended
<1>3. CASE WriteStart(s)
  <2>1. /\ hold[s] # NoIO /\ mu = Free /\ mu' = s /\ step' = FirstFrame(s)
        /\ UNCHANGED <<clientSeq, serverSeq, synSent, hold, io, state>>
    BY <1>3 DEF WriteStart, seqVars, connVars
  <2>2. Down(s)' = Down(s) /\ Room(K, io)' = Room(K, io)
    BY <2>1 DEF Down
  <2>3. step' = IF ~synSent[s] THEN "syn" ELSE "data"
    BY <1>0, <2>1 DEF FirstFrame, AfterSyn, TraceOf
  <2>4. (serverSeq[s] + Down(s) + (IF serverSeq[s] = 0 THEN 1 ELSE 0) <= 1 + Room(K, io))'
    BY <1>0, <2>1, <2>2 DEF TraceOf
  <2>5. CASE synSent[s]
    <3>1. /\ Len(FramesOf(s, file)) >= 3 /\ serverSeq[s] # 0
          /\ ~Conversations!Ended(FramesOf(s, file), FALSE)
          /\ ~Conversations!Ended(FramesOf(s, file), TRUE)
      BY <1>0, <2>1, <2>5 DEF TraceOf
    <3>2. step' = "data"
      BY <2>3, <2>5
    <3>3. Len(FramesOf(s, file)) >= 2
      <4>1. Len(FramesOf(s, file)) \in Nat
        BY FramesTyped DEF TypeInv, TypeOK
      <4> QED BY <3>1, <4>1
    <3> QED BY <1>0, <2>1, <2>4, <2>5, <3>1, <3>2, <3>3 DEF TraceOf, Ended
  <2>6. CASE ~synSent[s]
    BY <1>0, <2>1, <2>3, <2>4, <2>6 DEF TraceOf, Ended
  <2> QED BY <2>5, <2>6
<1>4. CASE HandlerClose(s)
  BY <1>0, <1>c, <1>4 DEF HandlerClose, Ended
<1>5. CASE Finish(s)
  BY <1>0, <1>c, <1>5 DEF Finish, Ended, Uninterrupted
<1>6. CASE HandshakeStart(s) \/ HandshakeEnd(s)
  BY <1>k, <1>6 DEF HandshakeStart, HandshakeEnd, Ended, seqVars, lockVars
<1>7. CASE Interrupt(s) \/ InterruptClose(s)
  BY <1>0, <1>7 DEF Interrupt, InterruptClose, LifeInv, Uninterrupted
<1> QED BY <1>1, <1>2, <1>3, <1>4, <1>5, <1>6, <1>7

\* A step that writes no frame leaves every conversation as it is.
LEMMA TraceOther ==
  ASSUME NEW K, NoWrap(K), TypeInv, TypeInv', SlotInv, LifeInv, TraceInv(K), [Next]_vars, faults' = 0,
         \A s \in Sessions, o \in Outcomes : ~Emit(s, o)
  PROVE  TraceInv(K)' /\ UNCHANGED Traces
<1>0. /\ K \in Nat /\ faults = 0 /\ io \in Nat /\ MaxIO \in Nat
      /\ state \in [Sessions -> {"absent", "open", "shut", "closed", "done"}]
      /\ hold \in [Sessions -> [fromClient : BOOLEAN, len : Nat]]
      /\ \A t \in Uninterrupted : t \in Sessions
      /\ \A t \in Uninterrupted : FramesOf(t, file') = FramesOf(t, file)
  <2>1. faults = 0
    BY OtherStep
  <2>2. \A t \in Uninterrupted : t \in Sessions
    BY DEF Uninterrupted, Sessions
  <2> QED BY <2>1, <2>2, FramesOther, CaptureAssumption DEF NoWrap, TypeInv, TypeOK
<1>1. UNCHANGED Traces
  BY <1>0 DEF Traces
<1>2. io' <= MaxIO /\ io <= io'
  BY <1>0 DEF TraceInv, Next, SessionStep, NewInterface, NewSession, SocketIO, WriteStart,
              HandlerClose, Finish, HandshakeStart, HandshakeEnd, Interrupt, InterruptClose,
              Comment, RunClose, connVars, vars
<1>3. ASSUME NEW t \in Uninterrupted,
             UNCHANGED <<clientSeq[t], serverSeq[t], synSent[t], hold[t]>>,
             Ended(t) => Ended(t)', mu' = t <=> mu = t, mu = t => step' = step
      PROVE  TraceOf(K, t)'
  BY <1>0, <1>2, <1>3, TraceKept DEF TraceInv
<1>4. ASSUME NEW s \in Sessions, NEW t \in Uninterrupted,
             \/ NewSession(s)
             \/ \E up \in BOOLEAN, n \in Lens : SocketIO(s, up, n)
             \/ WriteStart(s) \/ HandlerClose(s) \/ Finish(s)
             \/ HandshakeStart(s) \/ HandshakeEnd(s) \/ Interrupt(s) \/ InterruptClose(s)
      PROVE  TraceOf(K, t)'
  <2>1. CASE t = s
    BY <1>0, <1>4, <2>1, TraceMoves
  <2>2. CASE t # s
    <3>1. /\ UNCHANGED <<hold[t], clientSeq, serverSeq, synSent>>
          /\ state'[t] = state[t]
          /\ UNCHANGED lockVars \/ (mu = Free /\ mu' = s)
      <4> DEFINE Goal == /\ UNCHANGED <<hold[t], clientSeq, serverSeq, synSent>>
                         /\ state'[t] = state[t]
                         /\ UNCHANGED lockVars \/ (mu = Free /\ mu' = s)
      <4>c. ASSUME CloseStart(s), UNCHANGED hold, state'[t] = state[t] PROVE Goal
        BY <1>0, <4>c, LifeClose DEF lockVars
      <4> USE <1>0, <2>2 DEF seqVars, lockVars, connVars
      <4>1. CASE NewSession(s)
        BY <4>1 DEF NewSession
      <4>2. CASE \E up \in BOOLEAN, n \in Lens : SocketIO(s, up, n)
        BY <4>2 DEF SocketIO
      <4>3. CASE WriteStart(s)
        BY <4>3 DEF WriteStart
      <4>4. CASE HandlerClose(s)
        BY <4>c, <4>4 DEF HandlerClose
      <4>5. CASE Finish(s)
        BY <4>c, <4>5 DEF Finish
      <4>6. CASE HandshakeStart(s) \/ HandshakeEnd(s) \/ Interrupt(s)
        BY <4>6 DEF HandshakeStart, HandshakeEnd, Interrupt
      <4>7. CASE InterruptClose(s)
        BY <4>c, <4>7 DEF InterruptClose
      <4> QED BY <1>4, <4>1, <4>2, <4>3, <4>4, <4>5, <4>6, <4>7
    <3>2. Free # t
      BY <1>0, SessionKinds
    <3> QED BY <1>3, <2>2, <3>1, <3>2 DEF Ended, lockVars
  <2> QED BY <2>1, <2>2
<1>5. ASSUME UNCHANGED <<seqVars, lockVars, hold, state>>, NEW t \in Uninterrupted
      PROVE  TraceOf(K, t)'
  BY <1>3, <1>5 DEF Ended, seqVars, lockVars
<1>6. \A t \in Uninterrupted : TraceOf(K, t)'
  BY <1>4, <1>5 DEF Next, SessionStep, NewInterface, Comment, RunClose, vars, connVars
<1> QED BY <1>1, <1>2, <1>6 DEF TraceInv

\* A frame of an uninterrupted connection is the next of its conversation.
LEMMA TraceFrame ==
  ASSUME NEW K, NoWrap(K), TypeInv, TypeInv', LifeInv, LifeInv', TraceInv(K), faults = 0, faults' = 0,
         NEW s \in Uninterrupted, NEW o \in Outcomes, Emit(s, o), o = Whole, UNCHANGED state,
         NEW b \in Block, Extended(file, b, file'), b.owner = s, TcpFrame(s, b)
  PROVE  /\ TraceOf(K, s)'
         /\ Traces' = [Traces EXCEPT ![s] = Append(@, FrameIn(b))]
         /\ Conversations!Next
<1> DEFINE T == FramesOf(s, file)
           f == FrameIn(b)
           new == Append(T, f)
<1>0. /\ s \in Tcp /\ s \in Sessions /\ s \notin Udp /\ Free # s
      /\ K \in Nat /\ io \in Nat /\ file \in Seq(Block) /\ file' = Append(file, b)
      /\ TraceOf(K, s) /\ io <= MaxIO
      /\ clientSeq \in [Sessions -> SeqNum] /\ serverSeq \in [Sessions -> SeqNum]
      /\ synSent \in [Sessions -> BOOLEAN]
  <2>1. s \in Tcp /\ s \in Sessions /\ s \notin Udp /\ Free # s
    BY SessionKinds DEF Uninterrupted
  <2>2. TraceOf(K, s) /\ io <= MaxIO /\ K \in Nat
    BY DEF TraceInv, NoWrap
  <2>3. /\ clientSeq \in [Sessions -> SeqNum] /\ serverSeq \in [Sessions -> SeqNum]
        /\ io \in Nat /\ file \in Seq(Block) /\ synSent \in [Sessions -> BOOLEAN]
    BY DEF TypeInv, TypeOK
  <2> QED BY <2>1, <2>2, <2>3 DEF Extended
<1>1. /\ mu = s /\ io' = io /\ mu' \in {s, Free}
      /\ step = "syn" => /\ b.fromClient = TRUE /\ b.len = 0
                         /\ mu' = s /\ step' = AfterSyn(serverSeq[s]) /\ hold' = hold
      /\ step = "synack" => /\ b.fromClient = FALSE /\ b.len = 0
                            /\ mu' = s /\ step' = "data" /\ hold' = hold
      /\ step = "data" => /\ b.fromClient = hold[s].fromClient /\ b.len = hold[s].len
                          /\ mu' = Free /\ hold' = [hold EXCEPT ![s] = NoIO]
      /\ step = "fin" => b.len = 0 /\ hold' = hold
      /\ step = "finack" => b.len = 0 /\ mu' = Free /\ hold' = hold
  BY <1>0, EmitMoves
<1>2. /\ f \in FrameSet /\ T \in Seq(FrameSet)
      /\ f.fromClient = b.fromClient /\ f.flag = b.flag /\ f.len = b.len
      /\ f.seq = b.seq /\ f.ack = b.ack
      /\ b.fromClient \in BOOLEAN /\ b.seq \in SeqNum /\ b.len \in Nat
  BY <1>0, FramesTyped DEF Block, FrameSet, FrameIn
<1>3. FramesOf(s, file') = new
  BY <1>0, FramesNext
<1>4. Traces' = [Traces EXCEPT ![s] = Append(@, FrameIn(b))]
  <2>1. ASSUME NEW t \in Uninterrupted, t # s PROVE FramesOf(t, file') = FramesOf(t, file)
    BY <1>0, <2>1, FramesNext
  <2>2. Traces[s] = T
    BY DEF Traces
  <2> QED BY <1>3, <2>1, <2>2 DEF Traces
<1> HIDE DEF f, T
<1>5. /\ Len(new) = Len(T) + 1 /\ Len(T) \in Nat
      /\ Conversations!Ended(new, TRUE) <=>
           Conversations!Ended(T, TRUE) \/ (f.flag = "fin" /\ f.fromClient = TRUE)
      /\ Conversations!Ended(new, FALSE) <=>
           Conversations!Ended(T, FALSE) \/ (f.flag = "fin" /\ f.fromClient = FALSE)
  BY <1>2, EndedNext
<1>6. \A up \in BOOLEAN :
        Conversations!Sent(new, up) = IF f.fromClient = up
                                      THEN Wrap(Conversations!Sent(T, up) + Conversations!Span(f))
                                      ELSE Conversations!Sent(T, up)
  BY <1>2, SentNext
<1>7. EndSeq(b) = Wrap(b.seq + Conversations!Span(f))
  <2>1. b.seq + b.len + (IF b.flag = "data" THEN 0 ELSE 1) = b.seq + Conversations!Span(f)
    BY <1>2 DEF Conversations!Span, SeqNum
  <2> QED BY <2>1 DEF EndSeq
\* What the session knows of the conversation before the frame.
<1>8. /\ step \in {"syn", "synack", "data", "fin", "finack"}
      /\ step = "syn" <=> ~synSent[s]
      /\ clientSeq[s] = Conversations!Sent(T, TRUE) /\ serverSeq[s] = Conversations!Sent(T, FALSE)
  <2>1. step \in {"syn", "synack", "data", "fin", "finack"}
    BY <1>0, <1>1 DEF TypeInv, TypeOK, Idle
  <2>2. /\ step = "syn" <=> ~synSent[s]
        /\ ~(Ended(s) /\ ~synSent[s])
    BY <1>0, <1>1 DEF LifeInv
  <2> QED BY <1>0, <2>1, <2>2 DEF TraceOf, T
<1>a. b.flag = IF step = "finack" THEN "fin" ELSE step
  BY DEF TcpFrame
<1>9. f = [fromClient |-> b.fromClient, flag |-> b.flag, seq |-> Conversations!Sent(T, b.fromClient),
           ack |-> Conversations!Sent(T, ~b.fromClient), len |-> b.len]
  <2>1. /\ b.seq = Numbers(s, b.fromClient).seq /\ b.ack = Numbers(s, b.fromClient).ack
    BY DEF TcpFrame
  <2>2. /\ b.seq = Conversations!Sent(T, b.fromClient)
        /\ b.ack = Conversations!Sent(T, ~b.fromClient)
    BY <1>2, <1>8, <2>1 DEF Numbers
  <2> QED BY <2>2 DEF f, FrameIn
<1>10. ASSUME NEW up, NEW flag, NEW n, b.fromClient = up, b.flag = flag, b.len = n
       PROVE  Conversations!Frame(s, up, flag, n)
  <2>1. Traces[s] = T
    BY DEF Traces, T
  <2> QED BY <1>4, <1>9, <1>10, <2>1 DEF Conversations!Frame, f
<1>11. /\ clientSeq'[s] = Conversations!Sent(new, TRUE)
       /\ step # "finack" => serverSeq'[s] = Conversations!Sent(new, FALSE)
  <2>1. b.seq = Conversations!Sent(T, b.fromClient)
    BY <1>2, <1>9
  <2>2. CASE b.fromClient = TRUE
    BY <1>0, <1>2, <1>6, <1>7, <1>8, <2>1, <2>2 DEF TcpFrame
  <2>3. CASE b.fromClient = FALSE
    BY <1>0, <1>2, <1>6, <1>7, <1>8, <2>1, <2>3 DEF TcpFrame
  <2> QED BY <1>2, <2>2, <2>3
\* The room left to the server's counter.
<1>12. /\ serverSeq[s] \in Nat /\ Down(s) \in Nat /\ Room(K, io) \in Nat
       /\ serverSeq[s] + Down(s) + (IF serverSeq[s] = 0 THEN 1 ELSE 0) <= 1 + Room(K, io)
       /\ Room(K, io)' = Room(K, io) /\ Room(K, io) + 1 < SeqSpace /\ SeqSpace \in Nat
  <2>1. hold[s].len \in Nat
    BY <1>0 DEF TypeInv, TypeOK
  <2>2. MaxIO \in Nat /\ SeqSpace \in Nat
    BY CaptureAssumption
  <2> PICK n : n = io
    OBVIOUS
  <2>3. Room(K, n) \in Nat /\ Room(K, MaxIO) \in Nat /\ Room(K, n) <= Room(K, MaxIO)
    BY <1>0, <2>2, RoomGrows
  <2> QED BY <1>0, <1>1, <2>1, <2>2, <2>3 DEF TraceOf, NoWrap, Down, SeqNum
<1>13. \A n \in Nat : n < SeqSpace => Wrap(n) = n
  BY CaptureAssumption DEF Wrap
<1>14. /\ TraceOf(K, s)' <=>
            /\ clientSeq'[s] = Conversations!Sent(new, TRUE)
            /\ serverSeq'[s] = Conversations!Sent(new, FALSE) \/ (Ended(s)' /\ ~synSent'[s])
            /\ ~synSent'[s] /\ ~Ended(s)' => new = <<>>
            /\ mu' = s /\ step' = "synack" => Len(new) = 1 /\ serverSeq'[s] = 0
            /\ mu' = s /\ step' = "data" => Len(new) >= 2
            /\ synSent'[s] /\ ~(mu' = s /\ step' \in {"synack", "data"}) => Len(new) >= 3
            /\ synSent'[s] /\ ~(mu' = s /\ step' = "synack") => serverSeq'[s] # 0
            /\ synSent'[s] => /\ ~Conversations!Ended(new, FALSE)
                              /\ Conversations!Ended(new, TRUE) <=> mu' = s /\ step' = "finack"
            /\ hold'[s] # NoIO => hold'[s].len \in Lens
            /\ mu' = s /\ step' \in {"syn", "synack", "data"} => hold'[s] # NoIO
            /\ serverSeq'[s] + Down(s)' + (IF serverSeq'[s] = 0 THEN 1 ELSE 0) <= 1 + Room(K, io)'
  BY <1>3 DEF TraceOf
<1> HIDE DEF new
<1>b. Traces[s] = T /\ s \in Uninterrupted
  BY DEF Traces, T
<1>c. ASSUME Conversations!Syn(s) \/ Conversations!SynAck(s)
             \/ (\E up \in BOOLEAN, n \in Lens : Conversations!Data(s, up, n))
             \/ Conversations!Fin(s) \/ Conversations!FinAck(s)
      PROVE  Conversations!Next
  BY <1>b, <1>c DEF Conversations!Next
<1>d. /\ synSent' = [synSent EXCEPT ![s] = (step # "finack")]
      /\ serverSeq' = IF b.fromClient \/ step = "finack" THEN serverSeq
                      ELSE [serverSeq EXCEPT ![s] = EndSeq(b)]
      /\ Conversations!Span(f) = b.len + IF b.flag = "data" THEN 0 ELSE 1
      /\ step = "fin" <=> mu' = s /\ step' = "finack"
      /\ step = "fin" => b.fromClient
      /\ step = "finack" => ~b.fromClient
  BY <1>2 DEF TcpFrame, Conversations!Span
<1>e. b.seq = IF b.fromClient THEN clientSeq[s] ELSE serverSeq[s]
  BY DEF TcpFrame, Numbers
<1>15. CASE step = "syn"
  <2>1. T = <<>> /\ hold[s] # NoIO
    <3>1. ~Ended(s) /\ ~synSent[s]
      BY <1>0, <1>1, <1>8, <1>15 DEF LifeInv
    <3> QED BY <1>0, <1>1, <1>15, <3>1 DEF TraceOf, T
  <2>2. /\ Len(T) = 0 /\ serverSeq[s] = 0 /\ ~Conversations!Ended(T, TRUE) /\ ~Conversations!Ended(T, FALSE)
    BY <1>8, <2>1, SentNothing, EndedNothing
  <2>3. /\ step' = "synack" /\ mu' = s /\ hold' = hold /\ synSent'[s] = TRUE /\ serverSeq'[s] = 0
        /\ b.fromClient = TRUE /\ b.flag = "syn" /\ b.len = 0 /\ hold'[s] = hold[s]
    BY <1>0, <1>1, <1>a, <1>d, <1>15, <2>2 DEF AfterSyn
  <2>4. Conversations!Next
    BY <1>b, <1>c, <1>10, <2>1, <2>3 DEF Conversations!Syn
  <2>5. Down(s)' = Down(s) /\ (hold[s] # NoIO => hold[s].len \in Lens)
    BY <1>0, <2>3 DEF Down, TraceOf
  <2>6. /\ ~Conversations!Ended(new, TRUE) /\ ~Conversations!Ended(new, FALSE) /\ Len(new) = 1
    <3>1. Len(new) = 1
      BY <1>5, <2>2
    <3>2. f.flag # "fin"
      BY <1>2, <2>3
    <3> QED BY <1>5, <2>2, <3>1, <3>2
  <2>7. serverSeq'[s] = Conversations!Sent(new, FALSE)
    BY <1>11, <1>15
  <2>8. TraceOf(K, s)'
    BY <1>11, <1>12, <1>14, <2>1, <2>2, <2>3, <2>5, <2>6, <2>7
  <2> QED BY <1>4, <2>4, <2>8
<1>16. CASE step = "synack"
  <2>1. /\ Len(T) = 1 /\ serverSeq[s] = 0 /\ hold[s] # NoIO /\ hold[s].len \in Lens /\ synSent[s]
        /\ ~Conversations!Ended(T, TRUE) /\ ~Conversations!Ended(T, FALSE)
    BY <1>0, <1>1, <1>8, <1>16 DEF TraceOf, T
  <2>2. /\ step' = "data" /\ mu' = s /\ hold' = hold /\ synSent'[s] = TRUE
        /\ b.fromClient = FALSE /\ b.flag = "synack" /\ b.len = 0 /\ hold'[s] = hold[s]
    BY <1>0, <1>1, <1>a, <1>d, <1>16
  <2>3. serverSeq'[s] = 1
    <3>1. b.seq = 0 /\ Conversations!Span(f) = 1
      BY <1>d, <1>e, <2>1, <2>2
    <3>2. EndSeq(b) = 1
      BY <1>7, <1>12, <1>13, <3>1
    <3> QED BY <1>0, <1>d, <1>16, <2>2, <3>2
  <2>4. Conversations!Next
    BY <1>b, <1>c, <1>10, <2>1, <2>2 DEF Conversations!SynAck
  <2>5. Down(s)' = Down(s)
    BY <2>2 DEF Down
  <2>6. /\ ~Conversations!Ended(new, TRUE) /\ ~Conversations!Ended(new, FALSE) /\ Len(new) = 2
    <3>1. Len(new) = 2
      BY <1>5, <2>1
    <3>2. f.flag # "fin"
      BY <1>2, <2>2
    <3> QED BY <1>5, <2>1, <3>1, <3>2
  <2>7. serverSeq'[s] = Conversations!Sent(new, FALSE)
    BY <1>11, <1>16
  <2>8. TraceOf(K, s)'
    <3>1. serverSeq'[s] + Down(s)' + (IF serverSeq'[s] = 0 THEN 1 ELSE 0) <= 1 + Room(K, io)'
      BY <1>12, <2>1, <2>3, <2>5
    <3>2. Len(new) >= 2
      BY <2>6
    <3>3. serverSeq'[s] # 0
      BY <2>3
    <3>4. clientSeq'[s] = Conversations!Sent(new, TRUE)
      BY <1>11
    <3>5. hold'[s] # NoIO /\ hold'[s].len \in Lens
      BY <2>1, <2>2
    <3> QED BY <1>14, <2>2, <2>6, <2>7, <3>1, <3>2, <3>3, <3>4, <3>5
  <2> QED BY <1>4, <2>4, <2>8
<1>17. CASE step = "data"
  <2>1. /\ Len(T) >= 2 /\ hold[s] # NoIO /\ hold[s].len \in Lens /\ synSent[s] /\ serverSeq[s] # 0
        /\ ~Conversations!Ended(T, TRUE) /\ ~Conversations!Ended(T, FALSE)
    BY <1>0, <1>1, <1>8, <1>17 DEF TraceOf, T
  <2>2. /\ mu' = Free /\ hold'[s] = NoIO /\ synSent'[s] = TRUE
        /\ b.fromClient = hold[s].fromClient /\ b.flag = "data" /\ b.len = hold[s].len
    BY <1>0, <1>1, <1>a, <1>d, <1>17 DEF TypeInv, TypeOK
  <2>3. b.len \in Nat \ {0} /\ b.len \in Lens
    BY <2>1, <2>2, CaptureAssumption
  <2>4. Down(s)' = 0
    BY <2>2 DEF Down, NoIO
  <2>5. serverSeq'[s] # 0 /\ serverSeq'[s] \in Nat /\ serverSeq'[s] <= 1 + Room(K, io)
    <3>1. CASE b.fromClient = TRUE
      BY <1>12, <1>d, <2>1, <3>1
    <3>2. CASE b.fromClient = FALSE
      <4>1. Down(s) = b.len /\ Conversations!Span(f) = b.len /\ b.seq = serverSeq[s]
        BY <1>d, <1>e, <2>2, <2>3, <3>2 DEF Down
      <4>2. EndSeq(b) = serverSeq[s] + b.len
        BY <1>7, <1>12, <1>13, <2>1, <2>3, <4>1
      <4>3. serverSeq'[s] = serverSeq[s] + b.len
        BY <1>0, <1>d, <1>17, <3>2, <4>2
      <4> QED BY <1>12, <2>1, <2>3, <4>1, <4>3
    <3> QED BY <1>2, <3>1, <3>2
  <2>6. Conversations!Next
    <3>1. Conversations!Data(s, b.fromClient, b.len)
      BY <1>b, <1>10, <2>1, <2>2 DEF Conversations!Data
    <3> QED BY <1>2, <1>c, <2>3, <3>1
  <2>7. /\ ~Conversations!Ended(new, TRUE) /\ ~Conversations!Ended(new, FALSE) /\ Len(new) >= 3
    <3>1. Len(new) >= 3
      BY <1>5, <2>1
    <3>2. f.flag # "fin"
      BY <1>2, <2>2
    <3> QED BY <1>5, <2>1, <3>1, <3>2
  <2>8. serverSeq'[s] = Conversations!Sent(new, FALSE)
    BY <1>11, <1>17
  <2>9. TraceOf(K, s)'
    <3>1. serverSeq'[s] + Down(s)' + (IF serverSeq'[s] = 0 THEN 1 ELSE 0) <= 1 + Room(K, io)'
      BY <1>12, <2>4, <2>5
    <3> QED BY <1>0, <1>11, <1>14, <2>2, <2>5, <2>7, <2>8, <3>1
  <2> QED BY <1>4, <2>6, <2>9
<1>18. CASE step = "fin"
  <2>1. /\ Len(T) >= 3 /\ synSent[s] /\ serverSeq[s] # 0
        /\ ~Conversations!Ended(T, TRUE) /\ ~Conversations!Ended(T, FALSE)
        /\ hold[s] # NoIO => hold[s].len \in Lens
    BY <1>0, <1>1, <1>8, <1>18 DEF TraceOf, T
  <2>2. /\ mu' = s /\ step' = "finack" /\ hold' = hold /\ synSent'[s] = TRUE
        /\ b.fromClient = TRUE /\ b.flag = "fin" /\ b.len = 0 /\ serverSeq'[s] = serverSeq[s]
    BY <1>0, <1>1, <1>2, <1>a, <1>d, <1>18
  <2>3. Down(s)' = Down(s)
    BY <2>2 DEF Down
  <2>4. Conversations!Next
    BY <1>b, <1>c, <1>10, <2>1, <2>2 DEF Conversations!Fin
  <2>5. /\ Conversations!Ended(new, TRUE) /\ ~Conversations!Ended(new, FALSE) /\ Len(new) >= 3
    <3>1. Len(new) >= 3
      BY <1>5, <2>1
    <3>2. f.flag = "fin" /\ f.fromClient = TRUE
      BY <1>2, <2>2
    <3> QED BY <1>5, <2>1, <3>1, <3>2
  <2>6. serverSeq'[s] = Conversations!Sent(new, FALSE)
    BY <1>11, <1>18
  <2>7. TraceOf(K, s)'
    BY <1>11, <1>12, <1>14, <2>1, <2>2, <2>3, <2>5, <2>6
  <2> QED BY <1>4, <2>4, <2>7
<1>19. CASE step = "finack"
  <2>1. /\ synSent[s] /\ Conversations!Ended(T, TRUE) /\ ~Conversations!Ended(T, FALSE)
        /\ hold[s] # NoIO => hold[s].len \in Lens
    BY <1>0, <1>1, <1>8, <1>19 DEF TraceOf, T
  <2>2. /\ mu' = Free /\ hold' = hold /\ synSent'[s] = FALSE
        /\ b.fromClient = FALSE /\ b.flag = "fin" /\ b.len = 0 /\ serverSeq'[s] = serverSeq[s]
    BY <1>0, <1>1, <1>2, <1>a, <1>d, <1>19
  <2>3. Down(s)' = Down(s)
    BY <2>2 DEF Down
  <2>4. Conversations!Next
    BY <1>b, <1>c, <1>10, <2>1, <2>2 DEF Conversations!FinAck
  <2>5. Ended(s)'
    BY <1>0, <1>1, <1>19 DEF LifeInv, Ended, Uninterrupted
  <2>6. TraceOf(K, s)'
    BY <1>0, <1>11, <1>12, <1>14, <2>1, <2>2, <2>3, <2>5
  <2> QED BY <1>4, <2>4, <2>6
<1> QED BY <1>4, <1>8, <1>15, <1>16, <1>17, <1>18, <1>19

LEMMA TraceEmit ==
  ASSUME NEW K, NoWrap(K), TypeInv, TypeInv', LifeInv, LifeInv', TraceInv(K), faults' = 0,
         NEW s \in Sessions, NEW o \in Outcomes, Emit(s, o)
  PROVE  TraceInv(K)' /\ (UNCHANGED Traces \/ Conversations!Next)
<1>1. faults = 0 /\ o = Whole /\ mu = s /\ UNCHANGED state /\ Framed(s)
  BY EmitFramed
<1>2. PICK b \in Block :
        /\ file' = Append(file, b) /\ b.owner = s
        /\ s \in Tcp => TcpFrame(s, b)
        /\ s \in Udp => UNCHANGED seqVars
  BY <1>1 DEF Framed
<1>3. Extended(file, b, file') /\ file \in Seq(Block) /\ K \in Nat /\ io \in Nat
  BY <1>2 DEF Extended, TypeInv, TypeOK, NoWrap
<1>4. /\ io' = io /\ mu' \in {s, Free}
      /\ \A t \in Sessions \ {s} : hold'[t] = hold[t]
  BY <1>1, <1>2, EmitMoves
<1>5. ASSUME NEW t \in Uninterrupted, t # s
      PROVE  TraceOf(K, t)' /\ FramesOf(t, file') = FramesOf(t, file)
  <2>1. t \in Sessions /\ Free # t
    BY SessionKinds DEF Uninterrupted
  <2>2. FramesOf(t, file') = FramesOf(t, file)
    BY <1>2, <1>3, <1>5, FramesNext
  <2>3. UNCHANGED <<clientSeq[t], serverSeq[t], synSent[t], hold[t]>>
    <3>1. CASE s \in Tcp
      BY <1>2, <1>4, <1>5, <2>1, <3>1 DEF TcpFrame, TypeInv, TypeOK
    <3>2. CASE s \in Udp
      BY <1>2, <1>4, <1>5, <2>1, <3>2 DEF seqVars
    <3> QED BY <3>1, <3>2 DEF Sessions
  <2>4. TraceOf(K, t)
    BY <1>1 DEF TraceInv
  <2> QED BY <1>1, <1>3, <1>4, <1>5, <2>1, <2>2, <2>3, <2>4, TraceKept DEF Ended
<1>6. CASE s \in Uninterrupted
  <2>1. TcpFrame(s, b)
    BY <1>2, <1>6 DEF Uninterrupted
  <2>2. TraceOf(K, s)' /\ Conversations!Next
    BY <1>1, <1>2, <1>3, <1>6, <2>1, TraceFrame
  <2> QED BY <1>4, <1>5, <2>2 DEF TraceInv
<1>7. CASE s \notin Uninterrupted
  <2>1. UNCHANGED Traces
    BY <1>5, <1>7 DEF Traces
  <2> QED BY <1>4, <1>5, <1>7, <2>1 DEF TraceInv
<1> QED BY <1>6, <1>7

LEMMA TraceStep ==
  ASSUME NEW K, NoWrap(K), TypeInv, SlotInv, LifeInv, TraceInv(K), [Next]_vars
  PROVE  TraceInv(K)' /\ (faults' = 0 => UNCHANGED Traces \/ Conversations!Next)
<1>0. TypeInv' /\ LifeInv'
  BY TypeStep, LifeStep
<1>1. CASE faults' = 0
  <2>1. ASSUME NEW s \in Sessions, NEW o \in Outcomes, Emit(s, o)
        PROVE  TraceInv(K)' /\ (UNCHANGED Traces \/ Conversations!Next)
    BY <1>0, <1>1, <2>1, TraceEmit
  <2>2. CASE \A s \in Sessions, o \in Outcomes : ~Emit(s, o)
    BY <1>0, <1>1, <2>2, TraceOther
  <2> QED BY <2>1, <2>2
<1>2. CASE faults' # 0
  <2>1. io' <= MaxIO
    <3>1. io \in Nat /\ MaxIO \in Nat /\ io <= MaxIO
      BY CaptureAssumption DEF TypeInv, TypeOK, TraceInv
    <3>2. ASSUME NEW s \in Sessions, NEW o \in Outcomes, Emit(s, o) PROVE io' = io
      BY <3>2 DEF Emit, EmitSyn, EmitSynAck, EmitTcpData, EmitUdpData, EmitFin, EmitFinAck, connVars
    <3> QED BY <3>1, <3>2 DEF Next, SessionStep, NewInterface, NewSession, SocketIO, WriteStart,
              HandlerClose, Finish, HandshakeStart, HandshakeEnd, Interrupt, InterruptClose,
              Comment, RunClose, connVars, vars
  <2> QED BY <1>2, <2>1 DEF TraceInv
<1> QED BY <1>1, <1>2

\* Whatever the other sessions do, the frames of a connection whose handshake is
\* not interrupted are appended as one TCP conversation until a write fails, for
\* any number of connections and any sizes that do not wrap the server's counter.
THEOREM ConversationsRefineHolds ==
  ASSUME NEW K, NoWrap(K) PROVE Spec => ConversationsRefine
<1> DEFINE Inv == TypeInv /\ SlotInv /\ LifeInv /\ TraceInv(K)
           Step == faults' = 0 => UNCHANGED Traces \/ Conversations!Next
<1>1. Init => Inv /\ Conversations!Init
  BY TypeInit, SlotInit, LifeInit, TraceInit
<1>2. Inv /\ [Next]_vars => Inv' /\ [Step]_vars
  BY TypeStep, SlotStep, LifeStep, TraceStep
<1> HIDE DEF Inv, Step
<1>3. Spec => Conversations!Init /\ [][Step]_vars
  BY <1>1, <1>2, PTL DEF Spec
<1> QED BY <1>3 DEF ConversationsRefine, Step

=============================================================================
