--------------------------- MODULE CaptureProofs ---------------------------
(***************************************************************************)
(* Proofs about Capture for any number of listeners, connections, flows,   *)
(* notes and failing writes, and for any modulus of the sequence numbers.  *)
(*                                                                         *)
(* Every block reaches the file through Epb, NewInterface or Comment; the  *)
(* first lemmas say what each of the three does to the file, and the       *)
(* inductive steps then only need to know which of them an action calls.   *)
(***************************************************************************)
EXTENDS Capture, FiniteSetTheorems, TLAPS

-----------------------------------------------------------------------------
(* Type correctness *)

\* A session that exists was accepted on a declared interface, and only a
\* session that exists moves bytes, holds the lock or runs a handshake.
Accepted ==
  \A s \in Sessions :
    /\ state[s] # "absent" => ifaceOf[ListenerOf[s]] \in Nat
    /\ state[s] = "absent" => /\ hold[s] = NoIO
                              /\ mu # s
                              /\ handshake[s] = "none"

TypeInv == TypeOK /\ Accepted

\* Sequence numbers stay below their modulus (session.go: uint32 arithmetic).
LEMMA WrapType == ASSUME NEW n \in Nat PROVE Wrap(n) \in SeqNum
BY CaptureAssumption, SMT DEF Wrap, SeqNum

\* What Session.epb appends is a block, and the slot it remembers is in the file.
LEMMA EpbType ==
  ASSUME TypeOK,
         NEW s \in Sessions, NEW up \in BOOLEAN, NEW flag \in Flags,
         NEW n \in Nat, NEW seq \in SeqNum, NEW ack \in SeqNum, NEW o \in Outcomes,
         ifaceOf[ListenerOf[s]] \in Nat,
         Epb(s, up, flag, n, seq, ack, o)
  PROVE  /\ file' \in Seq(Block)
         /\ packets' \in Nat /\ faults' \in Nat
         /\ lastOptions' \in [Sessions -> Nat]
         /\ \A t \in Sessions : lastOptions'[t] <= Len(file')
         /\ pending' \in [Sessions -> Notes \cup {NoNote}]
<1> DEFINE note == IF o >= NoTrailer THEN pending[s] ELSE NoNote
           b == PacketBlock(s, up, flag, n, seq, ack, o, note)
<1>1. b \in Block
  BY DEF TypeOK, PacketBlock, Block
<1>2. o \in Nat /\ (o = Nothing => o < NoSlot)
  BY DEF Outcomes, Nothing, Whole, NoSlot
<1>3. file' = IF o = Nothing THEN file ELSE Append(file, b)
  BY DEF Epb, Appended, PacketBlock
<1>4. /\ file' \in Seq(Block)
      /\ Len(file') \in Nat /\ Len(file) <= Len(file')
      /\ o # Nothing => Len(file') = Len(file) + 1
  <2> HIDE DEF b
  <2> QED BY <1>1, <1>3 DEF TypeOK
<1>5. packets' \in Nat /\ faults' \in Nat
  BY DEF Epb, Counted, Faulty, TypeOK
<1>6. /\ lastOptions' \in [Sessions -> Nat]
      /\ \A t \in Sessions : lastOptions'[t] <= Len(file')
  <2>1. CASE o >= NoSlot
    <3>1. lastOptions' = [lastOptions EXCEPT ![s] = Len(file) + 1]
      BY <2>1 DEF Epb, SlotOffset
    <3>2. lastOptions \in [Sessions -> Nat] /\ Len(file) \in Nat /\ o # Nothing
      BY <1>2, <2>1 DEF TypeOK, Nothing, NoSlot
    <3>3. \A t \in Sessions : lastOptions[t] <= Len(file)
      BY DEF TypeOK
    <3> QED BY <1>4, <3>1, <3>2, <3>3
  <2>2. CASE ~(o >= NoSlot)
    BY <1>4, <2>2 DEF Epb, SlotOffset, TypeOK
  <2> QED BY <2>1, <2>2
<1>7. pending' \in [Sessions -> Notes \cup {NoNote}]
  BY DEF Epb, PendingAfter, TypeOK
<1> QED BY <1>4, <1>5, <1>6, <1>7

\* How far a slot written at a torn slot may reach: the next block at least, and
\* past short blocks only.
LEMMA OverrunType ==
  ASSUME TypeOK, NEW at \in DOMAIN file, NEW last \in Overrun(at)
  PROVE  /\ last \in DOMAIN file /\ at <= last
         /\ \A j \in (at + 1) .. (last - 1) : Short(file[j])
<1>1. file \in Seq(Block) /\ Len(file) \in Nat /\ at \in 1 .. Len(file)
  BY DEF TypeOK
<1>2. CASE at = Len(file)
  BY <1>1, <1>2 DEF Overrun
<1>3. CASE at # Len(file)
  BY <1>1, <1>3 DEF Overrun
<1> QED BY <1>2, <1>3

\* Filling in a comment slot changes no length and makes no ill-formed block: a
\* block gets the note, or is overwritten, or stays as it was.
LEMMA AnnotatedType ==
  ASSUME TypeOK, NEW s \in Sessions, NEW c \in Notes, lastOptions[s] # 0,
         NEW last \in Overrun(lastOptions[s])
  PROVE  /\ lastOptions[s] \in DOMAIN file
         /\ Annotated(s, c, last) \in Seq(Block)
         /\ Len(Annotated(s, c, last)) = Len(file)
         /\ \A i \in DOMAIN file :
              \/ Annotated(s, c, last)[i] = file[i]
              \/ /\ i = lastOptions[s] /\ ~file[i].hit
                 /\ Annotated(s, c, last)[i] = [file[i] EXCEPT !.note = c]
              \/ /\ file[lastOptions[s]].end = NoSlot /\ i \in (lastOptions[s] + 1) .. last
                 /\ Annotated(s, c, last)[i] = Overwritten(file[i])
<1> DEFINE at == lastOptions[s]
           new == Annotated(s, c, last)
<1>1. at \in Nat \ {0} /\ at <= Len(file) /\ file \in Seq(Block)
  BY DEF TypeOK
<1>2. at \in DOMAIN file /\ file[at] \in Block /\ DOMAIN file = 1 .. Len(file) /\ Len(file) \in Nat
  BY <1>1
<1>3. CASE file[at].end # NoSlot
  <2>1. new = [file EXCEPT ![at] = IF @.hit THEN @ ELSE [@ EXCEPT !.note = c]]
    BY <1>3 DEF Annotated
  <2>2. [file[at] EXCEPT !.note = c] \in Block
    BY <1>2 DEF Block
  <2>3. \A i \in DOMAIN file : new[i] = IF i = at /\ ~file[i].hit THEN [file[i] EXCEPT !.note = c]
                                        ELSE file[i]
    BY <1>1, <1>2, <2>1
  <2>4. new \in Seq(Block) /\ Len(new) = Len(file)
    BY <1>1, <1>2, <2>1, <2>2
  <2> HIDE DEF new
  <2> QED BY <1>2, <2>3, <2>4 DEF new
<1>4. CASE file[at].end = NoSlot
  <2>1. new = [i \in DOMAIN file |-> IF i \in (at + 1) .. last THEN Overwritten(file[i]) ELSE file[i]]
    BY <1>4 DEF Annotated
  <2>2. \A i \in DOMAIN file : file[i] \in Block /\ Overwritten(file[i]) \in Block
    <3>1. \A i \in DOMAIN file : file[i] \in Block
      BY <1>1
    <3> QED BY <3>1 DEF Block, Overwritten
  <2>3. \A i \in DOMAIN file : new[i] = IF i \in (at + 1) .. last THEN Overwritten(file[i])
                                        ELSE file[i]
    BY <2>1
  <2>4. new \in [1 .. Len(file) -> Block]
    BY <1>2, <2>1, <2>2
  <2> HIDE DEF new
  <2>5. new \in Seq(Block) /\ Len(new) = Len(file)
    BY <1>2, <2>4
  <2> QED BY <1>2, <1>4, <2>3, <2>5 DEF new
<1> QED BY <1>3, <1>4

\* What a comment that changes the file does to it.
LEMMA CommentFile ==
  ASSUME TypeOK, NEW s \in Sessions, NEW c \in Notes, Comment(s, c), file' # file
  PROVE  /\ lastOptions[s] # 0 /\ UNCHANGED <<lastOptions, pending, packets, ifaces, ifaceOf>>
         /\ \E last \in Overrun(lastOptions[s]) : file' = Annotated(s, c, last)
         /\ file' \in Seq(Block) /\ Len(file') = Len(file) /\ DOMAIN file' = DOMAIN file
         /\ \A i \in DOMAIN file : /\ file'[i].kind = file[i].kind
                                   /\ file'[i].owner = file[i].owner
                                   /\ file'[i].iface = file[i].iface
                                   /\ file'[i].end = file[i].end
<1>1. lastOptions[s] # 0 /\ UNCHANGED <<lastOptions, pending, packets, ifaces, ifaceOf>>
  BY DEF Comment, ifaceVars
<1>2. PICK last \in Overrun(lastOptions[s]) : file' = Annotated(s, c, last)
  BY DEF Comment
<1>3. file' \in Seq(Block) /\ Len(file') = Len(file) /\ file \in Seq(Block)
  BY <1>1, <1>2, AnnotatedType DEF TypeOK
<1>4. ASSUME NEW i \in DOMAIN file
      PROVE  /\ file'[i].kind = file[i].kind /\ file'[i].owner = file[i].owner
             /\ file'[i].iface = file[i].iface /\ file'[i].end = file[i].end
  <2>1. file[i] \in Block
    BY <1>3
  <2>2. \/ file'[i] = file[i]
        \/ file'[i] = [file[i] EXCEPT !.note = c]
        \/ file'[i] = Overwritten(file[i])
    BY <1>1, <1>2, AnnotatedType
  <2> QED BY <2>1, <2>2 DEF Block, Overwritten
<1> QED BY <1>1, <1>2, <1>3, <1>4

LEMMA TypeInit == Init => TypeInv
<1> SUFFICES ASSUME Init PROVE TypeInv
  OBVIOUS
<1>1. file \in Seq(Block) /\ Len(file) = 0
  BY DEF Init
<1>2. 0 \in SeqNum
  BY CaptureAssumption DEF SeqNum
<1>3. NoIO \in [fromClient : BOOLEAN, len : Nat]
  BY DEF NoIO
<1>4. TypeOK
  <2>1. file \in Seq(Block) /\ (\A s \in Sessions : lastOptions[s] <= Len(file))
    BY <1>1 DEF Init
  <2>2. /\ hold \in [Sessions -> [fromClient : BOOLEAN, len : Nat]]
        /\ clientSeq \in [Sessions -> SeqNum] /\ serverSeq \in [Sessions -> SeqNum]
    BY <1>2, <1>3 DEF Init
  <2> QED BY <2>1, <2>2 DEF Init, TypeOK, Idle
<1> QED BY <1>4, CaptureAssumption DEF Init, TypeInv, Accepted, Sessions

\* Facts every step of a session uses.
LEMMA SessionFacts ==
  ASSUME TypeInv, NEW s \in Sessions
  PROVE  /\ Free \notin Sessions
         /\ ListenerOf[s] \in Listeners
         /\ mu = s => ifaceOf[ListenerOf[s]] \in Nat
         /\ clientSeq[s] \in SeqNum /\ serverSeq[s] \in SeqNum
         /\ hold[s].len \in Nat /\ hold[s].fromClient \in BOOLEAN
         /\ NoIO \in [fromClient : BOOLEAN, len : Nat]
BY CaptureAssumption DEF TypeInv, TypeOK, Accepted, NoIO

\* Steps that write no block.
LEMMA TypeQuiet ==
  ASSUME TypeInv, NEW s \in Sessions,
         \/ NewSession(s)
         \/ \E up \in BOOLEAN, n \in Lens : SocketIO(s, up, n)
         \/ WriteStart(s) \/ HandlerClose(s) \/ Finish(s)
         \/ HandshakeStart(s) \/ HandshakeEnd(s) \/ Interrupt(s) \/ InterruptClose(s)
  PROVE  TypeInv'
<1> USE SessionFacts DEF TypeInv, TypeOK, Accepted, runVars, seqVars, lockVars, ifaceVars, connVars
<1>1. CASE NewSession(s)
  <2>1. ifaceOf[ListenerOf[s]] \in Nat
    <3>1. ifaceOf[ListenerOf[s]] \in Nat \cup {Undeclared, Refused}
      OBVIOUS
    <3>2. ifaceOf[ListenerOf[s]] >= 0
      BY <1>1 DEF NewSession
    <3> QED BY ONLY <3>1, <3>2, SMT DEF Undeclared, Refused
  <2>2. TypeOK'
    BY <1>1 DEF NewSession
  <2>3. Accepted'
    BY <1>1, <2>1 DEF NewSession
  <2> QED BY <2>2, <2>3
<1>2. ASSUME NEW up \in BOOLEAN, NEW n \in Lens, SocketIO(s, up, n) PROVE TypeInv'
  BY <1>2, CaptureAssumption DEF SocketIO
<1>3. CASE WriteStart(s)
  BY <1>3 DEF WriteStart, FirstFrame, AfterSyn, Idle
<1>4. CASE HandlerClose(s)
  <2>1. TypeOK'
    BY <1>4 DEF HandlerClose, CloseStart, Idle
  <2>2. Accepted'
    BY <1>4 DEF HandlerClose, CloseStart, AtRest
  <2> QED BY <2>1, <2>2
<1>5. CASE Finish(s)
  BY <1>5 DEF Finish, CloseStart, AtRest, Idle
<1>6. CASE HandshakeStart(s)
  BY <1>6 DEF HandshakeStart
<1>7. CASE HandshakeEnd(s)
  BY <1>7 DEF HandshakeEnd
<1>8. CASE Interrupt(s)
  BY <1>8 DEF Interrupt
<1>9. CASE InterruptClose(s)
  BY <1>9, ZenonT(30) DEF InterruptClose, CloseStart, Idle
<1> QED BY <1>1, <1>2, <1>3, <1>4, <1>5, <1>6, <1>7, <1>8, <1>9

\* What one of the six frames leaves behind besides the block.
\* Each of the six frames is one block of the session that holds the lock.
LEMMA EmitEpb ==
  ASSUME TypeInv, NEW s \in Sessions, NEW o \in Outcomes, Emit(s, o)
  PROVE  /\ mu = s /\ ifaceOf[ListenerOf[s]] \in Nat
         /\ \E up \in BOOLEAN, flag \in Flags, n \in Nat, seq, ack \in SeqNum :
              Epb(s, up, flag, n, seq, ack, o)
         /\ UNCHANGED <<ifaces, ifaceOf, author>>
<1> USE SessionFacts DEF TypeInv, ifaceVars
<1>0. 0 \in Nat /\ 0 \in SeqNum /\ TRUE \in BOOLEAN /\ FALSE \in BOOLEAN
      /\ {"syn", "synack", "data", "fin"} \subseteq Flags
  BY CaptureAssumption DEF SeqNum, Flags
<1>1. CASE EmitSyn(s, o)
  BY <1>0, <1>1 DEF EmitSyn
<1>2. CASE EmitSynAck(s, o)
  BY <1>0, <1>2 DEF EmitSynAck
<1>3. CASE EmitTcpData(s, o)
  BY <1>0, <1>3 DEF EmitTcpData, Numbers
<1>4. CASE EmitUdpData(s, o)
  BY <1>0, <1>4 DEF EmitUdpData
<1>5. CASE EmitFin(s, o)
  BY <1>0, <1>5 DEF EmitFin
<1>6. CASE EmitFinAck(s, o)
  BY <1>0, <1>6 DEF EmitFinAck
<1> QED BY <1>1, <1>2, <1>3, <1>4, <1>5, <1>6 DEF Emit

LEMMA TypeEmit ==
  ASSUME TypeInv, NEW s \in Sessions, NEW o \in Outcomes, Emit(s, o)
  PROVE  TypeInv'
<1> DEFINE Written == /\ file' \in Seq(Block)
                      /\ packets' \in Nat /\ faults' \in Nat
                      /\ lastOptions' \in [Sessions -> Nat]
                      /\ \A t \in Sessions : lastOptions'[t] <= Len(file')
                      /\ pending' \in [Sessions -> Notes \cup {NoNote}]
<1>1. Wrap(clientSeq[s] + 1) \in SeqNum /\ Wrap(serverSeq[s] + 1) \in SeqNum
      /\ Wrap(clientSeq[s] + hold[s].len) \in SeqNum
      /\ Wrap(serverSeq[s] + hold[s].len) \in SeqNum
  <2>1. clientSeq[s] \in Nat /\ serverSeq[s] \in Nat /\ hold[s].len \in Nat
    BY SessionFacts DEF SeqNum
  <2> QED BY <2>1, WrapType
<1>2. Written
  BY EmitEpb, EpbType DEF TypeInv
<1> HIDE DEF Written
<1> USE SessionFacts DEF TypeInv, Accepted, seqVars, lockVars, ifaceVars, connVars, Idle,
                         Unlock, Release
<1>3. CASE EmitSyn(s, o)
  BY <1>1, <1>2, <1>3, ZenonT(30) DEF EmitSyn, AfterSyn, TypeOK, Written
<1>4. CASE EmitSynAck(s, o)
  BY <1>1, <1>2, <1>4 DEF EmitSynAck, TypeOK, Written
<1>5. CASE EmitTcpData(s, o)
  BY <1>1, <1>2, <1>5 DEF EmitTcpData, TypeOK, Written
<1>6. CASE EmitUdpData(s, o)
  BY <1>1, <1>2, <1>6 DEF EmitUdpData, TypeOK, Written
<1>7. CASE EmitFin(s, o)
  BY <1>1, <1>2, <1>7 DEF EmitFin, TypeOK, Written
<1>8. CASE EmitFinAck(s, o)
  BY <1>1, <1>2, <1>8 DEF EmitFinAck, TypeOK, Written
<1> QED BY <1>3, <1>4, <1>5, <1>6, <1>7, <1>8 DEF Emit

LEMMA TypeComment ==
  ASSUME TypeInv, NEW s \in Sessions, NEW c \in Notes, Comment(s, c)
  PROVE  TypeInv'
<1>1. /\ file' \in Seq(Block) /\ Len(file') = Len(file)
      /\ pending' \in [Sessions -> Notes \cup {NoNote}]
      /\ faults' \in Nat
  <2>3. file' \in Seq(Block) /\ Len(file') = Len(file)
    BY CommentFile DEF TypeInv, TypeOK
  <2>4. pending' = pending \/ pending' = [pending EXCEPT ![s] = c]
    BY DEF Comment
  <2>5. faults' = faults \/ faults' = faults + 1
    BY DEF Comment, Faulty
  <2>6. pending' \in [Sessions -> Notes \cup {NoNote}]
    BY <2>4 DEF TypeInv, TypeOK
  <2>7. faults' \in Nat
    BY <2>5 DEF TypeInv, TypeOK
  <2> QED BY <2>3, <2>6, <2>7
<1> QED BY <1>1, SessionFacts
        DEF Comment, TypeInv, TypeOK, Accepted, seqVars, lockVars, ifaceVars, connVars

LEMMA TypeNewInterface ==
  ASSUME TypeInv, NEW l \in Listeners, NEW o \in Outcomes, NewInterface(l, o)
  PROVE  TypeInv'
<1>1. IfaceBlock(l, ifaces, o) \in Block
  BY CaptureAssumption DEF TypeInv, TypeOK, IfaceBlock, Block, Flags, SeqNum
<1>2. file' \in Seq(Block) /\ Len(file') \in Nat /\ Len(file) \in Nat /\ Len(file) <= Len(file')
  <2>1. file' = file \/ file' = Append(file, IfaceBlock(l, ifaces, o))
    BY DEF NewInterface, Appended
  <2>2. file \in Seq(Block)
    BY DEF TypeInv, TypeOK
  <2> QED BY <1>1, <2>1, <2>2
<1>3. \A t \in Sessions : lastOptions'[t] <= Len(file')
  BY <1>2 DEF NewInterface, TypeInv, TypeOK
<1>4. /\ ifaces' \in Nat /\ faults' \in Nat
      /\ ifaceOf' \in [Listeners -> Nat \cup {Undeclared, Refused}]
  BY DEF NewInterface, IfacesAfter, Faulty, TypeInv, TypeOK
<1>5. \A k \in Listeners : ifaceOf[k] \in Nat => ifaceOf'[k] = ifaceOf[k]
  BY DEF NewInterface, TypeInv, TypeOK, Undeclared
<1> QED BY <1>2, <1>3, <1>4, <1>5, CaptureAssumption
        DEF NewInterface, TypeInv, TypeOK, Accepted, seqVars, lockVars, connVars

LEMMA TypeStep == TypeInv /\ [Next]_vars => TypeInv'
<1> SUFFICES ASSUME TypeInv, [Next]_vars PROVE TypeInv'
  OBVIOUS
<1>1. ASSUME NEW l \in Listeners, NEW o \in Outcomes, NewInterface(l, o) PROVE TypeInv'
  BY <1>1, TypeNewInterface
<1>2. ASSUME NEW s \in Sessions, SessionStep(s) PROVE TypeInv'
  BY <1>2, TypeQuiet, TypeEmit, TypeComment DEF SessionStep
<1>3. CASE RunClose
  BY <1>3 DEF RunClose, TypeInv, TypeOK, Accepted, runVars, seqVars, lockVars, ifaceVars, connVars
<1>4. CASE UNCHANGED vars
  BY <1>4 DEF vars, TypeInv, TypeOK, Accepted, runVars, seqVars, lockVars, ifaceVars, connVars
<1> QED BY <1>1, <1>2, <1>3, <1>4 DEF Next

\* Types, for every number of listeners, sessions, notes and faults: a sequence
\* number never leaves its width, a comment slot always lies in the file, and the
\* lock is held exactly while a frame is being written.
THEOREM TypeCorrect == Spec => []TypeOK
<1>1. TypeInv => TypeOK
  BY DEF TypeInv
<1> QED BY TypeInit, TypeStep, <1>1, PTL DEF Spec

-----------------------------------------------------------------------------
(* A packet names the interface block of its own listener *)

\* The interface blocks that were written whole, overwritten since or not, and how
\* many of them lie before position i.
Written(b) == b.kind = "idb" /\ b.end = Whole
WrittenId(i) == Cardinality({j \in 1 .. (i - 1) : Written(file[j])})

\* The block of listener l has the number id, and it lies before i.
DeclaredBefore(l, id, i) ==
  \E j \in 1 .. (i - 1) : Written(file[j]) /\ file[j].owner = l /\ WrittenId(j) = id

PacketOnWrittenId ==
  \A i \in DOMAIN file : IsPacket(file[i]) =>
    DeclaredBefore(ListenerOf[file[i].owner], file[i].iface, i)

\* Run.ifaces counts the interface blocks written, and the id a listener keeps is
\* the number of its block among them.
IfaceInv ==
  /\ ifaces = WrittenId(Len(file) + 1)
  /\ \A l \in Listeners : ifaceOf[l] \in Nat => DeclaredBefore(l, ifaceOf[l], Len(file) + 1)
  /\ PacketOnWrittenId

\* The file grew at its end only, as far as readers and owners can tell.
Grown ==
  /\ file' \in Seq(Block) /\ Len(file) <= Len(file')
  /\ \A i \in DOMAIN file : /\ file'[i].kind = file[i].kind
                            /\ file'[i].owner = file[i].owner
                            /\ file'[i].iface = file[i].iface
                            /\ file'[i].end = file[i].end

\* Later blocks never renumber an interface.
LEMMA WrittenIdKept ==
  ASSUME TypeOK, Grown
  PROVE  /\ \A i \in 1 .. (Len(file) + 1) : WrittenId(i)' = WrittenId(i)
         /\ \A l, id : DeclaredBefore(l, id, Len(file) + 1)
                         => DeclaredBefore(l, id, Len(file) + 1)'
<1>1. Len(file) \in Nat /\ Len(file') \in Nat /\ DOMAIN file = 1 .. Len(file)
  BY DEF TypeOK, Grown
<1>2. ASSUME NEW i \in 1 .. (Len(file) + 1) PROVE WrittenId(i)' = WrittenId(i)
  <2>1. \A j \in 1 .. (i - 1) : Written(file'[j]) <=> Written(file[j])
    BY <1>1 DEF Grown, Written
  <2>2. {j \in 1 .. (i - 1) : Written(file'[j])} = {j \in 1 .. (i - 1) : Written(file[j])}
    BY <2>1
  <2> QED BY <2>2 DEF WrittenId
<1>3. ASSUME NEW l, NEW id, DeclaredBefore(l, id, Len(file) + 1)
      PROVE  DeclaredBefore(l, id, Len(file) + 1)'
  <2>1. PICK j \in 1 .. Len(file) : Written(file[j]) /\ file[j].owner = l /\ WrittenId(j) = id
    BY <1>1, <1>3 DEF DeclaredBefore
  <2>2. Written(file'[j]) /\ file'[j].owner = l /\ WrittenId(j)' = id
    BY <1>1, <1>2, <2>1 DEF Grown, Written
  <2>3. j \in 1 .. ((Len(file') + 1) - 1)
    BY <1>1 DEF Grown
  <2> QED BY <2>2, <2>3 DEF DeclaredBefore
<1> QED BY <1>2, <1>3

\* The interface of the packets already written is still theirs.
LEMMA OldPacketsKept ==
  ASSUME TypeOK, Grown, PacketOnWrittenId
  PROVE  \A i \in DOMAIN file : IsPacket(file[i])' =>
           DeclaredBefore(ListenerOf[file[i].owner], file[i].iface, i)'
<1> SUFFICES ASSUME NEW i \in DOMAIN file, IsPacket(file[i])'
             PROVE  DeclaredBefore(ListenerOf[file[i].owner], file[i].iface, i)'
  OBVIOUS
<1>1. i \in 1 .. Len(file) /\ Len(file) \in Nat
  BY DEF TypeOK
<1>2. IsPacket(file[i]) /\ file'[i].owner = file[i].owner /\ file'[i].iface = file[i].iface
  BY DEF Grown, IsPacket
<1>3. PICK j \in 1 .. (i - 1) : /\ Written(file[j])
                                /\ file[j].owner = ListenerOf[file[i].owner]
                                /\ WrittenId(j) = file[i].iface
  BY <1>2 DEF PacketOnWrittenId, DeclaredBefore
<1>4. j \in DOMAIN file /\ j \in 1 .. (Len(file) + 1)
  BY <1>1 DEF TypeOK
<1>5. Written(file'[j]) /\ file'[j].owner = file[j].owner /\ WrittenId(j)' = WrittenId(j)
  BY <1>3, <1>4, WrittenIdKept DEF Grown, Written
<1> QED BY <1>2, <1>3, <1>5 DEF DeclaredBefore

\* One more block at the end is counted if it is a complete interface block.
LEMMA WrittenIdNext ==
  ASSUME TypeOK, Grown, Len(file') = Len(file) + 1
  PROVE  /\ WrittenId(Len(file) + 1) \in Nat
         /\ WrittenId(Len(file) + 1)'
              = WrittenId(Len(file) + 1) + (IF Written(file'[Len(file')]) THEN 1 ELSE 0)
<1> DEFINE n == Len(file) + 1
           old == {j \in 1 .. (n - 1) : Written(file[j])}
           new == {j \in 1 .. n : Written(file'[j])}
<1>1. n \in Nat \ {0} /\ n = Len(file') /\ DOMAIN file = 1 .. (n - 1)
  BY DEF TypeOK
<1>2. IsFiniteSet(1 .. (n - 1)) /\ old \subseteq 1 .. (n - 1)
  BY <1>1, FS_Interval
<1>3. IsFiniteSet(old) /\ Cardinality(old) \in Nat
  BY <1>2, FS_Subset, FS_CardinalityType
<1>4. \A j \in 1 .. (n - 1) : Written(file'[j]) <=> Written(file[j])
  BY <1>1 DEF Grown, Written
<1>5. new = IF Written(file'[n]) THEN old \cup {n} ELSE old
  BY <1>1, <1>4
<1>6. n \notin old
  BY <1>1
<1>7. Cardinality(new) = Cardinality(old) + (IF Written(file'[n]) THEN 1 ELSE 0)
  <2>1. Cardinality(old \cup {n}) = Cardinality(old) + 1
    BY <1>3, <1>6, FS_AddElement
  <2> HIDE DEF old, new, n
  <2> QED BY <1>3, <1>5, <2>1
<1>8. WrittenId(n) = Cardinality(old)
  BY DEF WrittenId
<1>9. WrittenId(Len(file) + 1)' = Cardinality(new)
  BY <1>1 DEF WrittenId
<1> QED BY <1>1, <1>3, <1>7, <1>8, <1>9

\* A frame is appended with its session's interface, or not at all.
LEMMA EpbAppends ==
  ASSUME TypeInv, NEW s \in Sessions, NEW o \in Outcomes, Emit(s, o)
  PROVE  \/ o = Nothing /\ file' = file
         \/ \E b \in Block : /\ file' = Append(file, b)
                             /\ b.kind = "epb" /\ b.owner = s /\ b.end = o /\ ~b.hit
                             /\ b.iface = ifaceOf[ListenerOf[s]]
<1>1. PICK up \in BOOLEAN, flag \in Flags, n \in Nat, seq \in SeqNum, ack \in SeqNum :
        Epb(s, up, flag, n, seq, ack, o)
  BY EmitEpb
<1> DEFINE note == IF o >= NoTrailer THEN pending[s] ELSE NoNote
           b == PacketBlock(s, up, flag, n, seq, ack, o, note)
<1>2. /\ b \in Block /\ b.kind = "epb" /\ b.owner = s /\ b.end = o /\ ~b.hit
      /\ b.iface = ifaceOf[ListenerOf[s]]
  BY EmitEpb DEF TypeInv, TypeOK, PacketBlock, Block
<1>3. file' = IF o = Nothing THEN file ELSE Append(file, b)
  BY <1>1 DEF Epb, Appended, PacketBlock
<1> QED BY <1>2, <1>3

\* Everything a step can do to the file.
LEMMA FileStep ==
  ASSUME TypeInv, [Next]_vars
  PROVE  \/ /\ Grown /\ Len(file') = Len(file)
            /\ UNCHANGED <<ifaces, ifaceOf>>
         \/ \E s \in Sessions, b \in Block :
              /\ ifaceOf[ListenerOf[s]] \in Nat
              /\ b.kind = "epb" /\ b.owner = s /\ b.iface = ifaceOf[ListenerOf[s]]
              /\ file' = Append(file, b)
              /\ UNCHANGED <<ifaces, ifaceOf>>
         \/ \E l \in Listeners, o \in Outcomes : NewInterface(l, o)
<1> DEFINE Stays == Grown /\ Len(file') = Len(file) /\ UNCHANGED <<ifaces, ifaceOf>>
<1>1. UNCHANGED <<file, ifaces, ifaceOf>> => Stays
  BY DEF Grown, TypeInv, TypeOK
<1>2. ASSUME NEW s \in Sessions, NEW c \in Notes, Comment(s, c) PROVE Stays
  <2>1. UNCHANGED <<ifaces, ifaceOf>> /\ TypeOK /\ Len(file) \in Nat
    BY <1>2 DEF Comment, ifaceVars, TypeInv, TypeOK
  <2>2. CASE file' = file
    BY <1>1, <2>1, <2>2
  <2>3. CASE file' # file
    BY <1>2, <2>1, <2>3, CommentFile DEF Grown
  <2> QED BY <2>2, <2>3
<1>3. ASSUME NEW s \in Sessions, NEW o \in Outcomes, Emit(s, o)
      PROVE  \/ Stays
             \/ \E b \in Block :
                  /\ ifaceOf[ListenerOf[s]] \in Nat
                  /\ b.kind = "epb" /\ b.owner = s /\ b.iface = ifaceOf[ListenerOf[s]]
                  /\ file' = Append(file, b)
                  /\ UNCHANGED <<ifaces, ifaceOf>>
  <2>1. ifaceOf[ListenerOf[s]] \in Nat /\ UNCHANGED <<ifaces, ifaceOf>>
    BY <1>3, EmitEpb
  <2> HIDE DEF Stays
  <2> QED BY <1>1, <1>3, <2>1, EpbAppends
<1>4. ASSUME NEW s \in Sessions, SessionStep(s), \A c \in Notes : ~Comment(s, c),
             \A o \in Outcomes : ~Emit(s, o)
      PROVE  Stays
  <2>1. UNCHANGED <<file, ifaces, ifaceOf>>
    BY <1>4 DEF SessionStep, NewSession, SocketIO, WriteStart, HandlerClose, Finish,
                HandshakeStart, HandshakeEnd, Interrupt, InterruptClose,
                runVars, ifaceVars
  <2> QED BY <1>1, <2>1
<1>5. RunClose \/ UNCHANGED vars => Stays
  <2>1. RunClose \/ UNCHANGED vars => UNCHANGED <<file, ifaces, ifaceOf>>
    BY DEF RunClose, vars, runVars, ifaceVars
  <2> QED BY <1>1, <2>1
<1> HIDE DEF Stays
<1>6. ASSUME NEW s \in Sessions, SessionStep(s)
      PROVE  \/ Stays
             \/ \E b \in Block :
                  /\ ifaceOf[ListenerOf[s]] \in Nat
                  /\ b.kind = "epb" /\ b.owner = s /\ b.iface = ifaceOf[ListenerOf[s]]
                  /\ file' = Append(file, b)
                  /\ UNCHANGED <<ifaces, ifaceOf>>
  BY <1>2, <1>3, <1>4, <1>6
<1>7. Stays => Grown /\ Len(file') = Len(file) /\ UNCHANGED <<ifaces, ifaceOf>>
  BY DEF Stays
<1> QED BY <1>5, <1>6, <1>7 DEF Next

LEMMA IfaceInit == Init => IfaceInv
<1> SUFFICES ASSUME Init PROVE IfaceInv
  OBVIOUS
<1>1. Len(file) = 0 /\ DOMAIN file = {}
  BY DEF Init
<1>2. {j \in 1 .. ((Len(file) + 1) - 1) : Written(file[j])} = {}
  BY <1>1
<1>3. ifaces = WrittenId(Len(file) + 1)
  BY <1>2, FS_EmptySet DEF Init, WrittenId
<1> QED BY <1>1, <1>3 DEF Init, IfaceInv, Undeclared, PacketOnWrittenId

LEMMA IfaceStep == TypeInv /\ TypeOK' /\ IfaceInv /\ [Next]_vars => IfaceInv'
<1> SUFFICES ASSUME TypeInv, TypeOK', IfaceInv, [Next]_vars PROVE IfaceInv'
  OBVIOUS
<1>0. TypeOK /\ file \in Seq(Block) /\ Len(file) \in Nat
  <2>1. file \in Seq(Block)
    BY DEF TypeInv, TypeOK
  <2> QED BY <2>1 DEF TypeInv
<1>a. PacketOnWrittenId
  BY DEF IfaceInv
<1>1. CASE Grown /\ Len(file') = Len(file) /\ UNCHANGED <<ifaces, ifaceOf>>
  <2>1. ifaces' = WrittenId(Len(file) + 1)'
    BY <1>0, <1>1, WrittenIdKept DEF IfaceInv
  <2>2. \A l \in Listeners : ifaceOf'[l] \in Nat => DeclaredBefore(l, ifaceOf[l], Len(file) + 1)'
    BY <1>0, <1>1, WrittenIdKept DEF IfaceInv
  <2>3. PacketOnWrittenId'
    <3>1. DOMAIN file' = DOMAIN file
      BY <1>0, <1>1 DEF Grown
    <3> QED BY <1>0, <1>a, <1>1, <3>1, OldPacketsKept DEF PacketOnWrittenId, DeclaredBefore
  <2> QED BY <1>1, <2>1, <2>2, <2>3 DEF IfaceInv
<1>2. ASSUME NEW s \in Sessions, NEW b \in Block,
             ifaceOf[ListenerOf[s]] \in Nat,
             b.kind = "epb", b.owner = s, b.iface = ifaceOf[ListenerOf[s]],
             file' = Append(file, b), UNCHANGED <<ifaces, ifaceOf>>
      PROVE  IfaceInv'
  <2>1. /\ Grown /\ Len(file') = Len(file) + 1 /\ file'[Len(file')] = b
        /\ DOMAIN file' = DOMAIN file \cup {Len(file')}
    BY <1>0, <1>2 DEF Grown
  <2>2. ~Written(file'[Len(file')])
    BY <1>2, <2>1 DEF Written
  <2>3. ifaces' = WrittenId(Len(file) + 1)'
    BY <1>0, <1>2, <2>1, <2>2, WrittenIdKept, WrittenIdNext DEF IfaceInv
  <2>4. \A l \in Listeners : ifaceOf'[l] \in Nat => DeclaredBefore(l, ifaceOf[l], Len(file) + 1)'
    BY <1>0, <1>2, <2>1, WrittenIdKept DEF IfaceInv
  <2>5. PacketOnWrittenId'
    <3> SUFFICES ASSUME NEW i \in DOMAIN file', IsPacket(file[i])'
                 PROVE  DeclaredBefore(ListenerOf[file[i].owner], file[i].iface, i)'
      BY DEF PacketOnWrittenId, DeclaredBefore
    <3>1. CASE i \in DOMAIN file
      BY <1>0, <1>a, <2>1, <3>1, OldPacketsKept
    <3>2. CASE i = Len(file')
      <4>1. i = Len(file) + 1 /\ file'[i].owner = s /\ file'[i].iface = ifaceOf[ListenerOf[s]]
        BY <1>2, <2>1, <3>2
      <4>2. DeclaredBefore(ListenerOf[s], ifaceOf[ListenerOf[s]], Len(file) + 1)
        BY <1>2, CaptureAssumption DEF IfaceInv
      <4>3. PICK j \in 1 .. Len(file) : /\ Written(file[j]) /\ file[j].owner = ListenerOf[s]
                                        /\ WrittenId(j) = ifaceOf[ListenerOf[s]]
        BY <1>0, <4>2 DEF DeclaredBefore
      <4>4. /\ Written(file'[j]) /\ file'[j].owner = ListenerOf[s]
            /\ WrittenId(j)' = ifaceOf[ListenerOf[s]]
        BY <1>0, <2>1, <4>3, WrittenIdKept DEF Grown, Written
      <4>5. j \in 1 .. (i - 1)
        BY <1>0, <4>1
      <4> QED BY <4>1, <4>4, <4>5 DEF DeclaredBefore
    <3> QED BY <2>1, <3>1, <3>2
  <2> QED BY <1>2, <2>1, <2>3, <2>4, <2>5 DEF IfaceInv
<1>3. ASSUME NEW l \in Listeners, NEW o \in Outcomes, NewInterface(l, o) PROVE IfaceInv'
  <2> DEFINE b == IfaceBlock(l, ifaces, o)
  <2>1. /\ b \in Block /\ b.kind = "idb" /\ b.owner = l /\ b.end = o /\ o \in Nat
        /\ ifaces \in Nat
    BY CaptureAssumption DEF TypeInv, TypeOK, IfaceBlock, Block, Flags, SeqNum, Outcomes,
                             Nothing, Whole
  <2>2. /\ file' = IF o = Nothing THEN file ELSE Append(file, b)
        /\ ifaces' = IF o = Whole THEN ifaces + 1 ELSE ifaces
        /\ ifaceOf' = [ifaceOf EXCEPT ![l] = IF o = Whole THEN ifaces ELSE Refused]
    BY <1>3 DEF NewInterface, Appended, IfaceBlock, IfacesAfter
  <2> HIDE DEF b
  <2>3. /\ Grown /\ DOMAIN file \subseteq DOMAIN file'
        /\ o # Nothing => /\ Len(file') = Len(file) + 1 /\ file'[Len(file')] = b
                          /\ DOMAIN file' = DOMAIN file \cup {Len(file')}
    BY <1>0, <2>1, <2>2 DEF Grown
  <2>4. \A k \in Listeners : ifaceOf'[k] \in Nat =>
          \/ k # l /\ ifaceOf'[k] = ifaceOf[k]
          \/ k = l /\ o = Whole /\ ifaceOf'[k] = ifaces
    <3>1. ifaceOf \in [Listeners -> Nat \cup {Undeclared, Refused}]
      BY <1>0 DEF TypeOK
    <3>2. Refused \notin Nat
      BY DEF Refused
    <3> QED BY <2>2, <3>1, <3>2
  <2>5. ifaces' = WrittenId(Len(file) + 1)'
    <3>1. CASE o = Nothing
      BY <1>0, <2>2, <2>3, <3>1, WrittenIdKept DEF IfaceInv, Nothing, Whole
    <3>2. CASE o # Nothing
      <4>1. Written(file'[Len(file')]) <=> o = Whole
        BY <2>1, <2>3, <3>2 DEF Written
      <4>2. WrittenId(Len(file) + 1)' = ifaces + (IF o = Whole THEN 1 ELSE 0)
        BY <1>0, <2>3, <3>2, <4>1, WrittenIdNext DEF IfaceInv
      <4> QED BY <2>1, <2>2, <4>2
    <3> QED BY <3>1, <3>2
  <2>6. \A k \in Listeners : ifaceOf'[k] \in Nat => DeclaredBefore(k, ifaceOf[k], Len(file) + 1)'
    <3> SUFFICES ASSUME NEW k \in Listeners, ifaceOf'[k] \in Nat
                 PROVE  DeclaredBefore(k, ifaceOf[k], Len(file) + 1)'
      OBVIOUS
    <3>1. CASE k # l
      BY <1>0, <2>3, <2>4, <3>1, WrittenIdKept DEF IfaceInv
    <3>2. CASE k = l
      <4>1. o = Whole /\ o # Nothing /\ ifaceOf'[k] = ifaces
        BY <2>4, <3>2 DEF Whole, Nothing
      <4>2. /\ Written(file'[Len(file) + 1]) /\ file'[Len(file) + 1].owner = k
            /\ WrittenId(Len(file) + 1) = ifaces
        BY <2>1, <2>3, <3>2, <4>1 DEF Written, IfaceInv
      <4> PICK j : j = Len(file) + 1
        OBVIOUS
      <4>3. j \in 1 .. (Len(file) + 1) /\ j \in 1 .. (Len(file') + 1 - 1)
        BY <1>0, <2>3, <4>1
      <4>4. \A i \in 1 .. (Len(file) + 1) : WrittenId(i)' = WrittenId(i)
        BY <1>0, <2>3, WrittenIdKept
      <4>5. Written(file'[j]) /\ file'[j].owner = k /\ WrittenId(j)' = ifaceOf'[k]
        BY <4>1, <4>2, <4>3, <4>4
      <4> QED BY <4>3, <4>5 DEF DeclaredBefore
    <3> QED BY <3>1, <3>2
  <2>7. PacketOnWrittenId'
    <3> SUFFICES ASSUME NEW i \in DOMAIN file', IsPacket(file[i])'
                 PROVE  DeclaredBefore(ListenerOf[file[i].owner], file[i].iface, i)'
      BY DEF PacketOnWrittenId, DeclaredBefore
    <3>1. i \in DOMAIN file
      BY <2>1, <2>2, <2>3 DEF IsPacket
    <3> QED BY <1>0, <1>a, <2>3, <3>1, OldPacketsKept
  <2> QED BY <2>5, <2>6, <2>7 DEF IfaceInv
<1> QED BY <1>1, <1>2, <1>3, FileStep

\* While no interface block is overwritten, a reader's numbers are the ones given
\* out under the lock.
LEMMA ReaderIdIsWritten ==
  ASSUME TypeOK, NEW i \in DOMAIN file, ~IfaceLost(i), NEW j \in 1 .. i
  PROVE  /\ j < i => (IsIface(file[j]) <=> Written(file[j]))
         /\ ReaderId(j) = WrittenId(j)
<1>1. i \in Nat
  BY DEF TypeOK
<1>2. \A k \in 1 .. (i - 1) : IsIface(file[k]) <=> Written(file[k])
  BY DEF IfaceLost, IsIface, Written, Readable
<1>3. \A k \in 1 .. (j - 1) : IsIface(file[k]) <=> Written(file[k])
  BY <1>1, <1>2
<1>4. {k \in 1 .. (j - 1) : IsIface(file[k])} = {k \in 1 .. (j - 1) : Written(file[k])}
  BY <1>3
<1> QED BY <1>1, <1>2, <1>4 DEF ReaderId, WrittenId

\* Whatever the order in which listeners start, sessions write and writes fail,
\* a packet's interface id is the one a reader gives its own listener's block,
\* unless a note has overwritten an interface block.
THEOREM PacketOnOwnInterfaceHolds == Spec => []PacketOnOwnInterface
<1>1. TypeInv /\ IfaceInv => PacketOnOwnInterface
  <2> SUFFICES ASSUME TypeInv, IfaceInv, NEW i \in DOMAIN file, IsPacket(file[i]), ~IfaceLost(i)
               PROVE  \E j \in 1 .. (i - 1) :
                        /\ IsIface(file[j]) /\ file[j].owner = ListenerOf[file[i].owner]
                        /\ ReaderId(j) = file[i].iface
    BY DEF PacketOnOwnInterface
  <2>1. PICK j \in 1 .. (i - 1) : /\ Written(file[j])
                                  /\ file[j].owner = ListenerOf[file[i].owner]
                                  /\ WrittenId(j) = file[i].iface
    BY DEF IfaceInv, PacketOnWrittenId, DeclaredBefore
  <2>2. i \in Nat /\ j \in 1 .. i /\ j < i
    BY DEF TypeInv, TypeOK
  <2>3. IsIface(file[j]) /\ ReaderId(j) = WrittenId(j)
    BY <2>1, <2>2, ReaderIdIsWritten DEF TypeInv
  <2> QED BY <2>1, <2>3
<1>2. TypeInv /\ IfaceInv /\ [Next]_vars => TypeInv' /\ IfaceInv'
  <2>1. TypeInv' => TypeOK'
    BY DEF TypeInv
  <2> QED BY <2>1, TypeStep, IfaceStep
<1> QED BY TypeInit, IfaceInit, <1>1, <1>2, PTL DEF Spec

-----------------------------------------------------------------------------
(* A note is written on the latest packet of the session that commented *)

\* While no write has failed, Session.lastOptions is the slot of the session's
\* latest packet and that slot is in the file, however many blocks of other
\* sessions follow it.
SlotInv ==
  faults = 0 =>
    \A s \in Sessions :
      /\ lastOptions[s] = 0 => \A j \in DOMAIN file : file[j].owner # s
      /\ lastOptions[s] # 0 =>
           /\ lastOptions[s] \in DOMAIN file
           /\ file[lastOptions[s]].owner = s
           /\ file[lastOptions[s]].kind = "epb"
           /\ file[lastOptions[s]].end = Whole
           /\ ~file[lastOptions[s]].hit
           /\ Latest(lastOptions[s])

\* A step that leaves faults at 0 writes whole blocks.
LEMMA NoFault ==
  ASSUME TypeOK, NEW o \in Outcomes, Faulty(o), faults' = 0
  PROVE  faults = 0 /\ o = Whole
BY DEF Faulty, TypeOK

LEMMA SlotInit == Init => SlotInv
<1> SUFFICES ASSUME Init PROVE SlotInv
  OBVIOUS
<1>1. DOMAIN file = {}
  BY DEF Init
<1> QED BY <1>1 DEF Init, SlotInv

\* What Comment does while no write fails.
LEMMA CommentStep ==
  ASSUME TypeInv, SlotInv, NEW s \in Sessions, NEW c \in Notes, Comment(s, c), faults' = 0
  PROVE  /\ faults = 0 /\ UNCHANGED lastOptions
         /\ author'[c] = s
         /\ \/ file' = file
            \/ /\ lastOptions[s] # 0
               /\ file' = [file EXCEPT ![lastOptions[s]].note = c]
<1>1. faults = 0
  BY NoFault DEF Comment, TypeInv, TypeOK, Faulty
<1>2. author'[c] = s
  BY DEF Comment, TypeInv, TypeOK
<1>3. ASSUME NEW last, lastOptions[s] # 0
      PROVE  Annotated(s, c, last) = [file EXCEPT ![lastOptions[s]].note = c]
  <2> DEFINE at == lastOptions[s]
  <2>1. file[at].end = Whole /\ ~file[at].hit
    BY <1>1, <1>3 DEF SlotInv
  <2>2. Annotated(s, c, last) = [file EXCEPT ![at] = IF @.hit THEN @ ELSE [@ EXCEPT !.note = c]]
    BY <2>1 DEF Annotated, Whole, NoSlot
  <2> HIDE DEF at
  <2>3. [file EXCEPT ![at] = IF @.hit THEN @ ELSE [@ EXCEPT !.note = c]]
          = [file EXCEPT ![at] = [@ EXCEPT !.note = c]]
    BY <2>1
  <2> QED BY <2>2, <2>3 DEF at
<1> QED BY <1>1, <1>2, <1>3 DEF Comment

\* What a frame does while no write fails.
LEMMA EmitStep ==
  ASSUME TypeInv, NEW s \in Sessions, NEW o \in Outcomes, Emit(s, o), faults' = 0
  PROVE  /\ faults = 0
         /\ lastOptions' = [lastOptions EXCEPT ![s] = Len(file) + 1]
         /\ \E b \in Block : /\ file' = Append(file, b)
                             /\ b.kind = "epb" /\ b.owner = s /\ b.end = Whole /\ ~b.hit
<1>1. PICK up \in BOOLEAN, flag \in Flags, n \in Nat, seq \in SeqNum, ack \in SeqNum :
        Epb(s, up, flag, n, seq, ack, o)
  BY EmitEpb
<1>2. faults = 0 /\ o = Whole
  BY <1>1, NoFault DEF Epb, TypeInv
<1>3. lastOptions' = [lastOptions EXCEPT ![s] = Len(file) + 1]
  BY <1>1, <1>2 DEF Epb, SlotOffset, Whole, NoSlot
<1> QED BY <1>2, <1>3, EpbAppends DEF Whole, Nothing

\* What a new interface block does while no write fails.
LEMMA NewInterfaceStep ==
  ASSUME TypeInv, NEW l \in Listeners, NEW o \in Outcomes, NewInterface(l, o), faults' = 0
  PROVE  /\ faults = 0 /\ UNCHANGED lastOptions
         /\ \E b \in Block : file' = Append(file, b) /\ b.owner = l
<1>1. faults = 0 /\ o = Whole
  BY NoFault DEF NewInterface, TypeInv
<1>2. IfaceBlock(l, ifaces, o) \in Block
  BY CaptureAssumption DEF TypeInv, TypeOK, IfaceBlock, Block, Flags, SeqNum
<1>3. IfaceBlock(l, ifaces, o).owner = l /\ IfaceBlock(l, ifaces, o).end = o
  BY DEF IfaceBlock
<1> QED BY <1>1, <1>2, <1>3 DEF NewInterface, Appended, Whole, Nothing

\* The other steps touch neither the file nor the slots.
LEMMA QuietStep ==
  ASSUME [Next]_vars,
         \A s \in Sessions, c \in Notes : ~Comment(s, c),
         \A s \in Sessions, o \in Outcomes : ~Emit(s, o),
         \A l \in Listeners, o \in Outcomes : ~NewInterface(l, o)
  PROVE  UNCHANGED <<file, faults, lastOptions>>
BY DEF Next, SessionStep, NewSession, SocketIO, WriteStart, HandlerClose, Finish,
       HandshakeStart, HandshakeEnd, Interrupt, InterruptClose, RunClose, vars, runVars

LEMMA SlotStep == TypeInv /\ SlotInv /\ [Next]_vars => SlotInv'
<1> SUFFICES ASSUME TypeInv, SlotInv, [Next]_vars, faults' = 0,
                    NEW t \in Sessions
             PROVE  /\ lastOptions'[t] = 0 => \A j \in DOMAIN file' : file'[j].owner # t
                    /\ lastOptions'[t] # 0 =>
                         /\ lastOptions'[t] \in DOMAIN file'
                         /\ file'[lastOptions'[t]].owner = t
                         /\ file'[lastOptions'[t]].kind = "epb"
                         /\ file'[lastOptions'[t]].end = Whole
                         /\ ~file'[lastOptions'[t]].hit
                         /\ \A j \in DOMAIN file' :
                              j > lastOptions'[t] => file'[j].owner # file'[lastOptions'[t]].owner
  BY DEF SlotInv, Latest
<1> DEFINE Goal == /\ lastOptions'[t] = 0 => \A j \in DOMAIN file' : file'[j].owner # t
                   /\ lastOptions'[t] # 0 =>
                        /\ lastOptions'[t] \in DOMAIN file'
                        /\ file'[lastOptions'[t]].owner = t
                        /\ file'[lastOptions'[t]].kind = "epb"
                        /\ file'[lastOptions'[t]].end = Whole
                        /\ ~file'[lastOptions'[t]].hit
                        /\ \A j \in DOMAIN file' :
                             j > lastOptions'[t] => file'[j].owner # file'[lastOptions'[t]].owner
<1>0. file \in Seq(Block) /\ lastOptions \in [Sessions -> Nat] /\ lastOptions[t] <= Len(file)
  BY DEF TypeInv, TypeOK
<1>1. ASSUME NEW s \in Sessions, NEW c \in Notes, Comment(s, c) PROVE Goal
  <2>1. /\ faults = 0 /\ lastOptions' = lastOptions
        /\ file' = file \/ (lastOptions[s] # 0 /\ file' = [file EXCEPT ![lastOptions[s]].note = c])
    BY <1>1, CommentStep
  <2>2. /\ DOMAIN file' = DOMAIN file
        /\ \A j \in DOMAIN file : /\ file'[j].owner = file[j].owner
                                  /\ file'[j].kind = file[j].kind
                                  /\ file'[j].end = file[j].end
                                  /\ file'[j].hit = file[j].hit
    <3>1. CASE file' = file
      BY <3>1
    <3>2. CASE file' = [file EXCEPT ![lastOptions[s]].note = c]
      <4>1. DOMAIN file' = DOMAIN file
        BY <3>2
      <4>2. \A j \in DOMAIN file : file'[j] = file[j] \/ file'[j] = [file[j] EXCEPT !.note = c]
        BY <1>0, <3>2
      <4>3. \A j \in DOMAIN file : file[j] \in Block
        BY <1>0
      <4> QED BY <4>1, <4>2, <4>3 DEF Block
    <3> QED BY <2>1, <3>1, <3>2
  <2> QED BY <2>1, <2>2 DEF SlotInv, Latest
<1>2. ASSUME NEW s \in Sessions, NEW o \in Outcomes, Emit(s, o) PROVE Goal
  <2>1. /\ faults = 0 /\ lastOptions' = [lastOptions EXCEPT ![s] = Len(file) + 1]
    BY <1>2, EmitStep
  <2>2. PICK b \in Block : /\ file' = Append(file, b)
                           /\ b.kind = "epb" /\ b.owner = s /\ b.end = Whole /\ ~b.hit
    BY <1>2, EmitStep
  <2>3. /\ Len(file) \in Nat /\ DOMAIN file = 1 .. Len(file)
        /\ DOMAIN file' = 1 .. (Len(file) + 1) /\ file'[Len(file) + 1] = b
        /\ \A j \in DOMAIN file : file'[j] = file[j]
    BY <1>0, <2>2
  <2>4. CASE t = s
    BY <1>0, <2>1, <2>2, <2>3, <2>4
  <2>5. CASE t # s
    <3>1. lastOptions'[t] = lastOptions[t]
      BY <1>0, <2>1, <2>5
    <3> QED BY <2>1, <2>2, <2>3, <2>5, <3>1 DEF SlotInv, Latest
  <2> QED BY <2>4, <2>5
<1>3. ASSUME NEW l \in Listeners, NEW o \in Outcomes, NewInterface(l, o) PROVE Goal
  <2>1. faults = 0 /\ lastOptions' = lastOptions
    BY <1>3, NewInterfaceStep
  <2>2. PICK b \in Block : file' = Append(file, b) /\ b.owner = l
    BY <1>3, NewInterfaceStep
  <2>3. /\ Len(file) \in Nat /\ DOMAIN file = 1 .. Len(file)
        /\ DOMAIN file' = 1 .. (Len(file) + 1) /\ file'[Len(file) + 1] = b
        /\ \A j \in DOMAIN file : file'[j] = file[j]
    BY <1>0, <2>2
  <2>4. l # t
    BY CaptureAssumption
  <2> QED BY <2>1, <2>2, <2>3, <2>4 DEF SlotInv, Latest
<1>4. UNCHANGED <<file, faults, lastOptions>> => Goal
  BY DEF SlotInv, Latest
<1> HIDE DEF Goal
<1>5. Goal
  BY <1>1, <1>2, <1>3, <1>4, QuietStep
<1> QED BY <1>5 DEF Goal

LEMMA AnnotatesStep ==
  TypeInv /\ SlotInv /\ [Next]_vars
    => [faults' = 0 => \A i \in DOMAIN file : Annotates(i)]_vars
<1> SUFFICES ASSUME TypeInv, SlotInv, [Next]_vars, faults' = 0, NEW i \in DOMAIN file
             PROVE  Annotates(i)
  OBVIOUS
<1>0. file \in Seq(Block)
  BY DEF TypeInv, TypeOK
<1>1. ASSUME NEW s \in Sessions, NEW c \in Notes, Comment(s, c) PROVE Annotates(i)
  <2>1. CASE file' = file
    BY <2>1 DEF Annotates
  <2>2. CASE lastOptions[s] # 0 /\ file' = [file EXCEPT ![lastOptions[s]].note = c]
    <3>1. DOMAIN file' = DOMAIN file /\ (i # lastOptions[s] => file'[i] = file[i])
      BY <1>0, <2>2
    <3>2. CASE i = lastOptions[s]
      <4>1. faults = 0 /\ author'[c] = s
        BY <1>1, CommentStep
      <4>2. file[i].kind = "epb" /\ file[i].owner = s /\ Latest(i)
        BY <2>2, <3>2, <4>1 DEF SlotInv
      <4>3. file'[i] = [file[i] EXCEPT !.note = c]
        BY <1>0, <2>2, <3>2
      <4> QED BY <3>1, <4>1, <4>2, <4>3 DEF Annotates, IsPacket
    <3> QED BY <3>1, <3>2 DEF Annotates
  <2> QED BY <1>1, <2>1, <2>2, CommentStep
<1>2. (\E b \in Block : file' = Append(file, b)) => Annotates(i)
  BY <1>0 DEF Annotates
<1>3. UNCHANGED file => Annotates(i)
  BY DEF Annotates
<1>4. ASSUME NEW s \in Sessions, NEW o \in Outcomes, Emit(s, o) PROVE Annotates(i)
  BY <1>2, <1>4, EmitStep
<1>5. ASSUME NEW l \in Listeners, NEW o \in Outcomes, NewInterface(l, o) PROVE Annotates(i)
  BY <1>2, <1>5, NewInterfaceStep
<1> QED BY <1>1, <1>3, <1>4, <1>5, QuietStep

\* While the file accepts writes, a step only appends, or notes the latest packet
\* of the session that commented, in any interleaving of sessions.
THEOREM AnnotatesLatestHolds == Spec => AnnotatesLatest
<1>1. TypeInv /\ SlotInv /\ [Next]_vars => TypeInv' /\ SlotInv'
  BY TypeStep, SlotStep
<1> QED BY TypeInit, SlotInit, <1>1, AnnotatesStep, PTL DEF Spec, AnnotatesLatest

-----------------------------------------------------------------------------
(* The packet count *)

Complete(b) == IsPacket(b) /\ b.end = Whole

\* The counter itself is exact: it counts the packets written whole, whichever
\* writes failed and whatever a note has overwritten since.
CountInv == packets = Cardinality({i \in DOMAIN file : Complete(file[i])})

\* An overwritten block lies behind a packet that was torn at its slot, and only
\* blocks shorter than a slot lie between.  The slot a session remembers is in a
\* packet.
OverInv ==
  /\ \A i \in DOMAIN file : file[i].hit =>
       \E t \in 1 .. (i - 1) : /\ IsPacket(file[t]) /\ file[t].end = NoSlot
                               /\ \A j \in (t + 1) .. (i - 1) : Short(file[j])
  /\ \A s \in Sessions : lastOptions[s] # 0 => IsPacket(file[lastOptions[s]])

\* The steps that write no block and no note leave all of these alone.
LEMMA QuietRun ==
  ASSUME [Next]_vars,
         \A s \in Sessions, c \in Notes : ~Comment(s, c),
         \A s \in Sessions, o \in Outcomes : ~Emit(s, o),
         \A l \in Listeners, o \in Outcomes : ~NewInterface(l, o)
  PROVE  UNCHANGED <<runVars, author>>
BY DEF Next, SessionStep, NewSession, SocketIO, WriteStart, HandlerClose, Finish,
       HandshakeStart, HandshakeEnd, Interrupt, InterruptClose, RunClose, vars

\* Blocks keep their kind and their end, and at most one is new.
LEMMA CountKept ==
  ASSUME TypeInv, CountInv, Grown, Len(file') = Len(file), packets' = packets
  PROVE  CountInv'
<1>1. DOMAIN file' = DOMAIN file
  BY DEF Grown, TypeInv, TypeOK
<1>2. \A i \in DOMAIN file : Complete(file'[i]) <=> Complete(file[i])
  BY DEF Grown, Complete, IsPacket
<1>3. {i \in DOMAIN file' : Complete(file'[i])} = {i \in DOMAIN file : Complete(file[i])}
  BY <1>1, <1>2
<1> QED BY <1>3 DEF CountInv

LEMMA CountNext ==
  ASSUME TypeInv, CountInv, NEW b \in Block, file' = Append(file, b),
         packets' = packets + (IF Complete(b) THEN 1 ELSE 0)
  PROVE  CountInv'
<1> DEFINE n == Len(file) + 1
           old == {i \in DOMAIN file : Complete(file[i])}
           new == {i \in DOMAIN file' : Complete(file'[i])}
<1>1. /\ Len(file) \in Nat /\ DOMAIN file = 1 .. Len(file) /\ DOMAIN file' = 1 .. n
      /\ file'[n] = b /\ \A i \in DOMAIN file : file'[i] = file[i]
  BY DEF TypeInv, TypeOK
<1>2. new = IF Complete(b) THEN old \cup {n} ELSE old
  BY <1>1
<1>3. IsFiniteSet(old) /\ Cardinality(old) \in Nat /\ n \notin old
  <2>1. IsFiniteSet(1 .. Len(file)) /\ old \subseteq 1 .. Len(file) /\ n \notin 1 .. Len(file)
    BY <1>1, FS_Interval, SMTT(30)
  <2> QED BY <2>1, FS_Subset, FS_CardinalityType
<1>4. Cardinality(old \cup {n}) = Cardinality(old) + 1
  BY <1>3, FS_AddElement
<1>5. packets = Cardinality(old)
  BY DEF CountInv
<1>6. packets' = Cardinality(new)
  <2> HIDE DEF old, new, n
  <2> QED BY <1>2, <1>3, <1>4, <1>5
<1> QED BY <1>6 DEF CountInv

LEMMA CountStep == TypeInv /\ CountInv /\ [Next]_vars => CountInv'
<1> SUFFICES ASSUME TypeInv, CountInv, [Next]_vars PROVE CountInv'
  OBVIOUS
<1>0. packets \in Nat
  BY DEF TypeInv, TypeOK
<1>1. UNCHANGED <<file, packets>> => CountInv'
  BY DEF CountInv
<1>2. ASSUME NEW s \in Sessions, NEW c \in Notes, Comment(s, c) PROVE CountInv'
  <2>1. packets' = packets
    BY <1>2 DEF Comment
  <2>2. CASE file' = file
    BY <1>1, <2>1, <2>2
  <2>3. CASE file' # file
    <3>1. file' \in Seq(Block) /\ Len(file') = Len(file) /\ Grown
      BY <1>2, <2>3, CommentFile DEF Grown, TypeInv, TypeOK
    <3> QED BY <2>1, <3>1, CountKept
  <2> QED BY <2>2, <2>3
<1>3. ASSUME NEW s \in Sessions, NEW o \in Outcomes, Emit(s, o) PROVE CountInv'
  <2>1. packets' = IF o = Whole THEN packets + 1 ELSE packets
    BY <1>3, EmitEpb DEF Epb, Counted
  <2>2. CASE o = Nothing /\ file' = file
    BY <1>1, <2>1, <2>2 DEF Nothing, Whole
  <2>3. ASSUME NEW b \in Block, file' = Append(file, b), b.kind = "epb", b.end = o
        PROVE  CountInv'
    BY <1>0, <2>1, <2>3, CountNext DEF Complete, IsPacket
  <2> QED BY <1>3, <2>2, <2>3, EpbAppends
<1>4. ASSUME NEW l \in Listeners, NEW o \in Outcomes, NewInterface(l, o) PROVE CountInv'
  <2>1. IfaceBlock(l, ifaces, o) \in Block /\ ~Complete(IfaceBlock(l, ifaces, o))
    BY CaptureAssumption DEF TypeInv, TypeOK, IfaceBlock, Block, Flags, SeqNum, Complete, IsPacket
  <2>2. packets' = packets
    BY <1>4 DEF NewInterface
  <2>3. file' = file \/ file' = Append(file, IfaceBlock(l, ifaces, o))
    BY <1>4 DEF NewInterface, Appended
  <2> QED BY <1>0, <1>1, <2>1, <2>2, <2>3, CountNext
<1> QED BY <1>1, <1>2, <1>3, <1>4, QuietRun DEF runVars

\* Blocks that stay as they are keep their explanation.
LEMMA OverGrown ==
  ASSUME TypeOK, OverInv, Grown, NEW i \in DOMAIN file, file[i].hit
  PROVE  \E t \in 1 .. (i - 1) : /\ IsPacket(file'[t]) /\ file'[t].end = NoSlot
                                 /\ \A j \in (t + 1) .. (i - 1) : Short(file'[j])
<1>1. Len(file) \in Nat /\ DOMAIN file = 1 .. Len(file)
  BY DEF TypeOK
<1>2. PICK t \in 1 .. (i - 1) : /\ IsPacket(file[t]) /\ file[t].end = NoSlot
                                /\ \A j \in (t + 1) .. (i - 1) : Short(file[j])
  BY DEF OverInv
<1>3. \A j \in 1 .. (i - 1) : file'[j].kind = file[j].kind /\ file'[j].end = file[j].end
  BY <1>1 DEF Grown
<1> QED BY <1>1, <1>2, <1>3 DEF IsPacket, Short

\* A block that is appended is not overwritten, and a session may remember it if
\* it is a packet.
LEMMA OverAppend ==
  ASSUME TypeOK, OverInv, NEW b \in Block, file' = Append(file, b), ~b.hit,
         \A s \in Sessions : \/ lastOptions'[s] = lastOptions[s]
                             \/ lastOptions'[s] = Len(file) + 1 /\ IsPacket(b)
  PROVE  OverInv'
<1>1. /\ Len(file) \in Nat /\ DOMAIN file = 1 .. Len(file) /\ file' \in Seq(Block)
      /\ Len(file') = Len(file) + 1
      /\ DOMAIN file' = 1 .. (Len(file) + 1) /\ file'[Len(file) + 1] = b
      /\ \A i \in DOMAIN file : file'[i] = file[i]
  BY DEF TypeOK
<1>2. Grown
  BY <1>1 DEF Grown
<1>3. \A i \in DOMAIN file' : file'[i].hit => i \in DOMAIN file /\ file[i].hit
  BY <1>1
<1>4. \A s \in Sessions : lastOptions'[s] # 0 => IsPacket(file'[lastOptions'[s]])
  <2> SUFFICES ASSUME NEW s \in Sessions, lastOptions'[s] # 0
               PROVE  IsPacket(file'[lastOptions'[s]])
    OBVIOUS
  <2>1. CASE lastOptions'[s] = lastOptions[s]
    <3>1. lastOptions[s] \in DOMAIN file
      BY <1>1, <2>1 DEF TypeOK
    <3> QED BY <1>1, <2>1, <3>1 DEF OverInv
  <2>2. CASE lastOptions'[s] = Len(file) + 1 /\ IsPacket(b)
    BY <1>1, <2>2
  <2> QED BY <2>1, <2>2
<1> QED BY <1>2, <1>3, <1>4, OverGrown DEF OverInv

LEMMA OverStep == TypeInv /\ OverInv /\ [Next]_vars => OverInv'
<1> SUFFICES ASSUME TypeInv, OverInv, [Next]_vars PROVE OverInv'
  OBVIOUS
<1>0. TypeOK /\ file \in Seq(Block)
  BY DEF TypeInv, TypeOK
<1>1. UNCHANGED <<file, lastOptions>> => OverInv'
  BY DEF OverInv
<1>2. ASSUME NEW s \in Sessions, NEW c \in Notes, Comment(s, c) PROVE OverInv'
  <2>1. CASE file' = file
    BY <1>1, <1>2, <2>1 DEF Comment
  <2>2. CASE file' # file
    <3>1. /\ lastOptions[s] # 0 /\ lastOptions' = lastOptions /\ Grown /\ DOMAIN file' = DOMAIN file
      BY <1>0, <1>2, <2>2, CommentFile DEF Grown
    <3>2. PICK last \in Overrun(lastOptions[s]) : file' = Annotated(s, c, last)
      BY <1>0, <1>2, <2>2, CommentFile
    <3> DEFINE at == lastOptions[s]
    <3>3. at \in DOMAIN file /\ last \in DOMAIN file
          /\ \A j \in (at + 1) .. (last - 1) : Short(file[j])
      BY <1>0, <3>1, <3>2, AnnotatedType, OverrunType
    <3>4. IsPacket(file[at])
      BY <3>1 DEF OverInv
    <3>5. Len(file) \in Nat /\ DOMAIN file = 1 .. Len(file)
      BY <1>0
    <3>6. ASSUME NEW i \in DOMAIN file, file'[i].hit
          PROVE  \E t \in 1 .. (i - 1) : /\ IsPacket(file'[t]) /\ file'[t].end = NoSlot
                                         /\ \A j \in (t + 1) .. (i - 1) : Short(file'[j])
      <4>1. CASE file[i].hit
        BY <1>0, <3>1, <4>1, OverGrown
      <4>2. CASE ~file[i].hit
        <5>1. file[i] \in Block
          BY <1>0
        <5>2. file[at].end = NoSlot /\ i \in (at + 1) .. last
          <6>1. file'[i] # file[i] /\ file'[i] # [file[i] EXCEPT !.note = c]
            BY <3>6, <4>2, <5>1 DEF Block
          <6>2. \/ file'[i] = file[i]
                \/ file'[i] = [file[i] EXCEPT !.note = c]
                \/ file[at].end = NoSlot /\ i \in (at + 1) .. last
            BY <1>0, <3>1, <3>2, AnnotatedType
          <6> QED BY <6>1, <6>2
        <5>3. at \in 1 .. (i - 1) /\ (i - 1) <= Len(file)
          BY <3>3, <3>5, <5>2
        <5>4. \A j \in (at + 1) .. (i - 1) : Short(file[j])
          BY <3>3, <3>5, <5>2
        <5>5. \A j \in 1 .. (i - 1) : file'[j].kind = file[j].kind /\ file'[j].end = file[j].end
          BY <3>1, <3>5 DEF Grown
        <5> HIDE DEF at
        <5>6. IsPacket(file'[at]) /\ file'[at].end = NoSlot
          BY <3>4, <5>2, <5>3, <5>5 DEF IsPacket
        <5>7. \A j \in (at + 1) .. (i - 1) : Short(file'[j])
          BY <3>3, <3>5, <5>3, <5>4, <5>5 DEF Short
        <5> QED BY <5>3, <5>6, <5>7
      <4> QED BY <4>1, <4>2
    <3>7. \A t \in Sessions : lastOptions[t] # 0 => IsPacket(file'[lastOptions[t]])
      <4>1. \A t \in Sessions : lastOptions[t] # 0 => lastOptions[t] \in DOMAIN file
        BY <1>0, <3>5 DEF TypeOK
      <4> QED BY <3>1, <4>1 DEF OverInv, Grown, IsPacket
    <3> QED BY <3>1, <3>6, <3>7 DEF OverInv
  <2> QED BY <2>1, <2>2
<1>3. ASSUME NEW s \in Sessions, NEW o \in Outcomes, Emit(s, o) PROVE OverInv'
  <2>1. PICK dir \in BOOLEAN, flag \in Flags, n \in Nat, seq \in SeqNum, ack \in SeqNum :
          Epb(s, dir, flag, n, seq, ack, o)
    BY <1>3, EmitEpb
  <2>2. lastOptions' = IF o >= NoSlot THEN [lastOptions EXCEPT ![s] = Len(file) + 1] ELSE lastOptions
    BY <2>1 DEF Epb, SlotOffset
  <2>3. CASE o = Nothing /\ file' = file
    BY <1>1, <2>2, <2>3 DEF Nothing, NoSlot
  <2>4. ASSUME NEW b \in Block, file' = Append(file, b), b.kind = "epb", ~b.hit PROVE OverInv'
    <3>1. \A t \in Sessions : \/ lastOptions'[t] = lastOptions[t]
                              \/ lastOptions'[t] = Len(file) + 1 /\ IsPacket(b)
      BY <1>0, <2>2, <2>4 DEF TypeOK, IsPacket
    <3> QED BY <1>0, <2>4, <3>1, OverAppend
  <2> QED BY <1>3, <2>3, <2>4, EpbAppends
<1>4. ASSUME NEW l \in Listeners, NEW o \in Outcomes, NewInterface(l, o) PROVE OverInv'
  <2>1. IfaceBlock(l, ifaces, o) \in Block /\ ~IfaceBlock(l, ifaces, o).hit
    BY CaptureAssumption DEF TypeInv, TypeOK, IfaceBlock, Block, Flags, SeqNum
  <2>2. lastOptions' = lastOptions
    BY <1>4 DEF NewInterface
  <2>3. file' = file \/ file' = Append(file, IfaceBlock(l, ifaces, o))
    BY <1>4 DEF NewInterface, Appended
  <2> QED BY <1>0, <1>1, <2>1, <2>2, <2>3, OverAppend
<1> QED BY <1>1, <1>2, <1>3, <1>4, QuietRun DEF runVars

\* The packets written whole are those a reader finds and those a note has
\* overwritten, and there is a torn packet for each of the latter: two of them
\* cannot lie behind the same one, since the first is not short.
LEMMA LossBounded == TypeInv /\ CountInv /\ OverInv => StatsMatch
<1> SUFFICES ASSUME TypeInv, CountInv, OverInv PROVE StatsMatch
  OBVIOUS
<1> DEFINE written == {i \in DOMAIN file : Complete(file[i])}
           lost == {i \in DOMAIN file : Complete(file[i]) /\ file[i].hit}
           Behind(t, i) == /\ t \in 1 .. (i - 1) /\ IsPacket(file[t]) /\ file[t].end = NoSlot
                           /\ \A j \in (t + 1) .. (i - 1) : Short(file[j])
           cause == [i \in lost |-> CHOOSE t \in TornAtSlot : Behind(t, i)]
<1>1. Len(file) \in Nat /\ DOMAIN file = 1 .. Len(file) /\ IsFiniteSet(DOMAIN file)
  <2>1. Len(file) \in Nat /\ DOMAIN file = 1 .. Len(file)
    BY DEF TypeInv, TypeOK
  <2> QED BY <2>1, FS_Interval
<1>2. /\ IsFiniteSet(written) /\ IsFiniteSet(lost)
      /\ IsFiniteSet(ReadablePackets) /\ IsFiniteSet(TornAtSlot)
  <2>1. /\ written \subseteq DOMAIN file /\ lost \subseteq DOMAIN file
        /\ ReadablePackets \subseteq DOMAIN file /\ TornAtSlot \subseteq DOMAIN file
    BY DEF ReadablePackets, TornAtSlot
  <2> QED BY <1>1, <2>1, FS_Subset
<1>3. /\ Cardinality(lost) \in Nat /\ Cardinality(ReadablePackets) \in Nat
      /\ Cardinality(TornAtSlot) \in Nat
  BY <1>2, FS_CardinalityType
<1>4. packets = Cardinality(ReadablePackets) + Cardinality(lost)
  <2>1. written = ReadablePackets \cup lost /\ ReadablePackets \cap lost = {}
    BY DEF ReadablePackets, Readable, Complete
  <2>2. Cardinality({}) = 0
    BY FS_EmptySet
  <2>3. Cardinality(written) = Cardinality(ReadablePackets) + Cardinality(lost) - Cardinality({})
    <3> HIDE DEF written, lost
    <3> QED BY <1>2, <2>1, FS_Union
  <2> HIDE DEF written, lost
  <2>4. packets = Cardinality(written)
    BY DEF CountInv, written
  <2> QED BY <1>3, <2>2, <2>3, <2>4
<1>5. \A i \in lost : \E t \in TornAtSlot : Behind(t, i)
  <2> SUFFICES ASSUME NEW i \in lost PROVE \E t \in TornAtSlot : Behind(t, i)
    OBVIOUS
  <2>1. PICK t \in 1 .. (i - 1) : Behind(t, i)
    BY DEF OverInv
  <2>2. t \in DOMAIN file
    BY <1>1
  <2> QED BY <2>1, <2>2 DEF TornAtSlot
<1>6. \A i \in lost : cause[i] \in TornAtSlot /\ Behind(cause[i], i)
  <2> HIDE DEF Behind, lost
  <2> QED BY <1>5
<1>7. \A i, k \in lost : i < k => cause[i] # cause[k]
  <2> SUFFICES ASSUME NEW i \in lost, NEW k \in lost, i < k, cause[i] = cause[k] PROVE FALSE
    OBVIOUS
  <2> HIDE DEF cause
  <2>1. cause[i] \in 1 .. (i - 1) /\ \A j \in (cause[k] + 1) .. (k - 1) : Short(file[j])
    BY <1>6
  <2>2. i \in Nat /\ k \in Nat
    BY <1>1
  <2>3. Short(file[i])
    BY <2>1, <2>2
  <2>4. ~Short(file[i])
    BY DEF Complete, IsPacket, Short, Whole, NoTrailer
  <2> QED BY <2>3, <2>4
<1>8. \A i, k \in lost : cause[i] = cause[k] => i = k
  <2>1. \A i \in lost : i \in Nat
    BY <1>1
  <2> HIDE DEF cause, lost
  <2> QED BY <1>7, <2>1
<1>9. Cardinality(lost) <= Cardinality(TornAtSlot)
  <2>1. cause \in Injection(lost, TornAtSlot)
    <3>1. cause \in [lost -> TornAtSlot]
      <4> HIDE DEF lost, Behind
      <4> QED BY <1>6
    <3> HIDE DEF cause, lost
    <3> QED BY <1>8, <3>1 DEF Injection, IsInjective
  <2> HIDE DEF cause, lost
  <2> QED BY <1>2, <2>1, FS_Injection
<1> HIDE DEF lost
<1> QED BY <1>3, <1>4, <1>9 DEF StatsMatch

\* Stats never reports fewer packets than the file holds, and more by at most one
\* for each packet torn at its slot, whichever writes failed and whoever commented.
THEOREM StatsMatchHolds == Spec => []StatsMatch
<1>1. Init => CountInv /\ OverInv
  <2> SUFFICES ASSUME Init PROVE CountInv /\ OverInv
    OBVIOUS
  <2>1. DOMAIN file = {} /\ {i \in DOMAIN file : Complete(file[i])} = {}
    BY DEF Init
  <2> QED BY <2>1, FS_EmptySet DEF Init, CountInv, OverInv
<1>2. TypeInv /\ CountInv /\ OverInv /\ [Next]_vars => TypeInv' /\ CountInv' /\ OverInv'
  BY TypeStep, CountStep, OverStep
<1> QED BY TypeInit, <1>1, <1>2, LossBounded, PTL DEF Spec

-----------------------------------------------------------------------------
(* Notes *)

\* A note is nowhere before it is taken, then in one place, which is its
\* author's; and the slot a session remembers is in a block of that session,
\* written whole or not.
NoteInv ==
  /\ \A s \in Sessions, c \in Notes : pending[s] = c => author[c] = s
  /\ \A i \in DOMAIN file, c \in Notes :
       file[i].note = c => author[c] = file[i].owner /\ author[c] \in Sessions
  /\ \A i, j \in DOMAIN file : file[i].note \in Notes /\ file[i].note = file[j].note => i = j
  /\ \A s \in Sessions, i \in DOMAIN file : pending[s] \in Notes => pending[s] # file[i].note
  /\ \A s \in Sessions : lastOptions[s] # 0 => /\ lastOptions[s] \in DOMAIN file
                                               /\ file[lastOptions[s]].owner = s

LEMMA NoteComment ==
  ASSUME TypeInv, NoteInv, NEW s \in Sessions, NEW c \in Notes, Comment(s, c)
  PROVE  NoteInv'
<1>1. /\ author[c] = Free /\ author' = [author EXCEPT ![c] = s] /\ Free \notin Sessions
      /\ NoNote \notin Notes /\ lastOptions' = lastOptions /\ c # NoNote
      /\ author \in [Notes -> Sessions \cup {Free}]
      /\ pending \in [Sessions -> Notes \cup {NoNote}]
      /\ file \in Seq(Block)
  BY CaptureAssumption DEF Comment, TypeInv, TypeOK
<1>2. (\A t \in Sessions : pending[t] # c) /\ \A i \in DOMAIN file : file[i].note # c
  BY <1>1 DEF NoteInv
<1>3. CASE file' = file /\ pending' = pending
  BY <1>1, <1>2, <1>3 DEF NoteInv
<1>4. CASE file' = file /\ pending' = [pending EXCEPT ![s] = c]
  BY <1>1, <1>2, <1>4 DEF NoteInv
<1>5. CASE file' # file
  <2> DEFINE at == lastOptions[s]
  <2>1. /\ at # 0 /\ UNCHANGED <<lastOptions, pending>> /\ DOMAIN file' = DOMAIN file
        /\ \A i \in DOMAIN file : file'[i].owner = file[i].owner
    BY <1>5, CommentFile DEF TypeInv
  <2>2. PICK last \in Overrun(at) : file' = Annotated(s, c, last)
    BY <1>5, CommentFile DEF TypeInv
  <2>3. at \in DOMAIN file /\ file[at].owner = s
    BY <2>1 DEF NoteInv
  <2>4. \A i \in DOMAIN file : file[i] \in Block
    BY <1>1
  <2>5. \A i \in DOMAIN file : \/ file'[i].note = file[i].note
                               \/ file'[i].note = NoNote
                               \/ i = at /\ file'[i].note = c
    <3> SUFFICES ASSUME NEW i \in DOMAIN file
                 PROVE  \/ file'[i].note = file[i].note
                        \/ file'[i].note = NoNote
                        \/ i = at /\ file'[i].note = c
      OBVIOUS
    <3>1. \/ file'[i] = file[i]
          \/ i = at /\ file'[i] = [file[i] EXCEPT !.note = c]
          \/ file'[i] = Overwritten(file[i])
      BY <2>1, <2>2, AnnotatedType DEF TypeInv
    <3> HIDE DEF at
    <3> QED BY <2>4, <3>1 DEF Block, Overwritten
  <2> HIDE DEF at
  <2>6. \A i \in DOMAIN file : file'[i].note \in Notes =>
          \/ file'[i].note = file[i].note /\ file[i].note # c
          \/ i = at /\ file'[i].note = c
    BY <1>1, <1>2, <2>5
  <2>7. /\ \A i \in DOMAIN file', d \in Notes :
             file'[i].note = d => author'[d] = file'[i].owner /\ author'[d] \in Sessions
        /\ \A i, j \in DOMAIN file' : file'[i].note \in Notes /\ file'[i].note = file'[j].note => i = j
    BY <1>1, <2>1, <2>3, <2>6 DEF NoteInv
  <2>8. \A t \in Sessions, i \in DOMAIN file' : pending'[t] \in Notes => pending'[t] # file'[i].note
    BY <1>1, <1>2, <2>1, <2>6 DEF NoteInv
  <2>9. /\ \A t \in Sessions, d \in Notes : pending'[t] = d => author'[d] = t
        /\ \A t \in Sessions : lastOptions'[t] # 0 => /\ lastOptions'[t] \in DOMAIN file'
                                                      /\ file'[lastOptions'[t]].owner = t
    BY <1>1, <1>2, <2>1 DEF NoteInv
  <2> QED BY <2>7, <2>8, <2>9 DEF NoteInv
<1> QED BY <1>3, <1>4, <1>5 DEF Comment

LEMMA NoteEmit ==
  ASSUME TypeInv, NoteInv, NEW s \in Sessions, NEW o \in Outcomes, Emit(s, o)
  PROVE  NoteInv'
<1>1. PICK dir \in BOOLEAN, flag \in Flags, n \in Nat, seq \in SeqNum, ack \in SeqNum :
        Epb(s, dir, flag, n, seq, ack, o)
  BY EmitEpb
<1> DEFINE note == IF o >= NoTrailer THEN pending[s] ELSE NoNote
           b == PacketBlock(s, dir, flag, n, seq, ack, o, note)
<1>2. b \in Block /\ b.owner = s /\ b.note = note /\ b.end = o
  BY EmitEpb DEF TypeInv, TypeOK, PacketBlock, Block
<1>3. file' = IF o = Nothing THEN file ELSE Append(file, b)
  BY <1>1 DEF Epb, Appended, PacketBlock
<1>4. /\ lastOptions' = IF o >= NoSlot THEN [lastOptions EXCEPT ![s] = Len(file) + 1] ELSE lastOptions
      /\ pending' = IF o >= NoSlot THEN [pending EXCEPT ![s] = NoNote] ELSE pending
      /\ author' = author
  BY <1>1, EmitEpb DEF Epb, SlotOffset, PendingAfter
<1>5. /\ o \in 0 .. 4 /\ NoSlot = 2 /\ NoTrailer = 3 /\ Nothing = 0
      /\ NoNote \notin Notes
      /\ pending \in [Sessions -> Notes \cup {NoNote}]
      /\ lastOptions \in [Sessions -> Nat]
      /\ file \in Seq(Block)
  BY CaptureAssumption DEF Outcomes, Nothing, Whole, NoSlot, NoTrailer, TypeInv, TypeOK
<1> HIDE DEF b, note
<1>6. CASE o = Nothing
  <2>1. UNCHANGED <<file, lastOptions, pending, author>>
    BY <1>3, <1>4, <1>5, <1>6
  <2> QED BY <2>1 DEF NoteInv
<1>7. CASE o # Nothing
  <2>1. /\ Len(file) \in Nat /\ DOMAIN file = 1 .. Len(file)
        /\ DOMAIN file' = 1 .. (Len(file) + 1) /\ file'[Len(file) + 1] = b
        /\ \A j \in DOMAIN file : file'[j] = file[j]
    BY <1>2, <1>3, <1>5, <1>7
  <2>2. note \in Notes => note = pending[s] /\ pending' = [pending EXCEPT ![s] = NoNote]
    BY <1>4, <1>5 DEF note
  <2>3. \A t \in Sessions : pending'[t] \in Notes => pending'[t] = pending[t] /\ (t = s => o < NoSlot)
    BY <1>4, <1>5
  <2>4. \A t, r \in Sessions : pending[t] \in Notes /\ pending[t] = pending[r] => t = r
    BY DEF NoteInv
  <2>5. \A t \in Sessions, i \in DOMAIN file' : pending'[t] \in Notes => pending'[t] # file'[i].note
    <3> SUFFICES ASSUME NEW t \in Sessions, NEW i \in DOMAIN file', pending'[t] \in Notes
                 PROVE  pending'[t] # file'[i].note
      OBVIOUS
    <3>1. CASE i \in DOMAIN file
      BY <2>1, <2>3, <3>1 DEF NoteInv
    <3>2. CASE i = Len(file) + 1
      BY <1>2, <1>5, <2>1, <2>2, <2>3, <2>4, <3>2
    <3> QED BY <2>1, <3>1, <3>2
  <2>6. \A i, j \in DOMAIN file' : file'[i].note \in Notes /\ file'[i].note = file'[j].note => i = j
    <3>1. \A i \in DOMAIN file : note \in Notes => file[i].note # note
      BY <2>2 DEF NoteInv
    <3> QED BY <1>2, <2>1, <3>1 DEF NoteInv
  <2>7. \A i \in DOMAIN file', c \in Notes :
          file'[i].note = c => author'[c] = file'[i].owner /\ author'[c] \in Sessions
    BY <1>2, <1>4, <2>1, <2>2 DEF NoteInv
  <2>8. \A t \in Sessions : lastOptions'[t] # 0 => /\ lastOptions'[t] \in DOMAIN file'
                                                   /\ file'[lastOptions'[t]].owner = t
    BY <1>2, <1>4, <1>5, <2>1 DEF NoteInv
  <2>9. \A t \in Sessions, c \in Notes : pending'[t] = c => author'[c] = t
    BY <1>4, <2>3 DEF NoteInv
  <2> QED BY <2>5, <2>6, <2>7, <2>8, <2>9 DEF NoteInv
<1> QED BY <1>6, <1>7

LEMMA NoteStep == TypeInv /\ NoteInv /\ [Next]_vars => NoteInv'
<1> SUFFICES ASSUME TypeInv, NoteInv, [Next]_vars PROVE NoteInv'
  OBVIOUS
<1>1. ASSUME NEW l \in Listeners, NEW o \in Outcomes, NewInterface(l, o) PROVE NoteInv'
  <2>1. UNCHANGED <<lastOptions, pending, author>>
    BY <1>1 DEF NewInterface
  <2>2. CASE file' = file
    BY <2>1, <2>2 DEF NoteInv
  <2>3. CASE file' # file
    <3> DEFINE b == IfaceBlock(l, ifaces, o)
    <3>1. b \in Block /\ b.note = NoNote
      BY CaptureAssumption DEF TypeInv, TypeOK, IfaceBlock, Block, Flags, SeqNum
    <3>2. file' = Append(file, b) /\ NoNote \notin Notes
      BY <1>1, <2>3, CaptureAssumption DEF NewInterface, Appended
    <3> HIDE DEF b
    <3>3. /\ Len(file) \in Nat /\ DOMAIN file = 1 .. Len(file)
          /\ DOMAIN file' = 1 .. (Len(file) + 1) /\ file'[Len(file) + 1] = b
          /\ \A j \in DOMAIN file : file'[j] = file[j]
      BY <3>1, <3>2 DEF TypeInv, TypeOK
    <3> QED BY <2>1, <3>1, <3>2, <3>3 DEF NoteInv
  <2> QED BY <2>2, <2>3
<1>2. UNCHANGED <<runVars, author>> => NoteInv'
  BY DEF runVars, NoteInv
<1> QED BY <1>1, <1>2, NoteComment, NoteEmit, QuietRun

\* A note waits in one session or is on one packet, always its author's,
\* through every interleaving and every failing write.
THEOREM NoteOnAuthorsPacketHolds == Spec => []NoteOnAuthorsPacket
<1>1. Init => NoteInv
  <2> SUFFICES ASSUME Init PROVE NoteInv
    OBVIOUS
  <2>1. DOMAIN file = {} /\ NoNote \notin Notes
    BY CaptureAssumption DEF Init
  <2> QED BY <2>1 DEF Init, NoteInv
<1>2. NoteInv => NoteOnAuthorsPacket
  <2> SUFFICES ASSUME NoteInv, NEW c \in Notes
               PROVE  LET waiting == {s \in Sessions : pending[s] = c}
                          on == {i \in DOMAIN file : file[i].note = c}
                      IN /\ \A s \in waiting : author[c] = s
                         /\ \A i \in on : author[c] = file[i].owner
                         /\ Cardinality(waiting) + Cardinality(on) <= 1
    BY DEF NoteOnAuthorsPacket
  <2> DEFINE waiting == {s \in Sessions : pending[s] = c}
             on == {i \in DOMAIN file : file[i].note = c}
  <2>1. (\A s \in waiting : author[c] = s) /\ \A i \in on : author[c] = file[i].owner
    BY DEF NoteInv
  <2>2. waiting = {} \/ waiting = {author[c]}
    BY <2>1
  <2>3. on = {} \/ \E i \in on : on = {i}
    BY DEF NoteInv
  <2>4. waiting = {} \/ on = {}
    BY DEF NoteInv
  <2>5. Cardinality({}) = 0 /\ (\A x : Cardinality({x}) = 1)
    BY FS_EmptySet, FS_Singleton
  <2>6. Cardinality(waiting) \in {0, 1} /\ (waiting = {} => Cardinality(waiting) = 0)
    BY <2>2, <2>5
  <2>7. Cardinality(on) \in {0, 1} /\ (on = {} => Cardinality(on) = 0)
    BY <2>3, <2>5
  <2>8. Cardinality(waiting) + Cardinality(on) <= 1
    BY <2>4, <2>6, <2>7
  <2> QED BY <2>1, <2>8
<1>3. TypeInv /\ NoteInv /\ [Next]_vars => TypeInv' /\ NoteInv'
  BY TypeStep, NoteStep
<1> QED BY TypeInit, <1>1, <1>2, <1>3, PTL DEF Spec

=============================================================================
