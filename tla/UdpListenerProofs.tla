------------------------- MODULE UdpListenerProofs -------------------------
(***************************************************************************)
(* Proofs about UdpListener for any number of peers, flows and other users *)
(* of the capture.  The composition only takes steps of Capture, so the    *)
(* theorems of CaptureProofs hold of it; the rest is about the loop and    *)
(* its flow table.                                                         *)
(***************************************************************************)
EXTENDS UdpListener, CaptureProofs

\* What the loop, the flow table and the datagram in hand have to do with each
\* other; the flow table holds the open flows, each once.
FlowInv ==
  /\ flows \in [Peers -> Udp \cup {None}]
  /\ loop \in Busy => peer \in Peers
  /\ loop = "writing" => flows[peer] # None
  /\ up \in BOOLEAN
  /\ \A p \in Peers : flows[p] # None => state[flows[p]] = "open"
  /\ \A s \in Udp : state[s] = "open" => \E p \in Peers : flows[p] = s
  /\ \A p, q \in Peers : flows[p] # None /\ flows[p] = flows[q] => p = q
  /\ loop = "handling" => handed = flows[peer]
  /\ handed \in Udp \cup {None}

\* Nobody but the loop changes a flow.
FlowsAlone == \A s \in Udp : state'[s] = state[s]

UdpInv == TypeInv /\ FlowInv

LEMMA UdpInitInv == UdpInit => UdpInv
PROOF
<1> SUFFICES ASSUME UdpInit PROVE UdpInv
  OBVIOUS
<1>1. TypeInv
  BY TypeInit DEF UdpInit
<1>2. FlowInv
  BY DEF UdpInit, Init, FlowInv, Busy, Recording, Sessions
<1> QED BY <1>1, <1>2 DEF UdpInv

-----------------------------------------------------------------------------
(* Every step of the composition is a step of the capture, or none of it *)

LEMMA FlowIsSession == Udp \subseteq Sessions /\ None \notin Udp /\ None \notin Peers
BY UdpAssumption DEF Sessions

LEMMA CaptureStep == UdpInv /\ [UdpNext]_allVars => [Next]_vars
PROOF
<1> SUFFICES ASSUME UdpInv, [UdpNext]_allVars PROVE [Next]_vars
  OBVIOUS
<1> USE FlowIsSession DEF UdpInv, FlowInv
<1>1. ASSUME NEW o \in Outcomes, Start(o) PROVE Next
  BY <1>1, UdpAssumption DEF Start, Next
<1>2. CASE Bind \/ CtxDone \/ CloseOnCancel \/ ReadFails \/ NoReply \/ Reply \/ Send \/ Return
  BY <1>2 DEF Bind, CtxDone, CloseOnCancel, ReadFails, NoReply, Reply, Send, Return
<1>3. ASSUME NEW p \in Peers, GoIdle(p) \/ Receive(p) PROVE UNCHANGED vars
  BY <1>3 DEF GoIdle, Receive
<1>4. ASSUME NEW p \in Peers, Purge(p) \/ CloseFlow(p) PROVE Next
  <2>1. flows[p] \in Sessions /\ Finish(flows[p])
    BY <1>4 DEF Purge, CloseFlow, Forget
  <2> QED BY <2>1 DEF Next, SessionStep
<1>5. CASE OpenFlow
  <2>1. Fresh \in Sessions /\ NewSession(Fresh)
    BY <1>5 DEF OpenFlow, Fresh
  <2> QED BY <2>1 DEF Next, SessionStep
<1>6. CASE RecordLock
  <2>1. flows[peer] \in Sessions /\ WriteStart(flows[peer])
    BY <1>6 DEF RecordLock, Busy, Recording
  <2> QED BY <2>1 DEF Next, SessionStep
<1>7. ASSUME NEW o \in Outcomes, RecordDone(o) PROVE Next
  <2>1. flows[peer] \in Sessions /\ EmitUdpData(flows[peer], o)
    BY <1>7 DEF RecordDone, Busy, Recording
  <2> QED BY <2>1 DEF Next, SessionStep, Emit
<1>8. ASSUME NEW n \in Lens, Record(n) PROVE Next
  <2>1. flows[peer] \in Sessions /\ SocketIO(flows[peer], up, n)
    BY <1>8 DEF Record, Busy, Recording
  <2> QED BY <2>1 DEF Next, SessionStep
<1>9. ASSUME NEW c \in Notes, Annotate(c) PROVE Next
  <2>1. handed \in Sessions /\ Comment(handed, c)
    BY <1>9 DEF Annotate
  <2> QED BY <2>1 DEF Next, SessionStep
<1>10. CASE Others
  BY <1>10 DEF Others, Next, Sessions
<1>11. CASE UNCHANGED allVars
  BY <1>11 DEF allVars
<1> QED BY <1>1, <1>2, <1>3, <1>4, <1>5, <1>6, <1>7, <1>8, <1>9, <1>10, <1>11
        DEF UdpNext, Recorder, Handler, Unwind

-----------------------------------------------------------------------------
(* The flow table *)

\* The steps of TCP connections, of listeners and of the run leave flows alone.
LEMMA OthersLeaveFlows == TypeInv /\ Others => FlowsAlone
PROOF
<1> SUFFICES ASSUME TypeInv, Others, NEW t \in Udp PROVE state'[t] = state[t]
  BY DEF FlowsAlone
<1>1. t \notin Tcp /\ t \in Sessions /\ DOMAIN state = Sessions
  BY CaptureAssumption DEF Sessions, TypeInv, TypeOK
<1>2. ASSUME NEW s \in Tcp, SessionStep(s) PROVE state'[t] = state[t]
  <2> USE <1>1 DEF connVars
  <2>1. CASE NewSession(s)
    BY <2>1 DEF NewSession
  <2>2. CASE HandlerClose(s) \/ Finish(s) \/ Interrupt(s)
    BY <2>2 DEF HandlerClose, Finish, Interrupt
  <2>3. CASE \/ WriteStart(s) \/ HandshakeStart(s) \/ HandshakeEnd(s) \/ InterruptClose(s)
             \/ \E dir \in BOOLEAN, n \in Lens : SocketIO(s, dir, n)
             \/ \E c \in Notes : Comment(s, c)
    BY <2>3 DEF WriteStart, HandshakeStart, HandshakeEnd, InterruptClose, SocketIO, Comment
  <2>4. CASE \E o \in Outcomes : Emit(s, o)
    BY <2>4 DEF Emit, EmitSyn, EmitSynAck, EmitTcpData, EmitUdpData, EmitFin, EmitFinAck
  <2> QED BY <1>2, <2>1, <2>2, <2>3, <2>4 DEF SessionStep
<1>3. ASSUME NEW l \in Listeners, NEW o \in Outcomes, NewInterface(l, o) PROVE state'[t] = state[t]
  BY <1>3 DEF NewInterface, connVars
<1>4. CASE RunClose
  BY <1>4 DEF RunClose, connVars
<1> QED BY <1>2, <1>3, <1>4 DEF Others

\* The close of a flow removes it from the table and from the open sessions.
LEMMA ForgetFlow ==
  ASSUME UdpInv, NEW p \in Peers, Forget(p), UNCHANGED <<handed, loop, peer, up>>,
         loop \in {"purging", "unwinding"}
  PROVE  FlowInv'
PROOF
<1>1. /\ flows[p] \in Udp /\ flows' = [flows EXCEPT ![p] = None]
      /\ state' = [state EXCEPT ![flows[p]] = "done"]
      /\ Udp \subseteq DOMAIN state
  BY FlowIsSession DEF Forget, Finish, UdpInv, FlowInv, TypeInv, TypeOK
<1> QED BY <1>1, FlowIsSession DEF UdpInv, FlowInv, Busy, Recording

LEMMA FlowStep == UdpInv /\ [UdpNext]_allVars => FlowInv'
PROOF
<1> SUFFICES ASSUME UdpInv, [UdpNext]_allVars PROVE FlowInv'
  OBVIOUS
<1>0. FlowInv /\ Udp \subseteq DOMAIN state
  BY FlowIsSession DEF UdpInv, TypeInv, TypeOK
<1> USE FlowIsSession DEF flowVars, connVars, loopVars
<1>a. ASSUME FlowsAlone, UNCHANGED <<flowVars, loopVars>> PROVE FlowInv'
  BY <1>0, <1>a DEF FlowInv, FlowsAlone
<1>1. ASSUME NEW o \in Outcomes, Start(o) PROVE FlowInv'
  BY <1>0, <1>1 DEF Start, NewInterface, Goto, FlowInv, Busy, Recording
<1>2. CASE Bind \/ ReadFails \/ Return
  BY <1>0, <1>2 DEF Bind, ReadFails, Return, vars, Goto, FlowInv, Busy, Recording
<1>3. CASE CtxDone \/ CloseOnCancel \/ \E p \in Peers : GoIdle(p)
  BY <1>0, <1>3 DEF CtxDone, CloseOnCancel, GoIdle, vars, FlowInv
<1>4. CASE NoReply \/ Reply \/ Send
  BY <1>0, <1>4, ZenonT(30) DEF NoReply, Reply, Send, NextDatagram, vars, Goto, FlowInv, Busy, Recording
<1>5. ASSUME NEW p \in Peers, Receive(p) PROVE FlowInv'
  BY <1>0, <1>5 DEF Receive, SessionFor, vars, Goto, FlowInv, Busy, Recording
<1>6. ASSUME NEW p \in Peers, Purge(p) \/ CloseFlow(p) PROVE FlowInv'
  BY <1>6, ForgetFlow DEF Purge, CloseFlow
<1>7. CASE OpenFlow
  <2>1. Fresh \in Udp /\ state[Fresh] = "absent"
    BY <1>7 DEF OpenFlow, Fresh
  <2>2. /\ state' = [state EXCEPT ![Fresh] = "open"]
        /\ flows' = [flows EXCEPT ![peer] = Fresh]
        /\ flows[peer] = None /\ peer \in Peers
        /\ UNCHANGED loopVars /\ loop = "purging"
    BY <1>0, <1>7 DEF OpenFlow, NewSession, FlowInv, Busy, Recording
  <2> HIDE DEF Fresh
  <2> QED BY <1>0, <2>1, <2>2 DEF FlowInv
<1>8. CASE RecordLock \/ \E c \in Notes : Annotate(c)
  BY <1>0, <1>8 DEF RecordLock, Annotate, WriteStart, Comment, listenerVars, FlowInv
<1>9. ASSUME NEW o \in Outcomes, RecordDone(o) PROVE FlowInv'
  <2>1. UNCHANGED <<state, flows>>
    BY <1>9 DEF RecordDone, EmitUdpData
  <2>2. CASE up
    <3>1. UNCHANGED <<peer, up>> /\ loop' = "handling" /\ handed' = flows[peer] /\ peer \in Peers
      BY <1>0, <1>9, <2>2 DEF RecordDone, SessionFor, Goto, FlowInv, Busy, Recording
    <3> QED BY <1>0, <2>1, <3>1 DEF FlowInv
  <2>3. CASE ~up
    <3>1. up' = TRUE /\ loop' = "reading" /\ handed' = None
      BY <1>9, <2>3 DEF RecordDone, NextDatagram, Goto
    <3> QED BY <1>0, <2>1, <3>1 DEF FlowInv, Busy, Recording
  <2> QED BY <2>2, <2>3
<1>10. ASSUME NEW n \in Lens, Record(n) PROVE FlowInv'
  BY <1>0, <1>10 DEF Record, SocketIO, Goto, FlowInv, Busy, Recording
<1>11. CASE Others
  <2>1. UNCHANGED <<flowVars, loopVars>>
    BY <1>11 DEF Others, listenerVars
  <2> QED BY <1>11, <1>a, <2>1, OthersLeaveFlows DEF UdpInv
<1>12. CASE UNCHANGED allVars
  BY <1>0, <1>12 DEF allVars, vars, listenerVars, FlowInv
<1> QED BY <1>1, <1>2, <1>3, <1>4, <1>5, <1>6, <1>7, <1>8, <1>9, <1>10, <1>11, <1>12
        DEF UdpNext, Recorder, Handler, Unwind

LEMMA UdpStep == UdpInv /\ [UdpNext]_allVars => UdpInv'
BY CaptureStep, TypeStep, FlowStep DEF UdpInv

LEMMA UdpInvariant == UdpSpec => []UdpInv
PROOF
  BY UdpInitInv, UdpStep, PTL DEF UdpSpec

\* The datagram loop is a user of the capture: whatever Capture promises of all
\* its sessions holds with a UDP listener among them.
THEOREM UdpIsCapture == UdpSpec => Spec
PROOF
<1>1. UdpInit => Init
  BY DEF UdpInit
<1> QED BY <1>1, UdpInvariant, CaptureStep, PTL DEF UdpSpec, Spec

\* A packet's interface id is its own listener's, with flows that come and go.
THEOREM UdpPacketOnOwnInterface == UdpSpec => []PacketOnOwnInterface
PROOF
  BY UdpIsCapture, PacketOnOwnInterfaceHolds, PTL

\* Flows neither leak nor are closed under the handler they were given to.
THEOREM FlowTableExactHolds == UdpSpec => []FlowTableExact
PROOF
<1>1. UdpInv => FlowTableExact
  <2> SUFFICES ASSUME UdpInv PROVE FlowTableExact
    OBVIOUS
  <2>1. \A s \in Udp : state[s] = "open" <=> \E p \in Peers : flows[p] = s
    BY FlowIsSession DEF UdpInv, FlowInv
  <2>2. \A p \in Peers : flows[p] \in Udp \cup {None}
    BY DEF UdpInv, FlowInv
  <2>3. {s \in Udp : state[s] = "open"} = {flows[p] : p \in Peers} \ {None}
    BY <2>1, <2>2, FlowIsSession
  <2> QED BY <2>3 DEF FlowTableExact, UdpInv, FlowInv
<1> QED BY <1>1, UdpInvariant, PTL

-----------------------------------------------------------------------------
(* The datagram being handled *)

\* served names the block of the datagram in hand: a whole block of the session the
\* handler was given, and the one a comment of that session goes to.
ServedInv ==
  /\ served \in 0 .. Len(file)
  /\ served # 0 => loop \in {"handling", "replying"} \/ (loop \in Recording /\ ~up)
  /\ loop = "handling" /\ served # 0 =>
       /\ handed # None /\ lastOptions[handed] = served
       /\ file[served].owner = handed /\ file[served].end = Whole

\* Blocks keep their owner and how much of them was written.
LEMMA FileGrows == ASSUME TypeInv, [Next]_vars PROVE Grown
<1>1. file \in Seq(Block)
  BY DEF TypeInv, TypeOK
<1>2. ASSUME NEW b \in Block, file' = Append(file, b) PROVE Grown
  BY <1>1, <1>2 DEF Grown
<1>3. ASSUME NEW l \in Listeners, NEW o \in Outcomes, NewInterface(l, o) PROVE Grown
  <2>1. IfaceBlock(l, ifaces, o) \in Block
    BY CaptureAssumption DEF TypeInv, TypeOK, IfaceBlock, Block, Flags, SeqNum
  <2>2. file' = file \/ file' = Append(file, IfaceBlock(l, ifaces, o))
    BY <1>3 DEF NewInterface, Appended
  <2> QED BY <1>1, <1>2, <2>1, <2>2 DEF Grown
<1> QED BY <1>2, <1>3, FileStep

\* Who else uses the capture writes no block of a flow and no note of one.
LEMMA OthersLeaveSlots ==
  ASSUME TypeInv, Others, NEW t \in Udp
  PROVE  /\ lastOptions'[t] = lastOptions[t]
         /\ \A c \in Notes : author'[c] # author[c] => author'[c] # t
<1> DEFINE Goal == /\ lastOptions'[t] = lastOptions[t]
                   /\ \A c \in Notes : author'[c] # author[c] => author'[c] # t
<1>1. /\ t \notin Tcp /\ t \in Sessions /\ lastOptions \in [Sessions -> Nat]
      /\ author \in [Notes -> Sessions \cup {Free}]
  BY CaptureAssumption DEF Sessions, TypeInv, TypeOK
<1>2. ASSUME UNCHANGED <<lastOptions, author>> PROVE Goal
  BY <1>2
<1>3. ASSUME NEW s \in Tcp, SessionStep(s) PROVE Goal
  <2>1. s \in Sessions /\ s # t
    BY <1>1 DEF Sessions
  <2>2. ASSUME NEW o \in Outcomes, Emit(s, o) PROVE Goal
    <3>1. author' = author /\ \E dir \in BOOLEAN, flag \in Flags, n \in Nat, seq, ack \in SeqNum :
                                Epb(s, dir, flag, n, seq, ack, o)
      BY <2>1, <2>2, EmitEpb
    <3>2. lastOptions' = SlotOffset(s, o)
      BY <3>1 DEF Epb
    <3> QED BY <1>1, <2>1, <3>1, <3>2 DEF SlotOffset
  <2>3. ASSUME NEW c \in Notes, Comment(s, c) PROVE Goal
    BY <1>1, <2>1, <2>3 DEF Comment
  <2>4. CASE \/ NewSession(s) \/ WriteStart(s) \/ HandlerClose(s) \/ Finish(s)
             \/ HandshakeStart(s) \/ HandshakeEnd(s) \/ Interrupt(s) \/ InterruptClose(s)
             \/ \E dir \in BOOLEAN, n \in Lens : SocketIO(s, dir, n)
    BY <1>2, <2>4 DEF NewSession, WriteStart, HandlerClose, Finish, HandshakeStart, HandshakeEnd,
       Interrupt, InterruptClose, SocketIO, runVars
  <2> QED BY <1>3, <2>2, <2>3, <2>4 DEF SessionStep
<1>4. CASE (\E l \in Listeners, o \in Outcomes : NewInterface(l, o)) \/ RunClose
  BY <1>2, <1>4 DEF NewInterface, RunClose, runVars
<1> QED BY <1>3, <1>4 DEF Others

LEMMA ServedStep == UdpInv /\ ServedInv /\ [UdpNext]_allVars => ServedInv'
<1> SUFFICES ASSUME UdpInv, ServedInv, [UdpNext]_allVars PROVE ServedInv'
  OBVIOUS
<1>0. /\ Grown /\ TypeInv /\ FlowInv /\ Len(file) \in Nat /\ Len(file') \in Nat
      /\ DOMAIN file = 1 .. Len(file) /\ lastOptions \in [Sessions -> Nat]
  <2>1. TypeInv /\ FlowInv /\ Grown
    BY CaptureStep, FileGrows DEF UdpInv
  <2> QED BY <2>1 DEF TypeInv, TypeOK, Grown
<1>a. ASSUME served' = 0 PROVE ServedInv'
  BY <1>0, <1>a DEF ServedInv
<1>b. ASSUME UNCHANGED <<loop, up, handed, served>>,
             loop = "handling" /\ handed # None => lastOptions'[handed] = lastOptions[handed]
      PROVE  ServedInv'
  <2>1. served' \in 0 .. Len(file')
    BY <1>0, <1>b DEF ServedInv, Grown
  <2>2. served # 0 => /\ served \in DOMAIN file /\ file'[served].owner = file[served].owner
                      /\ file'[served].end = file[served].end
    BY <1>0 DEF ServedInv, Grown
  <2> QED BY <1>b, <2>1, <2>2 DEF ServedInv
<1>c. ASSUME served' = served, loop' # "handling",
             served # 0 => loop' = "replying" \/ (loop' \in Recording /\ ~up')
      PROVE  ServedInv'
  BY <1>0, <1>c DEF ServedInv, Grown
<1>d. loop \notin {"handling", "replying"} \cup Recording => served = 0
  BY DEF ServedInv
<1> USE DEF loopVars, Goto, Recording
<1>1. CASE (\E o \in Outcomes : Start(o)) \/ Bind \/ ReadFails \/ \E p \in Peers : Receive(p)
  BY <1>1, <1>a, <1>d DEF Start, Bind, ReadFails, Receive
<1>2. CASE Return
  BY <1>2, <1>a, <1>d DEF Return
<1>3. CASE CtxDone \/ CloseOnCancel \/ \E p \in Peers : GoIdle(p)
  BY <1>3, <1>b DEF CtxDone, CloseOnCancel, GoIdle, vars, runVars
<1>4. ASSUME NEW p \in Peers, Purge(p) \/ CloseFlow(p) PROVE ServedInv'
  BY <1>4, <1>b DEF Purge, CloseFlow
<1>5. CASE OpenFlow \/ RecordLock
  BY <1>5, <1>b DEF OpenFlow, RecordLock, listenerVars
<1>6. CASE \E c \in Notes : Annotate(c)
  BY <1>6, <1>b DEF Annotate, Comment, listenerVars
<1>7. CASE Others
  <2>1. UNCHANGED <<loop, up, handed, served>>
    BY <1>7 DEF Others, listenerVars
  <2>2. handed \in Udp \cup {None}
    BY <1>0 DEF FlowInv
  <2> QED BY <1>0, <1>7, <1>b, <2>1, <2>2, OthersLeaveSlots
<1>8. CASE NoReply
  BY <1>8, <1>a DEF NoReply, NextDatagram
<1>9. CASE Reply
  BY <1>9, <1>c DEF Reply
<1>10. CASE Send
  <2>1. CASE NextDatagram
    BY <1>a, <2>1 DEF NextDatagram
  <2>2. CASE ~NextDatagram
    BY <1>10, <1>c, <2>2 DEF Send
  <2> QED BY <2>1, <2>2
<1>11. ASSUME NEW n \in Lens, Record(n) PROVE ServedInv'
  BY <1>11, <1>c DEF Record, ServedInv
<1>12. ASSUME NEW o \in Outcomes, RecordDone(o) PROVE ServedInv'
  <2>1. CASE ~up
    BY <1>12, <1>a, <2>1 DEF RecordDone, NextDatagram
  <2>2. CASE up /\ o # Whole
    BY <1>12, <1>a, <2>2 DEF RecordDone
  <2>3. CASE up /\ o = Whole
    <3>1. /\ served' = Len(file') /\ loop' = "handling" /\ handed' = flows[peer]
          /\ EmitUdpData(flows[peer], o) /\ flows[peer] \in Udp
      BY <1>0, <1>12, <2>3 DEF RecordDone, SessionFor, FlowInv, Busy
    <3> PICK s \in Udp : s = flows[peer]
      BY <3>1
    <3>2. s \in Sessions /\ s # None /\ Emit(s, o)
      BY <3>1, FlowIsSession DEF Emit
    <3>3. lastOptions' = [lastOptions EXCEPT ![s] = Len(file) + 1]
      BY <2>3, <3>1 DEF EmitUdpData, Epb, SlotOffset, Whole, NoSlot
    <3>4. PICK b \in Block : file' = Append(file, b) /\ b.owner = s /\ b.end = Whole
      BY <1>0, <2>3, <3>2, EpbAppends DEF Whole, Nothing
    <3>5. file \in Seq(Block)
      BY <1>0 DEF TypeInv, TypeOK
    <3>6. Len(file') = Len(file) + 1 /\ file'[Len(file')] = b
      BY <3>4, <3>5
    <3> QED BY <1>0, <3>1, <3>2, <3>3, <3>4, <3>6 DEF ServedInv
  <2> QED BY <2>1, <2>2, <2>3
<1>13. CASE UNCHANGED allVars
  BY <1>13, <1>b DEF allVars, vars, runVars, listenerVars
<1> QED BY <1>1, <1>2, <1>3, <1>4, <1>5, <1>6, <1>7, <1>8, <1>9, <1>10, <1>11, <1>12, <1>13
        DEF UdpNext, Recorder, Handler, Unwind

LEMMA ServedInit == UdpInit => ServedInv
<1> SUFFICES ASSUME UdpInit PROVE ServedInv
  OBVIOUS
<1>1. Len(file) \in Nat /\ served = 0
  BY DEF UdpInit, Init
<1> QED BY <1>1 DEF ServedInv

\* A note taken of a datagram goes on the block of that datagram, for any number of
\* peers, flows and connections that write to the same file.
THEOREM NoteOnServedDatagramHolds == UdpSpec => NoteOnServedDatagram
<1> DEFINE OnServed == (loop = "handling" /\ served # 0 /\ faults' = 0) =>
                         \A c \in Notes : (author'[c] # author[c] /\ author'[c] \in Udp) =>
                           file'[served].note = c
<1>1. UdpInv /\ ServedInv /\ SlotInv /\ [UdpNext]_allVars => OnServed
  <2> SUFFICES ASSUME UdpInv, ServedInv, SlotInv, [UdpNext]_allVars, loop = "handling", served # 0, faults' = 0,
                      NEW c \in Notes, author'[c] # author[c], author'[c] \in Udp
               PROVE  file'[served].note = c
    OBVIOUS
  <2>1. TypeInv /\ handed \in Udp /\ lastOptions[handed] = served /\ file[served].end = Whole
        /\ served \in DOMAIN file /\ file[served] \in Block
    <3>1. TypeInv /\ handed \in Udp \cup {None} /\ handed # None
      BY DEF UdpInv, FlowInv, ServedInv
    <3>2. file \in Seq(Block)
      BY <3>1 DEF TypeInv, TypeOK
    <3> QED BY <3>1, <3>2 DEF ServedInv
  <2>2. ASSUME NEW n \in Notes, Annotate(n) PROVE file'[served].note = c
    <3>1. Comment(handed, n)
      BY <2>2 DEF Annotate
    <3>2. n = c
      BY <2>1, <3>1 DEF Comment, TypeInv, TypeOK
    <3>3. faults \in Nat /\ ~Faulty(Nothing)
      BY <2>1 DEF TypeInv, TypeOK, Faulty, Nothing, Whole
    <3>4. PICK last : file' = Annotated(handed, c, last)
      BY <2>1, <3>1, <3>2, <3>3 DEF Comment
    <3>5. ~file[served].hit
      <4>1. faults = 0
        BY <3>1, <3>3 DEF Comment
      <4> QED BY <2>1, <4>1 DEF SlotInv, Sessions
    <3>6. file' = [file EXCEPT ![served] = IF @.hit THEN @ ELSE [@ EXCEPT !.note = c]]
      BY <2>1, <3>4 DEF Annotated, Whole, NoSlot
    <3>7. file'[served] = [file[served] EXCEPT !.note = c]
      BY <2>1, <3>5, <3>6
    <3> QED BY <2>1, <3>7 DEF Block
  <2>3. CASE Others
    BY <2>1, <2>3, OthersLeaveSlots
  <2>4. ASSUME UdpNext \/ UNCHANGED allVars, ~Others, \A n \in Notes : ~Annotate(n) PROVE author' = author
    <3>1. ASSUME NEW o \in Outcomes, Start(o) PROVE author' = author
      BY <3>1 DEF Start, NewInterface
    <3>2. CASE Bind \/ CtxDone \/ CloseOnCancel \/ ReadFails \/ NoReply \/ Reply \/ Send \/ Return
               \/ (\E p \in Peers : GoIdle(p) \/ Receive(p)) \/ UNCHANGED allVars
      BY <3>2 DEF Bind, CtxDone, CloseOnCancel, ReadFails, NoReply, Reply, Send, Return, GoIdle,
                  Receive, allVars, vars
    <3>3. CASE (\E p \in Peers : Purge(p) \/ CloseFlow(p)) \/ OpenFlow \/ RecordLock
      BY <3>3 DEF Purge, CloseFlow, Forget, Finish, OpenFlow, NewSession, RecordLock, WriteStart
    <3>4. CASE (\E o \in Outcomes : RecordDone(o)) \/ \E n \in Lens : Record(n)
      BY <3>4 DEF RecordDone, EmitUdpData, Record, SocketIO
    <3> QED BY <2>4, <3>1, <3>2, <3>3, <3>4 DEF UdpNext, Recorder, Handler, Unwind
  <2> QED BY <2>2, <2>3, <2>4
<1> HIDE DEF OnServed
<1>2. UdpInv /\ ServedInv /\ SlotInv /\ [UdpNext]_allVars => [OnServed]_allVars
  BY <1>1
<1>a. UdpInit => SlotInv
  BY SlotInit DEF UdpInit
<1>b. UdpInv /\ SlotInv /\ [UdpNext]_allVars => SlotInv'
  BY CaptureStep, SlotStep DEF UdpInv
<1>3. UdpSpec => [][OnServed]_allVars
  BY <1>2, <1>a, <1>b, UdpInitInv, UdpStep, ServedInit, ServedStep, PTL DEF UdpSpec
<1> QED BY <1>3 DEF NoteOnServedDatagram, OnServed

\* The loop, its flow table and the datagram in hand are what the types say: the
\* flows that may be purged exist, and the block being served is the handler's.
THEOREM UdpTypeCorrect == UdpSpec => []UdpTypeOK
<1> DEFINE Loop == /\ {hasIdle, ctxDone} \subseteq BOOLEAN
                   /\ socket \in {"none", "open", "closed"}
                   /\ loop \in Busy \cup {"starting", "binding", "reading", "unwinding", "returned"}
                   /\ peer \in Peers \cup {None}
                   /\ stale \subseteq {p \in Peers : flows[p] # None}
                   /\ result \in {"none", "nil", "error"}
<1>1. UdpInit => Loop
  BY DEF UdpInit
<1>2. UdpInv /\ Loop /\ [UdpNext]_allVars => Loop'
  <2> SUFFICES ASSUME UdpInv, Loop, [UdpNext]_allVars PROVE Loop'
    OBVIOUS
  <2>0. flows \in [Peers -> Udp \cup {None}] /\ (loop \in Busy => peer \in Peers)
    BY DEF UdpInv, FlowInv
  <2> USE <2>0 DEF Busy, Recording, Goto, socketVars, flowVars, loopVars
  <2>1. ASSUME NEW o \in Outcomes, Start(o) PROVE Loop'
    BY <2>1 DEF Start
  <2>2. CASE Bind \/ CtxDone \/ CloseOnCancel \/ ReadFails \/ Return
    BY <2>2 DEF Bind, CtxDone, CloseOnCancel, ReadFails, Outcome, Return
  <2>3. CASE NoReply \/ Reply \/ Send
    BY <2>3 DEF NoReply, Reply, Send, NextDatagram
  <2>4. ASSUME NEW p \in Peers, GoIdle(p) \/ Receive(p) PROVE Loop'
    BY <2>4 DEF GoIdle, Receive
  <2>5. ASSUME NEW p \in Peers, Purge(p) \/ CloseFlow(p) PROVE Loop'
    BY <2>5 DEF Purge, CloseFlow, Forget
  <2>6. CASE OpenFlow
    <3>1. /\ flows' = [flows EXCEPT ![peer] = Fresh] /\ peer \in Peers /\ flows[peer] = None
          /\ UNCHANGED <<socketVars, stale, loopVars>>
      BY <2>6 DEF OpenFlow
    <3> QED BY <3>1
  <2>7. CASE RecordLock \/ (\E c \in Notes : Annotate(c)) \/ Others
    BY <2>7 DEF RecordLock, Annotate, Others, listenerVars
  <2>8. CASE (\E n \in Lens : Record(n)) \/ \E o \in Outcomes : RecordDone(o)
    BY <2>8 DEF Record, RecordDone, NextDatagram
  <2>9. CASE UNCHANGED allVars
    BY <2>9 DEF allVars, listenerVars
  <2> QED BY <2>1, <2>2, <2>3, <2>4, <2>5, <2>6, <2>7, <2>8, <2>9
          DEF UdpNext, Recorder, Handler, Unwind
<1>3. UdpInv /\ ServedInv /\ Loop => UdpTypeOK
  BY DEF UdpInv, TypeInv, FlowInv, ServedInv, UdpTypeOK
<1> QED BY <1>1, <1>2, <1>3, UdpInitInv, UdpStep, ServedInit, ServedStep, PTL DEF UdpSpec

-----------------------------------------------------------------------------
(* ServeUDP implements Listener *)

\* Why the loop ends: result is set on the way out, nil only for a stopped
\* context, and only a stopped context closes the socket before the end.
LoopInv ==
  /\ loop \in Busy \cup {"starting", "binding", "reading", "unwinding", "returned"}
  /\ loop \in {"unwinding", "returned"} => result \in {"nil", "error"}
  /\ result = "nil" => ctxDone
  /\ socket = "closed" => ctxDone \/ loop = "returned"

LEMMA LoopInit == UdpInit => LoopInv
BY DEF UdpInit, LoopInv, Busy, Recording

LEMMA LoopStep == LoopInv /\ [UdpNext]_allVars => LoopInv'
PROOF
<1> SUFFICES ASSUME LoopInv, [UdpNext]_allVars PROVE LoopInv'
  OBVIOUS
<1> USE DEF LoopInv, Busy, Recording, Goto, socketVars, loopVars
<1>1. CASE (\E o \in Outcomes : Start(o)) \/ Bind \/ CtxDone \/ CloseOnCancel
  BY <1>1 DEF Start, Bind, CtxDone, CloseOnCancel
<1>2. CASE ReadFails \/ Return
  BY <1>2 DEF ReadFails, Outcome, Return
<1>3. CASE NoReply \/ Reply \/ Send
  BY <1>3 DEF NoReply, Reply, Send, NextDatagram
<1>4. ASSUME NEW p \in Peers, GoIdle(p) \/ Receive(p) \/ Purge(p) \/ CloseFlow(p) PROVE LoopInv'
  BY <1>4 DEF GoIdle, Receive, Purge, CloseFlow
<1>5. CASE OpenFlow \/ RecordLock \/ (\E c \in Notes : Annotate(c)) \/ Others
  BY <1>5 DEF OpenFlow, RecordLock, Annotate, Others, listenerVars
<1>6. CASE (\E n \in Lens : Record(n)) \/ \E o \in Outcomes : RecordDone(o)
  BY <1>6 DEF Record, RecordDone, NextDatagram
<1>7. CASE UNCHANGED allVars
  BY <1>7 DEF allVars, listenerVars
<1> QED BY <1>1, <1>2, <1>3, <1>4, <1>5, <1>6, <1>7 DEF UdpNext, Recorder, Handler, Unwind

\* What the abstract listener sees.
Serving == IF loop \in Busy THEN {peer} ELSE {}
Reported == IF loop = "returned" THEN result ELSE "none"

LEMMA PromiseInit == UdpInit => Promise!Init
BY DEF UdpInit, Promise!Init, Busy, Recording

LEMMA PromiseStep == UdpInv /\ LoopInv /\ [UdpNext]_allVars => [Promise!Next]_Promise!vars
PROOF
<1> SUFFICES ASSUME UdpInv, LoopInv, [UdpNext]_allVars PROVE [Promise!Next]_Promise!vars
  OBVIOUS
<1>0. loop \in Busy => peer \in Peers
  BY DEF UdpInv, FlowInv
<1>a. ASSUME UNCHANGED <<ctxDone, Serving, Reported>> PROVE UNCHANGED Promise!vars
  BY <1>a DEF Promise!vars, Serving, Reported
<1>b. ASSUME NEW r \in {"nil", "error"}, Serving = {}, Reported = "none", r = "nil" => ctxDone,
             Reported' = r, UNCHANGED <<ctxDone, Serving>>
      PROVE  Promise!Next
  <2>1. Promise!Return(r)
    BY <1>b DEF Promise!Return, Serving, Reported
  <2> QED BY <2>1 DEF Promise!Next
<1>c. ASSUME loop \in Busy, loop' = "reading", UNCHANGED ctxDone PROVE Promise!Next
  <2>1. Promise!End(peer)
    BY <1>c DEF Promise!End, Busy, Recording
  <2> QED BY <1>0, <1>c, <2>1 DEF Promise!Next
<1> USE DEF Serving, Reported, Busy, Recording, Goto, socketVars, loopVars
<1>1. ASSUME NEW o \in Outcomes, Start(o) PROVE [Promise!Next]_Promise!vars
  <2>1. CASE o = Whole
    BY <1>1, <1>a, <2>1 DEF Start
  <2>2. CASE o # Whole
    BY <1>1, <1>b, <2>2 DEF Start
  <2> QED BY <2>1, <2>2
<1>2. CASE Bind
  <2>1. CASE loop' = "reading"
    BY <1>2, <1>a, <2>1 DEF Bind
  <2>2. CASE loop' # "reading"
    BY <1>2, <1>b, <2>2 DEF Bind
  <2> QED BY <2>1, <2>2
<1>3. CASE CtxDone
  <2>1. Promise!Stop
    BY <1>3 DEF CtxDone, Promise!Stop
  <2> QED BY <2>1 DEF Promise!Next
<1>4. CASE CloseOnCancel \/ ReadFails
  BY <1>4, <1>a DEF CloseOnCancel, ReadFails
<1>5. CASE Return
  BY <1>5, <1>b DEF Return, LoopInv
<1>6. CASE NoReply
  BY <1>6, <1>c DEF NoReply, NextDatagram
<1>7. CASE Reply
  BY <1>7, <1>a DEF Reply
<1>8. CASE Send
  <2>1. CASE loop' = "reading"
    BY <1>8, <1>c, <2>1 DEF Send
  <2>2. CASE loop' # "reading"
    BY <1>8, <1>a, <2>2 DEF Send, NextDatagram
  <2> QED BY <2>1, <2>2
<1>9. ASSUME NEW p \in Peers, Receive(p) PROVE Promise!Next
  <2>1. Promise!Serve(p)
    BY <1>9 DEF Receive, Promise!Serve
  <2> QED BY <2>1 DEF Promise!Next
<1>10. ASSUME NEW p \in Peers, GoIdle(p) \/ Purge(p) \/ CloseFlow(p) PROVE UNCHANGED Promise!vars
  BY <1>10, <1>a DEF GoIdle, Purge, CloseFlow
<1>11. CASE OpenFlow \/ RecordLock \/ (\E c \in Notes : Annotate(c)) \/ Others
  BY <1>11, <1>a DEF OpenFlow, RecordLock, Annotate, Others, listenerVars
<1>12. ASSUME NEW n \in Lens, Record(n) PROVE UNCHANGED Promise!vars
  BY <1>12, <1>a DEF Record
<1>13. ASSUME NEW o \in Outcomes, RecordDone(o) PROVE [Promise!Next]_Promise!vars
  <2>1. CASE up
    BY <1>13, <1>a, <2>1 DEF RecordDone
  <2>2. CASE ~up
    BY <1>13, <1>c, <2>2 DEF RecordDone, NextDatagram
  <2> QED BY <2>1, <2>2
<1>14. CASE UNCHANGED allVars
  BY <1>14, <1>a DEF allVars, listenerVars
<1> QED BY <1>1, <1>2, <1>3, <1>4, <1>5, <1>6, <1>7, <1>8, <1>9, <1>10, <1>11, <1>12, <1>13, <1>14
        DEF UdpNext, Recorder, Handler, Unwind

\* ServeUDP implements Listener with one handler at a time.
THEOREM UdpImplementsListener == UdpSpec => UdpListenerRefined
PROOF
  BY UdpInvariant, LoopInit, LoopStep, PromiseInit, PromiseStep, PTL
     DEF UdpSpec, UdpListenerRefined, Promise!Spec

=============================================================================
