---------------------------- MODULE UdpListener ----------------------------
(***************************************************************************)
(* network.ServeUDP (internal/network/udp.go, close.go) over pcap's        *)
(* PacketConn (internal/pcap/conn.go): one loop that reads a datagram,     *)
(* records it in the flow of its peer, runs the handler and sends the      *)
(* reply.  Every step that touches the capture is the Capture action of    *)
(* the same name joined with what it does to the loop and the flow table.  *)
(*                                                                         *)
(* time.Now() is read once per record, so no flow becomes idle while that  *)
(* record purges.  A datagram of length 0 is handled and not recorded.  A  *)
(* comment of a handler that was given no session does nothing and has no  *)
(* step.                                                                   *)
(***************************************************************************)
EXTENDS Capture

CONSTANTS
  Self,   \* this listener
  Peers,  \* the remote addresses that send datagrams
  None    \* no flow, no session, no peer

ASSUME UdpAssumption ==
  /\ Self \in Listeners
  /\ None \notin Sessions \cup Peers
  /\ \A s \in Sessions : ListenerOf[s] = Self <=> s \in Udp

VARIABLES
  hasIdle,   \* --timeout is not 0
  ctxDone,   \* the context given to ServeUDP has ended
  socket,    \* none, open, closed
  loop,      \* where ServeUDP is
  peer, up,  \* the datagram in hand: its remote address and its direction
  flows,     \* PacketConn.flows: the session of each peer, or None
  stale,     \* the peers whose flow has been idle for longer than the timeout
  handed,    \* the session the handler was given
  served,    \* history: the block of the datagram being handled, 0 if there is none
  result     \* none, nil, error

socketVars == <<hasIdle, ctxDone, socket>>
flowVars == <<flows, stale>>
loopVars == <<loop, peer, up, handed, served, result>>
listenerVars == <<socketVars, flowVars, loopVars>>
allVars == <<vars, listenerVars>>

\* From the arrival of a datagram to the end of its iteration of the loop.
Recording == {"purging", "writing"}
Busy == Recording \cup {"handling", "replying"}

UdpTypeOK ==
  /\ TypeOK
  /\ {hasIdle, ctxDone, up} \subseteq BOOLEAN
  /\ socket \in {"none", "open", "closed"}
  /\ loop \in Busy \cup {"starting", "binding", "reading", "unwinding", "returned"}
  /\ peer \in Peers \cup {None}
  /\ flows \in [Peers -> Udp \cup {None}]
  /\ stale \subseteq {p \in Peers : flows[p] # None}
  /\ handed \in Udp \cup {None}
  /\ served \in 0 .. Len(file)
  /\ result \in {"none", "nil", "error"}
  /\ (loop = "handling" /\ served # 0) => file[served].owner = handed

UdpInit ==
  /\ Init
  /\ hasIdle \in BOOLEAN
  /\ ctxDone = FALSE /\ socket = "none" /\ loop = "starting"
  /\ peer = None /\ up = TRUE
  /\ flows = [p \in Peers |-> None] /\ stale = {}
  /\ handed = None /\ served = 0 /\ result = "none"

Goto(at) == loop' = at

\* Back to ReadFrom: nothing of the last iteration is kept.
NextDatagram == Goto("reading") /\ peer' = None /\ up' = TRUE /\ handed' = None /\ served' = 0

-----------------------------------------------------------------------------
(* The socket *)

\* run.NewInterface; an error ends ServeUDP before it has a socket.
Start(o) ==
  /\ loop = "starting"
  /\ NewInterface(Self, o)
  /\ IF o = Whole THEN Goto("binding") /\ UNCHANGED result
                  ELSE Goto("returned") /\ result' = "error"
  /\ UNCHANGED <<socketVars, flowVars, peer, up, handed, served>>

\* net.ListenPacket
Bind ==
  /\ loop = "binding"
  /\ \/ socket' = "open" /\ Goto("reading") /\ UNCHANGED result
     \/ Goto("returned") /\ result' = "error" /\ UNCHANGED socket
  /\ UNCHANGED <<vars, hasIdle, ctxDone, flowVars, peer, up, handed, served>>

CtxDone ==
  /\ ~ctxDone
  /\ ctxDone' = TRUE
  /\ UNCHANGED <<vars, hasIdle, socket, flowVars, loopVars>>

\* closeOnCancel
CloseOnCancel ==
  /\ ctxDone /\ socket = "open"
  /\ socket' = "closed"
  /\ UNCHANGED <<vars, hasIdle, ctxDone, flowVars, loopVars>>

MutNilAlways == "nil"
\* expectedClose: the socket was closed, or the context has ended.
Outcome == IF socket = "closed" \/ ctxDone THEN "nil" ELSE "error"

\* ReadFrom fails; result is what ServeUDP will return.
ReadFails ==
  /\ loop = "reading"
  /\ result' = Outcome
  /\ Goto("unwinding")
  /\ UNCHANGED <<vars, socketVars, flowVars, peer, up, handed, served>>

-----------------------------------------------------------------------------
(* PacketConn.record *)

\* now.Sub(f.last) > c.idle
GoIdle(p) ==
  /\ hasIdle /\ flows[p] # None /\ p \notin stale /\ loop # "purging"
  /\ stale' = stale \cup {p}
  /\ UNCHANGED <<vars, socketVars, flows, loopVars>>

\* The session of p's flow is closed and the flow deleted.
Forget(p) ==
  /\ flows[p] # None
  /\ Finish(flows[p])
  /\ flows' = [flows EXCEPT ![p] = None]
  /\ stale' = stale \ {p}

MutPurgeAnytime(p) ==
  /\ p \in stale /\ Forget(p)
  /\ UNCHANGED <<socketVars, loopVars>>
Purge(p) ==
  /\ loop = "purging" /\ p \in stale
  /\ Forget(p)
  /\ UNCHANGED <<socketVars, loopVars>>

\* Sessions are told apart only by who uses them: any unused one will do.
Fresh == CHOOSE s \in Udp : state[s] = "absent"

OpenFlow ==
  /\ loop = "purging" /\ stale = {} /\ flows[peer] = None
  /\ \E s \in Udp : state[s] = "absent"
  /\ NewSession(Fresh)
  /\ flows' = [flows EXCEPT ![peer] = Fresh]
  /\ UNCHANGED <<socketVars, stale, loopVars>>

\* f.last = now; f.ses.Write(data, fromClient)
Record(n) ==
  /\ loop = "purging" /\ stale = {} /\ flows[peer] # None
  /\ SocketIO(flows[peer], up, n)
  /\ Goto("writing")
  /\ UNCHANGED <<socketVars, flowVars, peer, up, handed, served, result>>

RecordLock ==
  /\ loop = "writing"
  /\ WriteStart(flows[peer])
  /\ UNCHANGED listenerVars

MutAnyFlow(p) ==
  IF \E q \in Peers : flows[q] # None THEN flows[CHOOSE q \in Peers : flows[q] # None] ELSE None
\* PacketConn.SessionFor, behind ReadFrom.
SessionFor(p) == flows[p]

\* The block is written, or not; ServeUDP goes on to the handler, or behind
\* WriteTo to the next datagram.
RecordDone(o) ==
  /\ loop = "writing"
  /\ EmitUdpData(flows[peer], o)
  /\ IF up THEN /\ Goto("handling") /\ handed' = SessionFor(peer)
                /\ served' = IF o = Whole THEN Len(file') ELSE 0
                /\ UNCHANGED <<peer, up>>
           ELSE NextDatagram
  /\ UNCHANGED <<socketVars, flowVars, result>>

-----------------------------------------------------------------------------
(* The loop of ServeUDP *)

\* ReadFrom returns a datagram of p; an empty one goes past the recorder.
Receive(p) ==
  /\ loop = "reading" /\ socket = "open"
  /\ peer' = p /\ up' = TRUE
  /\ \/ io < MaxIO /\ Goto("purging") /\ UNCHANGED handed
     \/ Goto("handling") /\ handed' = SessionFor(p)
  /\ UNCHANGED <<vars, socketVars, flowVars, served, result>>

\* capture:comment of the handler.
Annotate(c) ==
  /\ loop = "handling" /\ handed # None
  /\ Comment(handed, c)
  /\ UNCHANGED listenerVars

\* The handler fails or has no reply.
NoReply ==
  /\ loop = "handling"
  /\ NextDatagram
  /\ UNCHANGED <<vars, socketVars, flowVars, result>>

Reply ==
  /\ loop = "handling"
  /\ Goto("replying")
  /\ UNCHANGED <<vars, socketVars, flowVars, peer, up, handed, served, result>>

\* WriteTo: the reply is sent and recorded, or it is empty or cannot be sent
\* (the socket is closed) and leaves no record.
Send ==
  /\ loop = "replying"
  /\ \/ /\ socket = "open" /\ io < MaxIO
        /\ Goto("purging") /\ up' = FALSE
        /\ UNCHANGED <<peer, handed, served>>
     \/ NextDatagram
  /\ UNCHANGED <<vars, socketVars, flowVars, result>>

MutCloseFirstOnly(p) ==
  /\ loop = "unwinding"
  /\ Forget(p)
  /\ Goto("returned")
  /\ UNCHANGED <<socketVars, peer, up, handed, served, result>>
\* defer rec.CloseAll()
CloseFlow(p) ==
  /\ loop = "unwinding"
  /\ Forget(p)
  /\ UNCHANGED <<socketVars, loopVars>>

\* defer pc.Close()
Return ==
  /\ loop = "unwinding" /\ \A p \in Peers : flows[p] = None
  /\ socket' = "closed" /\ Goto("returned")
  /\ UNCHANGED <<vars, hasIdle, ctxDone, flowVars, peer, up, handed, served, result>>

-----------------------------------------------------------------------------
(* The other users of the capture: TCP connections and their listeners.  The     *)
(* bound MaxIO keeps one socket call for a datagram that has arrived.            *)
Others ==
  /\ \/ \E l \in Listeners \ {Self}, o \in Outcomes : NewInterface(l, o)
     \/ \E s \in Tcp : SessionStep(s)
     \/ loop = "returned" /\ RunClose
  /\ loop = "purging" => io' = io \/ io' < MaxIO
  /\ UNCHANGED listenerVars

Recorder ==
  \/ \E p \in Peers : Purge(p)
  \/ OpenFlow \/ RecordLock
  \/ \E o \in Outcomes : RecordDone(o)
Handler == NoReply \/ Reply \/ \E c \in Notes : Annotate(c)
Unwind == Return \/ \E p \in Peers : CloseFlow(p)

UdpNext ==
  \/ \E o \in Outcomes : Start(o)
  \/ Bind \/ CtxDone \/ CloseOnCancel \/ ReadFails
  \/ \E p \in Peers : GoIdle(p) \/ Receive(p)
  \/ Recorder \/ \E n \in Lens : Record(n)
  \/ Handler \/ Send \/ Unwind
  \/ Others

UdpSpec == UdpInit /\ [][UdpNext]_allVars

\* Goroutines run, a closed socket fails the read, and a handler returns in the
\* end: unlike conn:*, nothing a UDP script can call waits.  Whoever holds
\* Run.mu writes its block.
Fairness ==
  /\ WF_allVars(\E o \in Outcomes : Start(o)) /\ WF_allVars(Bind)
  /\ WF_allVars(CloseOnCancel) /\ WF_allVars(socket = "closed" /\ ReadFails)
  /\ WF_allVars(Recorder \/ \E n \in Lens : Record(n))
  /\ WF_allVars(NoReply \/ Reply) /\ WF_allVars(Send) /\ WF_allVars(Unwind)
  /\ \A s \in Tcp : WF_allVars((\E o \in Outcomes : Emit(s, o)) /\ UNCHANGED listenerVars)
UdpFairSpec == UdpSpec /\ Fairness

-----------------------------------------------------------------------------
\* The flow table holds exactly the sessions that are open, each for one peer,
\* and the handler keeps the session of its own peer to the end, whoever else
\* has become idle: sessions neither leak nor are closed under a handler.
FlowTableExact ==
  /\ {s \in Udp : state[s] = "open"} = {flows[p] : p \in Peers} \ {None}
  /\ \A p, q \in Peers : flows[p] # None /\ flows[p] = flows[q] => p = q
  /\ loop = "handling" => handed = flows[peer]

\* A note that a handler takes of a recorded datagram goes on the block of that
\* datagram, whatever connections have appended behind it.
NoteOnServedDatagram ==
  [][(loop = "handling" /\ served # 0 /\ faults' = 0) =>
       \A c \in Notes : (author'[c] # author[c] /\ author'[c] \in Udp) =>
         file'[served].note = c]_allVars

\* ServeUDP is a Listener with one handler at a time.
Promise == INSTANCE Listener WITH
  stopped <- ctxDone,
  serving <- IF loop \in Busy THEN {peer} ELSE {},
  result <- IF loop = "returned" THEN result ELSE "none"
UdpListenerRefined == Promise!Spec

\* A cancelled listener returns, with every flow closed.
UdpCancelReturns == ctxDone ~> (loop = "returned" /\ \A p \in Peers : flows[p] = None)

=============================================================================
