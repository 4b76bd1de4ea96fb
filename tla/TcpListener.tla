---------------------------- MODULE TcpListener ----------------------------
(***************************************************************************)
(* network.ServeTCP (internal/network/tcp.go, close.go): the accept loop   *)
(* of one TCP listener, the set of live sockets it closes on shutdown, the *)
(* goroutine of each connection with its idle deadline, and the conn:*     *)
(* calls of a handler that block (internal/script/api_conn.go, conn.go).   *)
(*                                                                         *)
(* A handler that gets an error from conn:* ends, as the built-in handlers *)
(* do, or catches it with pcall and goes on.  Deadlines are armed by a     *)
(* call and may expire at any later time.                                  *)
(***************************************************************************)
EXTENDS Naturals, FiniteSets

CONSTANT Conns  \* the connections clients open

ASSUME ListenerAssumption == IsFiniteSet(Conns)

VARIABLES
  hasIdle,    \* --timeout is not 0: fixed before ServeTCP starts
  ctxDone,    \* the context given to ServeTCP has ended
  listening,  \* the listening socket is open
  loop,       \* ServeTCP: accepting, closing, waiting (wg.Wait), returned
  acceptErr,  \* why Accept failed: none, closed, failed
  result,     \* none, nil, error
  conns,      \* connSet
  socket,     \* of each connection: none, open, closed
  handler,    \* the goroutine of each connection
  deadline,   \* the deadline of each connection: none, armed, expired
  shaken      \* the TLS handshake was attempted

vars == <<hasIdle, ctxDone, listening, loop, acceptErr, result, conns, socket, handler, deadline, shaken>>
loopVars == <<hasIdle, ctxDone, listening, loop, acceptErr, result>>

\* Blocked in a socket call, in a sleep, in conn:sni()/conn:tls().
Blocked == {"io", "sleeping", "handshaking"}
InHandler == Blocked \cup {"running"}
\* serveConn's deferred Close, cs.remove, wg.Done.
Unwinding == {"closing", "removing", "finishing"}
Alive == InHandler \cup Unwinding

TypeOK ==
  /\ hasIdle \in BOOLEAN /\ ctxDone \in BOOLEAN /\ listening \in BOOLEAN
  /\ loop \in {"accepting", "closing", "waiting", "returned"}
  /\ acceptErr \in {"none", "closed", "failed"}
  /\ result \in {"none", "nil", "error"}
  /\ conns \subseteq Conns
  /\ socket \in [Conns -> {"none", "open", "closed"}]
  /\ handler \in [Conns -> {"none", "gone"} \cup Alive]
  /\ deadline \in [Conns -> {"none", "armed", "expired"}]
  /\ shaken \subseteq Conns
  /\ conns \subseteq {c \in Conns : handler[c] \in Alive \ {"finishing"}}

Init ==
  /\ hasIdle \in BOOLEAN
  /\ ctxDone = FALSE /\ listening = TRUE
  /\ loop = "accepting" /\ acceptErr = "none" /\ result = "none"
  /\ conns = {} /\ shaken = {}
  /\ socket = [c \in Conns |-> "none"]
  /\ handler = [c \in Conns |-> "none"]
  /\ deadline = [c \in Conns |-> "none"]

-----------------------------------------------------------------------------
(* The accept loop *)

CtxDone ==
  /\ ~ctxDone
  /\ ctxDone' = TRUE
  /\ UNCHANGED <<hasIdle, listening, loop, acceptErr, result, conns, socket, handler, deadline, shaken>>

\* closeOnCancel, until ServeTCP returns and calls stop.
CloseOnCancel ==
  /\ ctxDone /\ listening
  /\ listening' = FALSE
  /\ UNCHANGED <<hasIdle, ctxDone, loop, acceptErr, result, conns, socket, handler, deadline, shaken>>

MutNotRegistered(c) == conns
Registered(c) == conns \cup {c}

\* Accept, cs.add, wg.Add, go serveConn.
Accept(c) ==
  /\ loop = "accepting" /\ listening /\ handler[c] = "none"
  /\ conns' = Registered(c)
  /\ socket' = [socket EXCEPT ![c] = "open"]
  /\ handler' = [handler EXCEPT ![c] = "running"]
  /\ UNCHANGED <<loopVars, deadline, shaken>>

\* Accept returns an error: the listening socket was closed, or failed.
AcceptFails(err) ==
  /\ loop = "accepting"
  /\ err = "closed" <=> ~listening
  /\ acceptErr' = err
  /\ loop' = "closing"
  /\ UNCHANGED <<hasIdle, ctxDone, listening, result, conns, socket, handler, deadline, shaken>>

MutCloseNothing == socket
\* closeAll closes the sockets below the recorder and TLS.
AfterCloseAll == [c \in Conns |-> IF c \in conns THEN "closed" ELSE socket[c]]

CloseAll ==
  /\ loop = "closing"
  /\ socket' = AfterCloseAll
  /\ loop' = "waiting"
  /\ UNCHANGED <<hasIdle, ctxDone, listening, acceptErr, result, conns, handler, deadline, shaken>>

MutNoWait == TRUE
MutDoneBeforeClose == \A c \in Conns : handler[c] \notin InHandler
\* wg.Wait() returns.
AllHandlersDone == \A c \in Conns : handler[c] \notin Alive

ExpectedClose == acceptErr = "closed" \/ ctxDone

\* The deferred stop and ln.Close run too.
Return ==
  /\ loop = "waiting" /\ AllHandlersDone
  /\ result' = IF ExpectedClose THEN "nil" ELSE "error"
  /\ listening' = FALSE
  /\ loop' = "returned"
  /\ UNCHANGED <<hasIdle, ctxDone, acceptErr, conns, socket, handler, deadline, shaken>>

-----------------------------------------------------------------------------
(* One connection *)

Goto(c, at) == handler' = [handler EXCEPT ![c] = at]

MutNoDeadline(c) == deadline
\* idleConn.Read, idleConn.Write and conn:sleep push the deadline forward.
Rearmed(c) == IF hasIdle THEN [deadline EXCEPT ![c] = "armed"] ELSE deadline

Expire(c) ==
  /\ deadline[c] = "armed" /\ handler[c] \in Alive
  /\ deadline' = [deadline EXCEPT ![c] = "expired"]
  /\ UNCHANGED <<loopVars, conns, socket, handler, shaken>>

\* conn:read, read_line, read_until, write; Read and Write of a built-in.
StartIO(c) ==
  /\ handler[c] = "running"
  /\ Goto(c, "io") /\ deadline' = Rearmed(c)
  /\ UNCHANGED <<loopVars, conns, socket, shaken>>

\* The client's bytes (or its end of file) arrive; or it takes ours.
IODone(c) ==
  /\ handler[c] = "io" /\ socket[c] = "open" /\ deadline[c] # "expired"
  /\ Goto(c, "running")
  /\ UNCHANGED <<loopVars, conns, socket, deadline, shaken>>

\* RaiseError: the handler ends, or catches the error (the sandbox leaves scripts
\* pcall) and goes on.
Raise(c) == Goto(c, "closing") \/ Goto(c, "running")

IOFails(c) ==
  /\ handler[c] = "io"
  /\ socket[c] = "closed" \/ deadline[c] = "expired"
  /\ Raise(c)
  /\ UNCHANGED <<loopVars, conns, socket, deadline, shaken>>

StartSleep(c) ==
  /\ handler[c] = "running"
  /\ Goto(c, "sleeping")
  /\ UNCHANGED <<loopVars, conns, socket, deadline, shaken>>

SleepEnds(c) ==
  /\ handler[c] = "sleeping"
  /\ Goto(c, "running") /\ deadline' = Rearmed(c)
  /\ UNCHANGED <<loopVars, conns, socket, shaken>>

\* case <-ctx.Done() of conn:sleep
SleepInterrupted(c) ==
  /\ handler[c] = "sleeping" /\ ctxDone
  /\ Raise(c)
  /\ UNCHANGED <<loopVars, conns, socket, deadline, shaken>>

\* HandshakeContext passes through idleConn: no deadline is set here, one set by
\* an earlier call still runs.  A second attempt returns the first one's outcome.
StartHandshake(c) ==
  /\ handler[c] = "running" /\ c \notin shaken
  /\ shaken' = shaken \cup {c}
  /\ Goto(c, "handshaking")
  /\ UNCHANGED <<loopVars, conns, socket, deadline>>

\* Completed, or failed on a closed socket or an expired deadline: luaConn
\* .handshake logs the error and conn:sni() returns nil.
HandshakeDone(c) ==
  /\ handler[c] = "handshaking"
  /\ socket[c] = "open" /\ deadline[c] # "expired"
  /\ Goto(c, "running")
  /\ UNCHANGED <<loopVars, conns, socket, deadline, shaken>>
HandshakeFails(c) ==
  /\ handler[c] = "handshaking"
  /\ socket[c] = "closed" \/ deadline[c] = "expired"
  /\ Goto(c, "running")
  /\ UNCHANGED <<loopVars, conns, socket, deadline, shaken>>

\* crypto/tls closes the socket when the context of the handshake ends.
HandshakeInterrupted(c) ==
  /\ handler[c] = "handshaking" /\ ctxDone
  /\ socket' = [socket EXCEPT ![c] = "closed"]
  /\ Goto(c, "running")
  /\ UNCHANGED <<loopVars, conns, deadline, shaken>>

\* conn:close()
CloseConn(c) ==
  /\ handler[c] = "running"
  /\ socket' = [socket EXCEPT ![c] = "closed"]
  /\ UNCHANGED <<loopVars, conns, handler, deadline, shaken>>

HandlerReturns(c) ==
  /\ handler[c] = "running"
  /\ Goto(c, "closing")
  /\ UNCHANGED <<loopVars, conns, socket, deadline, shaken>>

\* serveConn: defer final.Close()
FinalClose(c) ==
  /\ handler[c] = "closing"
  /\ socket' = [socket EXCEPT ![c] = "closed"]
  /\ Goto(c, "removing")
  /\ UNCHANGED <<loopVars, conns, deadline, shaken>>

Unregistered(c) == conns \ {c}

\* defer cs.remove(conn)
Remove(c) ==
  /\ handler[c] = "removing"
  /\ conns' = Unregistered(c)
  /\ Goto(c, "finishing")
  /\ UNCHANGED <<loopVars, socket, deadline, shaken>>

\* defer wg.Done()
WgDone(c) ==
  /\ handler[c] = "finishing"
  /\ Goto(c, "gone")
  /\ UNCHANGED <<loopVars, conns, socket, deadline, shaken>>

Loop == CloseOnCancel \/ CloseAll \/ Return
Script(c) ==
  StartIO(c) \/ StartSleep(c) \/ StartHandshake(c) \/ CloseConn(c) \/ HandlerReturns(c)
Unwind(c) == FinalClose(c) \/ Remove(c) \/ WgDone(c)

Next ==
  \/ CtxDone \/ Loop
  \/ \E err \in {"closed", "failed"} : AcceptFails(err)
  \/ \E c \in Conns :
       \/ Accept(c) \/ Expire(c) \/ Script(c) \/ Unwind(c)
       \/ IODone(c) \/ IOFails(c) \/ SleepEnds(c) \/ SleepInterrupted(c)
       \/ HandshakeDone(c) \/ HandshakeFails(c) \/ HandshakeInterrupted(c)

Spec == Init /\ [][Next]_vars

\* Goroutines run, timers fire and sleeps end.  Nothing is assumed of clients
\* (IODone, HandshakeDone) nor that a script ever returns by itself, only that it
\* goes on to its next blocking call and does not catch errors for ever: one that
\* keeps failing ends (SF).  Go's select picks among ready cases at random, so a
\* sleeping script that keeps meeting a done context is interrupted (SF too).
Fairness ==
  /\ WF_vars(CloseOnCancel) /\ WF_vars(CloseAll) /\ WF_vars(Return)
  /\ WF_vars(AcceptFails("closed"))
  /\ \A c \in Conns :
       /\ WF_vars(Unwind(c)) /\ WF_vars(Expire(c)) /\ WF_vars(IOFails(c))
       /\ SF_vars(IOFails(c) /\ handler'[c] = "closing")
       /\ WF_vars(SleepEnds(c)) /\ SF_vars(SleepInterrupted(c) /\ handler'[c] = "closing")
       /\ WF_vars(HandshakeFails(c)) /\ WF_vars(HandshakeInterrupted(c))
       /\ WF_vars(StartIO(c) \/ StartSleep(c) \/ StartHandshake(c) \/ HandlerReturns(c))
FairSpec == Spec /\ Fairness

-----------------------------------------------------------------------------
\* Every open socket is in connSet, so closeAll reaches every handler that is
\* blocked on its client.
OpenSocketsRegistered == \A c \in Conns : socket[c] = "open" => c \in conns

\* ServeTCP returns with no goroutine, no open socket and an empty set left.
NothingLeft ==
  loop = "returned" =>
    /\ ~listening /\ conns = {}
    /\ \A c \in Conns : handler[c] \notin Alive /\ socket[c] # "open"

\* ServeTCP is a Listener: it serves no connection after it has returned, and it
\* returns nil only because its context ended, so that a failing listener is
\* reported and stops the other ones (RunGroup).
Promise == INSTANCE Listener WITH
  Peers <- Conns,
  stopped <- ctxDone,
  serving <- {c \in Conns : handler[c] \in Alive},
  result <- result
ListenerRefined == Promise!Spec

\* A cancelled listener returns, whatever its clients do: handlers blocked on a
\* socket, asleep or inside a handshake are all woken.
CancelReturns == ctxDone ~> (loop = "returned")

\* With an idle timeout no handler stays in a read or a write: idleConn arms the
\* deadline on every one of them, whatever the client does.
IdleEndsIO == \A c \in Conns : (hasIdle /\ handler[c] = "io") ~> (handler[c] # "io")

\* tcp.go:98-100 and flags.md:22: the timeout caps how long a handler blocks on a
\* quiet connection, TLS operations included.
QuietHandshakeEnds ==
  \A c \in Conns :
    (hasIdle /\ handler[c] = "handshaking") ~> (handler[c] # "handshaking")

=============================================================================
