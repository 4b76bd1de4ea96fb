------------------------- MODULE TcpListenerProofs -------------------------
(***************************************************************************)
(* Proofs about TcpListener for every set of connections, with and without *)
(* an idle timeout.                                                        *)
(***************************************************************************)
EXTENDS TcpListener, TLAPS

\* A socket is closed before its goroutine leaves the set; the listening socket
\* is closed by the end of the context or by ServeTCP's return; and nothing is
\* alive once ServeTCP has returned.
ListenerInv ==
  /\ TypeOK
  /\ OpenSocketsRegistered
  /\ \A c \in Conns :
       /\ handler[c] = "none" => socket[c] = "none"
       /\ handler[c] \in {"removing", "finishing", "gone"} => socket[c] = "closed"
  /\ listening \/ ctxDone \/ loop = "returned"
  /\ acceptErr = "closed" => ctxDone
  /\ loop = "returned" => ~listening /\ AllHandlersDone
  /\ result = "nil" => ctxDone
  /\ result = "none" <=> loop # "returned"

LEMMA ListenerInit == Init => ListenerInv
PROOF
  BY DEF Init, ListenerInv, TypeOK, OpenSocketsRegistered, Alive,
         InHandler, Blocked, Unwinding

\* The steps of the accept loop.
LEMMA LoopStep ==
  ListenerInv /\ (CtxDone \/ Loop \/ \E err \in {"closed", "failed"} : AcceptFails(err))
    => ListenerInv'
PROOF
<1> SUFFICES ASSUME ListenerInv, CtxDone \/ Loop \/ \E err \in {"closed", "failed"} : AcceptFails(err)
             PROVE  ListenerInv'
  OBVIOUS
<1> USE DEF ListenerInv, TypeOK, OpenSocketsRegistered, AllHandlersDone
<1>1. CASE CtxDone
  BY <1>1 DEF CtxDone
<1>2. CASE CloseOnCancel
  BY <1>2 DEF CloseOnCancel
<1>3. CASE CloseAll
  BY <1>3 DEF CloseAll, AfterCloseAll, Alive, InHandler, Blocked, Unwinding
<1>4. CASE Return
  BY <1>4 DEF Return, ExpectedClose
<1>5. ASSUME NEW err \in {"closed", "failed"}, AcceptFails(err) PROVE ListenerInv'
  BY <1>5 DEF AcceptFails
<1> QED BY <1>1, <1>2, <1>3, <1>4, <1>5 DEF Loop

\* The steps of the goroutine of one connection.
ConnStep(c) ==
  \/ Accept(c) \/ Expire(c) \/ Script(c) \/ Unwind(c)
  \/ IODone(c) \/ IOFails(c) \/ SleepEnds(c) \/ SleepInterrupted(c)
  \/ HandshakeDone(c) \/ HandshakeFails(c) \/ HandshakeInterrupted(c)

LEMMA ConnStepInv == ASSUME NEW c \in Conns, ListenerInv, ConnStep(c) PROVE ListenerInv'
PROOF
<1> USE DEF ListenerInv, TypeOK, OpenSocketsRegistered, AllHandlersDone,
            Alive, InHandler, Blocked, Unwinding, loopVars, Goto
<1>1. CASE Accept(c)
  BY <1>1 DEF Accept, Registered
<1>2. CASE Expire(c)
  BY <1>2 DEF Expire
<1>3. CASE StartIO(c) \/ SleepEnds(c)
  BY <1>3 DEF StartIO, SleepEnds, Rearmed
<1>4. CASE StartSleep(c) \/ StartHandshake(c) \/ HandlerReturns(c)
  BY <1>4 DEF StartSleep, StartHandshake, HandlerReturns
<1>5. CASE CloseConn(c)
  BY <1>5 DEF CloseConn
<1>6. CASE FinalClose(c)
  BY <1>6 DEF FinalClose
<1>7. CASE Remove(c)
  BY <1>7 DEF Remove, Unregistered
<1>8. CASE WgDone(c)
  BY <1>8 DEF WgDone
<1>9. CASE IODone(c) \/ IOFails(c) \/ SleepInterrupted(c)
  BY <1>9 DEF IODone, IOFails, SleepInterrupted, Raise
<1>10. CASE HandshakeDone(c) \/ HandshakeFails(c)
  BY <1>10 DEF HandshakeDone, HandshakeFails
<1>11. CASE HandshakeInterrupted(c)
  BY <1>11 DEF HandshakeInterrupted
<1> QED BY <1>1, <1>2, <1>3, <1>4, <1>5, <1>6, <1>7, <1>8, <1>9, <1>10, <1>11
        DEF ConnStep, Script, Unwind

LEMMA ListenerStep == ListenerInv /\ [Next]_vars => ListenerInv'
PROOF
<1> SUFFICES ASSUME ListenerInv, [Next]_vars PROVE ListenerInv'
  OBVIOUS
<1>1. CASE UNCHANGED vars
  BY <1>1 DEF vars, ListenerInv, TypeOK, OpenSocketsRegistered, AllHandlersDone
<1>2. CASE \E c \in Conns : ConnStep(c)
  BY <1>2, ConnStepInv
<1> QED BY <1>1, <1>2, LoopStep DEF Next, ConnStep

LEMMA ListenerInvariant == Spec => []ListenerInv
PROOF
  BY ListenerInit, ListenerStep, PTL DEF Spec

\* Every variable keeps its type, and the set only holds connections whose
\* goroutine has not called cs.remove.
THEOREM ListenerTypeCorrect == Spec => []TypeOK
PROOF
<1>1. ListenerInv => TypeOK
  BY DEF ListenerInv
<1> QED BY <1>1, ListenerInvariant, PTL

\* closeAll can always reach every open socket.
THEOREM OpenSocketsRegisteredHolds == Spec => []OpenSocketsRegistered
PROOF
<1>1. ListenerInv => OpenSocketsRegistered
  BY DEF ListenerInv
<1> QED BY <1>1, ListenerInvariant, PTL

\* A returned ServeTCP leaves no goroutine, no open socket and an empty set.
THEOREM NothingLeftHolds == Spec => []NothingLeft
PROOF
<1>1. ListenerInv => NothingLeft
  BY DEF ListenerInv, NothingLeft, TypeOK, OpenSocketsRegistered, AllHandlersDone
<1> QED BY <1>1, ListenerInvariant, PTL

LEMMA PromiseInit == Init => Promise!Init
PROOF
  BY DEF Init, Promise!Init, Alive, InHandler, Blocked, Unwinding

\* The peers being served, in the abstract listener.
Serving == {c \in Conns : handler[c] \in Alive}

\* What the steps of one connection are to the abstract listener.
LEMMA ConnStepPromise ==
  ASSUME NEW c \in Conns, ListenerInv, ConnStep(c) PROVE [Promise!Next]_Promise!vars
PROOF
<1>0. /\ handler \in [Conns -> {"none", "gone"} \cup Alive]
      /\ loop = "accepting" => result = "none"
  BY DEF ListenerInv, TypeOK
<1>1. CASE Accept(c)
  <2>1. c \notin Serving /\ Serving' = Serving \cup {c}
    BY <1>0, <1>1 DEF Accept, Serving, Alive, InHandler, Blocked, Unwinding
  <2>2. Promise!Serve(c)
    BY <1>0, <1>1, <2>1 DEF Accept, loopVars, Serving, Promise!Serve
  <2> QED BY <2>2 DEF Promise!Next
<1>2. CASE WgDone(c)
  <2>1. c \in Serving /\ Serving' = Serving \ {c}
    BY <1>0, <1>2 DEF WgDone, Goto, Serving, Alive, InHandler, Blocked, Unwinding
  <2>2. Promise!End(c)
    BY <1>2, <2>1 DEF WgDone, loopVars, Serving, Promise!End
  <2> QED BY <2>2 DEF Promise!Next
<1>3. CASE ~Accept(c) /\ ~WgDone(c)
  <2>1. UNCHANGED loopVars
    BY <1>3 DEF ConnStep, Expire, Script, Unwind, IODone, IOFails, SleepEnds, SleepInterrupted,
                HandshakeDone, HandshakeFails, HandshakeInterrupted, StartIO, StartSleep,
                StartHandshake, CloseConn, HandlerReturns, FinalClose, Remove
  <2>2. Serving' = Serving
    <3>1. handler' = handler \/ \E at \in Alive : handler[c] \in Alive /\ Goto(c, at)
      BY <1>3 DEF ConnStep, Expire, Script, Unwind, IODone, IOFails, SleepEnds, SleepInterrupted,
                  HandshakeDone, HandshakeFails, HandshakeInterrupted, StartIO, StartSleep,
                  StartHandshake, CloseConn, HandlerReturns, FinalClose, Remove, Raise, Goto,
                  Alive, InHandler, Blocked, Unwinding
    <3> QED BY <1>0, <3>1 DEF Goto, Serving
  <2> QED BY <2>1, <2>2 DEF loopVars, Serving, Promise!vars
<1> QED BY <1>1, <1>2, <1>3

LEMMA PromiseStep == ListenerInv /\ [Next]_vars => [Promise!Next]_Promise!vars
PROOF
<1> SUFFICES ASSUME ListenerInv, [Next]_vars PROVE [Promise!Next]_Promise!vars
  OBVIOUS
<1>1. CASE CtxDone
  BY <1>1 DEF CtxDone, Promise!Next, Promise!Stop
<1>2. CASE CloseOnCancel \/ CloseAll
  BY <1>2 DEF CloseOnCancel, CloseAll, Promise!vars
<1>3. CASE Return
  <2>1. Serving = {} /\ result = "none" /\ (ExpectedClose => ctxDone)
    BY <1>3 DEF Return, ExpectedClose, AllHandlersDone, Serving, ListenerInv, TypeOK
  <2>2. Promise!Return(result')
    BY <1>3, <2>1 DEF Return, Serving, Promise!Return
  <2>3. result' \in {"nil", "error"}
    BY <1>3 DEF Return
  <2> QED BY <2>2, <2>3 DEF Promise!Next
<1>4. CASE \E err \in {"closed", "failed"} : AcceptFails(err)
  BY <1>4 DEF AcceptFails, Promise!vars
<1>5. CASE \E c \in Conns : ConnStep(c)
  BY <1>5, ConnStepPromise
<1>6. CASE UNCHANGED vars
  BY <1>6 DEF vars, Promise!vars
<1> QED BY <1>1, <1>2, <1>3, <1>4, <1>5, <1>6 DEF Next, Loop, ConnStep

\* ServeTCP implements Listener: it serves nobody after it has returned and
\* returns nil only when its context has ended.
THEOREM ImplementsListener == Spec => ListenerRefined
PROOF
  BY ListenerInvariant, PromiseInit, PromiseStep, PTL DEF Spec, ListenerRefined, Promise!Spec

=============================================================================
