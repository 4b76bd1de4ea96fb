-------------------------- MODULE SimulatorProofs --------------------------
(***************************************************************************)
(* Proofs about RunGroup for every finite set of functions and every set   *)
(* of errors: types, no goroutine left behind, cancellation has a cause,   *)
(* RunAll implements Supervisor.  Then about Simulator, which extends it,  *)
(* for every set of options, every finite set of listeners, clients and    *)
(* signals: its run group keeps those theorems, the files are closed       *)
(* behind the last handler, a run ends for a reason, and one signal never  *)
(* forces the exit.                                                        *)
(***************************************************************************)
EXTENDS Simulator, FiniteSetTheorems, TLAPS

-----------------------------------------------------------------------------
(* Types, and the error channel never blocks a function *)

NotRunning == {f \in Fns : fn[f] # "running"}

\* Every value in the channel was sent by a different function.
TypeInv == TypeOK /\ Len(errc) <= Cardinality(NotRunning)

LEMMA NotRunningBounded ==
  /\ IsFiniteSet(NotRunning) /\ Cardinality(NotRunning) \in Nat
  /\ Cardinality(NotRunning) <= Cardinality(Fns) /\ Cardinality(Fns) \in Nat
PROOF
<1>1. NotRunning \subseteq Fns
  BY DEF NotRunning
<1> QED BY <1>1, RunGroupAssumption, FS_Subset, FS_CardinalityType

LEMMA TypeInit == Init => TypeInv
PROOF
<1> SUFFICES ASSUME Init PROVE TypeInv
  OBVIOUS
<1>1. Len(errc) = 0 /\ errc \in Seq(Results) /\ reported \in Seq(Errors)
  BY DEF Init
<1>2. Len(errc) <= Cardinality(NotRunning) /\ Len(errc) <= Cardinality(Fns)
  BY <1>1, NotRunningBounded
<1> QED BY <1>1, <1>2 DEF Init, TypeInv, TypeOK

LEMMA TypeStep == TypeInv /\ [Next]_groupVars => TypeInv'
PROOF
<1> SUFFICES ASSUME TypeInv, [Next]_groupVars PROVE TypeInv'
  OBVIOUS
<1> USE RunGroupAssumption, NotRunningBounded DEF TypeInv, TypeOK
<1>1. CASE ParentDone
  BY <1>1 DEF ParentDone, NotRunning
<1>2. ASSUME NEW f \in Fns, NEW r \in Results, FnReturn(f, r) PROVE TypeInv'
  <2>1. NotRunning' = NotRunning \cup {f} /\ f \notin NotRunning
    BY <1>2 DEF FnReturn, NotRunning
  <2>2. Cardinality(NotRunning') = Cardinality(NotRunning) + 1
    BY <2>1, FS_AddElement
  <2>3. Cardinality(NotRunning') <= Cardinality(Fns)
    <3>1. NotRunning' \subseteq Fns
      BY DEF NotRunning
    <3> QED BY <3>1, FS_Subset
  <2>4. errc' \in Seq(Results) /\ Len(errc') = Len(errc) + 1 /\ Len(errc) \in Nat
    BY <1>2 DEF FnReturn
  <2> QED BY <1>2, <2>2, <2>3, <2>4 DEF FnReturn, Results
<1>3. ASSUME NEW f \in Fns, WgDone(f) PROVE TypeInv'
  <2>1. NotRunning' = NotRunning
    BY <1>3 DEF WgDone, NotRunning
  <2> QED BY <1>3, <2>1 DEF WgDone
<1>4. CASE CloseDone
  BY <1>4 DEF CloseDone, NotRunning
<1>5. CASE SelectCtxDone
  BY <1>5 DEF SelectCtxDone, NotRunning
<1>6. CASE WaitedForDone
  BY <1>6 DEF WaitedForDone, NotRunning
<1>7. CASE SelectErr
  <2>1. /\ errc' \in Seq(Results) /\ Len(errc') = Len(errc) - 1 /\ Len(errc) \in Nat
        /\ Head(errc) \in Results
    BY <1>7 DEF SelectErr
  <2>2. firstErr' \in Errors \cup {Nil} /\ canceled' \in BOOLEAN
    BY <1>7, <2>1 DEF SelectErr, Fatal, Results
  <2> QED BY <1>7, <2>1, <2>2 DEF SelectErr, NotRunning
<1>8. CASE SelectDone
  <2>1. PICK e \in Results : FirstError(errc, e) /\ firstErr' = e /\ result' = e
    BY <1>8 DEF SelectDone
  <2>2. e \in Errors \cup {Nil}
    BY <2>1 DEF FirstError
  <2> QED BY <1>8, <2>1, <2>2 DEF SelectDone, NotRunning
<1>9. CASE UNCHANGED groupVars
  BY <1>9 DEF groupVars, NotRunning
<1> QED BY <1>1, <1>2, <1>3, <1>4, <1>5, <1>6, <1>7, <1>8, <1>9
        DEF Next, GroupNext, FnStep, MainStep

\* Every variable keeps its type, and a function never waits to hand over its
\* result: the buffered channel of RunAll is never full.
THEOREM TypeCorrect == Spec => []TypeOK
PROOF
<1>1. TypeInv => TypeOK
  BY DEF TypeInv
<1> QED BY <1>1, TypeInit, TypeStep, PTL DEF Spec

-----------------------------------------------------------------------------
(* No goroutine is left behind, and cancellation has a cause *)

\* done is only closed after the last wg.Done, and what waits in the channel
\* was reported.
GroupInv ==
  /\ TypeInv
  /\ done => AllFinished
  /\ main = "returned" => done
  /\ (\E i \in DOMAIN errc : errc[i] \in Errors) => reported # <<>>
  /\ CancelHasCause

LEMMA GroupInit == Init => GroupInv
PROOF
  BY TypeInit DEF Init, GroupInv, CancelHasCause

LEMMA GroupStep == GroupInv /\ [Next]_groupVars => GroupInv'
PROOF
<1> SUFFICES ASSUME GroupInv, [Next]_groupVars PROVE GroupInv'
  OBVIOUS
<1> USE DEF GroupInv
<1>0. TypeInv /\ TypeInv'
  BY TypeStep
<1> USE DEF TypeInv, TypeOK, CancelHasCause, AllFinished, Terminated
<1>1. CASE ParentDone
  BY <1>0, <1>1 DEF ParentDone
<1>2. ASSUME NEW f \in Fns, NEW r \in Results, FnReturn(f, r) PROVE GroupInv'
  <2>1. ~AllFinished /\ ~done
    BY <1>2 DEF FnReturn
  <2>2. reported' # <<>> \/ (reported' = reported /\ r \notin Errors)
    <3>1. /\ reported' = IF r \in Errors THEN Append(reported, r) ELSE reported
          /\ reported \in Seq(Errors)
      BY <1>0, <1>2 DEF FnReturn
    <3>2. Append(reported, r) # <<>>
      BY <3>1, SMTT(30)
    <3> QED BY <3>1, <3>2
  <2>3. (\E i \in DOMAIN errc' : errc'[i] \in Errors) => reported' # <<>>
    BY <1>0, <1>2, <2>2, SMTT(30) DEF FnReturn
  <2>4. canceled => parentDone \/ reported # <<>>
    BY <2>1
  <2>5. reported # <<>> => reported' # <<>>
    BY <1>0, <1>2 DEF FnReturn
  <2> QED BY <1>0, <1>2, <2>1, <2>3, <2>4, <2>5 DEF FnReturn
<1>3. ASSUME NEW f \in Fns, WgDone(f) PROVE GroupInv'
  BY <1>0, <1>3 DEF WgDone
<1>4. CASE CloseDone
  BY <1>0, <1>4 DEF CloseDone
<1>5. CASE SelectCtxDone
  BY <1>0, <1>5 DEF SelectCtxDone
<1>6. CASE WaitedForDone
  BY <1>0, <1>6 DEF WaitedForDone
<1>7. CASE SelectErr
  <2>1. /\ Len(errc) \in Nat \ {0} /\ Head(errc) = errc[1] /\ DOMAIN errc = 1 .. Len(errc)
        /\ DOMAIN errc' = 1 .. (Len(errc) - 1)
        /\ \A i \in DOMAIN errc' : errc'[i] = errc[i + 1]
    BY <1>0, <1>7 DEF SelectErr
  <2>2. (\E i \in DOMAIN errc' : errc'[i] \in Errors) => reported' # <<>>
    BY <1>7, <2>1 DEF SelectErr
  <2>3. Fatal(Head(errc)) => reported # <<>>
    BY <2>1 DEF Fatal
  <2> QED BY <1>0, <1>7, <2>2, <2>3 DEF SelectErr
<1>8. CASE SelectDone
  BY <1>0, <1>8 DEF SelectDone
<1>9. CASE UNCHANGED groupVars
  BY <1>0, <1>9 DEF groupVars
<1> QED BY <1>1, <1>2, <1>3, <1>4, <1>5, <1>6, <1>7, <1>8, <1>9
        DEF Next, GroupNext, FnStep, MainStep

\* RunAll returns only after the last goroutine has called wg.Done.
THEOREM NoGoroutineLeftHolds == Spec => []NoGoroutineLeft
PROOF
<1>1. GroupInv => NoGoroutineLeft
  BY DEF GroupInv, NoGoroutineLeft
<1> QED BY <1>1, GroupInit, GroupStep, PTL DEF Spec

\* The functions are told to stop only by the caller, by a reported error, or
\* when all have finished.
THEOREM CancelHasCauseHolds == Spec => []CancelHasCause
PROOF
<1>1. GroupInv => CancelHasCause
  BY DEF GroupInv
<1> QED BY <1>1, GroupInit, GroupStep, PTL DEF Spec

-----------------------------------------------------------------------------
(* RunAll implements Supervisor *)

FirstReported == IF reported = <<>> THEN Nil ELSE Head(reported)

\* Between the channel and firstErr the first reported error is never lost, so
\* that draining the channel finds it.
RefInv ==
  /\ GroupInv
  /\ main = "selecting" => FirstError(errc, FirstReported)
  /\ main = "waiting" => parentDone
  /\ main # "returned" => result = Pending

\* Draining a queue has one outcome.
LEMMA FirstErrorUnique ==
  ASSUME NEW q \in Seq(Results), NEW d, NEW e, FirstError(q, d), FirstError(q, e)
  PROVE  d = e
PROOF
<1>1. DOMAIN q = 1 .. Len(q) /\ Len(q) \in Nat
  OBVIOUS
<1>2. CASE firstErr # Nil
  BY <1>2 DEF FirstError
<1>3. CASE firstErr = Nil /\ \A i \in DOMAIN q : q[i] \notin Errors
  BY <1>3 DEF FirstError
<1>4. CASE firstErr = Nil /\ \E i \in DOMAIN q : q[i] \in Errors
  <2>1. PICK i \in DOMAIN q : d = q[i] /\ d \in Errors /\ \A k \in 1 .. (i - 1) : q[k] \notin Errors
    BY <1>4 DEF FirstError
  <2>2. PICK j \in DOMAIN q : e = q[j] /\ e \in Errors /\ \A k \in 1 .. (j - 1) : q[k] \notin Errors
    BY <1>4 DEF FirstError
  <2>3. i = j
    BY <1>1, <2>1, <2>2
  <2> QED BY <2>1, <2>2, <2>3
<1> QED BY <1>2, <1>3, <1>4

LEMMA RefInit == Init => RefInv
PROOF
<1> SUFFICES ASSUME Init PROVE RefInv
  OBVIOUS
<1>1. FirstError(errc, FirstReported)
  BY DEF Init, FirstError, FirstReported
<1> QED BY <1>1, GroupInit DEF Init, RefInv

LEMMA RefStep == RefInv /\ [Next]_groupVars => RefInv'
PROOF
<1> SUFFICES ASSUME RefInv, [Next]_groupVars PROVE RefInv'
  OBVIOUS
<1>0. GroupInv /\ GroupInv' /\ TypeOK /\ TypeOK'
  BY GroupStep DEF RefInv, GroupInv, TypeInv
<1>a. ASSUME UNCHANGED <<errc, reported, firstErr>>
      PROVE  FirstError(errc, FirstReported) => FirstError(errc, FirstReported)'
  BY <1>a DEF FirstError, FirstReported
<1> USE DEF RefInv
<1>1. CASE ParentDone
  BY <1>0, <1>1, <1>a DEF ParentDone
<1>2. ASSUME NEW f \in Fns, NEW r \in Results, FnReturn(f, r) PROVE RefInv'
  <2>1. /\ Len(errc) \in Nat /\ DOMAIN errc = 1 .. Len(errc)
        /\ DOMAIN errc' = 1 .. (Len(errc) + 1)
        /\ errc'[Len(errc) + 1] = r
        /\ \A i \in DOMAIN errc : errc'[i] = errc[i]
        /\ firstErr' = firstErr /\ main' = main
    BY <1>0, <1>2 DEF FnReturn, TypeOK
  <2>2. /\ reported = <<>> => \A i \in DOMAIN errc : errc[i] \notin Errors
        /\ reported # <<>> => Head(reported) \in Errors
        /\ reported # <<>> => FirstReported' = FirstReported
        /\ reported = <<>> => FirstReported = Nil
        /\ reported = <<>> /\ r \in Errors => FirstReported' = r
        /\ reported = <<>> /\ r \notin Errors => FirstReported' = Nil
        /\ reported # <<>> => FirstReported = Head(reported)
    BY <1>0, <1>2 DEF FnReturn, TypeOK, GroupInv, FirstReported
  <2>3. ASSUME main = "selecting" PROVE FirstError(errc, FirstReported)'
    <3>1. CASE firstErr # Nil
      BY <2>1, <2>2, <2>3, <3>1 DEF FirstError
    <3>2. CASE firstErr = Nil /\ reported = <<>>
      BY <2>1, <2>2, <3>2 DEF FirstError
    <3>3. CASE firstErr = Nil /\ reported # <<>>
      <4>1. FirstReported \in Errors
        BY <2>2, <3>3
      <4>2. PICK i \in DOMAIN errc : /\ FirstReported = errc[i]
                                     /\ \A j \in 1 .. (i - 1) : errc[j] \notin Errors
        BY <2>3, <3>3, <4>1, RunGroupAssumption DEF FirstError
      <4>3. i \in DOMAIN errc' /\ FirstReported' = errc'[i]
        BY <2>1, <2>2, <3>3, <4>2
      <4>4. \A j \in 1 .. (i - 1) : errc'[j] \notin Errors
        BY <2>1, <4>2
      <4> QED BY <2>1, <2>2, <3>3, <4>1, <4>3, <4>4 DEF FirstError
    <3> QED BY <3>1, <3>2, <3>3
  <2> QED BY <1>0, <1>2, <2>1, <2>3 DEF FnReturn
<1>3. ASSUME NEW f \in Fns, WgDone(f) PROVE RefInv'
  BY <1>0, <1>3, <1>a DEF WgDone
<1>4. CASE CloseDone
  BY <1>0, <1>4, <1>a DEF CloseDone
<1>5. CASE SelectCtxDone
  BY <1>0, <1>5 DEF SelectCtxDone
<1>6. CASE WaitedForDone
  BY <1>0, <1>6 DEF WaitedForDone
<1>7. CASE SelectErr
  <2>1. /\ Len(errc) \in Nat \ {0} /\ Head(errc) = errc[1] /\ DOMAIN errc = 1 .. Len(errc)
        /\ DOMAIN errc' = 1 .. (Len(errc) - 1)
        /\ \A i \in DOMAIN errc' : errc'[i] = errc[i + 1]
        /\ FirstReported' = FirstReported
    BY <1>0, <1>7 DEF SelectErr, TypeOK, FirstReported
  <2>2. FirstError(errc, FirstReported)'
    <3>0. FirstError(errc, FirstReported)
      BY <1>7 DEF SelectErr
    <3>1. CASE firstErr # Nil
      BY <1>7, <2>1, <3>0, <3>1 DEF SelectErr, Fatal, FirstError
    <3>2. CASE firstErr = Nil /\ Head(errc) \in Errors
      <4>1. firstErr' = errc[1] /\ errc[1] # Nil
        BY <1>7, <2>1, <3>2, RunGroupAssumption DEF SelectErr, Fatal
      <4>2. FirstError(errc, errc[1])
        BY <2>1, <3>2 DEF FirstError
      <4>3. FirstReported = errc[1]
        BY <1>0, <3>0, <4>2, FirstErrorUnique DEF TypeOK
      <4> QED BY <2>1, <4>1, <4>3 DEF FirstError
    <3>3. CASE firstErr = Nil /\ Head(errc) \notin Errors
      <4>1. firstErr' = Nil
        BY <1>7, <3>3 DEF SelectErr, Fatal
      <4>2. CASE FirstReported = Nil /\ \A i \in DOMAIN errc : errc[i] \notin Errors
        <5>1. \A i \in DOMAIN errc' : errc'[i] \notin Errors
          BY <2>1, <4>2
        <5> QED BY <2>1, <4>1, <4>2, <5>1 DEF FirstError
      <4>3. ASSUME NEW i \in DOMAIN errc, FirstReported = errc[i], FirstReported \in Errors,
                   \A j \in 1 .. (i - 1) : errc[j] \notin Errors
            PROVE  FirstError(errc, FirstReported)'
        <5>1. i \in 2 .. Len(errc)
          BY <2>1, <3>3, <4>3
        <5>2. (i - 1) \in DOMAIN errc' /\ errc'[i - 1] = errc[i]
          BY <2>1, <5>1
        <5>3. \A j \in 1 .. ((i - 1) - 1) : errc'[j] \notin Errors
          BY <2>1, <4>3, <5>1
        <5> QED BY <2>1, <4>1, <4>3, <5>2, <5>3 DEF FirstError
      <4> QED BY <3>0, <3>3, <4>2, <4>3 DEF FirstError
    <3> QED BY <3>1, <3>2, <3>3
  <2> QED BY <1>0, <1>7, <2>2 DEF SelectErr
<1>8. CASE SelectDone
  BY <1>0, <1>8 DEF SelectDone
<1>9. CASE UNCHANGED groupVars
  BY <1>0, <1>9, <1>a DEF groupVars
<1> QED BY <1>1, <1>2, <1>3, <1>4, <1>5, <1>6, <1>7, <1>8, <1>9
        DEF Next, GroupNext, FnStep, MainStep

LEMMA RefinesInit == Init => Refines!Init
PROOF
  BY DEF Init, Refines!Init

LEMMA RefinesStep == RefInv /\ [Next]_groupVars => [Refines!Next]_Refines!vars
PROOF
<1> SUFFICES ASSUME RefInv, [Next]_groupVars PROVE [Refines!Next]_Refines!vars
  OBVIOUS
<1>0. GroupInv /\ TypeOK
  BY DEF RefInv, GroupInv, TypeInv
<1> DEFINE live == {f \in Fns : fn[f] = "running"}
<1>1. CASE ParentDone
  BY <1>1 DEF ParentDone, Refines!Next, Refines!Stop
<1>2. ASSUME NEW f \in Fns, NEW r \in Results, FnReturn(f, r) PROVE Refines!Next
  <2>1. f \in live /\ live' = live \ {f}
    BY <1>0, <1>2 DEF FnReturn, TypeOK
  <2>2. CASE r \in Errors
    BY <1>2, <2>1, <2>2 DEF FnReturn, Refines!Next, Refines!Fail
  <2>3. CASE r \notin Errors
    BY <1>2, <2>1, <2>3 DEF FnReturn, Refines!Next, Refines!Finish
  <2> QED BY <2>2, <2>3
<1>3. ASSUME NEW f \in Fns, WgDone(f) PROVE UNCHANGED Refines!vars
  <2>1. live' = live
    BY <1>0, <1>3 DEF WgDone, TypeOK
  <2> QED BY <1>3, <2>1 DEF WgDone, Refines!vars
<1>4. CASE CloseDone
  BY <1>4 DEF CloseDone, Refines!vars
<1>5. CASE SelectCtxDone
  BY <1>5 DEF SelectCtxDone, Refines!vars
<1>6. CASE WaitedForDone
  <2>1. live = {} /\ result = Pending /\ parentDone
    BY <1>0, <1>6 DEF WaitedForDone, RefInv, GroupInv, AllFinished, Terminated
  <2> QED BY <1>6, <2>1 DEF WaitedForDone, Refines!Next, Refines!Return
<1>7. CASE SelectErr
  BY <1>7 DEF SelectErr, Refines!vars
<1>8. CASE SelectDone
  <2>1. live = {} /\ result = Pending
    BY <1>0, <1>8 DEF SelectDone, RefInv, GroupInv, AllFinished, Terminated
  <2>2. result' = FirstReported
    BY <1>0, <1>8, FirstErrorUnique DEF SelectDone, RefInv, TypeOK
  <2> QED BY <1>8, <2>1, <2>2 DEF SelectDone, FirstReported, Refines!Next, Refines!Return
<1>9. CASE UNCHANGED groupVars
  BY <1>9 DEF groupVars, Refines!vars
<1> QED BY <1>1, <1>2, <1>3, <1>4, <1>5, <1>6, <1>7, <1>8, <1>9
        DEF Next, GroupNext, FnStep, MainStep

\* RunAll implements Supervisor: it returns after every function, with the first
\* error reported on the channel, or with nil when the caller has stopped it.
THEOREM ImplementsSupervisor == Spec => SupervisorRefined
PROOF
  BY RefInit, RefStep, RefinesInit, RefinesStep, PTL DEF Spec, SupervisorRefined, Refines!Spec

-----------------------------------------------------------------------------
(* The run group inside the command *)

LEMMA SimGroupStep == [SimNext]_vars => [Next]_groupVars
PROOF
<1> SUFFICES ASSUME [SimNext]_vars PROVE [Next]_groupVars
  OBVIOUS
<1> USE DEF simVars
<1>1. CASE Startup
  BY <1>1 DEF Startup, LoadCert, OpenKeylog, OpenCapture, LoadHandler, Launch, FailedExit
<1>2. CASE Signal \/ CloseDoneCh \/ Watcher \/ CloseCapture \/ Exit
  BY <1>2 DEF Signal, CloseDoneCh, Watcher, WatcherFirst, WatcherNotify, WatcherForce, WatcherGone,
              NotWatcher, CloseCapture, Exit
<1>3. CASE Notified
  BY <1>3 DEF Notified, Next
<1>4. CASE Group
  BY <1>4 DEF Group, Next, GroupNext, FnStep
<1>5. ASSUME NEW f \in Fns, ListenStep(f) PROVE [Next]_groupVars
  <2>1. CASE \E p \in Clients : Serve(f, p) \/ EndServe(f, p)
    BY <2>1 DEF Serve, EndServe
  <2>2. CASE \E r \in Results : ListenerReturn(f, r)
    BY <2>2 DEF ListenerReturn, Next, GroupNext, FnStep
  <2> QED BY <1>5, <2>1, <2>2 DEF ListenStep, Listen
<1>6. CASE UNCHANGED vars
  BY <1>6 DEF vars
<1> QED BY <1>1, <1>2, <1>3, <1>4, <1>5, <1>6 DEF SimNext

\* RunAll inside the command is RunAll.
THEOREM SimIsGroup == SimSpec => Spec
PROOF
<1>1. SimInit => Init
  BY DEF SimInit
<1> QED BY <1>1, SimGroupStep, PTL DEF SimSpec, Spec

-----------------------------------------------------------------------------
(* Types *)

LEMMA SimTypeInit == SimInit => TypeInv /\ SimTypeOK
<1> SUFFICES ASSUME SimInit PROVE TypeInv /\ SimTypeOK
  OBVIOUS
<1>1. TypeInv /\ TypeOK
  BY TypeInit DEF SimInit, TypeInv
<1>2. signals \in 0 .. MaxSignals
  BY SimulatorAssumption DEF SimInit
<1>3. /\ {keylog, capture} \subseteq {"none", "open", "closed"}
      /\ {notified, second, doneCh} \subseteq BOOLEAN
      /\ serving \in [Fns -> SUBSET Clients]
  BY DEF SimInit
<1> QED BY <1>1, <1>2, <1>3 DEF SimInit, SimTypeOK

LEMMA SimTypeStep == TypeInv /\ SimTypeOK /\ [SimNext]_vars => TypeInv' /\ SimTypeOK'
<1> SUFFICES ASSUME TypeInv, SimTypeOK, [SimNext]_vars PROVE TypeInv' /\ SimTypeOK'
  OBVIOUS
<1>0. TypeInv' /\ TypeOK'
  <2>1. TypeInv'
    BY SimGroupStep, TypeStep
  <2> QED BY <2>1 DEF TypeInv
\* What a step has to show of the command's own state.
<1> DEFINE Own == /\ flags \in [tls : BOOLEAN, keylog : BOOLEAN, pcap : BOOLEAN]
                  /\ stage \in {"tls", "keylog", "capture", "handlers", "running", "failed"}
                  /\ loaded \subseteq Fns
                  /\ keylog \in {"none", "open", "closed"}
                  /\ capture \in {"none", "open", "closed"}
                  /\ serving \in [Fns -> SUBSET Clients]
                  /\ signals \in 0 .. MaxSignals
                  /\ notified \in BOOLEAN /\ second \in BOOLEAN /\ doneCh \in BOOLEAN
                  /\ watcher \in {"waiting", "registering", "armed", "gone"}
                  /\ process \in {"alive", "exited", "forced", "killed"}
                  /\ second => watcher # "waiting"
                  /\ stage = "running" => loaded = Fns
<1>a. Own
  BY DEF SimTypeOK
<1>b. SUFFICES Own'
  BY <1>0 DEF SimTypeOK
<1> USE <1>a DEF startVars, fileVars, signalVars, Alive, Running, At, Goto
<1>1. CASE Startup
  BY <1>1 DEF Startup, LoadCert, OpenKeylog, OpenCapture, LoadHandler, Launch, FailedExit,
              Deferred, Closed
<1>2. CASE Signal
  <2>1. signals' \in 0 .. MaxSignals
    BY <1>2, SimulatorAssumption DEF Signal
  <2>2. notified' \in BOOLEAN /\ second' \in BOOLEAN /\ doneCh' = doneCh
    BY <1>2, Zenon DEF Signal
  <2>3. UNCHANGED <<flags, stage, loaded, keylog, capture, serving, watcher>>
    BY <1>2 DEF Signal
  <2>4. /\ process' \in {"alive", "exited", "forced", "killed"}
        /\ second' => watcher # "waiting"
    BY <1>2 DEF Signal
  <2> QED BY <2>1, <2>2, <2>3, <2>4
<1>3. CASE Notified \/ Group
  BY <1>3 DEF Notified, Group, simVars
<1>4. CASE CloseDoneCh \/ CloseCapture \/ Exit
  <2>1. CASE CloseDoneCh
    BY <2>1 DEF CloseDoneCh
  <2>2. CASE CloseCapture
    BY <2>2 DEF CloseCapture
  <2>3. CASE Exit
    BY <2>3 DEF Exit, Deferred, Closed
  <2> QED BY <1>4, <2>1, <2>2, <2>3
<1>5. CASE Watcher
  BY <1>5 DEF Watcher, WatcherFirst, WatcherNotify, WatcherForce, WatcherGone, NotWatcher
<1>6. ASSUME NEW f \in Fns, ListenStep(f) PROVE Own'
  <2>1. serving' \in [Fns -> SUBSET Clients]
    BY <1>6 DEF ListenStep, Listen, Serve, EndServe, ListenerReturn
  <2> QED BY <1>6, <2>1 DEF ListenStep, Beside
<1>7. CASE UNCHANGED vars
  BY <1>7 DEF vars, simVars
<1> QED BY <1>1, <1>2, <1>3, <1>4, <1>5, <1>6, <1>7 DEF SimNext

\* The states the command is in: its own and those of the run group inside it.
THEOREM SimTypeCorrect == SimSpec => []SimTypeOK
BY SimTypeInit, SimTypeStep, PTL DEF SimSpec

-----------------------------------------------------------------------------
(* The files *)

\* A listener serves only while it runs; doneCh is closed behind RunAll's
\* return; the files are closed behind doneCh, or by a return that never
\* started a listener.
FileInv ==
  /\ GroupInv
  /\ serving \in [Fns -> SUBSET Clients]
  /\ \A f \in Fns : fn[f] # "running" => serving[f] = {}
  /\ {keylog, capture} \subseteq {"none", "open", "closed"}
  /\ doneCh => main = "returned"
  /\ process = "alive" /\ stage # "running" => capture # "closed" /\ keylog # "closed"
  /\ stage = "running" /\ (capture = "closed" \/ keylog = "closed") => doneCh
  /\ process = "exited" => capture # "open" /\ keylog # "open"
  /\ process = "exited" /\ stage = "running" => doneCh

LEMMA FileInit == SimInit => FileInv
PROOF
  BY GroupInit DEF SimInit, Init, FileInv

LEMMA FileStep == FileInv /\ [SimNext]_vars => FileInv'
PROOF
<1> SUFFICES ASSUME FileInv, [SimNext]_vars PROVE FileInv'
  OBVIOUS
<1>0. GroupInv /\ GroupInv' /\ fn \in [Fns -> {"running", "sent", "finished"}]
  BY SimGroupStep, GroupStep DEF FileInv, GroupInv, TypeInv, TypeOK
<1> USE <1>0 DEF FileInv, groupVars, startVars, fileVars, signalVars, Alive, Running, At, Goto
<1>1. CASE LoadCert \/ Launch \/ \E f \in Fns : LoadHandler(f)
  BY <1>1 DEF LoadCert, Launch, LoadHandler
<1>2. CASE OpenKeylog \/ OpenCapture
  BY <1>2 DEF OpenKeylog, OpenCapture
<1>3. CASE FailedExit \/ Exit
  BY <1>3 DEF FailedExit, Exit, Deferred, Closed, ShutdownComplete
<1>4. CASE Signal \/ CloseDoneCh
  BY <1>4 DEF Signal, CloseDoneCh
<1>5. CASE Watcher
  BY <1>5 DEF Watcher, WatcherFirst, WatcherNotify, WatcherForce, WatcherGone, NotWatcher
<1>6. CASE CloseCapture
  BY <1>6 DEF CloseCapture, ShutdownComplete
<1>7. CASE Notified
  BY <1>7 DEF Notified, ParentDone, simVars
<1>8. CASE Group
  <2>1. UNCHANGED simVars /\ (main = "returned" => main' = "returned")
    BY <1>8 DEF Group, CloseDone, MainStep, SelectCtxDone, WaitedForDone, SelectErr, SelectDone, WgDone
  <2>2. \A f \in Fns : fn'[f] # "running" => fn[f] # "running"
    BY <1>8 DEF Group, CloseDone, MainStep, SelectCtxDone, WaitedForDone, SelectErr, SelectDone, WgDone
  <2> QED BY <2>1, <2>2 DEF simVars
<1>9. ASSUME NEW f \in Fns, ListenStep(f) PROVE FileInv'
  <2>1. CASE \E p \in Clients : Serve(f, p) \/ EndServe(f, p)
    BY <1>9, <2>1 DEF ListenStep, Beside, Serve, EndServe
  <2>2. ASSUME NEW r \in Results, ListenerReturn(f, r) PROVE FileInv'
    BY <1>9, <2>2 DEF ListenStep, Beside, ListenerReturn, MayReturn, FnReturn
  <2> QED BY <1>9, <2>1, <2>2 DEF ListenStep, Listen
<1>10. CASE UNCHANGED vars
  BY <1>10 DEF vars, simVars
<1> QED BY <1>1, <1>2, <1>3, <1>4, <1>5, <1>6, <1>7, <1>8, <1>9, <1>10 DEF SimNext, Startup

LEMMA FileInvariant == SimSpec => []FileInv
PROOF
  BY FileInit, FileStep, PTL DEF SimSpec

\* No return of runTargets leaves a file open, and no file is closed while a
\* handler of a started listener may still write to it.
THEOREM FilesClosedLastHolds == SimSpec => []FilesClosedLast
PROOF
<1>1. FileInv => FilesClosedLast
  <2> SUFFICES ASSUME FileInv PROVE FilesClosedLast
    OBVIOUS
  <2>1. doneCh => AllFinished
    BY DEF FileInv, GroupInv
  <2>2. AllFinished => \A f \in Fns : serving[f] = {}
    BY DEF FileInv, AllFinished, Terminated
  <2> QED BY <2>1, <2>2 DEF FileInv, FilesClosedLast
<1> QED BY <1>1, FileInvariant, PTL

-----------------------------------------------------------------------------
(* Why a run ends *)

\* The first listener to return had a reason the command knows of: without one
\* every listener still runs.
CauseInv == FileInv /\ ((\E f \in Fns : fn[f] # "running") => parentDone \/ reported # <<>>)

LEMMA CauseStep == CauseInv /\ [SimNext]_vars => CauseInv'
PROOF
<1> SUFFICES ASSUME CauseInv, [SimNext]_vars PROVE CauseInv'
  OBVIOUS
<1>0. /\ GroupInv /\ fn \in [Fns -> {"running", "sent", "finished"}] /\ reported \in Seq(Errors)
      /\ FileInv'
  BY FileStep DEF CauseInv, FileInv, GroupInv, TypeInv, TypeOK
<1>1. ASSUME \A f \in Fns : fn'[f] # "running" => fn[f] # "running",
             parentDone => parentDone', reported' = reported
      PROVE  CauseInv'
  BY <1>0, <1>1 DEF CauseInv
<1>2. ASSUME NEW f \in Fns, NEW r \in Results, ListenerReturn(f, r) PROVE CauseInv'
  <2>1. CASE r \in Errors
    <3>1. reported' # <<>>
      BY <1>0, <1>2, <2>1 DEF ListenerReturn, FnReturn
    <3> QED BY <1>0, <3>1 DEF CauseInv
  <2>2. CASE r \notin Errors
    <3>1. RunCtxDone /\ fn[f] = "running" /\ UNCHANGED <<parentDone, reported>>
      BY <1>2, <2>2 DEF ListenerReturn, MayReturn, FnReturn, Results
    <3>2. parentDone \/ reported # <<>>
      BY <1>0, <3>1 DEF RunCtxDone, GroupInv, CancelHasCause, AllFinished, Terminated
    <3> QED BY <1>0, <3>1, <3>2 DEF CauseInv
  <2> QED BY <2>1, <2>2
<1>3. CASE Startup \/ Signal \/ CloseDoneCh \/ Watcher \/ CloseCapture \/ Exit
  BY <1>1, <1>3 DEF Startup, LoadCert, OpenKeylog, OpenCapture, LoadHandler, Launch, FailedExit,
     Signal, CloseDoneCh, Watcher, WatcherFirst, WatcherNotify, WatcherForce, WatcherGone,
     NotWatcher, CloseCapture, Exit, groupVars
<1>4. CASE Notified
  BY <1>1, <1>4 DEF Notified, ParentDone
<1>5. CASE Group
  BY <1>0, <1>1, <1>5 DEF Group, CloseDone, MainStep, SelectCtxDone, WaitedForDone, SelectErr,
     SelectDone, WgDone
<1>6. CASE \E f \in Fns, p \in Clients : Serve(f, p) \/ EndServe(f, p)
  BY <1>1, <1>6 DEF Serve, EndServe, groupVars
<1>7. CASE UNCHANGED vars
  BY <1>1, <1>7 DEF vars, groupVars
<1> QED BY <1>2, <1>3, <1>4, <1>5, <1>6, <1>7 DEF SimNext, ListenStep, Listen

\* A command that returns after its listeners were started was signalled, or a
\* listener failed.
THEOREM EndsForCauseHolds == SimSpec => []EndsForCause
PROOF
<1>1. SimInit => CauseInv
  BY FileInit DEF SimInit, Init, CauseInv
<1>2. CauseInv => EndsForCause
  <2> SUFFICES ASSUME CauseInv, process = "exited", stage = "running"
               PROVE  parentDone \/ reported # <<>>
    BY DEF EndsForCause
  <2>1. AllFinished
    BY DEF CauseInv, FileInv, GroupInv
  <2> QED BY <2>1, RunGroupAssumption DEF CauseInv, AllFinished, Terminated
<1> QED BY <1>1, <1>2, CauseStep, PTL DEF SimSpec

-----------------------------------------------------------------------------
(* Signals *)

\* The force-exit goroutine registers behind the first signal, so what its
\* channel receives is at least the second.
SignalInv ==
  /\ signals \in Nat
  /\ notified => signals >= 1
  /\ parentDone => notified
  /\ watcher \in {"registering", "armed"} => parentDone
  /\ second => signals >= 2
  /\ ForcedOnlyTwice

LEMMA SignalStep == SignalInv /\ [SimNext]_vars => SignalInv'
PROOF
<1> SUFFICES ASSUME SignalInv, [SimNext]_vars PROVE SignalInv'
  OBVIOUS
<1> USE DEF SignalInv, ForcedOnlyTwice, groupVars, signalVars, Alive, Running, At
<1>1. CASE Startup
  BY <1>1 DEF Startup, LoadCert, OpenKeylog, OpenCapture, LoadHandler, Launch, FailedExit
<1>2. CASE Signal
  <2>1. signals' = signals + 1 /\ UNCHANGED <<parentDone, watcher>>
    BY <1>2 DEF Signal
  <2>2. CASE stage = "running"
    <3>1. process' = process /\ notified' = TRUE /\ (second' => second \/ watcher = "armed")
      BY <1>2, <2>2 DEF Signal
    <3>2. second' => signals' >= 2
      BY <2>1, <3>1
    <3> QED BY <2>1, <3>1, <3>2
  <2>3. CASE stage # "running"
    <3>1. process' = "killed" /\ UNCHANGED <<notified, second>>
      BY <1>2, <2>3 DEF Signal
    <3> QED BY <2>1, <3>1
  <2> QED BY <2>2, <2>3
<1>3. CASE CloseDoneCh \/ CloseCapture \/ Exit
  BY <1>3 DEF CloseDoneCh, CloseCapture, Exit
<1>4. CASE Watcher
  BY <1>4 DEF Watcher, WatcherFirst, WatcherNotify, WatcherForce, WatcherGone, NotWatcher, Again
<1>5. CASE Notified
  BY <1>5 DEF Notified, ParentDone, simVars
<1>6. CASE Group
  BY <1>6 DEF Group, CloseDone, MainStep, SelectCtxDone, WaitedForDone, SelectErr, SelectDone,
              WgDone, simVars
<1>7. ASSUME NEW f \in Fns, ListenStep(f) PROVE SignalInv'
  BY <1>7 DEF ListenStep, Listen, Beside, Serve, EndServe, ListenerReturn, FnReturn
<1>8. CASE UNCHANGED vars
  BY <1>8 DEF vars, simVars
<1> QED BY <1>1, <1>2, <1>3, <1>4, <1>5, <1>6, <1>7, <1>8 DEF SimNext

\* One Ctrl-C always gets the graceful shutdown.
THEOREM ForcedOnlyTwiceHolds == SimSpec => []ForcedOnlyTwice
PROOF
<1>1. SimInit => SignalInv
  BY DEF SimInit, Init, SignalInv, ForcedOnlyTwice
<1>2. SignalInv => ForcedOnlyTwice
  BY DEF SignalInv
<1> QED BY <1>1, <1>2, SignalStep, PTL DEF SimSpec

=============================================================================
