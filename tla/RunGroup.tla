------------------------------ MODULE RunGroup ------------------------------
(***************************************************************************)
(* app.RunAll (internal/app/rungroup.go): run functions concurrently,      *)
(* cancel the rest when one fails or the parent context ends, and wait for *)
(* every goroutine.  The main goroutine is a select over ctx.Done, the     *)
(* buffered error channel and the WaitGroup's done channel; when several   *)
(* are ready Go picks any of them.                                         *)
(***************************************************************************)
EXTENDS Naturals, Sequences, FiniteSets

CONSTANTS
  Fns,       \* the functions passed to RunAll
  Errors,    \* the errors a function can return that are not context.Canceled
  Canceled,  \* context.Canceled
  Nil,       \* the nil error
  Pending    \* RunAll has not returned

ASSUME RunGroupAssumption ==
  /\ IsFiniteSet(Fns) /\ Fns # {}
  /\ Canceled # Nil /\ Canceled # Pending /\ Nil # Pending
  /\ Errors \cap {Canceled, Nil, Pending} = {}

VARIABLES
  parentDone,  \* ctx.Done() is closed
  canceled,    \* cancel() was called
  fn,          \* each goroutine: running, sent (on errc), finished (wg.Done)
  errc,        \* the buffered channel
  done,        \* the done channel is closed
  main,        \* selecting, waiting (for done), returned
  firstErr,
  result,      \* what RunAll returned
  reported     \* history: the errors sent on errc, in order

groupVars == <<parentDone, canceled, fn, errc, done, main, firstErr, result, reported>>

Results == Errors \cup {Canceled, Nil}
RunCtxDone == parentDone \/ canceled
Terminated == {f \in Fns : fn[f] = "finished"}

TypeOK ==
  /\ parentDone \in BOOLEAN /\ canceled \in BOOLEAN /\ done \in BOOLEAN
  /\ fn \in [Fns -> {"running", "sent", "finished"}]
  /\ errc \in Seq(Results) /\ reported \in Seq(Errors)
  /\ Len(errc) <= Cardinality(Fns)
  /\ main \in {"selecting", "waiting", "returned"}
  /\ firstErr \in Errors \cup {Nil}
  /\ result \in Errors \cup {Nil, Pending}

MutNoDrain(queue, e) == e = firstErr
\* e is the first error, cancellations excepted, once the queue is drained.
FirstError(queue, e) ==
  IF firstErr # Nil THEN e = firstErr
  ELSE \/ e = Nil /\ \A i \in DOMAIN queue : queue[i] \notin Errors
       \/ \E i \in DOMAIN queue : /\ e = queue[i] /\ e \in Errors
                                  /\ \A j \in 1 .. (i - 1) : queue[j] \notin Errors

Init ==
  /\ parentDone = FALSE /\ canceled = FALSE
  /\ fn = [f \in Fns |-> "running"]
  /\ errc = <<>> /\ done = FALSE /\ reported = <<>>
  /\ main = "selecting" /\ firstErr = Nil /\ result = Pending

ParentDone ==
  /\ ~parentDone
  /\ parentDone' = TRUE
  /\ UNCHANGED <<canceled, fn, errc, done, main, firstErr, result, reported>>

\* errc <- f(runCtx): a function returns when it likes, with context.Canceled
\* only once its context is done.  The channel never blocks it.
FnReturn(f, r) ==
  /\ fn[f] = "running"
  /\ r = Canceled => RunCtxDone
  /\ fn' = [fn EXCEPT ![f] = "sent"]
  /\ errc' = Append(errc, r)
  /\ reported' = IF r \in Errors THEN Append(reported, r) ELSE reported
  /\ UNCHANGED <<parentDone, canceled, done, main, firstErr, result>>

WgDone(f) ==
  /\ fn[f] = "sent"
  /\ fn' = [fn EXCEPT ![f] = "finished"]
  /\ UNCHANGED <<parentDone, canceled, errc, done, main, firstErr, result, reported>>

\* wg.Wait() returns.
AllFinished == Terminated = Fns

CloseDone ==
  /\ AllFinished /\ ~done
  /\ done' = TRUE
  /\ UNCHANGED <<parentDone, canceled, fn, errc, main, firstErr, result, reported>>

MutReturnAtOnce ==
  /\ main = "selecting" /\ parentDone
  /\ canceled' = TRUE
  /\ main' = "returned" /\ result' = Nil
  /\ UNCHANGED <<parentDone, fn, errc, done, firstErr, reported>>
\* case <-ctx.Done(): cancel, wait for done, return nil whatever was reported.
SelectCtxDone ==
  /\ main = "selecting" /\ parentDone
  /\ canceled' = TRUE
  /\ main' = "waiting"
  /\ UNCHANGED <<parentDone, fn, errc, done, firstErr, result, reported>>

WaitedForDone ==
  /\ main = "waiting" /\ done
  /\ main' = "returned" /\ result' = Nil
  /\ UNCHANGED <<parentDone, canceled, fn, errc, done, firstErr, reported>>

MutNilIsFatal(err) == err # Canceled /\ firstErr = Nil
MutNeverCancel(err) == FALSE
\* A failure that stops the group: the first error, cancellations excepted.
Fatal(err) == err \in Errors /\ firstErr = Nil

\* case err := <-errc
SelectErr ==
  /\ main = "selecting" /\ errc # <<>>
  /\ errc' = Tail(errc)
  /\ firstErr' = IF Fatal(Head(errc)) THEN Head(errc) ELSE firstErr
  /\ canceled' = (canceled \/ Fatal(Head(errc)))
  /\ UNCHANGED <<parentDone, fn, done, main, result, reported>>

\* case <-done: drain what the loop has not consumed.  (The deferred cancel.)
SelectDone ==
  /\ main = "selecting" /\ done
  /\ \E e \in Results : FirstError(errc, e) /\ firstErr' = e /\ result' = e
  /\ errc' = <<>>
  /\ canceled' = TRUE /\ main' = "returned"
  /\ UNCHANGED <<parentDone, fn, done, reported>>

MainStep == SelectCtxDone \/ WaitedForDone \/ SelectErr \/ SelectDone
FnStep(f) == WgDone(f) \/ \E r \in Results : FnReturn(f, r)

GroupNext == (\E f \in Fns : FnStep(f)) \/ CloseDone \/ MainStep
Next == ParentDone \/ GroupNext

Spec == Init /\ [][Next]_groupVars

\* Goroutines run (the Go scheduler is fair) and a function returns once its
\* context is done: what RunAll asks of the functions it is given.
Fairness ==
  /\ WF_groupVars(MainStep) /\ WF_groupVars(CloseDone)
  /\ \A f \in Fns : /\ WF_groupVars(WgDone(f))
                    /\ WF_groupVars(RunCtxDone /\ \E r \in Results : FnReturn(f, r))
FairSpec == Spec /\ Fairness

-----------------------------------------------------------------------------
\* RunAll never leaves a goroutine behind: it returns after the last wg.Done.
NoGoroutineLeft == main = "returned" => AllFinished

\* The functions are only told to stop by the caller or by a reported error, or
\* when all have finished: one listener ending without an error stops no other.
CancelHasCause ==
  canceled => parentDone \/ reported # <<>> \/ AllFinished

\* Nothing is invented and nothing is lost but by cancellation: RunAll
\* implements Supervisor.
Refines == INSTANCE Supervisor WITH live <- {f \in Fns : fn[f] = "running"},
                                    errs <- reported, stopped <- parentDone
SupervisorRefined == Refines!Spec

\* An error, or the end of the caller's context, ends the whole group.
ErrorStopsAll == (reported # <<>> \/ parentDone) ~> (main = "returned")

=============================================================================
