---------------------------- MODULE Supervisor -----------------------------
(***************************************************************************)
(* What app.RunAll promises its caller: it returns once every function has *)
(* returned, with the first error any of them reported, or with nil when   *)
(* the caller itself asked to stop.                                        *)
(***************************************************************************)
EXTENDS Sequences

CONSTANTS Fns, Errors, Nil, Pending

VARIABLES live,    \* the functions that have not returned
          errs,    \* the errors reported so far, in order
          stopped, \* the caller's context has ended
          result

vars == <<live, errs, stopped, result>>

Init == live = Fns /\ errs = <<>> /\ stopped = FALSE /\ result = Pending

Stop == stopped' = TRUE /\ UNCHANGED <<live, errs, result>>

Finish(f) == f \in live /\ live' = live \ {f} /\ UNCHANGED <<errs, stopped, result>>
Fail(f, e) ==
  f \in live /\ live' = live \ {f} /\ errs' = Append(errs, e) /\ UNCHANGED <<stopped, result>>

Return ==
  /\ live = {} /\ result = Pending
  /\ \/ result' = IF errs = <<>> THEN Nil ELSE Head(errs)
     \/ stopped /\ result' = Nil
  /\ UNCHANGED <<live, errs, stopped>>

Next == Stop \/ (\E f \in Fns : Finish(f) \/ \E e \in Errors : Fail(f, e)) \/ Return
Spec == Init /\ [][Next]_vars

=============================================================================
