----------------------------- MODULE Simulator -----------------------------
(***************************************************************************)
(* runTargets (cmd/run.go): the files it opens and the handlers it loads,  *)
(* with what each early return undoes; then app.RunAll in a goroutine, a   *)
(* second goroutine that turns a repeated Ctrl-C into a forced exit, and   *)
(* the main goroutine that closes the files.  The functions RunAll runs    *)
(* are listeners, each of which does what Listener allows.  os/signal      *)
(* drops a signal nobody can receive: its channels are buffered and        *)
(* written without blocking.                                               *)
(***************************************************************************)
EXTENDS RunGroup

CONSTANTS
  Clients,     \* the peers a listener may be serving
  MaxSignals   \* bound: SIGINT and SIGTERM sent by the operator

ASSUME SimulatorAssumption == MaxSignals \in Nat

VARIABLES
  flags,     \* the options: tls, keylog, pcap
  stage,     \* of runTargets: tls, keylog, capture, handlers, running, failed
  loaded,    \* the targets whose handler has been loaded
  keylog,    \* the TLS key log: none, open, closed
  capture,   \* the capture file: none, open, closed
  serving,   \* of each listener, the clients whose handler runs
  signals,   \* how many signals the operator has sent
  notified,  \* a signal waits in the channel of signal.NotifyContext
  watcher,   \* the force-exit goroutine: waiting, registering, armed, gone
  second,    \* a signal waits in that goroutine's channel c
  doneCh,    \* doneCh is closed
  process    \* alive, exited (runTargets returned), forced (os.Exit(1)), killed

fileVars == <<keylog, capture>>
startVars == <<flags, stage, loaded>>
signalVars == <<signals, notified, watcher, second>>
simVars == <<startVars, fileVars, serving, signalVars, doneCh, process>>
vars == <<groupVars, simVars>>

SimTypeOK ==
  /\ TypeOK
  /\ flags \in [tls : BOOLEAN, keylog : BOOLEAN, pcap : BOOLEAN]
  /\ stage \in {"tls", "keylog", "capture", "handlers", "running", "failed"}
  /\ loaded \subseteq Fns
  /\ {keylog, capture} \subseteq {"none", "open", "closed"}
  /\ serving \in [Fns -> SUBSET Clients]
  /\ signals \in 0 .. MaxSignals
  /\ {notified, second, doneCh} \subseteq BOOLEAN
  /\ watcher \in {"waiting", "registering", "armed", "gone"}
  /\ process \in {"alive", "exited", "forced", "killed"}
  /\ second => watcher # "waiting"
  /\ stage = "running" => loaded = Fns

SimInit ==
  /\ Init
  /\ flags \in {o \in [tls : BOOLEAN, keylog : BOOLEAN, pcap : BOOLEAN] : o.keylog => o.tls}
  /\ stage = "tls" /\ loaded = {}
  /\ keylog = "none" /\ capture = "none"
  /\ serving = [f \in Fns |-> {}]
  /\ signals = 0 /\ notified = FALSE /\ second = FALSE /\ doneCh = FALSE
  /\ watcher = "waiting" /\ process = "alive"

Alive == process = "alive"
Running == Alive /\ stage = "running"

-----------------------------------------------------------------------------
(* Before the listeners *)

At(here) == Alive /\ stage = here
Goto(at) == stage' = at

\* The certificate is loaded or generated before any file is opened.
LoadCert ==
  /\ At("tls")
  /\ Goto("keylog") \/ (flags.tls /\ Goto("failed"))
  /\ UNCHANGED <<groupVars, flags, loaded, fileVars, serving, signalVars, doneCh, process>>

OpenKeylog ==
  /\ At("keylog")
  /\ \/ ~flags.keylog /\ Goto("capture") /\ UNCHANGED keylog
     \/ flags.keylog /\ Goto("capture") /\ keylog' = "open"
     \/ flags.keylog /\ Goto("failed") /\ UNCHANGED keylog
  /\ UNCHANGED <<groupVars, flags, loaded, capture, serving, signalVars, doneCh, process>>

\* pcap.NewRun; one that fails leaves no file.
OpenCapture ==
  /\ At("capture")
  /\ \/ ~flags.pcap /\ Goto("handlers") /\ UNCHANGED capture
     \/ flags.pcap /\ Goto("handlers") /\ capture' = "open"
     \/ flags.pcap /\ Goto("failed") /\ UNCHANGED capture
  /\ UNCHANGED <<groupVars, flags, loaded, keylog, serving, signalVars, doneCh, process>>

\* script.New for each target; --tls refuses a UDP target in the same loop.
LoadHandler(f) ==
  /\ At("handlers") /\ f \notin loaded
  /\ \/ loaded' = loaded \cup {f} /\ UNCHANGED stage
     \/ Goto("failed") /\ UNCHANGED loaded
  /\ UNCHANGED <<groupVars, flags, fileVars, serving, signalVars, doneCh, process>>

MutLaunchEarly ==
  /\ At("handlers") /\ loaded # {}
  /\ Goto("running")
  /\ UNCHANGED <<groupVars, flags, loaded, fileVars, serving, signalVars, doneCh, process>>
\* signal.NotifyContext, then the two goroutines.
Launch ==
  /\ At("handlers") /\ loaded = Fns
  /\ Goto("running")
  /\ UNCHANGED <<groupVars, flags, loaded, fileVars, serving, signalVars, doneCh, process>>

Closed(f) == IF f = "open" THEN "closed" ELSE f

\* The deferred closes of runTargets.
Deferred == keylog' = Closed(keylog) /\ capture' = Closed(capture)

FailedExit ==
  /\ At("failed")
  /\ Deferred
  /\ process' = "exited"
  /\ UNCHANGED <<groupVars, startVars, serving, signalVars, doneCh>>

Startup ==
  \/ LoadCert \/ OpenKeylog \/ OpenCapture \/ Launch \/ FailedExit
  \/ \E f \in Fns : LoadHandler(f)

-----------------------------------------------------------------------------
(* Listeners: what Listener allows each of them *)

Serve(f, p) ==
  /\ fn[f] = "running" /\ p \notin serving[f]
  /\ serving' = [serving EXCEPT ![f] = @ \cup {p}]
  /\ UNCHANGED groupVars
EndServe(f, p) ==
  /\ p \in serving[f]
  /\ serving' = [serving EXCEPT ![f] = @ \ {p}]
  /\ UNCHANGED groupVars

MutNilAnytime(f, r) == serving[f] = {} /\ r # Canceled
\* When a listener may return r.
MayReturn(f, r) == serving[f] = {} /\ r # Canceled /\ (r = Nil => RunCtxDone)

ListenerReturn(f, r) == MayReturn(f, r) /\ FnReturn(f, r) /\ UNCHANGED serving

Listen(f) ==
  \/ \E p \in Clients : Serve(f, p) \/ EndServe(f, p)
  \/ \E r \in Results : ListenerReturn(f, r)

\* What is not a listener's step.
Beside == UNCHANGED <<startVars, fileVars, signalVars, doneCh, process>>

ListenStep(f) == Running /\ Listen(f) /\ Beside

\* RunAll, as long as the process lives.
Group ==
  /\ Running
  /\ CloseDone \/ MainStep \/ \E f \in Fns : WgDone(f)
  /\ UNCHANGED simVars

-----------------------------------------------------------------------------
(* Signals and the end of the run *)

\* The channels registered when the signal arrives each get a copy if empty;
\* the goroutine of NotifyContext reads one signal and ends.  Before
\* NotifyContext a signal kills the process.
Signal ==
  /\ Alive /\ signals < MaxSignals
  /\ signals' = signals + 1
  /\ IF stage = "running"
     THEN notified' = TRUE /\ second' = (second \/ watcher = "armed") /\ UNCHANGED process
     ELSE process' = "killed" /\ UNCHANGED <<notified, second>>
  /\ UNCHANGED <<groupVars, startVars, fileVars, serving, watcher, doneCh>>

\* NotifyContext cancels the context.
Notified ==
  /\ Running /\ notified
  /\ ParentDone
  /\ UNCHANGED simVars

\* defer close(doneCh) of the goroutine that called RunAll.
CloseDoneCh ==
  /\ Running /\ main = "returned" /\ ~doneCh
  /\ doneCh' = TRUE
  /\ UNCHANGED <<groupVars, startVars, fileVars, serving, signalVars, process>>

\* What the force-exit goroutine leaves alone.
NotWatcher == UNCHANGED <<groupVars, startVars, fileVars, serving, signals, notified, second, doneCh>>

\* select { case <-ctx.Done(): "shutting down"  case <-doneCh: return }
WatcherFirst ==
  /\ Running /\ watcher = "waiting"
  /\ \/ parentDone /\ watcher' = "registering"
     \/ doneCh /\ watcher' = "gone"
  /\ NotWatcher /\ UNCHANGED process

\* signal.Notify(c, ...)
WatcherNotify ==
  /\ Running /\ watcher = "registering"
  /\ watcher' = "armed"
  /\ NotWatcher /\ UNCHANGED process

MutForceOnFirst == watcher = "armed"
MutNeverForce == FALSE
\* A signal in c after the one that started the shutdown.
Again == watcher = "armed" /\ second

\* select { case <-c: os.Exit(1)  case <-doneCh: return }
WatcherForce ==
  /\ Running /\ Again
  /\ process' = "forced"
  /\ NotWatcher /\ UNCHANGED watcher

WatcherGone ==
  /\ Running /\ watcher = "armed" /\ doneCh
  /\ watcher' = "gone"
  /\ NotWatcher /\ UNCHANGED process

MutDontWait == TRUE
\* <-doneCh
ShutdownComplete == doneCh

\* Stats, Close, "capture saved".
CloseCapture ==
  /\ Running /\ ShutdownComplete /\ capture = "open"
  /\ capture' = "closed"
  /\ UNCHANGED <<groupVars, startVars, keylog, serving, signalVars, doneCh, process>>

\* runTargets returns what RunAll returned; run is nil by now.
Exit ==
  /\ Running /\ ShutdownComplete /\ capture # "open"
  /\ Deferred
  /\ process' = "exited"
  /\ UNCHANGED <<groupVars, startVars, serving, signalVars, doneCh>>

Watcher == WatcherFirst \/ WatcherNotify \/ WatcherForce \/ WatcherGone
SimNext ==
  \/ Startup \/ Signal \/ Notified \/ Group \/ CloseDoneCh
  \/ \E f \in Fns : ListenStep(f)
  \/ Watcher \/ CloseCapture \/ Exit

SimSpec == SimInit /\ [][SimNext]_vars

\* The goroutines of the command and of RunAll run (the Go scheduler is fair);
\* the listeners need not ever return.
CommandFairness ==
  /\ WF_vars(Notified) /\ WF_vars(CloseDoneCh)
  /\ WF_vars(WatcherFirst) /\ WF_vars(WatcherNotify)
  /\ WF_vars(WatcherForce) /\ WF_vars(WatcherGone)
  /\ WF_vars(CloseCapture) /\ WF_vars(Exit) /\ WF_vars(FailedExit)
  /\ WF_vars(Running /\ MainStep /\ UNCHANGED simVars)
  /\ WF_vars(Running /\ CloseDone /\ UNCHANGED simVars)
  /\ \A f \in Fns : WF_vars(Running /\ WgDone(f) /\ UNCHANGED simVars)
FairSimSpec == SimSpec /\ CommandFairness

\* What TcpListener and UdpListener show of listeners (CancelReturns): each
\* returns once its context is done.
ListenersReturn ==
  \A f \in Fns : (Running /\ RunCtxDone) ~> (~Running \/ fn[f] # "running")

-----------------------------------------------------------------------------
\* However runTargets returns, early or at the end, it has closed the files it
\* opened; and once the listeners have been started, no file is closed before the
\* last handler of the last listener is through: a late write would meet a nil file.
FilesClosedLast ==
  /\ process = "exited" => capture # "open" /\ keylog # "open"
  /\ (stage = "running" /\ (capture = "closed" \/ keylog = "closed")) =>
       AllFinished /\ \A f \in Fns : serving[f] = {}

\* A run that was started ends by itself only after a signal or because a
\* listener failed: that the listeners end for a reason makes the run do so.
EndsForCause ==
  (process = "exited" /\ stage = "running") => parentDone \/ reported # <<>>

\* The process is forced to exit only by a second signal: one Ctrl-C always
\* gets the graceful shutdown.
ForcedOnlyTwice == process = "forced" => signals >= 2

\* Ctrl-C, or a listener that fails, ends the process as long as the listeners
\* return once their context is done.
SignalEndsRun == ListenersReturn => ((signals > 0 \/ reported # <<>>) ~> ~Alive)

\* Once the second goroutine has registered for signals, one more signal ends
\* the process even if the listeners never return.
ArmedForceExits == (watcher = "armed" /\ second) ~> ~Alive

=============================================================================
