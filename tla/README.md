# GoNetSim in TLA+

GoNetSim starts one listener per `handler@addr` target, serves every connection
with a built-in or a sandboxed Lua handler, and records all traffic in one pcapng
file. This directory holds a TLA+ model of the parts whose correctness depends on
the order of events, the TLC runs that check it on small instances, and TLAPS
proofs of its main safety properties for every size.

Paths below are relative to the repository root unless they name a module.

## 1. Inventory

| Component | State | Operations | Correct when |
|---|---|---|---|
| capture (`internal/pcap`) | `Run`: file, `ifaces`, `packets`, append offset, one mutex. `Session`: `synSent`, `clientSeq`, `serverSeq`, `lastOptions`, `pending`. `PacketConn`: one session per peer | `NewInterface`, `NewSession`, `Write`, `Close`, `Comment`, `Run.Close` | interface ids match the file, each TCP conversation reassembles, a note is on the packet it was written for, the count is right, what a failing write damages is bounded |
| run group (`internal/app/rungroup.go`) | `runCtx`, `errc`, `done`, `firstErr` | `RunAll`: start, report, cancel, wait | no goroutine left, first error wins, an error stops all |
| TCP listener (`internal/network/tcp.go`, `close.go`) | listening socket, `connSet`, WaitGroup, a goroutine and a deadline per connection | accept, `closeAll`, idle deadline, handshake | a cancelled listener returns, nothing is left behind, quiet clients are dropped |
| UDP listener (`internal/network/udp.go`, `PacketConn`) | socket, flow table with idle times | read, record, purge, handle, reply, `CloseAll` | a session is never used for another peer nor closed under a handler, a cancelled listener returns |
| run command (`cmd/run.go`) | key log, capture, signal channels, `doneCh` | open, load, run, shut down, force exit, close | every return closes the files, they are closed last, a signal ends the process |
| stores (`internal/store`, `api_state.go`) | maps and one `Budget` | `Get`, `Set`, `Has`, `Delete` | the budget is exact and bounds memory |
| Lua engine (`internal/script`) | one Lua state per connection, `luaConn` with its buffered reader | `conn:*`, `capture:comment`, stores | a handler can be interrupted, reads lose nothing, a comment meets the packet just read |
| certificate store (`internal/tlscert`, `cmd/tls.go`) | three files, shared by processes | generate, load, renew, `--force`, `--verify-only` | certificate, key and CA belong together after any start, the pair a listener has shown stays |
| target specs, logging, docs, sandbox tables | none | pure functions and I/O | not modelled, see section 8 |

How they interact: `runTargets` loads the certificate, opens the key log and the
capture, loads the handlers and passes one function per target to `RunAll`; each
is a `ServeTCP` or `ServeUDP`, which declares its interface at the shared `Run`.
`serveConn` stacks socket, recorder, TLS and idle deadline and calls the handler in
a goroutine of its own; `ServeUDP` calls it inside its datagram loop. Reads and
writes come back through the recorder into `Session.Write`, comments go straight
to `Session.Comment`, store calls to one `Budget`. A signal ends one context that
everything below derives from.

The hard behaviours are the ones where these meet: blocks of many sessions
interleaved in a file whose offsets are remembered; bytes that have left a socket
and are not recorded yet when the session is closed from another goroutine; 32-bit
numbers that wrap; writes that fail in the middle of a block; flows that go idle
while their handler runs; selects that pick among ready cases; signals sent when
nobody is registered; handlers blocked on clients, timers and handshakes when
everything must stop; two buffers below one `read_until`; processes that meet in
a directory and are killed between two files; read-modify-write sequences of
scripts. `PROJECT.json` lists them as hazards, each at its line.

## 2. Modules

| Module | Models | Reads as |
|---|---|---|
| `Capture` | `run.go`, `session.go`, `conn.go` of `internal/pcap` | one action per socket call, lock acquisition, block, close and comment |
| `TcpTrace` | what the capture promises of TCP connections | the frames of each: SYN, SYN-ACK, data, FIN, FIN with exact numbers |
| `CaptureTrace` | | the refinement of `TcpTrace` by `Capture`: the trace of a connection is its packets in file order |
| `Listener` | what `ServeTCP` and `ServeUDP` promise `RunAll` | peers are served, then one result; nil only when stopped |
| `TcpListener` | `ServeTCP`, `serveConn`, `connSet`, `idleConn`, the blocking `conn:*` calls | a program counter per connection |
| `UdpListener` | `ServeUDP`, `closeOnCancel`, the flow table of `PacketConn`, over `Capture` | a program counter for the loop |
| `RunGroup` | `app.RunAll` | one action per select case and goroutine step |
| `Supervisor` | what `RunAll` promises its caller | functions finish or fail, then one result |
| `Simulator` | `runTargets` over `RunGroup`, its functions being `Listener`s | startup stages, signals, the force-exit goroutine, closing the files |
| `Store` | the three scopes on one `Budget` | `Set`, `Delete`, the life of a connection's store |
| `HandlerCounter` | the counter of `docs/handlers.md` and `handlers/smtp.lua` over `Store` | get, then set |
| `LuaConn` | `conn:read`, `read_line`, `read_until`, `write` over `bufio.Reader` | one action per read of the socket or of the buffer |
| `TlsCert` | `internal/tlscert/cert.go` and `gonetsim tls`, several processes | one action per call on the file system |
| `CaptureProofs`, `ConversationProofs` | | theorems about `Capture`: structure of the file, count and notes; TCP conversations and the refinement of `TcpTrace` |
| `UdpListenerProofs`, `TcpListenerProofs`, `LuaConnProofs`, `TlsCertProofs` | | theorems about the module they are named for |
| `SimulatorProofs` | | theorems about `RunGroup` and `Simulator` |
| `StoreProofs` | | theorems about `Store` and `HandlerCounter` |
| `MCCapture`, `MCUdpListener`, `MCHandlerCounter`, `MCLuaConn`, `MCTlsCert` | | values of the constants for TLC |

How they compose:

```
 Supervisor <= RunGroup <- Simulator         <=  implements (checked, and proved)
                              :              <-  EXTENDS
   TcpListener => Listener <= UdpListener -> Capture => TcpTrace
                                                ^
   HandlerCounter -> Store      LuaConn      TlsCert
```

`Simulator` gives each function of `RunGroup` exactly the steps of `Listener`
(dotted line), so what it takes for granted of a listener is what `TcpListener` and
`UdpListener` are shown to keep: no peer is served after the return, and nil is
returned only by a stopped listener (`MayReturn`).

### State and actions against the code

`Capture`. `file` is the sequence of blocks; a block carries `end`, how many of the
writes that make it up reached the file. `mu` and `step` are `Run.mu` and the next
frame its holder emits, so a step of `Write` or `Close` is one `epb`, and only
`NewInterface` and `Comment`, which need no intermediate state, are one action for
the whole critical section. `hold` is the gap in `Conn.Read` and `Conn.Write` between the
socket call and `Session.Write`: the only place where a session has bytes and no
lock. `handshake` follows `HandshakeContext`: `crypto/tls` closes the connection
below it from another goroutine when the context ends and waits for that close
before it returns; the socket half (`Interrupt`) and the session half
(`InterruptClose`) are separate steps. `Finish` is the deferred close of `serveConn`,
or the close of a UDP flow. `author` is a history variable, `io` and `faults` count
towards bounds. When the slot of a block never reached the file, `lastOptions` is
the offset at which the next block starts. A comment there writes a whole slot of 264
bytes over that block, and over the ones behind it where it is shorter (`Overrun`: an
interface block, or another torn packet); `Annotated` marks them `hit` and drops what
their own slots held. `Readable` is what a reader finds that skips what it cannot parse:
whole blocks that were not hit. A `WriteAt` that fails is taken to have written nothing.
Truncation of notes to 256 bytes, packet times and the bytes of frames and blocks
are left out.

`UdpListener`. Each step that touches the capture is the `Capture` action of that
name joined with what it does to the loop and to `flows`, so the composition only
takes steps of `Capture`, with TCP connections and their listeners as `Others`.
`loop = "purging"` is the inside of `PacketConn.record`: `time.Now()` is read once, so
no flow becomes idle during it (`GoIdle`). A datagram of length 0 goes past the
recorder (`conn.go:122`) and the handler gets the session of an older datagram, or
none. `handed` is the session in the handler's environment; `served` is a history
variable, the block of the datagram in hand. Sessions are told apart only by who uses
them, so `OpenFlow` takes any unused one.

`TcpListener`. `handler[c]` is the place of the connection's goroutine: `running`
(the script), a blocking call, or one of the three deferred calls in order. A
handler that gets an error from `conn:*` unwinds, or catches it with `pcall`, which
the sandbox leaves to scripts, and goes on (`Raise`). `socket[c]` is the
descriptor, closed by `closeAll`, by the handler, by a handshake's interrupter or by
`serveConn`.

`RunGroup`. `fn` has `sent` and `finished` apart because `errc <- f(runCtx)` and the
deferred `wg.Done` are two steps, and `done` is closed by a third goroutine. A
drained channel is `FirstError`, a predicate on its contents.

`Simulator`. `stage` is the place of `runTargets` until the listeners run: certificate,
key log, capture, handlers, each with its early return (`FailedExit` runs the
deferred closes). `runTargets` exists for every combination of `--tls`, `--tls-keylog`
(which needs `--tls`) and a capture. A signal before `signal.NotifyContext` kills the
process. The two signal channels are Booleans (`notified`, `second`), because
`os/signal` writes without blocking into buffers of one. `watcher = "registering"`
is the gap between `ctx.Done()` and `signal.Notify`.

`Store` and `HandlerCounter`. Sizes are functions of keys and values, so the limits
are reached with values of length 0 to 4. `data` keeps the store of an ended
connection: the budget still counts it.

`LuaConn`. A byte is its position in what the client sends. `arrived` counts what has
left the socket, `taken` what has left bufio's buffer, `start` is where the value of
the current call begins; the buffer is what lies between `taken` and `arrived`, and
`buf` of `readUntil` what lies between `start` and `taken`. Each read of the socket is one
captured packet, and `packetAt` is where the latest one begins. `given` (the positions
returned so far), `cuts` (where a `read_until` or a failed call ended) and `failed` are
history. Reads of an error kind other than end of file are `SocketFails`: `ReadSlice` hands out the
partial line with the error and `readLine` drops it, so the buffer is empty after a
failed call of any kind. The texts of
errors and the conversion to Lua strings are left out.

`TlsCert`. `GenerateSelfSignedWithCA` makes a CA, a leaf and its key: one number names
all three. A file is absent, holds a pair's part, or is the empty file of its creator
(a process) between `O_EXCL` and the write; a torn but non-empty file behaves like the
empty one, nobody can parse it. A write goes to the file that was opened even if its
name has been taken away meanwhile (POSIX), a failed one removes its file by name.
`pair` is the pair a command works with, `own` the one it has generated: only that one
cannot expire under it (`Expire`), a loaded pair may do so between the check at
`cert.go:76` and its use. `hit` marks a command that met another one or a fault; `calm` and `shown` are history: no
fault and no overlap so far, and the pair a lone listener has served. Not modelled:
`--force` together with `--verify-only`, a failing `MkdirAll`, pairs brought by the user
(only read) and pairs held in memory only.

## 3. Runs

All bounds are constants of a `.cfg`, or in the guards that name them. States are
distinct states; times are with two workers.

| Run | Checks | Size and why it is enough |
|---|---|---|
| `capture_core` | `StatsMatch`, `NoteOnAuthorsPacket`, `AnnotatesLatest`, `ConversationsRefine` | 2 connections, 2 notes, 3 socket calls, one failing write at any of its four torn outcomes: both directions, a session with two packets and another one in between, a comment before and behind blocks of the other, a torn block in front of each, and a comment through a torn slot over what was appended behind it. 2.1 million states, 110 s, the largest run |
| `capture_numbers` | `NumbersChain`, `ConversationsDelimited` | a plain and a TLS connection and a UDP flow, lengths 1 and 2 modulo 3: numbers wrap through every residue, also to 0; every moment of a handshake interrupted. 0.94 million, 60 s |
| `udp_listener` | `UdpTypeOK`, `FlowTableExact`, `PacketOnOwnInterface`, `NoteOnServedDatagram`, `UdpListenerRefined`, `UdpCancelReturns` | 2 peers with 2 flows: one goes idle while the other's datagram is in hand; a second listener takes an interface id before, between and after; one failing write; one note, 2 recorded datagrams. 0.35 million, 60 s |
| `rungroup` | `NoGoroutineLeft`, `CancelHasCause`, `SupervisorRefined`, `ErrorStopsAll` | 3 functions, 2 errors: one error consumed, one waiting, one function still running |
| `simulator` | `SimTypeOK`, `FilesClosedLast`, `EndsForCause`, `ForcedOnlyTwice`, `SignalEndsRun`, `ArmedForceExits` | every set of options, 2 listeners with a client each, which need not return, 3 signals: before, in and after the registration gap. 20 000 |
| `listener` | `OpenSocketsRegistered`, `NothingLeft`, `ListenerRefined`, `CancelReturns`, `IdleEndsIO` | 2 connections, each in any phase while the other is in any phase, with an idle timeout and with `--timeout 0`. 47 000 |
| `stores` | `CounterTypeOK`, `BudgetExact`, `CountHonest` | 2 shared stores and one for each of 3 connections, keys of length 0, 1 and too long, values of length 0, 1, 2 and beyond the limit, a budget that refuses some updates. 0.49 million, 70 s |
| `luaconn` | `TypeOK`, `GapsOnlyBehindDelimiter`, `CommentMeetsBytesRead`, `CallBounded`, `CallsEnd` | every input of up to 5 bytes, a 2-byte buffer, a 2-byte cap, delimiters of 1 and 2 bytes, reads shorter and longer than the buffer: a line longer than the buffer, a delimiter across two chunks, a cap passed inside a chunk. 0.44 million, 50 s |
| `tlscert` | `TlsTypeOK`, `OnlyFaultsLeaveAMess`, `StableIdentity`, `ForceRepairs`, `FreshPairSurvives` | 2 processes, 3 pairs, one failing call, one crash, any number of expiries: an old pair, its replacement and a rival's. 1.3 million, 55 s |

Runs that expect a violation document a disagreement between the documentation and
the code. Each checks that sentence alone:

| Run | What the text says | What the code does |
|---|---|---|
| `listener_quiet_handshake` | `tcp.go:98-100`, `docs/flags.md:22`: the timeout covers TLS operations | a handshake before any read has no deadline (`tcp.go:134`) |
| `luaconn_pipelining` | `docs/lua-api.md:25`: `read_until` reads until the delimiter; `handlers/smtp.lua:142` offers `PIPELINING` in front of the DATA loop that calls it at line 165 | what follows the delimiter in the same chunk is dropped (`script/conn.go:97`) |
| `tlscert_expired` | `docs/tls.md:20-21`: `gonetsim tls` writes the three files; `cert.go:119-120`: after the removal the next `TLSConfig()` creates a fresh pair | an expired pair is removed and the files just removed are loaded: the command fails and leaves nothing (`cert.go:80`); so does the start of a listener. The next one succeeds |

Other disagreements that the models contain, without a run of their own:

| What the text says | What the code does |
|---|---|
| `session.go:47-49`: a comment whose slot is claimed waits for the next packet | it overwrites the earlier comment (`session.go:60`) |
| `session.go:31-33`: the first Write emits the SYN-ACK | so does a later one when the server's 32-bit number is 0 again (`session.go:122`; `AfterSyn`). `NumbersChain` still holds across it |
| the same lines, for the SYN | a Write that loses the race against an interrupted handshake's close opens a second conversation (`conn.go:46-52`); `ConversationsDelimited` is what remains true |
| `session.go:15-18`: a comment goes into the most recent packet and shifts nothing | after a failed write of the slot it overwrites the block that follows (`session.go:172`; `hit`): a packet is lost and still counted, or an interface block and with it the numbering of all packets behind it. `StatsMatch` and `PacketOnOwnInterface` are what remains true |
| `docs/lua-api.md:59`: a comment annotates the packet just read | the comment on an empty UDP datagram lands on an older packet, or nowhere (`conn.go:122`) |
| the same line, and `docs/capture.md:17` | a handler that answers one of several buffered lines puts the comment on the next on its own reply (`latest = "out"` in `LuaConn`); `CommentMeetsBytesRead` is what remains true |
| `docs/lua-api.md:34`: reads are capped at 1 MiB per call | `read(n)` is not, and the others may return up to one buffer more (`script/conn.go:80`); `CallBounded` |
| `README.md:7-8`: every connection is written to the capture | one that exchanges no byte is not |
| `rungroup.go:13-14`: the first error is returned | nil, when the caller's context has ended too (`rungroup.go:46`; `Supervisor` allows it) |
| `cmd/run.go:55-56`: TLS is built first so that nothing leaves an empty capture behind | a handler that cannot be loaded does, and a capture of that name is truncated: handlers are loaded behind `pcap.NewRun` |
| `cmd/run.go:165-166`: a second Ctrl-C forces the exit | one sent before `signal.Notify` (line 182) is lost; `ArmedForceExits` is what remains true |
| `tcp.go:49`: closeAll unblocks the handlers | a handler in `conn:sleep` is not woken when Accept failed by itself (`api_conn.go:62-67`) |
| `kv.go:3-4`: limits keep a handler from exhausting memory | keys are not charged (`kv.go:73`) |
| `docs/lua-api.md:47-52`: the conn store holds values for one connection, in a 64 MiB budget | its bytes stay charged after the connection (`engine.go:70`) |
| `docs/handlers.md:40-42`: the handler store fits counters | overlapping connections lose a count (`handlers/smtp.lua:170-172`); `CountHonest` is what remains true |
| `docs/tls.md:11-12`: every later run presents an identical server | two first starts at once may each serve a pair of their own, only one of which is on the disk (or neither as a whole); `StableIdentity` is what remains true |
| `docs/tls.md:20-24`: trust the CA once | a process killed during a renewal behind the certificate and the key leaves the old CA, which the next one keeps (`O_EXCL`); only `gonetsim tls` notices, a listener starts with it. `ForceRepairs` repairs it |

Every property of a passing run has a mutant in `PROJECT.json`: an operator
`Mut...` next to the definition it replaces, a plausible slip in that line, under
which TLC finds the property violated.

Deadlock: `CHECK_DEADLOCK FALSE` is given where the system really ends: a capture
that is closed, a `RunAll` or a listener that has returned, a process that has
exited, connections that have all been counted, a handler that is over. `TlsCert`
never stops and is checked for deadlock.

Symmetry: `capture_core` permutes connections and notes, `tlscert` the processes. They
are interchangeable in every property of those runs, none of which is a liveness
property.

## 4. Fairness

- Goroutines are scheduled fairly by the Go runtime: weak fairness of each
  goroutine's step (`MainStep`, `CloseDone`, `WgDone`, `CloseAll`, `Return`, `Unwind`,
  `Recorder`, the steps of `Simulator`).
- A select with several ready cases picks one at random: the interrupted case of
  `conn:sleep` is strongly fair, since a script may sleep again and again.
- Timers fire: `Expire`, `SleepEnds`.
- A TCP script does something next. It need not return, but it does not catch errors
  for ever: the step of `IOFails` that ends it is strongly fair. A UDP script returns:
  nothing it can call waits.
- Nothing is assumed of clients of `TcpListener`: `IODone` and `HandshakeDone` are not
  fair. `CallsEnd` of `LuaConn` is about clients that do not stall: `Reader`, the
  arrival of bytes or of the end included, is weakly fair there.
- `RunGroup` assumes of its functions what its contract does: they return once
  their context is done. For listeners `TcpListener` and `UdpListener` show it
  (`CancelReturns`, `UdpCancelReturns`). In `Simulator` this is `ListenersReturn`, a
  premise of `SignalEndsRun` and not of the specification: `ArmedForceExits` holds
  without it.

## 5. Proofs

Checked by TLAPS, for every value of the constants that satisfies the named
assumptions of the modules (`CaptureAssumption`, `UdpAssumption`,
`RunGroupAssumption`, `SimulatorAssumption`, `ListenerAssumption`,
`LuaConnAssumption`, `TlsCertAssumption`, `StoreAssumption`, `CounterAssumption`), which
TLC evaluates on each run. They ask that what one run of the program creates (stores,
keys, connections, functions) is finite, never how many.

`CaptureProofs`
- `TypeCorrect`. `TypeOK` is not inductive: a frame needs its session's interface
  id to be a number, not the mark of an undeclared listener. `TypeInv` adds
  `Accepted`: a session that exists has a declared interface, and only such a
  session holds bytes, the lock or a handshake.
- `PacketOnOwnInterfaceHolds`. `IfaceInv` adds that `Run.ifaces` is the number of
  complete interface blocks in the file and that the id each listener keeps is the
  number of those before its block. This counts the blocks as they were written; as long
  as none of them was hit it is the reader's id (`WrittenId`, `ReaderIdIsWritten`).
  `FileStep` reduces every action to: the file stays (up
  to notes), a packet is appended, an interface block is appended; `ReaderIdKept` and
  `ReaderIdNext` say what each does to the numbering.
- `AnnotatesLatestHolds`. `SlotInv`: while no write has failed, `lastOptions` of a
  session is its latest packet, and that block is whole and not hit, so a comment written
  there is on the latest packet whatever follows it.
- `StatsMatchHolds`, from two invariants and a count. `CountInv`: `packets` is the number of
  packets written whole, hit or not; `CountKept` and `CountNext` say how one step changes
  that set (`QuietRun` names the steps that do not). `OverInv`: every packet that was hit
  lies behind a packet torn at its slot, with only short blocks in between. `LossBounded`:
  two whole packets that were hit cannot lie behind the same torn one, so there are at
  most as many of them as packets torn at their slot.
- `NoteOnAuthorsPacketHolds`. `NoteInv` adds that an unused note is nowhere, and that a
  remembered slot belongs to a block of its own session or lies in front of one that a
  torn write left: what `Comment` may overwrite carries nobody else's note.

`ConversationProofs`
- `ConversationsDelimitedHolds`. `LifeInv` says which fields of a session go together: one
  that has ended is out of its I/O and takes the lock for its FINs only, and `synSent` is
  false exactly while its SYN is due. `ConvInv` adds what the file shows of that: a
  session that owes a SYN has recorded nothing or its latest packet is the second FIN, and
  behind its first FIN it still holds the lock.
- `NumbersChainHolds`. `SeqInv`: `clientSeq` and `serverSeq` of a session are where the
  last frame of either direction ended (`Reached` at the end of the file). A step appends
  a frame of the session (`EmitFramed`) or leaves its frames alone (`OtherStep`); notes do
  not count (`ReachedQuiet`).
- `ConversationsRefineHolds`: `Capture` implements `TcpTrace`. The trace of a connection and
  the numbers of `TcpTrace` are folds. The first half says what a fold of the community
  modules computes: the table it chooses exists and is unique (`FoldExists`, `FoldUnique`,
  by a smallest counterexample), and one more element is one more step (`FoldedAppend`).
  So `FramesNext` and `SentNext`: a block of the session appends its frame, a frame adds
  its span to the number of its side. `TraceInv` then relates each session to its
  conversation: `clientSeq` and `serverSeq` are the numbers sent, the holder of the lock
  is about to write the frame that comes next, and `hold` is a byte count the socket can
  move. `TraceFrame` maps each frame to the abstract step, `TraceOther` shows that nothing
  else moves a trace. The theorem has one hypothesis, `NoWrap`: no call moves more than
  some `K` bytes, and `K` times `MaxIO` leave `serverSeq` below its modulus. It is needed:
  the code sends a SYN-ACK while `serverSeq` is 0 (session.go:122), so a server that sent
  exactly 4 GiB minus one byte would answer the handshake again. `NumbersChainHolds`
  needs no such bound.

`UdpListenerProofs`
- `UdpIsCapture`: the composition only takes `Capture` steps, so the theorems above
  hold with a UDP listener among the users; `UdpPacketOnOwnInterface` is one of them.
- `FlowTableExactHolds`, by `FlowInv`: a flow in the table is open, an open UDP session
  is in the table, once, and nobody but the loop changes either.
- `UdpTypeCorrect` and `NoteOnServedDatagramHolds`, by `ServedInv`: while no write has
  failed, the datagram being served is a whole block of the file and is the slot its
  session remembers; connections append behind it and leave the slots of others alone.
- `UdpImplementsListener`, by `LoopInv`, which says in which places of the loop there is a
  peer, a result and an ended context.

`TcpListenerProofs`
- `ListenerTypeCorrect`, `OpenSocketsRegisteredHolds` (a socket is closed before its
  connection is unregistered), `NothingLeftHolds`, and `ImplementsListener`, all from
  `ListenerInv`.

`SimulatorProofs`, about `RunGroup`
- `TypeCorrect` with `TypeInv`: the channel holds at most one value per function
  that has stopped running, so the buffer of `len(fns)` never blocks a sender.
- `NoGoroutineLeftHolds`, `CancelHasCauseHolds`.
- `ImplementsSupervisor`: the invariant relates `reported` to what was consumed
  (`firstErr`) and what waits in `errc`, so the drain returns the head of
  `reported`; each action is a step of `Supervisor` or a stutter.

`SimulatorProofs`, about `Simulator`, which extends it
- `SimIsGroup`: every step of the command is a step of `RunGroup` or leaves it alone,
  so the invariants of the first part are used as they stand. `SimTypeCorrect`.
- `FilesClosedLastHolds`, by `FileInv` (a file is closed behind `doneCh`, `doneCh` behind
  `RunAll`'s return, that behind the last function); `EndsForCauseHolds`, by `CauseInv`
  (a listener that has stopped had a cause); `ForcedOnlyTwiceHolds`, by `SignalInv` (what
  the two channels hold was sent, and `second` not first).

`LuaConnProofs`
- `TypeCorrect`, `GapsOnlyBehindDelimiterHolds` and `CallBoundedHolds` from `ReadInv`:
  the value of a call begins at the last byte given or behind a cut, and a call never
  holds more than the cap plus what was added before the cap test.
- `CommentMeetsBytesReadHolds`, by `PacketInv`: the script has been given a byte of the
  latest packet, or is in a call that no byte in front of that packet ends, or has been
  given nothing since a call failed. A failed call has drained the buffer (`Drained`), so
  the next byte given comes from a later packet.

`StoreProofs`
- A theory of `SumFunctionOnSet`: the sum of a function over a finite set exists, splits
  at any element (`SumSplit`) and follows a change of one term (`SumUpdate`). The library
  computes it by picking elements in a fixed order. What needs an induction over the
  finite sets is shown by taking a smallest counterexample (`SmallestSubset`), which
  exists because strict inclusion is well founded on them.
- `StoreBudgetExact`, by `StoreInv`: one write changes one term of the sum by what `Set`
  or `Delete` adds to `used` (`TotalUpdate`, `WriteStep`).
- `CounterIsStore`, `CounterTypeCorrect`, `CountHonestHolds`, by `CounterInv`: a script
  between its calls has seen at most the number of connections counted, and is not one
  of them; as long as none overlapped it is the only one, and has seen exactly that
  number unless a set was refused.

`TlsCertProofs`
- `TlsTypeCorrect` and the four other properties of the run, for any number of processes
  and faults, from `CertInv`: a command that met nobody is alone (`Alone`), so at each
  of its steps it is known what the files it has dealt with hold (`Stage`); while
  everything is calm, the files in front of a command's step are those it left
  (`CalmInv`); a lone `--force` works with the pair it has generated itself, the only one
  that cannot expire under it (`ForceStage`, `ExpireStep`); and once a pair has been shown, certificate and key stay, and whoever is
  on the way to serving carries it (`ShownInv`).

Only model-checked: the liveness properties `ErrorStopsAll`, `SignalEndsRun`,
`ArmedForceExits`, `CancelReturns`, `IdleEndsIO`, `UdpCancelReturns` and `CallsEnd`
(fairness and ENABLED are beyond the prover).

## 6. Running

In this directory, `tlc -config <run>.cfg <module>` for a run of `PROJECT.json` and
`tlapm <module>.tla` for the proofs. Every run ends within two minutes.

## 7. Plan

Done: capture, run group, TCP and UDP listeners against one abstract `Listener`, run
command with its startup, stores, the counter, `conn:*` reads, certificate files; the
proofs above.

Left, in order:

1. `Encoding`: `encodeOption`, `framePad`, `commentOption`, block lengths, against a
   reference decoder over bounded inputs.
2. Target specs, against a reference definition of the grammar.

## 8. Not modelled

- Cryptography, sockets, files and the Lua interpreter: used through what the code
  relies on, and marked external in the map.
- Checking of flags, the manifest, the paths of files: they run before any listener,
  in one goroutine, and end the program on an error.
- The bytes of frames and pcapng blocks, packet times: planned, see section 7.
- Certificates a user brings (read, never written) and self-signed pairs held in memory
  only: no state is shared.
- Target specs (planned), logging, documentation, version, sandbox tables: no state.
