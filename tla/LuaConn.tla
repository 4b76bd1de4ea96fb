------------------------------ MODULE LuaConn ------------------------------
(***************************************************************************)
(* The reads of conn:* (internal/script/conn.go, api_conn.go) over a       *)
(* bufio.Reader over the recorded socket, against a client that sends its  *)
(* bytes in pieces of any size, ahead of the replies if it likes.          *)
(*                                                                         *)
(* A byte is named by its position in what the client sends.  Every read   *)
(* of the socket that returns bytes is one captured packet, every write    *)
(* another one.  bufio's buffer and the chunk of readUntil have the same   *)
(* length, BufSize (4096 in the code).                                     *)
(***************************************************************************)
EXTENDS Integers, Sequences

CONSTANTS
  Inputs,      \* what clients may send: sequences of bytes
  Newline,     \* the byte that ends a line
  Delims,      \* the delimiters scripts pass to read_until
  ReadSizes,   \* the n of conn:read(n)
  BufSize,
  MaxReadLen

ASSUME LuaConnAssumption ==
  /\ BufSize \in Nat \ {0} /\ MaxReadLen \in Nat
  /\ ReadSizes \subseteq Nat \ {0}
  /\ \A d \in Delims : Len(d) \in Nat \ {0}
  /\ \A s \in Inputs : Len(s) \in Nat

VARIABLES
  input,     \* everything this client sends before it closes its side
  arrived,   \* how many bytes have been read from the socket
  taken,     \* how many of them have left bufio's buffer
  start,     \* where the value of the current call begins
  call,      \* the call in progress, or idle, or over (the handler ended)
  given,     \* history: the positions of the bytes returned to the script
  cuts,      \* history: how many bytes had been returned when read_until did, or
             \* when a call failed
  failed,    \* history: a call has raised an error
  latest,    \* the latest packet of the capture: none, in, out
  packetAt   \* the bytes that arrived before the latest packet from the client

vars == <<input, arrived, taken, start, call, given, cuts, failed, latest, packetAt>>
streamVars == <<input, given, cuts, failed>>

Idle == [op |-> "idle"]
Over == [op |-> "over"]
Line == [op |-> "line"]
Read(n) == [op |-> "read", size |-> n]
Until(d) == [op |-> "until", delim |-> d]
Calls == {Line} \cup {Read(n) : n \in ReadSizes} \cup {Until(d) : d \in Delims}

TypeOK ==
  /\ input \in Inputs
  /\ start \in 0 .. taken /\ taken \in 0 .. arrived /\ arrived \in 0 .. Len(input)
  /\ arrived - taken <= BufSize
  /\ call \in Calls \cup {Idle, Over}
  /\ given \in Seq(1 .. Len(input))
  /\ cuts \subseteq 0 .. Len(given) /\ failed \in BOOLEAN
  /\ latest \in {"none", "in", "out"}
  /\ packetAt \in 0 .. arrived

Init ==
  /\ input \in Inputs
  /\ arrived = 0 /\ taken = 0 /\ start = 0
  /\ call = Idle /\ given = <<>> /\ cuts = {} /\ failed = FALSE
  /\ latest = "none" /\ packetAt = 0

-----------------------------------------------------------------------------
(* bufio.Reader *)

Buffered == arrived - taken
MutNeverEOF == FALSE
AtEOF == arrived = Len(input)

\* One read of the socket, of at most room bytes.
FromSocket(room) ==
  \E k \in 1 .. room :
    /\ arrived + k <= Len(input)
    /\ arrived' = arrived + k
    /\ latest' = "in" /\ packetAt' = arrived

NoSocket == UNCHANGED <<arrived, latest, packetAt>>

MutWholeSlice(m, n) == m
Smaller(m, n) == IF m < n THEN m ELSE n

\* Read(p): what is buffered; into an empty buffer one read of the socket
\* first, past the buffer if p is no shorter than it.
BufRead(size) ==
  \/ /\ Buffered > 0
     /\ taken' = taken + Smaller(size, Buffered)
     /\ NoSocket
  \/ /\ Buffered = 0
     /\ FromSocket(IF size >= BufSize THEN size ELSE BufSize)
     /\ taken' = taken + Smaller(size, arrived' - taken)

\* Positions first + 1 to last.
Span(first, last) == [i \in 1 .. (last - first) |-> first + i]

\* The call returns the bytes up to position last; the next value begins at
\* what bufio still holds.
Return(last) ==
  /\ given' = given \o Span(start, last)
  /\ start' = taken' /\ call' = Idle
  /\ UNCHANGED <<input, cuts, failed>>

\* RaiseError: what the call has read is gone.  The script ends, or catches the
\* error: the sandbox leaves it pcall.
Raise ==
  /\ call' \in {Over, Idle}
  /\ start' = taken'
  /\ cuts' = cuts \cup {Len(given)} /\ failed' = TRUE
  /\ UNCHANGED <<input, given>>

-----------------------------------------------------------------------------
(* conn:read, read_line, read_until *)

Start(c) ==
  /\ call = Idle
  /\ call' = c
  /\ UNCHANGED <<streamVars, arrived, taken, start, latest, packetAt>>

ReadSome ==
  /\ call.op = "read"
  /\ BufRead(call.size)
  /\ Return(taken')

\* The end of the first line in the buffer, if there is one.
LineEnd == {j \in (taken + 1) .. arrived :
              input[j] = Newline /\ \A i \in (taken + 1) .. (j - 1) : input[i] # Newline}

MutTakeBuffer(j) == arrived
\* ReadSlice leaves what follows the line in the buffer.
TakeLine(j) == j

LineFound ==
  /\ call = Line
  /\ \E j \in LineEnd : taken' = TakeLine(j) /\ Return(j)
  /\ NoSocket

\* bufio.ErrBufferFull: the chunk is added first, then the cap is tested.
LineChunk ==
  /\ call = Line /\ LineEnd = {} /\ Buffered = BufSize
  /\ taken' = arrived
  /\ IF taken' - start > MaxReadLen THEN Raise
     ELSE UNCHANGED <<streamVars, start, call>>
  /\ NoSocket

MutReadAhead == TRUE
\* The buffer is filled only while it holds no line.
NeedsMore == LineEnd = {}

LineFill ==
  /\ call = Line /\ NeedsMore /\ Buffered < BufSize
  /\ FromSocket(BufSize - Buffered)
  /\ UNCHANGED <<streamVars, taken, start, call>>

\* eofValue: what there is, or nil.
LineAtEOF ==
  /\ call = Line /\ LineEnd = {} /\ Buffered < BufSize /\ AtEOF
  /\ taken' = arrived
  /\ Return(taken')
  /\ NoSocket

\* The positions at which delimiter d first ends in what the call has read.
EndsAt(d, j) == j - start >= Len(d) /\ SubSeq(input, j - Len(d) + 1, j) = d
DelimEnd(d) ==
  {j \in (start + 1) .. taken : EndsAt(d, j) /\ \A i \in (start + 1) .. (j - 1) : ~EndsAt(d, i)}

\* buf[:i+len(delim)]: the rest of buf is dropped.
UntilFound ==
  /\ call.op = "until"
  /\ \E j \in DelimEnd(call.delim) :
       /\ given' = given \o Span(start, j)
       /\ cuts' = cuts \cup {Len(given')}
  /\ start' = taken /\ call' = Idle
  /\ UNCHANGED <<input, taken, failed>> /\ NoSocket

MutNoCap == FALSE
TooLong == taken - start > MaxReadLen

UntilTooLong ==
  /\ call.op = "until" /\ DelimEnd(call.delim) = {} /\ TooLong
  /\ UNCHANGED taken /\ NoSocket
  /\ Raise

UntilChunk ==
  /\ call.op = "until" /\ DelimEnd(call.delim) = {} /\ ~TooLong
  /\ BufRead(BufSize)
  /\ UNCHANGED <<streamVars, start, call>>

UntilAtEOF ==
  /\ call.op = "until" /\ DelimEnd(call.delim) = {} /\ ~TooLong
  /\ AtEOF /\ Buffered = 0
  /\ UNCHANGED taken /\ NoSocket
  /\ Return(taken)

\* read at the end of the stream: nil.
ReadAtEOF ==
  /\ call.op = "read" /\ AtEOF /\ Buffered = 0
  /\ UNCHANGED taken /\ NoSocket
  /\ Return(taken)

\* The socket fails under a call that needs it: closed, or past its deadline.
\* ReadSlice hands out the half line of the buffer with the error, and readLine
\* drops it; for the other calls the buffer is empty.
SocketFails ==
  /\ call \in Calls
  /\ IF call = Line THEN LineEnd = {} /\ Buffered < BufSize ELSE Buffered = 0
  /\ call.op = "until" => DelimEnd(call.delim) = {} /\ ~TooLong
  /\ taken' = arrived /\ NoSocket
  /\ Raise

\* conn:write
Write ==
  /\ call = Idle
  /\ latest' = "out"
  /\ UNCHANGED <<streamVars, arrived, taken, start, call, packetAt>>

HandlerEnds ==
  /\ call = Idle
  /\ call' = Over
  /\ UNCHANGED <<streamVars, arrived, taken, start, latest, packetAt>>

Reader ==
  \/ ReadSome \/ ReadAtEOF
  \/ LineFound \/ LineChunk \/ LineFill \/ LineAtEOF
  \/ UntilFound \/ UntilTooLong \/ UntilChunk \/ UntilAtEOF

Next ==
  \/ \E c \in Calls : Start(c)
  \/ Reader \/ SocketFails \/ Write \/ HandlerEnds

\* The call goes on; the client goes on sending and closes in the end.
Spec == Init /\ [][Next]_vars
FairSpec == Spec /\ WF_vars(Reader)

-----------------------------------------------------------------------------
\* The script gets the client's bytes in order and at most once, and between two
\* calls only what a read_until had read past its delimiter is missing, or what a
\* call had read that raised an error: lines and blocks read by mixed calls neither
\* lose nor repeat anything else.
GapsOnlyBehindDelimiter ==
  /\ \A i \in 1 .. (Len(given) - 1) :
       /\ given[i] < given[i + 1]
       /\ given[i + 1] # given[i] + 1 => i \in cuts
  /\ call = Idle => \/ Len(given) \in cuts
                    \/ start = IF given = <<>> THEN 0 ELSE given[Len(given)]

\* No call returns more than the cap and one buffer.
CallBounded ==
  [][call.op \in {"line", "until"} => Len(given') - Len(given) <= MaxReadLen + BufSize]_vars

\* As long as the script has not written, the packet a comment goes to is the one
\* that carries the last byte the script has read, also when that call was served
\* from the buffer, and also when a call has failed, once a later one has returned
\* bytes: what the failed call had read, half a line included, does not come back
\* as the beginning of the next value.
CommentMeetsBytesRead ==
  (call = Idle /\ latest = "in" /\ given # <<>> /\ (failed => Len(given) \notin cuts)) =>
    given[Len(given)] > packetAt

\* A call ends, with a value, nil or an error, if the client does not stall.
CallsEnd == (call \in Calls) ~> (call \in {Idle, Over})

-----------------------------------------------------------------------------
(* What the documentation promises and the code does not keep *)

\* lua-api.md:25, "read until delim": what follows the delimiter is left for the
\* next call, as smtp.lua:142 tells its clients (250-PIPELINING).
PipelinedBytesKept == ~failed => \A i \in DOMAIN given : given[i] = i

=============================================================================
