---------------------------- MODULE LuaConnProofs ---------------------------
(***************************************************************************)
(* Proofs about conn:* reads, for every input, buffer size and cap.        *)
(***************************************************************************)
EXTENDS LuaConn, SequenceTheorems, TLAPS

\* The position of the last byte the script was given.
LastGiven == IF given = <<>> THEN 0 ELSE given[Len(given)]

\* The value of a call begins where the previous one ended, or at a cut; and no
\* call holds more than its cap and what the cap test lets by.
ReadInv ==
  /\ TypeOK
  /\ LastGiven <= start
  /\ \A i \in 1 .. (Len(given) - 1) :
       given[i] < given[i + 1] /\ (given[i + 1] # given[i] + 1 => i \in cuts)
  /\ Len(given) \in cuts \/ start = LastGiven
  /\ call = Idle \/ call.op = "read" => start = taken
  /\ call = Line => taken - start <= MaxReadLen
  /\ call.op = "until" => taken - start <= MaxReadLen + BufSize

LEMMA Consts ==
  /\ BufSize \in Nat /\ BufSize > 0 /\ MaxReadLen \in Nat
  /\ \A n \in ReadSizes : n \in Nat /\ n > 0
BY LuaConnAssumption

LEMMA CallKinds ==
  /\ Idle.op = "idle" /\ Over.op = "over" /\ Line.op = "line"
  /\ \A n : Read(n).op = "read" /\ Read(n).size = n
  /\ \A d : Until(d).op = "until" /\ Until(d).delim = d
BY DEF Idle, Over, Line, Read, Until

\* A value appended to what the script has been given.
LEMMA GivenMore ==
  ASSUME ReadInv, NEW last \in Nat, start <= last, last <= Len(input),
         given' = given \o Span(start, last), input' = input
  PROVE  /\ given' \in Seq(1 .. Len(input)) /\ Len(given') = Len(given) + (last - start)
         /\ Len(given') \in Nat /\ LastGiven' = IF start = last THEN LastGiven ELSE last
         /\ \A i \in 1 .. (Len(given') - 1) :
              given'[i] < given'[i + 1] /\ (given'[i + 1] # given'[i] + 1 => i \in cuts)
<1> DEFINE span == Span(start, last)
<1>1. /\ start \in Nat /\ given \in Seq(1 .. Len(input)) /\ Len(given) \in Nat
      /\ \A i \in 1 .. Len(given) : given[i] \in 1 .. Len(input)
      /\ Len(input) \in Nat
  BY LuaConnAssumption DEF ReadInv, TypeOK
<1> DEFINE m == last - start
<1>2. /\ span \in Seq(1 .. Len(input)) /\ Len(span) = m /\ m \in Nat
      /\ \A i \in 1 .. m : span[i] = start + i
  BY <1>1 DEF Span
<1> HIDE DEF span
<1>3. /\ given' \in Seq(1 .. Len(input)) /\ Len(given') = Len(given) + m
      /\ \A i \in 1 .. (Len(given) + m) :
           given'[i] = IF i <= Len(given) THEN given[i] ELSE span[i - Len(given)]
  <2>1. given' = given \o span
    BY DEF span
  <2> HIDE DEF m
  <2>2. /\ given \o span \in Seq(1 .. Len(input)) /\ Len(given \o span) = Len(given) + Len(span)
        /\ \A i \in 1 .. (Len(given) + Len(span)) : (given \o span)[i] =
             IF i <= Len(given) THEN given[i] ELSE span[i - Len(given)]
    BY <1>1, <1>2, ConcatProperties
  <2> QED BY <1>2, <2>1, <2>2
<1> HIDE DEF m
<1>4. \A i \in 1 .. (Len(given) + m) :
        given'[i] = IF i <= Len(given) THEN given[i] ELSE start + (i - Len(given))
  <2> SUFFICES ASSUME NEW i \in 1 .. (Len(given) + m)
               PROVE  given'[i] = IF i <= Len(given) THEN given[i] ELSE start + (i - Len(given))
    OBVIOUS
  <2>1. ~(i <= Len(given)) => i - Len(given) \in 1 .. m
    BY <1>1, <1>2
  <2>2. given'[i] = IF i <= Len(given) THEN given[i] ELSE span[i - Len(given)]
    BY <1>3
  <2> QED BY <1>2, <2>1, <2>2
<1>5. given = <<>> <=> Len(given) = 0
  BY <1>1, EmptySeq
<1>6. given' = <<>> <=> Len(given') = 0
  BY <1>3, EmptySeq
<1> HIDE DEF m
<1>7. LastGiven' = IF m = 0 THEN LastGiven ELSE start + m
  <2>1. CASE Len(given) + m = 0
    BY <1>1, <1>2, <1>3, <1>5, <1>6, <2>1 DEF LastGiven
  <2>2. CASE Len(given) + m > 0
    <3>1. given' # <<>> /\ LastGiven' = given'[Len(given) + m]
      BY <1>1, <1>2, <1>3, <1>6, <2>2 DEF LastGiven
    <3>2. CASE m = 0
      BY <1>1, <1>4, <1>5, <2>2, <3>1, <3>2 DEF LastGiven
    <3>3. CASE m > 0
      <4>1. Len(given) + m \in 1 .. (Len(given) + m) /\ ~(Len(given) + m <= Len(given))
        BY <1>1, <1>2, <3>3
      <4>2. given'[Len(given) + m] = start + ((Len(given) + m) - Len(given))
        BY <1>4, <4>1
      <4> QED BY <1>1, <1>2, <3>1, <3>3, <4>2
    <3> QED BY <1>2, <3>2, <3>3
  <2> QED BY <1>1, <1>2, <2>1, <2>2
<1>8. ASSUME NEW i \in 1 .. (Len(given') - 1)
      PROVE  given'[i] < given'[i + 1] /\ (given'[i + 1] # given'[i] + 1 => i \in cuts)
  <2>1. i \in 1 .. (Len(given) + m) /\ i + 1 \in 1 .. (Len(given) + m)
    BY <1>1, <1>2, <1>3
  <2>2. CASE i < Len(given)
    <3>1. given'[i] = given[i] /\ given'[i + 1] = given[i + 1] /\ i \in 1 .. (Len(given) - 1)
      BY <1>1, <1>4, <2>1, <2>2
    <3> QED BY <3>1 DEF ReadInv
  <2>3. CASE i = Len(given)
    <3>1. given'[i] = LastGiven /\ given'[i + 1] = start + 1
      BY <1>1, <1>4, <1>5, <2>1, <2>3 DEF LastGiven
    <3>2. LastGiven \in Nat
      BY <1>1, <1>5 DEF LastGiven
    <3>3. start \in Nat /\ LastGiven <= start /\ (i \in cuts \/ start = LastGiven)
      BY <1>1, <2>3 DEF ReadInv
    <3> QED BY <3>1, <3>2, <3>3
  <2>4. CASE i > Len(given)
    <3>1. given'[i] = start + (i - Len(given)) /\ given'[i + 1] = start + (i + 1 - Len(given))
      BY <1>1, <1>4, <2>1, <2>4
    <3> QED BY <1>1, <2>1, <3>1
  <2>5. i < Len(given) \/ i = Len(given) \/ i > Len(given)
    BY <1>1, <2>1
  <2> QED BY <2>2, <2>3, <2>4, <2>5
<1>9. (start = last <=> m = 0) /\ start + m = last
  BY <1>1 DEF m
<1>10. LastGiven' = IF start = last THEN LastGiven ELSE last
  BY <1>7, <1>9
<1>11. Len(given') \in Nat /\ Len(given') = Len(given) + (last - start)
  BY <1>1, <1>2, <1>3 DEF m
<1> QED BY <1>3, <1>8, <1>10, <1>11

-----------------------------------------------------------------------------
(* The steps *)

LEMMA Facts ==
  ASSUME TypeOK
  PROVE  /\ input \in Inputs /\ Len(input) \in Nat /\ BufSize \in Nat /\ BufSize > 0 /\ MaxReadLen \in Nat
         /\ start \in Nat /\ taken \in Nat /\ arrived \in Nat /\ start <= taken /\ taken <= arrived
         /\ arrived <= Len(input) /\ arrived - taken <= BufSize /\ packetAt \in 0 .. arrived
         /\ given \in Seq(1 .. Len(input)) /\ Len(given) \in Nat /\ cuts \subseteq 0 .. Len(given)
BY LuaConnAssumption DEF TypeOK

LEMMA LastGivenType == ASSUME TypeOK PROVE LastGiven \in Nat
<1>1. given \in Seq(1 .. Len(input)) /\ Len(given) \in Nat
  BY Facts
<1>2. CASE given = <<>>
  BY <1>2 DEF LastGiven
<1>3. CASE given # <<>>
  <2>1. Len(given) \in 1 .. Len(given)
    BY <1>1, <1>3, EmptySeq
  <2>2. given[Len(given)] \in 1 .. Len(input)
    BY <1>1, <2>1, ElementOfSeq
  <2> QED BY <1>3, <2>2 DEF LastGiven
<1> QED BY <1>2, <1>3

\* A call returns the bytes from start to last.
LEMMA ReturnStep ==
  ASSUME ReadInv, NEW last \in Nat, start <= last, last <= taken', Return(last),
         taken' \in 0 .. arrived', arrived' \in 0 .. Len(input), arrived' - taken' <= BufSize,
         latest' \in {"none", "in", "out"}, packetAt' \in 0 .. arrived', last = taken'
  PROVE  ReadInv'
<1>1. /\ given' = given \o Span(start, last) /\ start' = taken' /\ call' = Idle
      /\ UNCHANGED <<input, cuts, failed>>
  BY DEF Return
<1>2. TypeOK /\ last <= Len(input)
  BY Facts DEF ReadInv
<1>3. /\ given' \in Seq(1 .. Len(input)) /\ Len(given') = Len(given) + (last - start)
      /\ Len(given') \in Nat /\ LastGiven' = IF start = last THEN LastGiven ELSE last
      /\ \A i \in 1 .. (Len(given') - 1) :
           given'[i] < given'[i + 1] /\ (given'[i + 1] # given'[i] + 1 => i \in cuts)
  BY <1>1, <1>2, GivenMore
<1>4. TypeOK'
  <2>1. cuts' \subseteq 0 .. Len(given')
    <3>1. Len(given) <= Len(given') /\ Len(given) \in Nat /\ Len(given') \in Nat
      <4>1. Len(given') = Len(given) + (last - start) /\ Len(given') \in Nat
        BY <1>3
      <4>2. Len(given) \in Nat /\ start \in Nat
        BY <1>2, Facts
      <4> QED BY <4>1, <4>2, SMTT(30)
    <3>2. cuts' = cuts /\ cuts \subseteq 0 .. Len(given)
      BY <1>1, <1>2, Facts
    <3> QED BY <3>1, <3>2
  <2>2. start' \in 0 .. taken' /\ failed' \in BOOLEAN /\ input' \in Inputs
    BY <1>1, <1>2 DEF TypeOK
  <2> QED BY <1>1, <1>3, <2>1, <2>2 DEF TypeOK
<1>5. call'.op = "idle" /\ call' # Line
  BY <1>1, CallKinds
<1>6. LastGiven' <= start' /\ (Len(given') \in cuts' \/ start' = LastGiven')
  <2>1. CASE start = last
    <3>1. LastGiven' = LastGiven /\ Len(given') = Len(given)
      BY <1>2, <1>3, <2>1, Facts
    <3> QED BY <1>1, <2>1, <3>1 DEF ReadInv
  <2>2. CASE start # last
    BY <1>1, <1>3, <2>2
  <2> QED BY <2>1, <2>2
<1> QED BY <1>1, <1>3, <1>4, <1>5, <1>6 DEF ReadInv

\* A call raises an error.
LEMMA RaiseStep ==
  ASSUME ReadInv, Raise,
         taken' \in 0 .. arrived', arrived' \in 0 .. Len(input), arrived' - taken' <= BufSize,
         taken <= taken',
         latest' \in {"none", "in", "out"}, packetAt' \in 0 .. arrived'
  PROVE  ReadInv'
<1>1. /\ call' \in {Over, Idle} /\ start' = taken'
      /\ cuts' = cuts \cup {Len(given)} /\ failed' = TRUE /\ UNCHANGED <<input, given>>
  BY DEF Raise
<1>2. TypeOK /\ LastGiven' = LastGiven
  BY <1>1 DEF ReadInv, LastGiven
<1>3. TypeOK'
  <2>1. cuts' \subseteq 0 .. Len(given')
    <3>1. cuts \subseteq 0 .. Len(given) /\ Len(given) \in 0 .. Len(given)
      BY <1>2, Facts
    <3>2. cuts' = cuts \cup {Len(given)} /\ given' = given
      BY <1>1
    <3> QED BY ONLY <3>1, <3>2, Zenon
  <2>2. start' \in 0 .. taken' /\ input' \in Inputs /\ given' \in Seq(1 .. Len(input'))
    BY <1>1, <1>2 DEF TypeOK
  <2>3. failed' \in BOOLEAN
    BY <1>1
  <2> QED BY <1>1, <2>1, <2>2, <2>3 DEF TypeOK
<1>4. call'.op \in {"idle", "over"} /\ call' # Line
  BY <1>1, CallKinds
<1>5. LastGiven' <= start'
  <2>1. LastGiven \in Nat
    BY <1>2, LastGivenType
  <2>2. LastGiven <= start /\ start \in Nat /\ taken \in Nat /\ start <= taken /\ taken <= taken'
    BY <1>2, Facts DEF ReadInv
  <2>3. taken' \in Nat
    BY <1>3, <1>1 DEF TypeOK
  <2> QED BY <1>1, <1>2, <2>1, <2>2, <2>3
<1> QED BY <1>1, <1>2, <1>3, <1>4, <1>5 DEF ReadInv

\* A call goes on, with more bytes arrived or taken.
LEMMA OnStep ==
  ASSUME ReadInv, UNCHANGED <<streamVars, start>>, call' \in Calls,
         taken' \in 0 .. arrived', arrived' \in 0 .. Len(input), arrived' - taken' <= BufSize,
         taken <= taken',
         latest' \in {"none", "in", "out"}, packetAt' \in 0 .. arrived',
         call'.op = "read" => start = taken',
         call' = Line => taken' - start <= MaxReadLen,
         call'.op = "until" => taken' - start <= MaxReadLen + BufSize
  PROVE  ReadInv'
<1>1. TypeOK /\ UNCHANGED <<input, given, cuts, failed, start>> /\ LastGiven' = LastGiven
  BY DEF ReadInv, streamVars, LastGiven
<1>2. TypeOK'
  BY <1>1, Facts, SMTT(30) DEF TypeOK
<1>3. call' # Idle
  BY CallKinds DEF Calls
<1> QED BY <1>1, <1>2, <1>3 DEF ReadInv

\* What bufio's Read leaves: never more in the buffer than it holds.
LEMMA BufReadFacts ==
  ASSUME TypeOK, NEW size \in Nat, size > 0, BufRead(size), UNCHANGED input
  PROVE  /\ taken' \in 0 .. arrived' /\ arrived' \in 0 .. Len(input) /\ arrived' - taken' <= BufSize
         /\ taken <= taken' /\ taken' - taken <= size
         /\ latest' \in {"none", "in", "out"} /\ packetAt' \in 0 .. arrived'
<1> USE DEF Buffered, Smaller
<1>1. CASE Buffered > 0 /\ taken' = taken + Smaller(size, Buffered) /\ NoSocket
  BY <1>1, Facts DEF NoSocket, TypeOK
<1>2. ASSUME NEW room \in Nat, FromSocket(room), Buffered = 0,
             taken' = taken + Smaller(size, arrived' - taken), room <= size \/ room <= BufSize
      PROVE  /\ taken' \in 0 .. arrived' /\ arrived' \in 0 .. Len(input)
             /\ arrived' - taken' <= BufSize /\ taken <= taken' /\ taken' - taken <= size
             /\ latest' \in {"none", "in", "out"} /\ packetAt' \in 0 .. arrived'
  <2>1. PICK k \in 1 .. room :
          /\ arrived + k <= Len(input) /\ arrived' = arrived + k /\ latest' = "in" /\ packetAt' = arrived
    BY <1>2 DEF FromSocket
  <2>2. /\ arrived \in Nat /\ taken = arrived /\ Len(input) \in Nat /\ Len(input') = Len(input)
        /\ BufSize \in Nat /\ k \in Nat /\ k > 0
    BY <1>2, Facts
  <2>3. taken' = arrived + (IF size < k THEN size ELSE k)
    BY <1>2, <2>1, <2>2
  <2> QED BY <1>2, <2>1, <2>2, <2>3
<1>3. CASE Buffered = 0
  <2>1. PICK room \in {size, BufSize} : FromSocket(room)
    BY <1>3 DEF BufRead
  <2>2. taken' = taken + Smaller(size, arrived' - taken)
    BY <1>3 DEF BufRead
  <2> QED BY <1>2, <1>3, <2>1, <2>2, Facts
<1> QED BY <1>1, <1>3, Facts DEF BufRead

LEMMA ReaderStep == ReadInv /\ Reader => ReadInv'
<1> SUFFICES ASSUME ReadInv, Reader PROVE ReadInv'
  OBVIOUS
<1>1. TypeOK /\ call \in Calls \cup {Idle, Over}
  BY DEF ReadInv, TypeOK
<1>2. CASE ReadSome
  <2>1. call.size \in Nat /\ call.size > 0
    BY <1>1, <1>2, Consts, CallKinds DEF ReadSome, Calls
  <2>2. Return(taken') /\ UNCHANGED input
    BY <1>2 DEF ReadSome, Return
  <2>3. BufRead(call.size)
    BY <1>2 DEF ReadSome
  <2>4. /\ taken' \in 0 .. arrived' /\ arrived' \in 0 .. Len(input) /\ arrived' - taken' <= BufSize
        /\ taken <= taken' /\ latest' \in {"none", "in", "out"} /\ packetAt' \in 0 .. arrived'
    BY <1>1, <2>1, <2>2, <2>3, BufReadFacts
  <2>5. start <= taken' /\ taken' \in Nat
    BY <1>1, <2>4, Facts
  <2> QED BY <2>2, <2>4, <2>5, ReturnStep, SMTT(30)
<1>3. ASSUME Return(taken'), NoSocket, taken' \in {taken, arrived} PROVE ReadInv'
  <2>1. UNCHANGED input
    BY <1>3 DEF Return
  <2> QED BY <1>1, <1>3, <2>1, ReturnStep, Facts DEF NoSocket, TypeOK
<1>4. CASE ReadAtEOF \/ LineAtEOF \/ UntilAtEOF
  BY <1>3, <1>4 DEF ReadAtEOF, LineAtEOF, UntilAtEOF
<1>5. CASE LineFound
  <2>1. PICK j \in (taken + 1) .. arrived : taken' = j /\ Return(j) /\ NoSocket
    BY <1>5 DEF LineFound, LineEnd, TakeLine
  <2>2. UNCHANGED input
    BY <2>1 DEF Return
  <2> QED BY <1>1, <2>1, <2>2, ReturnStep, Facts DEF NoSocket, TypeOK
<1>6. CASE LineChunk
  <2>1. taken' = arrived /\ NoSocket /\ call = Line
    BY <1>6 DEF LineChunk
  <2>2. CASE taken' - start > MaxReadLen /\ Raise
    BY <1>1, <2>1, <2>2, RaiseStep, Facts DEF NoSocket, Raise, TypeOK
  <2>3. CASE ~(taken' - start > MaxReadLen) /\ UNCHANGED <<streamVars, start, call>>
    BY <1>1, <2>1, <2>3, OnStep, Facts, CallKinds DEF NoSocket, TypeOK, streamVars, Calls
  <2> QED BY <1>6, <2>2, <2>3 DEF LineChunk
<1>7. CASE LineFill
  <2>1. PICK k \in 1 .. (BufSize - Buffered) :
          /\ arrived + k <= Len(input) /\ arrived' = arrived + k /\ latest' = "in" /\ packetAt' = arrived
    BY <1>7 DEF LineFill, FromSocket
  <2>2. UNCHANGED <<streamVars, taken, start, call>> /\ call = Line
    BY <1>7 DEF LineFill
  <2> QED BY <1>1, <2>1, <2>2, OnStep, Facts, CallKinds, SMTT(30)
          DEF ReadInv, streamVars, Buffered, Calls
<1>8. CASE UntilFound
  <2>1. PICK j \in (start + 1) .. taken :
          given' = given \o Span(start, j) /\ cuts' = cuts \cup {Len(given')}
    BY <1>8 DEF UntilFound, DelimEnd
  <2>2. /\ start' = taken /\ call' = Idle /\ UNCHANGED <<input, taken, failed, arrived, latest, packetAt>>
    BY <1>8 DEF UntilFound, NoSocket
  <2>3. j \in Nat /\ start <= j /\ j <= taken /\ j <= Len(input) /\ start # j
    BY <1>1, <2>1, Facts
  <2>4. /\ given' \in Seq(1 .. Len(input)) /\ Len(given') = Len(given) + (j - start)
        /\ Len(given') \in Nat /\ LastGiven' = j
        /\ \A i \in 1 .. (Len(given') - 1) :
             given'[i] < given'[i + 1] /\ (given'[i + 1] # given'[i] + 1 => i \in cuts)
    BY <2>1, <2>2, <2>3, GivenMore
  <2>5. cuts' \subseteq 0 .. Len(given')
    <3>1. Len(given) \in Nat /\ start \in Nat /\ cuts \subseteq 0 .. Len(given)
      BY <1>1, Facts
    <3>2. Len(given) <= Len(given') /\ Len(given') \in Nat
      BY <2>3, <2>4, <3>1
    <3>3. \A c \in cuts' : c \in cuts \/ c = Len(given')
      BY <2>1
    <3>4. (0 .. Len(given)) \subseteq 0 .. Len(given')
      BY <3>1, <3>2
    <3>5. Len(given') \in 0 .. Len(given')
      BY <3>2
    <3> QED BY <3>1, <3>3, <3>4, <3>5
  <2>6. TypeOK'
    BY <1>1, <2>2, <2>4, <2>5, Facts DEF TypeOK
  <2>7. call'.op = "idle" /\ call' # Line
    BY <2>2, CallKinds
  <2> QED BY <2>1, <2>2, <2>3, <2>4, <2>6, <2>7 DEF ReadInv
<1>9. CASE UntilTooLong
  BY <1>1, <1>9, RaiseStep, Facts DEF UntilTooLong, NoSocket, Raise, TypeOK
<1>10. CASE UntilChunk
  <2>1. /\ BufRead(BufSize) /\ UNCHANGED <<streamVars, start, call>> /\ taken - start <= MaxReadLen
        /\ call.op = "until" /\ UNCHANGED input
    BY <1>1, <1>10, Facts DEF UntilChunk, TooLong, streamVars
  <2>2. call' \in Calls /\ call' # Line
    BY <1>1, <2>1, CallKinds
  <2>3. BufSize \in Nat /\ BufSize > 0 /\ start \in Nat /\ taken \in Nat /\ MaxReadLen \in Nat
    BY <1>1, Facts
  <2>4. /\ taken' \in 0 .. arrived' /\ arrived' \in 0 .. Len(input) /\ arrived' - taken' <= BufSize
        /\ taken <= taken' /\ taken' - taken <= BufSize
        /\ latest' \in {"none", "in", "out"} /\ packetAt' \in 0 .. arrived'
    BY <1>1, <2>1, <2>3, BufReadFacts
  <2>5. taken' - start <= MaxReadLen + BufSize
    <3>1. taken' \in Nat
      BY <2>4
    <3>2. taken' - taken <= BufSize /\ taken - start <= MaxReadLen
      BY <2>1, <2>4
    <3>3. \A t \in Nat : t - taken <= BufSize => t - start <= MaxReadLen + BufSize
      BY <2>3, <3>2
    <3> QED BY <3>1, <3>2, <3>3
  <2>6. call'.op # "read" /\ UNCHANGED <<streamVars, start>>
    BY <2>1
  <2> QED BY <2>2, <2>4, <2>5, <2>6, OnStep
<1> QED BY <1>2, <1>4, <1>5, <1>6, <1>7, <1>8, <1>9, <1>10 DEF Reader

LEMMA ReadStep == ReadInv /\ [Next]_vars => ReadInv'
<1> SUFFICES ASSUME ReadInv, [Next]_vars PROVE ReadInv'
  OBVIOUS
<1>1. TypeOK
  BY DEF ReadInv
<1>2. ASSUME NEW c \in Calls, Start(c) PROVE ReadInv'
  <2>1. call = Idle /\ call' = c /\ UNCHANGED <<streamVars, arrived, taken, start, latest, packetAt, input>>
    BY <1>2 DEF Start, streamVars
  <2>2. start = taken /\ taken - start = 0
    BY <1>1, <2>1, Facts DEF ReadInv
  <2>3. /\ taken' \in 0 .. arrived' /\ arrived' \in 0 .. Len(input) /\ arrived' - taken' <= BufSize
        /\ latest' \in {"none", "in", "out"} /\ packetAt' \in 0 .. arrived'
    BY <1>1, <2>1 DEF TypeOK
  <2> QED BY <1>1, <2>1, <2>2, <2>3, OnStep, Facts
<1>3. CASE SocketFails
  BY <1>1, <1>3, RaiseStep, Facts DEF SocketFails, NoSocket, Raise, TypeOK
<1>4. CASE Write
  <2>1. UNCHANGED <<streamVars, arrived, taken, start, call, packetAt>> /\ latest' = "out"
    BY <1>4 DEF Write
  <2> QED BY <2>1 DEF ReadInv, TypeOK, LastGiven, streamVars
<1>5. CASE HandlerEnds
  <2>1. UNCHANGED <<streamVars, arrived, taken, start, latest, packetAt>> /\ call' = Over
    BY <1>5 DEF HandlerEnds
  <2>2. call'.op = "over" /\ call' # Line /\ call' # Idle
    BY <2>1, CallKinds
  <2> QED BY <2>1, <2>2 DEF ReadInv, TypeOK, LastGiven, streamVars
<1>6. CASE UNCHANGED vars
  BY <1>6 DEF vars, ReadInv, TypeOK, LastGiven
<1> QED BY <1>2, <1>3, <1>4, <1>5, <1>6, ReaderStep DEF Next

LEMMA ReadInit == Init => ReadInv
<1> SUFFICES ASSUME Init PROVE ReadInv
  OBVIOUS
<1>1. /\ BufSize \in Nat /\ MaxReadLen \in Nat /\ Len(input) \in Nat
  BY LuaConnAssumption DEF Init
<1>2. given = <<>> /\ Len(given) = 0 /\ given \in Seq(1 .. Len(input))
  BY EmptySeq DEF Init
<1>3. TypeOK
  <2>1. /\ input \in Inputs /\ arrived = 0 /\ taken = 0 /\ start = 0 /\ call = Idle /\ cuts = {}
        /\ failed = FALSE /\ latest = "none" /\ packetAt = 0
    BY DEF Init
  <2>2. failed \in BOOLEAN
    BY <2>1
  <2> QED BY <1>1, <1>2, <2>1, <2>2 DEF TypeOK
<1> QED BY <1>1, <1>2, <1>3, CallKinds DEF Init, ReadInv, LastGiven

LEMMA Invariance == Spec => []ReadInv
BY ReadInit, ReadStep, PTL DEF Spec

\* What bufio holds never exceeds its buffer, whatever the calls are mixed.
THEOREM TypeCorrect == Spec => []TypeOK
<1>1. ReadInv => TypeOK
  BY DEF ReadInv
<1> QED BY <1>1, Invariance, PTL

\* Mixed calls neither lose, repeat nor reorder a byte, except behind the
\* delimiter of a read_until and at an error.
THEOREM GapsOnlyBehindDelimiterHolds == Spec => []GapsOnlyBehindDelimiter
<1>1. ReadInv => GapsOnlyBehindDelimiter
  BY DEF ReadInv, GapsOnlyBehindDelimiter, LastGiven
<1> QED BY <1>1, Invariance, PTL

\* No read_line or read_until returns more than the cap and one buffer.
THEOREM CallBoundedHolds == Spec => CallBounded
<1>1. ReadInv /\ [Next]_vars =>
        (call.op \in {"line", "until"} => Len(given') - Len(given) <= MaxReadLen + BufSize)
  <2> SUFFICES ASSUME ReadInv, [Next]_vars, call.op \in {"line", "until"}
               PROVE  Len(given') - Len(given) <= MaxReadLen + BufSize
    OBVIOUS
  <2>1. TypeOK /\ call \in Calls /\ call # Idle /\ (call.op = "line" => call = Line)
    BY CallKinds DEF ReadInv, TypeOK, Calls
  <2>2. ASSUME NEW last \in start .. taken + BufSize, last <= Len(input), input' = input,
               given' = given \o Span(start, last),
               last - start <= MaxReadLen + BufSize
        PROVE  Len(given') - Len(given) <= MaxReadLen + BufSize
    <3>1. last \in Nat /\ start <= last /\ start \in Nat /\ Len(given) \in Nat
      BY <2>1, <2>2, Facts
    <3>2. Len(given') = Len(given) + (last - start)
      BY <2>2, <3>1, GivenMore
    <3> QED BY <2>2, <3>1, <3>2, Consts
  <2>3. ASSUME given' = given PROVE Len(given') - Len(given) <= MaxReadLen + BufSize
    BY <2>1, <2>3, Facts
  <2>4. CASE LineFound
    <3>1. PICK j \in (taken + 1) .. arrived : given' = given \o Span(start, j) /\ input' = input
      BY <2>4 DEF LineFound, LineEnd, Return
    <3>2. taken - start <= MaxReadLen
      BY <2>4 DEF LineFound, ReadInv
    <3>3. j \in start .. taken + BufSize /\ j <= Len(input) /\ j - start <= MaxReadLen + BufSize
      BY <2>1, <3>2, Facts, SMTT(30)
    <3> QED BY <2>2, <3>1, <3>3
  <2>5. CASE LineAtEOF
    <3>1. given' = given \o Span(start, arrived) /\ input' = input
      BY <2>5 DEF LineAtEOF, Return
    <3>2. taken - start <= MaxReadLen
      BY <2>5 DEF LineAtEOF, ReadInv
    <3>3. arrived \in start .. taken + BufSize /\ arrived <= Len(input) /\ arrived - start <= MaxReadLen + BufSize
      BY <2>1, <3>2, Facts, SMTT(30)
    <3> QED BY <2>2, <3>1, <3>3
  <2>6. CASE UntilFound
    <3>1. PICK j \in (start + 1) .. taken : given' = given \o Span(start, j) /\ input' = input
      BY <2>6 DEF UntilFound, DelimEnd
    <3>2. taken - start <= MaxReadLen + BufSize
      BY <2>6 DEF UntilFound, ReadInv
    <3>3. j \in start .. taken + BufSize /\ j <= Len(input) /\ j - start <= MaxReadLen + BufSize
      BY <2>1, <3>2, Facts, SMTT(30)
    <3> QED BY <2>2, <3>1, <3>3
  <2>7. CASE UntilAtEOF
    <3>1. given' = given \o Span(start, taken) /\ input' = input
      BY <2>7 DEF UntilAtEOF, Return
    <3>2. taken - start <= MaxReadLen + BufSize
      BY <2>7 DEF UntilAtEOF, ReadInv
    <3>3. taken \in start .. taken + BufSize /\ taken <= Len(input)
      BY <2>1, Facts
    <3> QED BY <2>2, <3>1, <3>2, <3>3
  <2>8. ~ReadSome /\ ~ReadAtEOF
    BY DEF ReadSome, ReadAtEOF
  <2>9. ASSUME LineChunk \/ LineFill \/ UntilTooLong \/ UntilChunk PROVE given' = given
    BY <2>9 DEF LineChunk, LineFill, UntilTooLong, UntilChunk, Raise, streamVars
  <2>10. ASSUME UNCHANGED vars \/ (\E c \in Calls : Start(c)) \/ SocketFails \/ Write \/ HandlerEnds
         PROVE  given' = given
    BY <2>10 DEF vars, Start, SocketFails, Raise, Write, HandlerEnds, streamVars
  <2> QED BY <2>3, <2>4, <2>5, <2>6, <2>7, <2>8, <2>9, <2>10 DEF Next, Reader
<1> QED BY <1>1, Invariance, PTL DEF Spec, CallBounded

-----------------------------------------------------------------------------
(* Comments *)

\* The first newline behind taken, and the first delimiter of a call, end at j.
LineEndsAt(j) == input[j] = Newline /\ \A i \in (taken + 1) .. (j - 1) : input[i] # Newline
DelimEndsAt(d, j) == EndsAt(d, j) /\ \A i \in (start + 1) .. (j - 1) : ~EndsAt(d, i)

\* A call has failed and took all that had arrived with it; nothing has been
\* returned since.
Drained == failed /\ Len(given) \in cuts /\ start = arrived

\* The script has been given a byte of the latest packet from the client, or that
\* packet was read because what came before it did not end the call in progress, or
\* it was lost with a call that failed.  A read_until holds all that has arrived.
PacketInv ==
  /\ call.op = "until" /\ start < taken => taken = arrived
  /\ arrived > 0 =>
       /\ packetAt < arrived
       /\ \/ packetAt < LastGiven
          \/ /\ call = Line /\ start <= packetAt
             /\ \A j \in (taken + 1) .. packetAt : ~LineEndsAt(j)
          \/ /\ call.op = "until" /\ start <= packetAt
             /\ \A j \in (start + 1) .. packetAt : ~DelimEndsAt(call.delim, j)
          \/ Drained

\* A call returns all it has: its value, if there is one, ends behind the start of
\* the latest packet.
LEMMA PacketReturned ==
  ASSUME ReadInv, PacketInv, NEW last \in Nat, start <= last, last <= arrived, Return(last),
         UNCHANGED <<arrived, packetAt>>, last = taken',
         start <= packetAt /\ packetAt < arrived /\ ~(packetAt < LastGiven) => packetAt < last
  PROVE  PacketInv'
<1>1. /\ given' = given \o Span(start, last) /\ call' = Idle /\ start' = taken'
      /\ UNCHANGED <<input, cuts, failed>>
  BY DEF Return
<1>2. TypeOK /\ LastGiven <= start
  BY DEF ReadInv
<1>3. LastGiven \in Nat /\ start \in Nat /\ packetAt \in Nat /\ arrived \in Nat /\ Len(given) \in Nat
      /\ last <= Len(input)
  BY <1>2, LastGivenType, Facts
<1>4. /\ LastGiven' = IF start = last THEN LastGiven ELSE last
      /\ Len(given') = Len(given) + (last - start)
  BY <1>1, <1>3, GivenMore
<1>5. packetAt < arrived /\ packetAt < LastGiven => packetAt < LastGiven'
  BY <1>2, <1>3, <1>4
<1>6. packetAt < arrived /\ start <= packetAt /\ ~(packetAt < LastGiven) => packetAt < LastGiven'
  BY <1>2, <1>3, <1>4
<1>7. Drained => Drained'
  BY <1>1, <1>3, <1>4 DEF Drained
<1>8. call'.op = "idle"
  BY <1>1, CallKinds
<1> QED BY <1>5, <1>6, <1>7, <1>8 DEF PacketInv

\* A call fails: all that has arrived is lost with it.
LEMMA PacketRaised ==
  ASSUME ReadInv, PacketInv, Raise, UNCHANGED <<arrived, packetAt>>, taken' = arrived
  PROVE  PacketInv'
<1>1. call' \in {Over, Idle} /\ start' = arrived' /\ Len(given') \in cuts' /\ failed' = TRUE
  BY DEF Raise
<1>2. call'.op # "until"
  BY <1>1, CallKinds
<1> QED BY <1>1, <1>2 DEF PacketInv, Drained

LEMMA PacketReader ==
  ASSUME ReadInv, PacketInv, Reader
  PROVE  PacketInv'
<1>1. TypeOK /\ LastGiven <= start /\ LastGiven \in Nat
  BY LastGivenType DEF ReadInv
<1>2. /\ start \in Nat /\ taken \in Nat /\ arrived \in Nat /\ packetAt \in Nat /\ Len(input) \in Nat
      /\ start <= taken /\ taken <= arrived /\ arrived <= Len(input) /\ BufSize \in Nat /\ BufSize > 0
  BY <1>1, Facts
<1>3. CASE ReadSome
  <2>1. call.op = "read" /\ call # Line /\ start = taken /\ call.size \in Nat /\ call.size > 0
    BY <1>1, <1>3, Consts, CallKinds DEF ReadSome, ReadInv, TypeOK, Calls
  <2>2. /\ BufRead(call.size) /\ given' = given \o Span(start, taken')
        /\ input' = input /\ call' = Idle /\ start' = taken' /\ UNCHANGED <<cuts, failed>>
    BY <1>3 DEF ReadSome, Return
  <2>a. call'.op = "idle"
    BY <2>2, CallKinds
  <2>3. taken' \in Nat /\ taken <= taken' /\ taken' <= Len(input)
    BY <1>1, <1>2, <2>1, <2>2, BufReadFacts
  <2>4. LastGiven' = IF start = taken' THEN LastGiven ELSE taken'
    BY <1>2, <2>1, <2>2, <2>3, GivenMore
  <2>5. CASE Buffered > 0 /\ NoSocket /\ taken' = taken + Smaller(call.size, Buffered)
    <3>1. taken < taken'
      BY <1>2, <2>1, <2>5 DEF Buffered, Smaller
    <3>2. arrived > 0 => packetAt < arrived /\ packetAt < LastGiven
      BY <1>2, <2>1, <2>5 DEF PacketInv, Drained, Buffered
    <3> QED BY <1>1, <1>2, <2>1, <2>2, <2>a, <2>3, <2>4, <2>5, <3>1, <3>2 DEF PacketInv, NoSocket
  <2>6. ASSUME NEW room \in Nat, Buffered = 0, FromSocket(room),
               taken' = taken + Smaller(call.size, arrived' - taken)
        PROVE  PacketInv'
    <3>1. packetAt' = arrived /\ arrived = taken /\ arrived < arrived' /\ taken < taken'
      BY <1>2, <2>1, <2>6 DEF FromSocket, Buffered, Smaller
    <3>2. LastGiven' = taken'
      BY <1>2, <2>1, <2>3, <2>4, <3>1
    <3> QED BY <2>a, <3>1, <3>2 DEF PacketInv
  <2> QED BY <1>2, <2>1, <2>2, <2>5, <2>6 DEF BufRead
<1>4. CASE ReadAtEOF
  <2>1. call.op = "read" /\ call # Line /\ Return(taken') /\ taken' = taken /\ start = taken
    BY <1>4, CallKinds DEF ReadAtEOF, ReadInv
  <2>2. UNCHANGED <<arrived, packetAt>> /\ arrived = taken
    BY <1>2, <1>4 DEF ReadAtEOF, NoSocket, Buffered
  <2> QED BY <1>2, <2>1, <2>2, PacketReturned
<1>5. CASE LineFound
  <2>1. PICK j \in (taken + 1) .. arrived : Return(j) /\ LineEndsAt(j) /\ taken' = j
    BY <1>5 DEF LineFound, LineEnd, LineEndsAt, TakeLine
  <2>2. UNCHANGED <<arrived, packetAt>> /\ call = Line
    BY <1>5 DEF LineFound, NoSocket
  <2>3. j \in Nat /\ taken < j /\ j <= arrived /\ start <= j
    BY <1>2
  <2>4. CASE packetAt < LastGiven
    BY <2>1, <2>2, <2>3, <2>4, PacketReturned
  <2>5. CASE ~(packetAt < LastGiven)
    <3>1. \A i \in (taken + 1) .. packetAt : ~LineEndsAt(i)
      BY <1>2, <2>2, <2>3, <2>5, CallKinds DEF PacketInv, Drained
    <3>2. packetAt < j
      BY <1>2, <2>1, <2>3, <3>1
    <3> QED BY <2>1, <2>2, <2>3, <3>2, PacketReturned
  <2> QED BY <2>4, <2>5
<1>6. CASE LineChunk
  <2>1. taken' = arrived /\ call = Line /\ UNCHANGED <<arrived, packetAt>>
    BY <1>6 DEF LineChunk, NoSocket
  <2>2. CASE Raise
    BY <2>1, <2>2, PacketRaised
  <2>3. CASE UNCHANGED <<streamVars, start, call>>
    <3>1. LastGiven' = LastGiven /\ UNCHANGED <<failed, start, call, given, cuts>>
      BY <2>3 DEF streamVars, LastGiven
    <3>2. packetAt < arrived => \A j \in (taken' + 1) .. packetAt' : FALSE
      BY <1>2, <2>1
    <3> QED BY <2>1, <3>1, <3>2, CallKinds DEF PacketInv, Drained
  <2> QED BY <1>6, <2>2, <2>3 DEF LineChunk
<1>7. CASE LineFill
  <2>1. /\ call' = Line /\ taken' = taken /\ start' = start /\ input' = input
        /\ packetAt' = arrived /\ arrived < arrived' /\ LineEnd = {}
    BY <1>2, <1>7 DEF LineFill, FromSocket, NeedsMore, streamVars
  <2>2. \A j \in (taken + 1) .. arrived : ~LineEndsAt(j)
    BY <2>1 DEF LineEnd, LineEndsAt
  <2>3. \A j \in (taken' + 1) .. packetAt' : ~LineEndsAt(j)'
    BY <2>1, <2>2 DEF LineEndsAt
  <2> QED BY <1>2, <2>1, <2>3, CallKinds DEF PacketInv
<1>8. CASE LineAtEOF
  <2>1. Return(arrived) /\ UNCHANGED <<arrived, packetAt>> /\ taken' = arrived
    BY <1>8 DEF LineAtEOF, NoSocket
  <2> QED BY <1>2, <2>1, PacketReturned
<1>9. CASE UntilFound
  <2>1. PICK j \in (start + 1) .. taken : given' = given \o Span(start, j) /\ DelimEndsAt(call.delim, j)
    BY <1>9 DEF UntilFound, DelimEnd, DelimEndsAt
  <2>2. UNCHANGED <<arrived, packetAt, input, failed>> /\ call.op = "until" /\ call'.op = "idle"
    BY <1>9, CallKinds DEF UntilFound, NoSocket
  <2>3. j \in Nat /\ start < j /\ j <= Len(input)
    BY <1>2
  <2>4. LastGiven' = j
    BY <2>1, <2>2, <2>3, <1>2, GivenMore
  <2>5. ASSUME arrived > 0 PROVE packetAt < arrived /\ packetAt < j
    <3>1. CASE packetAt < LastGiven
      BY <1>1, <1>2, <2>3, <2>5, <3>1 DEF PacketInv
    <3>2. CASE ~(packetAt < LastGiven)
      <4>1. packetAt < arrived /\ \A i \in (start + 1) .. packetAt : ~DelimEndsAt(call.delim, i)
        BY <1>2, <2>2, <2>3, <2>5, <3>2, CallKinds DEF PacketInv, Drained
      <4> QED BY <1>2, <2>1, <2>3, <4>1
    <3> QED BY <3>1, <3>2
  <2> QED BY <2>2, <2>4, <2>5 DEF PacketInv
<1>10. CASE UntilTooLong
  <2>1. call.op = "until" /\ taken - start > MaxReadLen /\ MaxReadLen \in Nat
        /\ taken' = taken /\ UNCHANGED <<arrived, packetAt>> /\ Raise
    BY <1>10, Consts DEF UntilTooLong, TooLong, NoSocket
  <2>2. taken = arrived
    BY <1>2, <2>1 DEF PacketInv
  <2> QED BY <2>1, <2>2, PacketRaised
<1>11. CASE UntilChunk
  <2>1. /\ call.op = "until" /\ DelimEnd(call.delim) = {} /\ BufRead(BufSize)
        /\ UNCHANGED <<input, given, cuts, failed, start, call>>
    BY <1>11 DEF UntilChunk, streamVars
  <2>a. arrived - taken <= BufSize
    BY <1>1, Facts
  <2>2. LastGiven' = LastGiven
    BY <2>1 DEF LastGiven
  <2>3. \A j : DelimEndsAt(call.delim, j)' <=> DelimEndsAt(call.delim, j)
    BY <2>1 DEF DelimEndsAt, EndsAt
  <2>4. CASE NoSocket
    <3>1. UNCHANGED <<arrived, packetAt>>
      BY <2>4 DEF NoSocket
    <3>2. taken' = arrived
      <4>1. Buffered > 0 => taken' = taken + Smaller(BufSize, Buffered)
        BY <2>1 DEF BufRead
      <4>2. Buffered > 0
        BY <1>2, <2>1, <2>4 DEF BufRead, Buffered, FromSocket, NoSocket
      <4> QED BY <1>2, <2>a, <4>1, <4>2 DEF Smaller, Buffered
    <3> QED BY <2>1, <2>2, <2>3, <3>1, <3>2, CallKinds DEF PacketInv, Drained
  <2>5. ASSUME Buffered = 0, FromSocket(BufSize), taken' = taken + Smaller(BufSize, arrived' - taken)
        PROVE  PacketInv'
    <3>1. packetAt' = arrived /\ arrived = taken /\ arrived < arrived'
      BY <1>2, <2>5 DEF FromSocket, Buffered
    <3>2. \A j \in (start + 1) .. taken : ~DelimEndsAt(call.delim, j)
      BY <2>1 DEF DelimEnd, DelimEndsAt
    <3>3. \A j \in (start' + 1) .. packetAt' : ~DelimEndsAt(call.delim, j)'
      BY <2>1, <2>3, <3>1, <3>2
    <3>4. taken' = arrived'
      BY <1>2, <2>5, <3>1 DEF FromSocket, Smaller
    <3> QED BY <1>2, <2>1, <3>1, <3>3, <3>4 DEF PacketInv
  <2> QED BY <1>2, <2>1, <2>4, <2>5 DEF BufRead
<1>12. CASE UntilAtEOF
  <2>1. Return(taken) /\ UNCHANGED <<arrived, packetAt>> /\ arrived = taken /\ taken' = taken
    BY <1>2, <1>12 DEF UntilAtEOF, NoSocket, Buffered
  <2> QED BY <1>2, <2>1, PacketReturned
<1> QED BY <1>3, <1>4, <1>5, <1>6, <1>7, <1>8, <1>9, <1>10, <1>11, <1>12 DEF Reader

LEMMA PacketStep == ReadInv /\ PacketInv /\ [Next]_vars => PacketInv'
<1> SUFFICES ASSUME ReadInv, PacketInv, [Next]_vars PROVE PacketInv'
  OBVIOUS
\* Whoever starts, ends or fails a call.
<1>1. ASSUME UNCHANGED <<streamVars, arrived, taken, start, packetAt>>, call = Idle \/ call' = call
      PROVE  PacketInv'
  <2>1. LastGiven' = LastGiven /\ UNCHANGED <<failed, input, given, cuts>>
    BY <1>1 DEF streamVars, LastGiven
  <2>2. \A j : LineEndsAt(j)' <=> LineEndsAt(j)
    BY <1>1, <2>1 DEF LineEndsAt
  <2>3. \A j, d : DelimEndsAt(d, j)' <=> DelimEndsAt(d, j)
    BY <1>1, <2>1 DEF DelimEndsAt, EndsAt
  <2>4. CASE call = Idle
    <3>1. start = taken /\ taken \in Nat /\ call.op = "idle" /\ call # Line
      BY <2>4, Facts, CallKinds DEF ReadInv
    <3> QED BY <1>1, <2>1, <3>1 DEF PacketInv, Drained
  <2>5. CASE call' = call
    BY <1>1, <2>1, <2>2, <2>3, <2>5 DEF PacketInv, Drained
  <2> QED BY <1>1, <2>4, <2>5
<1>2. CASE SocketFails
  BY <1>2, PacketRaised DEF SocketFails, NoSocket
<1>3. CASE Reader
  BY <1>3, PacketReader
<1>4. ASSUME NEW c \in Calls, Start(c) PROVE PacketInv'
  BY <1>1, <1>4 DEF Start
<1>5. CASE Write \/ HandlerEnds
  BY <1>1, <1>5 DEF Write, HandlerEnds
<1>6. CASE UNCHANGED vars
  BY <1>1, <1>6 DEF vars, streamVars
<1> QED BY <1>2, <1>3, <1>4, <1>5, <1>6 DEF Next

\* A comment made between two calls lands on the packet with the last byte the
\* script has read, whatever the sizes of buffer, packets and calls, as long as the
\* script has not written behind it; after a failed call, once bytes are read again.
THEOREM CommentMeetsBytesReadHolds == Spec => []CommentMeetsBytesRead
<1>1. Init => PacketInv
  BY CallKinds DEF Init, PacketInv
<1>2. ReadInv /\ PacketInv => CommentMeetsBytesRead
  <2> SUFFICES ASSUME ReadInv, PacketInv, call = Idle, given # <<>>,
                      failed => Len(given) \notin cuts
               PROVE  given[Len(given)] > packetAt
    BY DEF CommentMeetsBytesRead
  <2>1. LastGiven = given[Len(given)] /\ TypeOK /\ given \in Seq(1 .. Len(input)) /\ Len(given) \in Nat
    BY Facts DEF LastGiven, ReadInv
  <2>2. Len(given) \in 1 .. Len(given)
    BY <2>1, EmptySeq
  <2>3. LastGiven \in Nat /\ LastGiven > 0
    BY <2>1, <2>2, Facts, ElementOfSeq
  <2>4. arrived > 0 /\ packetAt \in Nat
    BY <2>1, <2>3, Facts DEF ReadInv
  <2>5. packetAt < LastGiven
    BY <2>4, CallKinds DEF PacketInv, Drained
  <2> QED BY <2>1, <2>3, <2>4, <2>5
<1>3. ReadInv /\ PacketInv /\ [Next]_vars => ReadInv' /\ PacketInv'
  BY ReadStep, PacketStep
<1> QED BY <1>1, <1>2, <1>3, ReadInit, PTL DEF Spec

=============================================================================
