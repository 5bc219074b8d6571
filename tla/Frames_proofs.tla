----------------------------- MODULE Frames_proofs -----------------------------
(***************************************************************************)
(* That the frames read are the documents of the stream, for all streams,  *)
(* sizes of frames and buffers, and places where the reading fails.        *)
(***************************************************************************)
EXTENDS Frames, TLAPS, WellFoundedInduction

EndsLine(s) == Len(s) > 0 => s[Len(s)] # "dashes"

\* The writer keeps dashes alone in their lines.
WriterInv ==
  /\ DashesAlone(stream)
  /\ phase = "writing" => EndsLine(stream)
  /\ phase \in {"writing", "given"} =>
       frames = <<>> /\ scanned = 0 /\ remaining = Empty /\ failed = 0

\* What ReadFrame has collected is followed by what the framer has left.
BlockInv ==
  /\ frames \in Seq(Nat \X Nat)
  /\ \A k \in DOMAIN frames : frames[k][1] \in 1 .. frames[k][2]
  /\ remaining[1] <= remaining[2] + 1 /\ frame[1] <= frame[2] + 1
  /\ Size(remaining) > 0 => remaining[1] > 0 /\ remaining[2] <= scanned
  /\ Size(frame) > 0 => frame[1] > 0
  /\ phase = "reading" =>
       /\ Len(frames) + failed < MaxFrames
       /\ Size(frame) > 0 => Size(remaining) > 0 /\ frame[2] + 1 = remaining[1]
  /\ Len(frames) + failed <= MaxFrames

ReaderInv == TypeOK /\ WriterInv /\ BlockInv

LEMMA InitReader == Init => ReaderInv
<1> SUFFICES ASSUME Init PROVE ReaderInv
  OBVIOUS
<1>1. stream \in Seq(Token) /\ Len(stream) \in Nat /\ DashesAlone(stream)
  <2>1. CASE stream \in Inputs
    BY <2>1, FramesAssumption
  <2>2. CASE stream = <<>>
    BY <2>2 DEF DashesAlone
  <2> QED BY <2>1, <2>2 DEF Init
<1>2. Empty \in Intervals /\ Size(Empty) = 0
  BY <1>1 DEF Intervals, Empty, Size
<1>3. frames = <<>> /\ DOMAIN frames = {} /\ Len(frames) = 0
  BY DEF Init
<1>4. TypeOK
  <2>1. mult \in 1 .. 2 * MaxFrame /\ failed \in 0 .. MaxFrames
    BY FramesAssumption DEF Init
  <2>2. readable \in 0 .. Len(stream) /\ scanned \in 0 .. readable
    BY <1>1 DEF Init
  <2> QED BY <1>1, <1>2, <1>3, <2>1, <2>2 DEF Init, TypeOK
<1>5. WriterInv
  BY <1>1 DEF Init, WriterInv, EndsLine
<1>6. BlockInv
  BY <1>2, <1>3, FramesAssumption DEF Init, BlockInv, Empty
<1> QED BY <1>4, <1>5, <1>6 DEF ReaderInv

LEMMA AppendedAlone ==
  ASSUME NEW s \in Seq(Token), NEW t \in Seq(Token),
         DashesAlone(s), EndsLine(s), DashesAlone(t)
  PROVE  DashesAlone(s \o t)
BY DEF DashesAlone, EndsLine

\* The separator ends with a newline, and documents have no dashes.
LEMMA WriterKeepsReader ==
  ASSUME ReaderInv, NEW d \in Documents, WriteFrame(d) \/ WriteFails(d)
  PROVE  ReaderInv'
<1>1. /\ stream \in Seq(Token) /\ DashesAlone(stream) /\ EndsLine(stream)
      /\ Prefix \in {<<>>, Separator} /\ phase = "writing"
  BY DEF ReaderInv, TypeOK, WriterInv, Prefix, WriteFrame, WriteFails
<1>2. d \in Seq(Token) /\ DashesAlone(d) /\ EndsLine(d)
  BY FramesAssumption DEF DashesAlone, EndsLine, Token
<1>3. Prefix \in Seq(Token) /\ DashesAlone(Prefix) /\ EndsLine(Prefix)
  <2>1. Separator \in Seq(Token) /\ Len(Separator) = 2
        /\ Separator[1] = "dashes" /\ Separator[2] = "newline"
    BY DEF Separator, Token
  <2>2. DashesAlone(Separator) /\ EndsLine(Separator)
    BY <2>1 DEF DashesAlone, EndsLine
  <2>3. <<>> \in Seq(Token) /\ DashesAlone(<<>>) /\ EndsLine(<<>>)
    BY DEF DashesAlone, EndsLine
  <2> QED BY <1>1, <2>1, <2>2, <2>3
<1>4. /\ stream \o Prefix \in Seq(Token)
      /\ DashesAlone(stream \o Prefix) /\ EndsLine(stream \o Prefix)
  BY <1>1, <1>3, AppendedAlone DEF EndsLine
<1>5. /\ (stream \o Prefix) \o d \in Seq(Token)
      /\ DashesAlone((stream \o Prefix) \o d) /\ EndsLine((stream \o Prefix) \o d)
  <2> DEFINE s == stream \o Prefix
  <2>1. s \in Seq(Token) /\ DashesAlone(s) /\ EndsLine(s)
    BY <1>4
  <2> HIDE DEF s
  <2>2. s \o d \in Seq(Token) /\ DashesAlone(s \o d) /\ EndsLine(s \o d)
    BY <1>2, <2>1, AppendedAlone DEF EndsLine
  <2> QED BY <2>2 DEF s
<1>6. stream' \in Seq(Token) /\ DashesAlone(stream') /\ EndsLine(stream') /\ Len(stream) <= Len(stream')
  <2>1. stream' \in {stream, stream \o Prefix, (stream \o Prefix) \o d}
    BY DEF WriteFrame, WriteFails
  <2>2. /\ Len(stream) <= Len(stream \o Prefix)
        /\ Len(stream \o Prefix) <= Len((stream \o Prefix) \o d)
    BY <1>1, <1>2, <1>3, <1>4, <1>5
  <2>3. \A s \in {stream, stream \o Prefix, (stream \o Prefix) \o d} :
          s \in Seq(Token) /\ DashesAlone(s) /\ EndsLine(s)
    BY <1>1, <1>4, <1>5
  <2>4. Len(stream) <= Len(stream')
    <3>1. /\ Len(stream) \in Nat /\ Len(stream \o Prefix) \in Nat
          /\ Len((stream \o Prefix) \o d) \in Nat
      BY <1>1, <1>4, <1>5
    <3> QED BY <2>1, <2>2, <3>1
  <2> QED BY <2>1, <2>3, <2>4
<1>7. kept' \subseteq Intervals' /\ Intervals \subseteq Intervals'
  BY <1>1, <1>2, <1>3, <1>6 DEF ReaderInv, TypeOK, Intervals, WriteFrame, WriteFails
<1>8. UNCHANGED readerVars /\ hasWritten' \in BOOLEAN
  BY DEF WriteFrame, WriteFails, ReaderInv, TypeOK
<1>9. TypeOK'
  BY <1>6, <1>7, <1>8 DEF ReaderInv, TypeOK, readerVars
<1>10. WriterInv' /\ BlockInv'
  BY <1>6, <1>8 DEF ReaderInv, WriterInv, BlockInv, readerVars
<1> QED BY <1>9, <1>10 DEF ReaderInv
-----------------------------------------------------------------------------
\* A set of natural numbers that is not empty has a least element.
LEMMA LeastNatural ==
  ASSUME NEW T \in SUBSET Nat, T # {}
  PROVE  \E x \in T : \A y \in T : x <= y
<1> DEFINE R == OpToRel(<, Nat)
<1>1. IsWellFoundedOn(R, Nat)
  BY NatLessThanWellFounded
<1> HIDE DEF R
<1>2. PICK x \in T : \A y \in T : ~(<<y, x>> \in R)
  BY <1>1, WFMin
<1>3. \A y \in T : y < x => <<y, x>> \in R
  BY DEF R, OpToRel
<1>4. SUFFICES ASSUME NEW y \in T PROVE x <= y
  OBVIOUS
<1>5. x \in Nat /\ y \in Nat /\ ~(y < x)
  BY <1>2, <1>3
<1> QED BY <1>5

\* The next end of a document is the first after what has been scanned.
LEMMA NextEndIsFirst ==
  ASSUME ReaderInv, Ends # {}
  PROVE  NextEnd \in Ends /\ \A i \in Ends : NextEnd <= i
<1>1. Ends \subseteq Nat
  BY DEF Ends, ReaderInv, TypeOK
<1>2. \E i \in Ends : \A j \in Ends : i <= j
  BY <1>1, LeastNatural
<1> QED BY <1>2 DEF NextEnd

\* What a call of Read has to give, and how it follows what was given before.
BlockRead ==
  /\ Ready = <<Ready[1], Ready[2]>>
  /\ Ready[1] \in Nat \ {0} /\ Ready[2] \in Nat /\ Ready[1] <= Ready[2] + 1
  /\ Ready[2] <= ScannedThen
  /\ ScannedThen \in scanned .. readable
  /\ Size(frame) > 0 => frame[1] \in 1 .. Ready[1] /\ Size(remaining) > 0

LEMMA ReadGivesBlock ==
  ASSUME ReaderInv, phase = "reading", CanScan
  PROVE  BlockRead
<1>1. /\ Len(stream) \in Nat /\ readable \in 0 .. Len(stream) /\ scanned \in 0 .. readable
      /\ remaining = <<remaining[1], remaining[2]>> /\ remaining[1] \in Nat /\ remaining[2] \in Nat
      /\ frame = <<frame[1], frame[2]>> /\ frame[1] \in Nat /\ frame[2] \in Nat
      /\ remaining[1] <= remaining[2] + 1 /\ frame[1] <= frame[2] + 1
  BY DEF ReaderInv, TypeOK, BlockInv, Intervals, Empty
<1>2. Size(frame) > 0 => frame[1] > 0 /\ frame[2] + 1 = remaining[1] /\ Size(remaining) > 0
  BY DEF ReaderInv, BlockInv
<1>3. CASE Size(remaining) > 0
  <2>1. Ready = remaining /\ ScannedThen = scanned
    BY <1>3 DEF Ready, ScannedThen
  <2>2. remaining[1] > 0 /\ remaining[2] <= scanned
    BY <1>3 DEF ReaderInv, BlockInv
  <2> QED BY <1>1, <1>2, <1>3, <2>1, <2>2 DEF BlockRead, Size
<1>4. CASE ~(Size(remaining) > 0)
  <2>1. Size(remaining) = 0 /\ Ready = NextDocument /\ scanned < readable
    BY <1>1, <1>4 DEF Ready, CanScan, Size
  <2>2. CASE Ends = {}
    BY <1>1, <1>2, <1>4, <2>1, <2>2 DEF BlockRead, NextDocument, ScannedThen
  <2>3. CASE Ends # {}
    <3>1. NextEnd \in scanned + 1 .. readable - 1
      BY <2>3, NextEndIsFirst DEF Ends
    <3>2. Ready = <<scanned + 1, NextEnd - 1>> /\ ScannedThen = AtMost(NextEnd + 2)
      BY <2>1, <2>3, <1>4 DEF NextDocument, ScannedThen
    <3> QED BY <1>1, <1>2, <1>4, <3>1, <3>2 DEF BlockRead, AtMost
  <2> QED BY <2>2, <2>3
<1> QED BY <1>3, <1>4

\* The frame with the block: it is no longer than the buffer allows, and when
\* the buffer was too short, what is left of the document follows it.
LEMMA BlockAppended ==
  ASSUME ReaderInv, phase = "reading", CanScan, Read
  PROVE  /\ Appended = <<Appended[1], Appended[2]>>
         /\ Appended[1] = IF Size(frame) > 0 THEN frame[1] ELSE Ready[1]
         /\ Appended[1] \in 1 .. Appended[2] + 1
         /\ Appended[2] \in Nat /\ Appended[2] <= Ready[2]
         /\ ShortBuffer =>
              /\ remaining' = <<Appended[2] + 1, Ready[2]>> /\ Appended[2] < Ready[2]
              /\ mult <= Size(Appended)
         /\ ~ShortBuffer => remaining' = Empty /\ Appended[2] = Ready[2]
<1>1. BlockRead /\ mult \in Nat /\ mult > 0 /\ frame[1] \in Nat /\ frame[2] \in Nat
      /\ frame[1] <= frame[2] + 1
  BY ReadGivesBlock, FramesAssumption DEF ReaderInv, TypeOK, BlockInv, Intervals, Empty
<1> DEFINE n == IF Size(Ready) > mult THEN mult ELSE Size(Ready)
<1>2. Appended = <<IF Size(frame) > 0 THEN frame[1] ELSE Ready[1], Ready[1] + n - 1>>
  BY <1>1 DEF Appended, Size
<1>3. Size(Ready) = Ready[2] + 1 - Ready[1]
  BY DEF Size
<1>4. ShortBuffer => n = mult /\ remaining' = <<Ready[1] + mult, Ready[2]>>
  BY DEF ShortBuffer, Read
<1>5. ~ShortBuffer => n = Size(Ready) /\ remaining' = Empty
  BY DEF ShortBuffer, Read
<1>6. n \in Nat /\ (ShortBuffer => n < Size(Ready)) /\ n <= Size(Ready)
  BY <1>1, <1>3 DEF BlockRead, ShortBuffer
<1> HIDE DEF n
<1> QED BY <1>1, <1>2, <1>3, <1>4, <1>5, <1>6 DEF BlockRead, Size

\* What the steps of the reader leave alone.
LEMMA StreamStays ==
  ASSUME ReaderInv, phase \notin {"writing", "given"},
         UNCHANGED writerVars, phase' \notin {"writing", "given"}
  PROVE  WriterInv' /\ Intervals' = Intervals
BY DEF ReaderInv, WriterInv, Intervals, writerVars


\* A step within ReadFrame after a block was read.
LEMMA BlockKeepsReader ==
  ASSUME ReaderInv, phase = "reading", Read,
         Overflow \/ ReadMore \/ ReturnFrame \/ SkipFrame
  PROVE  ReaderInv'
<1>1. CanScan /\ BlockRead
  BY ReadGivesBlock DEF Read
<1>2. /\ Appended = <<Appended[1], Appended[2]>>
      /\ Appended[1] = IF Size(frame) > 0 THEN frame[1] ELSE Ready[1]
      /\ Appended[1] \in 1 .. Appended[2] + 1
      /\ Appended[2] \in Nat /\ Appended[2] <= Ready[2]
      /\ ShortBuffer =>
           /\ remaining' = <<Appended[2] + 1, Ready[2]>> /\ Appended[2] < Ready[2]
           /\ mult <= Size(Appended)
      /\ ~ShortBuffer => remaining' = Empty /\ Appended[2] = Ready[2]
  BY <1>1, BlockAppended
<1>3. /\ UNCHANGED <<writerVars, readable>> /\ scanned' = ScannedThen
      /\ phase' \in {"open", "reading"}
  BY DEF Read, Overflow, ReadMore, ReturnFrame, SkipFrame
<1>4. WriterInv' /\ Intervals' = Intervals
  BY <1>3, StreamStays
<1>5. /\ Len(stream) \in Nat /\ readable \in 0 .. Len(stream) /\ Ready[2] \in Nat
      /\ Ready[2] <= scanned' /\ scanned' \in 0 .. readable
  BY <1>1, <1>3 DEF BlockRead, ReaderInv, TypeOK
<1>6. Appended \in Intervals /\ Empty \in Intervals
  BY <1>2, <1>5 DEF Intervals, Empty
<1>7. /\ remaining' \in Intervals' \cup {Empty}
      /\ remaining'[1] <= remaining'[2] + 1
      /\ Size(remaining') > 0 => remaining'[1] > 0 /\ remaining'[2] <= scanned'
  <2>1. CASE ShortBuffer
    <3>1. remaining' = <<Appended[2] + 1, Ready[2]>> /\ Appended[2] < Ready[2]
      BY <1>2, <2>1
    <3> QED BY <1>2, <1>4, <1>5, <3>1 DEF Intervals
  <2>2. CASE ~ShortBuffer
    BY <1>2, <1>4, <1>6, <2>2 DEF Empty, Size
  <2> QED BY <2>1, <2>2
<1>8. /\ frame' \in Intervals' \cup {Empty} /\ frame'[1] <= frame'[2] + 1
      /\ Size(frame') > 0 => frame'[1] > 0
  <2>1. frame' \in {frame, Appended, Empty}
    BY DEF Overflow, ReadMore, ReturnFrame, SkipFrame
  <2>2. frame \in Intervals \cup {Empty} /\ frame[1] <= frame[2] + 1
        /\ (Size(frame) > 0 => frame[1] > 0)
    BY DEF ReaderInv, TypeOK, BlockInv
  <2>3. Empty[1] = 1 /\ Empty[2] = 0 /\ Size(Empty) = 0
    BY DEF Empty, Size
  <2> QED BY <1>2, <1>4, <1>6, <2>1, <2>2, <2>3
<1>9. mult' \in 1 .. 2 * MaxFrame
  <2>1. mult \in 1 .. 2 * MaxFrame /\ MaxFrame \in Nat
    BY FramesAssumption DEF ReaderInv, TypeOK
  <2>2. CASE ReadMore
    <3>1. mult <= Size(Appended) /\ Size(Appended) <= MaxFrame /\ Size(Appended) \in Int
      BY <1>2, <2>1, <2>2 DEF ReadMore, TooLarge, Size
    <3>2. mult' = 2 * mult
      BY <2>2 DEF ReadMore
    <3> QED BY <2>1, <3>1, <3>2
  <2>3. CASE ~ReadMore
    BY <2>1, <2>3 DEF Overflow, ReturnFrame, SkipFrame
  <2> QED BY <2>2, <2>3
<1>10. /\ frames \in Seq(Nat \X Nat) /\ failed \in Nat /\ Len(frames) \in Nat
       /\ Len(frames) + failed < MaxFrames /\ MaxFrames \in Nat
       /\ \A k \in DOMAIN frames :
            frames[k] \in Intervals /\ Size(frames[k]) <= MaxFrame /\ frames[k][1] \in 1 .. frames[k][2]
  BY FramesAssumption DEF ReaderInv, TypeOK, BlockInv
<1>11. CASE ReturnFrame
  <2>1. frames' = Append(frames, Appended) /\ failed' = failed /\ phase' = "open"
        /\ ~(Size(Appended) > MaxFrame) /\ ~Blank(Appended)
    BY <1>11 DEF ReturnFrame, TooLarge
  <2>2. Appended[1] \in 1 .. Appended[2]
    <3>1. Interval(Appended) # {}
      BY <2>1 DEF Blank
    <3> QED BY <1>2, <3>1 DEF Interval
  <2>3. Appended \in Nat \X Nat /\ Size(Appended) <= MaxFrame
    BY <1>2, <2>1, FramesAssumption DEF Size
  <2>4. /\ frames' \in Seq(Nat \X Nat) /\ Len(frames') = Len(frames) + 1
        /\ \A k \in DOMAIN frames' : frames'[k] = IF k \in DOMAIN frames THEN frames[k] ELSE Appended
    BY <1>10, <2>1, <2>3
  <2>5. \A k \in DOMAIN frames' :
          frames'[k] \in Intervals /\ Size(frames'[k]) <= MaxFrame /\ frames'[k][1] \in 1 .. frames'[k][2]
    BY <1>6, <1>10, <2>2, <2>3, <2>4
  <2>6. failed' \in 0 .. MaxFrames /\ Len(frames') + failed' <= MaxFrames
    BY <1>10, <2>1, <2>4
  <2> QED
    BY <1>3, <1>4, <1>5, <1>7, <1>8, <1>9, <2>1, <2>4, <2>5, <2>6
    DEF ReaderInv, TypeOK, BlockInv, writerVars
<1>12. CASE Overflow \/ ReadMore \/ SkipFrame
  <2>1. frames' = frames /\ failed' \in {failed, failed + 1}
    BY <1>12 DEF Overflow, ReadMore, SkipFrame
  <2>2. failed' \in 0 .. MaxFrames /\ Len(frames') + failed' <= MaxFrames
    BY <1>10, <2>1
  <2>3. phase' = "reading" =>
          /\ Len(frames') + failed' < MaxFrames
          /\ Size(frame') > 0 => Size(remaining') > 0 /\ frame'[2] + 1 = remaining'[1]
    <3>1. CASE ReadMore
      <4>1. failed' = failed /\ frame' = Appended /\ ShortBuffer
        BY <3>1 DEF ReadMore
      <4>2. remaining' = <<Appended[2] + 1, Ready[2]>> /\ Appended[2] < Ready[2]
        BY <1>2, <4>1
      <4> QED BY <1>2, <1>5, <1>10, <2>1, <4>1, <4>2 DEF Size
    <3>2. CASE SkipFrame
      BY <1>10, <2>1, <3>2 DEF SkipFrame, Size, Empty
    <3>3. CASE Overflow
      BY <3>3 DEF Overflow
    <3> QED BY <1>12, <3>1, <3>2, <3>3
  <2> QED
    BY <1>3, <1>4, <1>5, <1>7, <1>8, <1>9, <1>10, <2>1, <2>2, <2>3
    DEF ReaderInv, TypeOK, BlockInv, writerVars
<1> QED BY <1>11, <1>12

\* What is in the buffer of a scanner that has filled it was readable.
LEMMA LimitIsRead ==
  ASSUME ReaderInv, ReadFails
  PROVE  readable' \in scanned .. readable
<1>1. /\ Len(stream) \in Nat /\ readable \in 0 .. Len(stream) /\ scanned \in 0 .. readable
      /\ ScanLimit \in Nat /\ remaining[1] \in Nat /\ remaining[2] \in Nat
      /\ remaining[1] <= remaining[2] + 1
  BY FramesAssumption DEF ReaderInv, TypeOK, BlockInv, Intervals, Empty
<1>2. CASE AtEnd
  BY <1>1, <1>2 DEF ReadFails
<1>3. CASE ~AtEnd
  <2>1. readable' = scanned + ScanLimit /\ ~CanScan
    BY <1>3 DEF ReadFails
  <2>2. Size(remaining) = 0 /\ scanned < readable
    BY <1>1, <1>3, <2>1 DEF CanScan, AtEnd, Size
  <2>3. NextDocument[2] <= readable /\ NextDocument[2] \in Int
    <3>1. Ends # {} => NextEnd \in scanned + 1 .. readable - 1
      BY NextEndIsFirst DEF Ends
    <3> QED BY <1>1, <3>1 DEF NextDocument
  <2>4. Size(NextDocument) = NextDocument[2] - scanned
    BY <1>1, <2>3 DEF NextDocument, Size
  <2>5. ~(Size(NextDocument) <= ScanLimit)
    BY <2>1, <2>2 DEF CanScan
  <2> QED BY <1>1, <2>1, <2>3, <2>4, <2>5
<1> QED BY <1>2, <1>3

LEMMA ReaderNext == ReaderInv /\ [Next]_vars => ReaderInv'
<1> SUFFICES ASSUME ReaderInv, [Next]_vars PROVE ReaderInv'
  OBVIOUS
<1>1. ASSUME NEW d \in Documents, WriteFrame(d) \/ WriteFails(d)
      PROVE  ReaderInv'
  BY <1>1, WriterKeepsReader
<1>2. CASE Open
  <2>1. /\ readable' \in 0 .. Len(stream) /\ scanned' = 0 /\ Len(stream) \in Nat
        /\ phase' = "open" /\ UNCHANGED <<writerVars, scanned, remaining, frame, mult, frames, failed>>
    BY <1>2 DEF Open, ReaderInv, WriterInv, TypeOK
  <2>2. scanned' \in 0 .. readable' /\ Intervals' = Intervals
    BY <2>1 DEF Intervals, writerVars
  <2> QED BY <2>1, <2>2 DEF ReaderInv, TypeOK, WriterInv, BlockInv, writerVars
<1>3. CASE Call
  <2>1. /\ phase = "open" /\ phase' = "reading" /\ frame' = Empty /\ mult' = 1
        /\ Len(frames) + failed < MaxFrames
        /\ UNCHANGED <<writerVars, readable, scanned, remaining, frames, failed>>
    BY <1>3 DEF Call
  <2>2. WriterInv' /\ Intervals' = Intervals
    BY <2>1, StreamStays
  <2>3. Empty \in {Empty} /\ Size(Empty) = 0 /\ Empty[1] <= Empty[2] + 1
    BY DEF Empty, Size
  <2>4. mult' \in 1 .. 2 * MaxFrame
    BY <2>1, FramesAssumption
  <2>5. TypeOK'
    BY <2>1, <2>2, <2>4 DEF ReaderInv, TypeOK, writerVars
  <2>6. BlockInv'
    BY <2>1, <2>3 DEF ReaderInv, BlockInv
  <2> QED BY <2>2, <2>5, <2>6 DEF ReaderInv
<1>4. CASE Overflow \/ ReadMore \/ ReturnFrame \/ SkipFrame
  <2>1. Read /\ phase = "reading"
    BY <1>4 DEF Overflow, ReadMore, ReturnFrame, SkipFrame, Read
  <2> QED BY <1>4, <2>1, BlockKeepsReader
<1>5. CASE EndOfFile \/ Close \/ ReadFails
  <2>1. /\ phase \in {"reading", "open"} /\ phase' \in {"open", "closed"}
        /\ UNCHANGED <<writerVars, scanned, remaining, frame, mult, frames>>
        /\ failed' = failed \/ (failed' = failed + 1 /\ phase = "reading")
    BY <1>5 DEF EndOfFile, Close, ReadFails
  <2>2. WriterInv' /\ Intervals' = Intervals
    BY <2>1, StreamStays
  <2>3. failed' \in 0 .. MaxFrames /\ Len(frames) + failed' <= MaxFrames
    <3>1. /\ Len(frames) \in Nat /\ failed \in 0 .. MaxFrames /\ Len(frames) + failed <= MaxFrames
          /\ phase = "reading" => Len(frames) + failed < MaxFrames
      BY DEF ReaderInv, TypeOK, BlockInv
    <3> QED BY <2>1, <3>1, FramesAssumption
  <2>4. readable' \in 0 .. Len(stream) /\ scanned \in 0 .. readable'
    <3>1. readable \in 0 .. Len(stream) /\ scanned \in 0 .. readable /\ Len(stream) \in Nat
      BY DEF ReaderInv, TypeOK
    <3>2. CASE EndOfFile \/ Close
      BY <3>1, <3>2 DEF EndOfFile, Close
    <3>3. CASE ReadFails
      BY <3>1, <3>3, LimitIsRead
    <3> QED BY <1>5, <3>2, <3>3
  <2>5. TypeOK'
    BY <2>1, <2>2, <2>3, <2>4 DEF ReaderInv, TypeOK, writerVars
  <2>6. BlockInv'
    BY <2>1, <2>3 DEF ReaderInv, BlockInv
  <2> QED BY <2>2, <2>5, <2>6 DEF ReaderInv
<1>6. CASE UNCHANGED vars
  BY <1>6 DEF vars, writerVars, readerVars, ReaderInv, TypeOK, WriterInv, BlockInv, Intervals
<1> QED BY <1>1, <1>2, <1>3, <1>4, <1>5, <1>6 DEF Next, ReadFrame

\* The types, and that no document makes the buffer of ReadFrame larger than
\* twice the largest frame (frame_reader.go:104-121), whatever the stream is.
THEOREM TypesAndBuffer == Spec => []TypeOK
<1>1. ReaderInv => TypeOK
  BY DEF ReaderInv
<1> QED BY <1>1, InitReader, ReaderNext, PTL DEF Spec

-----------------------------------------------------------------------------
\* Position n is between two documents: before it a line of dashes, or nothing,
\* or after it nothing that can be read.
Between(n) ==
  \/ n = 0 \/ n = readable
  \/ n \in 3 .. readable /\ stream[n - 2] = "newline" /\ stream[n - 1] = "dashes" /\ stream[n] = "newline"

\* a .. b is a document: no separator in it, and one between it and any other text
\* of the stream, but what comes after the place where an error ended it.
Whole(a, b) ==
  /\ \A s \in SeparatorLines : ~(a < s /\ s <= b)
  /\ \A j \in TextOf(<<1, Len(stream)>>) :
       /\ j < a => \E s \in SeparatorLines : j < s /\ s < a
       /\ j > b => b = readable \/ \E s \in SeparatorLines : b < s /\ s < j

NoText(a, b) == \A j \in a .. b : stream[j] # "text"

\* How far the stream has become frames.
Done == IF phase = "reading" /\ Size(frame) > 0 THEN frame[1] - 1 ELSE scanned

\* Before the first error, the frames are all documents up to Done, and the
\* frame that is being read, with what the framer has left, is the next.
DocInv ==
  failed = 0 =>
    /\ Between(scanned)
    /\ Size(remaining) > 0 =>
         /\ phase = "reading" /\ Size(frame) > 0
         /\ Whole(frame[1], remaining[2]) /\ NoText(remaining[2] + 1, scanned)
    /\ \A k \in DOMAIN frames :
         frames[k][2] <= Done /\ Whole(frames[k][1], frames[k][2])
    /\ \A k, l \in DOMAIN frames : k < l => frames[k][2] < frames[l][1]
    /\ \A i \in TextOf(<<1, Done>>) : \E k \in DOMAIN frames : i \in Interval(frames[k])

LEMMA InitDocs == Init => DocInv
<1> SUFFICES ASSUME Init PROVE DocInv
  OBVIOUS
<1>1. Done = 0 /\ scanned = 0 /\ Size(remaining) = 0 /\ DOMAIN frames = {}
  BY DEF Init, Done, Size, Empty
<1> QED BY <1>1 DEF DocInv, Between, TextOf, Interval

\* The document that the framer scans next is one.
LEMMA NextIsWhole ==
  ASSUME ReaderInv, Between(scanned), Size(remaining) = 0, CanScan
  PROVE  /\ Whole(NextDocument[1], NextDocument[2])
         /\ NoText(NextDocument[2] + 1, ScannedThen)
         /\ Between(ScannedThen)
<1>1. /\ scanned \in Nat /\ readable \in Nat /\ scanned < readable /\ readable <= Len(stream)
      /\ Len(stream) \in Nat /\ stream \in Seq(Token) /\ DashesAlone(stream)
  BY DEF ReaderInv, TypeOK, WriterInv, CanScan
<1>2. NextDocument[1] = scanned + 1
  BY DEF NextDocument
<1>3. \A j \in TextOf(<<1, Len(stream)>>) : j \in 1 .. Len(stream) /\ stream[j] = "text"
  BY DEF TextOf, Interval
<1>4. \A s \in SeparatorLines :
        s \in 1 .. Len(stream) /\ stream[s] = "dashes" /\ (s = 1 \/ stream[s - 1] = "newline")
  BY <1>1 DEF SeparatorLines
<1>5. \A j \in TextOf(<<1, Len(stream)>>) :
        j < scanned + 1 => \E s \in SeparatorLines : j < s /\ s < scanned + 1
  <2>1. SUFFICES ASSUME NEW j \in TextOf(<<1, Len(stream)>>), j < scanned + 1
        PROVE  \E s \in SeparatorLines : j < s /\ s < scanned + 1
    OBVIOUS
  <2>2. j \in 1 .. Len(stream) /\ stream[j] = "text"
    BY <1>3
  <2>3. /\ scanned \in 3 .. readable /\ stream[scanned - 2] = "newline"
        /\ stream[scanned - 1] = "dashes" /\ stream[scanned] = "newline"
    BY <1>1, <2>1, <2>2 DEF Between
  <2>4. scanned - 1 \in SeparatorLines
    BY <1>1, <2>3 DEF SeparatorLines
  <2>5. j # scanned /\ j # scanned - 1
    BY <2>2, <2>3
  <2> QED BY <1>1, <2>1, <2>2, <2>4, <2>5
<1>6. CASE Ends = {}
  <2>1. NextDocument[2] = readable /\ ScannedThen = readable
    BY <1>6 DEF NextDocument, ScannedThen
  <2>2. \A s \in SeparatorLines : ~(scanned + 1 < s /\ s <= readable)
    <3>1. SUFFICES ASSUME NEW s \in SeparatorLines, scanned + 1 < s, s <= readable
          PROVE  FALSE
      OBVIOUS
    <3>2. s \in Nat /\ stream[s] = "dashes" /\ stream[s - 1] = "newline"
      BY <1>1, <1>4, <3>1
    <3>3. s - 1 \in Ends
      BY <1>1, <3>1, <3>2 DEF Ends
    <3> QED BY <1>6, <3>3
  <2>3. NoText(readable + 1, readable) /\ Between(readable)
    BY <1>1 DEF NoText, Between
  <2>4. Whole(scanned + 1, readable)
    BY <1>5, <2>2 DEF Whole
  <2> QED BY <1>2, <2>1, <2>3, <2>4
<1>7. CASE Ends # {}
  <2>1. /\ NextEnd \in scanned + 1 .. readable - 1 /\ stream[NextEnd] = "newline"
        /\ stream[NextEnd + 1] = "dashes" /\ \A i \in Ends : NextEnd <= i
    BY <1>7, NextEndIsFirst DEF Ends
  <2>2. NextDocument[2] = NextEnd - 1 /\ ScannedThen = AtMost(NextEnd + 2)
    BY <1>7 DEF NextDocument, ScannedThen
  <2>3. \A s \in SeparatorLines : ~(scanned + 1 < s /\ s <= NextEnd - 1)
    <3>1. SUFFICES ASSUME NEW s \in SeparatorLines, scanned + 1 < s, s <= NextEnd - 1
          PROVE  FALSE
      OBVIOUS
    <3>2. s \in Nat /\ stream[s] = "dashes" /\ stream[s - 1] = "newline"
      BY <1>1, <1>4, <3>1
    <3>3. s - 1 \in Ends
      BY <1>1, <2>1, <3>1, <3>2 DEF Ends
    <3> QED BY <1>1, <2>1, <3>1, <3>2, <3>3
  <2>4. NextEnd + 1 \in SeparatorLines /\ NextEnd + 1 <= readable
    BY <1>1, <2>1 DEF SeparatorLines
  <2>5. \A j \in TextOf(<<1, Len(stream)>>) :
          j > NextEnd - 1 => NextEnd + 1 < j
    BY <1>1, <1>3, <2>1
  <2>6. Whole(scanned + 1, NextEnd - 1)
    <3>1. \A j \in TextOf(<<1, Len(stream)>>) : j > NextEnd - 1 =>
            \E s \in SeparatorLines : NextEnd - 1 < s /\ s < j
      BY <1>1, <2>1, <2>4, <2>5
    <3> QED BY <1>5, <2>3, <3>1 DEF Whole
  <2>7. NextEnd - 1 + 1 = NextEnd
    BY <1>1, <2>1
  <2>8. CASE NextEnd + 2 <= readable
    <3>1. ScannedThen = NextEnd + 2
      BY <1>1, <2>1, <2>2, <2>8 DEF AtMost
    <3>2. stream[NextEnd + 2] = "newline"
      BY <1>1, <2>1, <2>8 DEF DashesAlone
    <3>3. NoText(NextEnd, NextEnd + 2) /\ Between(NextEnd + 2)
      BY <1>1, <2>1, <2>8, <3>2 DEF NoText, Between
    <3> QED BY <1>2, <2>2, <2>6, <2>7, <3>1, <3>3
  <2>9. CASE ~(NextEnd + 2 <= readable)
    <3>1. ScannedThen = readable /\ readable = NextEnd + 1
      BY <1>1, <2>1, <2>2, <2>9 DEF AtMost
    <3>3. NoText(NextEnd, NextEnd + 1) /\ Between(readable)
      BY <1>1, <2>1 DEF NoText, Between
    <3> QED BY <1>2, <2>2, <2>6, <2>7, <3>1, <3>3
  <2> QED BY <2>8, <2>9
<1> QED BY <1>6, <1>7

\* What is being read is the next document.
LEMMA ReadsNext ==
  ASSUME ReaderInv, DocInv, failed = 0, phase = "reading", CanScan, Read
  PROVE  /\ Whole(Appended[1], Ready[2])
         /\ NoText(Ready[2] + 1, ScannedThen)
         /\ Between(ScannedThen)
         /\ Done = Appended[1] - 1
<1>1. Appended[1] = IF Size(frame) > 0 THEN frame[1] ELSE Ready[1]
  BY BlockAppended
<1>2. CASE Size(remaining) > 0
  <2>1. /\ Size(frame) > 0 /\ Between(scanned)
        /\ Whole(frame[1], remaining[2]) /\ NoText(remaining[2] + 1, scanned)
    BY <1>2 DEF DocInv
  <2>2. Ready = remaining /\ ScannedThen = scanned
    BY <1>2 DEF Ready, ScannedThen
  <2> QED BY <1>1, <2>1, <2>2 DEF Done
<1>3. CASE ~(Size(remaining) > 0)
  <2>1. /\ Size(remaining) = 0 /\ ~(Size(frame) > 0) /\ scanned \in Nat
    BY <1>3 DEF ReaderInv, TypeOK, BlockInv, Intervals, Empty, Size
  <2>2. Ready = NextDocument /\ NextDocument[1] = scanned + 1
    BY <2>1 DEF Ready, NextDocument
  <2>3. Between(scanned)
    BY DEF DocInv
  <2> QED BY <1>1, <2>1, <2>2, <2>3, NextIsWhole DEF Done
<1> QED BY <1>2, <1>3

LEMMA BlockKeepsDocs ==
  ASSUME ReaderInv, DocInv, phase = "reading", Read,
         Overflow \/ ReadMore \/ ReturnFrame \/ SkipFrame
  PROVE  DocInv'
<1>1. SUFFICES ASSUME failed' = 0 PROVE DocInv'
  BY DEF DocInv
<1>2. failed = 0 /\ ~Overflow
  BY <1>1 DEF Overflow, ReadMore, ReturnFrame, SkipFrame, ReaderInv, TypeOK
<1>3. CanScan /\ BlockRead
  BY ReadGivesBlock DEF Read
<1>4. /\ Appended = <<Appended[1], Appended[2]>>
      /\ Appended[1] \in 1 .. Appended[2] + 1
      /\ Appended[2] \in Nat /\ Appended[2] <= Ready[2]
      /\ ShortBuffer =>
           /\ remaining' = <<Appended[2] + 1, Ready[2]>> /\ Appended[2] < Ready[2]
           /\ mult <= Size(Appended)
      /\ ~ShortBuffer => remaining' = Empty /\ Appended[2] = Ready[2]
  BY <1>3, BlockAppended
<1>5. /\ Whole(Appended[1], Ready[2]) /\ NoText(Ready[2] + 1, ScannedThen)
      /\ Between(ScannedThen) /\ Done = Appended[1] - 1
  BY <1>2, <1>3, ReadsNext
<1>6. UNCHANGED <<stream, readable>> /\ scanned' = ScannedThen
  BY DEF Read, writerVars
<1>7. /\ \A a, b : Whole(a, b)' <=> Whole(a, b)
      /\ \A a, b : NoText(a, b)' <=> NoText(a, b)
      /\ \A n : Between(n)' <=> Between(n)
      /\ \A f : TextOf(f)' = TextOf(f)
  BY <1>6 DEF Whole, NoText, Between, TextOf, SeparatorLines
<1>8. /\ Ready[2] \in Nat /\ scanned' \in Nat /\ Ready[2] <= scanned' /\ mult \in Nat /\ mult > 0
  BY <1>3, <1>6 DEF BlockRead, ReaderInv, TypeOK
<1>9. /\ \A k \in DOMAIN frames :
           /\ frames[k][2] <= Done /\ Whole(frames[k][1], frames[k][2])
           /\ frames[k][1] \in Nat /\ frames[k][2] \in Nat
      /\ \A k, l \in DOMAIN frames : k < l => frames[k][2] < frames[l][1]
      /\ \A i \in TextOf(<<1, Done>>) : \E k \in DOMAIN frames : i \in Interval(frames[k])
  BY <1>2 DEF DocInv, ReaderInv, BlockInv
<1>10. \A i \in TextOf(<<1, scanned'>>) : i \in TextOf(<<1, Done>>) \/ i \in TextOf(<<Appended[1], Ready[2]>>)
  BY <1>4, <1>5, <1>6, <1>8 DEF TextOf, Interval, NoText
<1>11. CASE ReadMore
  <2>1. frame' = Appended /\ phase' = phase /\ frames' = frames /\ ShortBuffer
    BY <1>11 DEF ReadMore
  <2>2. Size(Appended) > 0 /\ remaining' = <<Appended[2] + 1, Ready[2]>>
    BY <1>4, <1>8, <2>1 DEF Size
  <2>3. Done' = Done /\ Size(frame') > 0 /\ phase' = "reading"
    BY <1>5, <2>1, <2>2 DEF Done
  <2>4. Whole(frame[1], remaining[2])' /\ NoText(remaining[2] + 1, scanned)' /\ Between(scanned)'
    BY <1>5, <1>6, <1>7, <2>1, <2>2
  <2> QED BY <1>7, <1>9, <2>1, <2>3, <2>4 DEF DocInv
<1>12. CASE SkipFrame
  <2>1. frames' = frames /\ frame' = Empty /\ remaining' = Empty /\ Appended[2] = Ready[2]
        /\ Blank(Appended)
    BY <1>4, <1>12 DEF SkipFrame
  <2>2. Done' = scanned' /\ ~(Size(remaining') > 0)
    BY <2>1 DEF Done, Size, Empty
  <2>3. TextOf(<<Appended[1], Ready[2]>>) = {}
    BY <1>4, <2>1 DEF Blank, TextOf
  <2>4. \A k \in DOMAIN frames : frames[k][2] <= scanned'
    BY <1>4, <1>5, <1>8, <1>9, <2>1
  <2>5. Between(scanned)'
    BY <1>5, <1>6, <1>7
  <2> QED BY <1>7, <1>9, <1>10, <2>1, <2>2, <2>3, <2>4, <2>5 DEF DocInv
<1>13. CASE ReturnFrame
  <2>1. /\ frames' = Append(frames, Appended) /\ phase' = "open" /\ remaining' = Empty
        /\ Appended[2] = Ready[2] /\ Appended \in Nat \X Nat
    BY <1>4, <1>13 DEF ReturnFrame
  <2>2. Done' = scanned' /\ ~(Size(remaining') > 0)
    BY <2>1 DEF Done, Size, Empty
  <2>3. /\ frames \in Seq(Nat \X Nat) /\ Len(frames) \in Nat
        /\ DOMAIN frames = 1 .. Len(frames) /\ DOMAIN frames' = 1 .. Len(frames) + 1
        /\ \A k \in DOMAIN frames : frames'[k] = frames[k]
        /\ frames'[Len(frames) + 1] = Appended
    BY <2>1 DEF ReaderInv, BlockInv
  <2>4. \A k \in DOMAIN frames' : k \in DOMAIN frames \/ k = Len(frames) + 1
    BY <2>3
  <2>5. \A k \in DOMAIN frames' : frames'[k][2] <= scanned' /\ Whole(frames'[k][1], frames'[k][2])
    <3>1. Whole(Appended[1], Appended[2]) /\ Appended[2] <= scanned'
      BY <1>5, <1>8, <2>1
    <3>2. \A k \in DOMAIN frames : frames[k][2] <= scanned'
      BY <1>4, <1>5, <1>8, <1>9, <2>1
    <3> QED BY <1>9, <2>3, <2>4, <3>1, <3>2
  <2>6. \A k, l \in DOMAIN frames' : k < l => frames'[k][2] < frames'[l][1]
    <3>1. SUFFICES ASSUME NEW k \in DOMAIN frames', NEW l \in DOMAIN frames', k < l
          PROVE  frames'[k][2] < frames'[l][1]
      OBVIOUS
    <3>2. k \in DOMAIN frames /\ frames'[k] = frames[k]
      BY <2>3, <3>1
    <3>3. CASE l \in DOMAIN frames
      BY <1>9, <2>3, <3>1, <3>2, <3>3
    <3>4. CASE l = Len(frames) + 1
      BY <1>4, <1>5, <1>9, <2>3, <3>2, <3>4
    <3> QED BY <2>4, <3>3, <3>4
  <2>7. \A i \in TextOf(<<1, scanned'>>) : \E k \in DOMAIN frames' : i \in Interval(frames'[k])
    <3>1. TAKE i \in TextOf(<<1, scanned'>>)
    <3>2. CASE i \in TextOf(<<1, Done>>)
      BY <1>9, <2>3, <3>2
    <3>3. CASE i \in TextOf(<<Appended[1], Ready[2]>>)
      <4>1. i \in Interval(Appended)
        BY <1>4, <2>1, <3>3 DEF TextOf, Interval
      <4>2. Len(frames) + 1 \in DOMAIN frames'
        BY <2>3
      <4> QED BY <2>3, <4>1, <4>2
    <3> QED BY <1>10, <3>2, <3>3
  <2>8. Between(scanned)'
    BY <1>5, <1>6, <1>7
  <2> QED BY <1>7, <2>2, <2>5, <2>6, <2>7, <2>8 DEF DocInv
<1> QED BY <1>2, <1>11, <1>12, <1>13

LEMMA DocsNext == ReaderInv /\ DocInv /\ [Next]_vars => DocInv'
<1> SUFFICES ASSUME ReaderInv, DocInv, [Next]_vars PROVE DocInv'
  OBVIOUS
<1>1. CASE phase \in {"writing", "given"} /\ UNCHANGED <<scanned, remaining, frames>> /\ phase' # "reading"
  <2>1. scanned = 0 /\ remaining = Empty /\ frames = <<>>
    BY <1>1 DEF ReaderInv, WriterInv
  <2>2. Done' = 0 /\ scanned' = 0 /\ ~(Size(remaining') > 0) /\ DOMAIN frames' = {}
    BY <1>1, <2>1 DEF Done, Size, Empty
  <2> QED BY <2>2 DEF DocInv, Between, TextOf, Interval
<1>2. ASSUME NEW d \in Documents, WriteFrame(d) \/ WriteFails(d)
      PROVE  DocInv'
  BY <1>1, <1>2 DEF WriteFrame, WriteFails, readerVars
<1>3. CASE Open
  BY <1>1, <1>3 DEF Open
<1>4. CASE Overflow \/ ReadMore \/ ReturnFrame \/ SkipFrame
  <2>1. Read /\ phase = "reading"
    BY <1>4 DEF Overflow, ReadMore, ReturnFrame, SkipFrame, Read
  <2> QED BY <1>4, <2>1, BlockKeepsDocs
<1>5. CASE ReadFails
  BY <1>5 DEF ReadFails, ReaderInv, TypeOK, DocInv
<1>6. CASE Call \/ EndOfFile \/ Close
  <2>1. /\ UNCHANGED <<stream, readable, scanned, remaining, frames, failed>>
        /\ phase \in {"open", "reading"}
    BY <1>6 DEF Call, EndOfFile, Close, writerVars
  <2>2. /\ \A a, b : Whole(a, b)' <=> Whole(a, b)
        /\ \A a, b : NoText(a, b)' <=> NoText(a, b)
        /\ \A n : Between(n)' <=> Between(n)
        /\ \A f : TextOf(f)' = TextOf(f)
    BY <2>1 DEF Whole, NoText, Between, TextOf, SeparatorLines
  <2>3. SUFFICES ASSUME failed = 0 PROVE DocInv'
    BY <2>1 DEF DocInv
  <2>4. ~(Size(remaining) > 0) /\ Done = scanned /\ Done' = scanned
    <3>1. CASE Call \/ Close
      BY <2>1, <2>3, <3>1 DEF Call, Close, DocInv, Done, Size, Empty
    <3>2. CASE EndOfFile
      <4>1. phase = "reading" /\ phase' = "closed" /\ Size(remaining) = 0
        BY <3>2 DEF EndOfFile, AtEnd
      <4>2. ~(Size(frame) > 0)
        BY <4>1 DEF ReaderInv, BlockInv
      <4> QED BY <2>1, <4>1, <4>2 DEF Done
    <3> QED BY <1>6, <3>1, <3>2
  <2> QED BY <2>1, <2>2, <2>3, <2>4 DEF DocInv
<1>7. CASE UNCHANGED vars
  <2>1. UNCHANGED <<stream, readable, scanned, remaining, frames, failed, phase, frame>>
    BY <1>7 DEF vars, writerVars, readerVars
  <2> QED BY <2>1 DEF DocInv, Whole, NoText, Between, TextOf, SeparatorLines, Done
<1> QED BY <1>2, <1>3, <1>4, <1>5, <1>6, <1>7 DEF Next, ReadFrame

\* The text between two separators is one document.
LEMMA WholeIsDocument ==
  ASSUME NEW a \in Nat, NEW b \in Nat, Whole(a, b), a > 0,
         NEW n \in Nat, b <= n, n <= Len(stream), Len(stream) \in Nat,
         b = readable => n = b,
         NEW i \in TextOf(<<a, b>>)
  PROVE  TextOf(<<a, b>>) = DocumentText(i, n)
<1>1. i \in a .. b /\ SeparatorLines \subseteq Nat
  BY DEF TextOf, Interval, SeparatorLines
<1>2. ASSUME NEW j \in TextOf(<<a, b>>)
      PROVE  j \in TextOf(<<1, n>>) /\ SameDocument(i, j)
  <2>1. j \in a .. b /\ stream[j] = "text"
    BY DEF TextOf, Interval
  <2>2. j \in TextOf(<<1, n>>)
    BY <2>1 DEF TextOf, Interval
  <2>3. \A s \in SeparatorLines : ~(a < s /\ s <= b)
    BY DEF Whole
  <2> QED BY <1>1, <2>1, <2>2, <2>3 DEF SameDocument
<1>3. ASSUME NEW j \in TextOf(<<1, n>>), SameDocument(i, j)
      PROVE  j \in TextOf(<<a, b>>)
  <2>1. j \in 1 .. n /\ stream[j] = "text"
    BY DEF TextOf, Interval
  <2>2. j \in TextOf(<<1, Len(stream)>>)
    BY <2>1 DEF TextOf, Interval
  <2>3. ~(j < a)
    BY <1>1, <1>3, <2>1, <2>2 DEF Whole, SameDocument
  <2>4. ~(j > b)
    BY <1>1, <1>3, <2>1, <2>2 DEF Whole, SameDocument
  <2> QED BY <2>1, <2>3, <2>4 DEF TextOf, Interval
<1> QED BY <1>2, <1>3 DEF DocumentText

LEMMA DocsAreFrames == ReaderInv /\ DocInv => FramesAreDocuments
<1> SUFFICES ASSUME ReaderInv, DocInv, failed = 0 PROVE FramesAreDocuments
  BY DEF FramesAreDocuments
<1>1. /\ readable \in Nat /\ scanned \in 0 .. readable /\ readable <= Len(stream) /\ Len(stream) \in Nat
      /\ \A k \in DOMAIN frames :
           /\ frames[k][1] \in Nat /\ frames[k][2] \in Nat /\ frames[k][1] \in 1 .. frames[k][2]
           /\ frames[k] = <<frames[k][1], frames[k][2]>>
      /\ Size(remaining) > 0 => remaining[2] <= scanned
      /\ remaining[1] \in Nat /\ remaining[2] \in Nat /\ frame[1] \in Nat /\ frame[2] \in Nat
      /\ phase = "reading" /\ Size(frame) > 0 => Size(remaining) > 0 /\ frame[2] + 1 = remaining[1]
  BY DEF ReaderInv, TypeOK, BlockInv, Intervals, Empty
<1>2. /\ \A k \in DOMAIN frames : frames[k][2] <= Done /\ Whole(frames[k][1], frames[k][2])
      /\ \A k, l \in DOMAIN frames : k < l => frames[k][2] < frames[l][1]
      /\ \A i \in TextOf(<<1, Done>>) : \E k \in DOMAIN frames : i \in Interval(frames[k])
  BY DEF DocInv
<1>3. Done \in Int /\ Done <= readable
  <2>1. CASE phase = "reading" /\ Size(frame) > 0
    <3>1. /\ frame[1] < frame[2] + 1 /\ frame[2] + 1 = remaining[1]
          /\ remaining[1] < remaining[2] + 1 /\ remaining[2] <= scanned
      <4>1. Size(remaining) > 0 /\ frame[2] + 1 = remaining[1] /\ remaining[2] <= scanned
        BY <1>1, <2>1
      <4>2. /\ remaining[1] \in Nat /\ remaining[2] \in Nat /\ scanned \in Nat
            /\ frame[1] \in Nat /\ frame[2] \in Nat
        BY <1>1
      <4>3. frame[2] + 1 - frame[1] > 0 /\ remaining[2] + 1 - remaining[1] > 0
        BY <2>1, <4>1 DEF Size
      <4> QED BY <4>1, <4>2, <4>3
    <3>2. Done = frame[1] - 1
      BY <2>1 DEF Done
    <3> QED BY <1>1, <3>1, <3>2
  <2>2. CASE ~(phase = "reading" /\ Size(frame) > 0)
    BY <1>1, <2>2 DEF Done
  <2> QED BY <2>1, <2>2
<1>4. ASSUME NEW k \in DOMAIN frames, NEW i \in TextOf(frames[k])
      PROVE  TextOf(frames[k]) = DocumentText(i, IF Cut(k) THEN readable ELSE Len(stream))
  <2> DEFINE a == frames[k][1]
             b == frames[k][2]
             n == IF Cut(k) THEN readable ELSE Len(stream)
  <2>1. a \in Nat /\ a > 0 /\ b \in Nat /\ b <= readable /\ Whole(a, b) /\ frames[k] = <<a, b>>
    BY <1>1, <1>2, <1>3
\* A later frame would end after what can be read.
  <2>2. b = readable => k = Len(frames)
    <3>1. SUFFICES ASSUME b = readable, k # Len(frames) PROVE FALSE
      OBVIOUS
    <3>2. Len(frames) \in Nat /\ DOMAIN frames = 1 .. Len(frames)
      BY DEF ReaderInv, BlockInv
    <3>3. PICK l \in DOMAIN frames : k < l
      BY <1>4, <3>1, <3>2
    <3>4. frames[k][2] < frames[l][1] /\ frames[l][1] <= frames[l][2] /\ frames[l][2] <= Done
      BY <1>1, <1>2, <3>3
    <3>5. frames[l][1] \in Nat /\ frames[l][2] \in Nat
      BY <1>1, <3>3
    <3> QED BY <1>1, <1>3, <2>1, <3>1, <3>4, <3>5
  <2>3. n \in Nat /\ b <= n /\ n <= Len(stream) /\ (b = readable => n = b)
    BY <1>1, <2>1, <2>2 DEF Cut
  <2>4. i \in TextOf(<<a, b>>)
    BY <1>4, <2>1
  <2> HIDE DEF a, b, n
  <2>5. TextOf(<<a, b>>) = DocumentText(i, n)
    BY <1>1, <2>1, <2>3, <2>4, WholeIsDocument
  <2>6. TextOf(frames[k]) = DocumentText(i, n)
    BY <2>1, <2>5
  <2> QED BY <2>6 DEF n
<1>5. ASSUME NEW i \in TextOf(<<1, readable>>),
             AllRead \/ \E k \in DOMAIN frames : i < frames[k][1]
      PROVE  \E k \in DOMAIN frames : i \in TextOf(frames[k])
  <2>1. i \in 1 .. readable /\ stream[i] = "text"
    BY DEF TextOf, Interval
  <2>2. i <= Done
    <3>1. CASE AllRead
      BY <1>1, <2>1, <3>1 DEF AllRead, AtEnd, Done
    <3>2. CASE \E k \in DOMAIN frames : i < frames[k][1]
      BY <1>1, <1>2, <1>3, <2>1, <3>2
    <3> QED BY <1>5, <3>1, <3>2
  <2>3. i \in TextOf(<<1, Done>>)
    BY <1>3, <2>1, <2>2 DEF TextOf, Interval
  <2> QED BY <1>2, <2>1, <2>3 DEF TextOf
<1> QED BY <1>2, <1>4, <1>5 DEF FramesAreDocuments

\* Until the first error, the frames that ReadFrame returns are documents of the
\* stream in order, none left out, each to its separator or the stream's end,
\* for every stream, every size of frames and of the scanner's buffer; only the
\* last may be cut short, where an I/O error ends what can be read.
THEOREM FramesCorrect == Spec => []FramesAreDocuments
<1>1. ReaderInv /\ DocInv => FramesAreDocuments
  BY DocsAreFrames
<1> QED BY <1>1, InitReader, ReaderNext, InitDocs, DocsNext, PTL DEF Spec
-----------------------------------------------------------------------------
(***************************************************************************)
(* What was written.                                                       *)
(***************************************************************************)
\* A document that was written without an error is an interval of the stream without
\* dashes; where anything follows it, that is a separator.
IsKept(d) ==
  /\ d[1] \in Nat \ {0} /\ d[2] \in Nat /\ d[1] <= d[2] + 1 /\ d[2] <= Len(stream)
  /\ \A i \in Interval(d) : stream[i] # "dashes"
  /\ d[2] < Len(stream) => stream[d[2] + 1] = "dashes"

Apart(d, e) == d = e \/ d[2] < e[1] \/ e[2] < d[1]

\* The text of the stream is that of these documents, and no separator comes before
\* the first of them.
KeptInv ==
  /\ kept = {} => hasWritten = FALSE /\ (phase = "writing" => stream = <<>>)
  /\ kept # {} =>
       /\ hasWritten = TRUE
       /\ \A i \in DOMAIN stream : stream[i] = "text" => \E d \in kept : i \in Interval(d)
  /\ \A d \in kept : IsKept(d)
  /\ \A d, e \in kept : Apart(d, e)

LEMMA InitKept == Init => KeptInv
  BY DEF Init, KeptInv

\* What is written after the stream leaves it as it is.
LEMMA AppendedParts ==
  ASSUME NEW s \in Seq(Token), NEW t \in Seq(Token)
  PROVE  /\ s \o t \in Seq(Token) /\ Len(s \o t) = Len(s) + Len(t)
         /\ \A i \in 1 .. Len(s) : (s \o t)[i] = s[i]
         /\ \A i \in Len(s) + 1 .. Len(s) + Len(t) : (s \o t)[i] = t[i - Len(s)]
OBVIOUS

\* The separator begins with dashes, follows a document, and has no text.
LEMMA PrefixParts ==
  /\ Prefix \in Seq(Token)
  /\ hasWritten = TRUE => Len(Prefix) = 2 /\ Prefix[1] = "dashes" /\ Prefix[2] = "newline"
  /\ hasWritten = FALSE => Prefix = <<>>
  /\ \A i \in 1 .. Len(Prefix) : Prefix[i] # "text"
<1>1. /\ Separator \in Seq(Token) /\ Len(Separator) = 2
      /\ Separator[1] = "dashes" /\ Separator[2] = "newline"
  BY DEF Separator, Token
<1>2. \A i \in 1 .. Len(Separator) : Separator[i] # "text"
  BY <1>1
<1>3. <<>> \in Seq(Token) /\ Len(<<>>) = 0
  OBVIOUS
<1> QED BY <1>1, <1>2, <1>3 DEF Prefix

LEMMA WriterKeepsKept ==
  ASSUME ReaderInv, KeptInv, NEW d \in Documents, WriteFrame(d) \/ WriteFails(d)
  PROVE  KeptInv'
<1> DEFINE base == stream \o Prefix
           n == Len(stream)
           m == Len(Prefix)
<1>1. stream \in Seq(Token) /\ n \in Nat /\ phase = "writing"
  BY DEF ReaderInv, TypeOK, WriteFrame, WriteFails
<1>2. /\ base \in Seq(Token) /\ Len(base) = n + m /\ m \in Nat
      /\ \A i \in 1 .. n : base[i] = stream[i]
      /\ \A i \in n + 1 .. n + m : base[i] = Prefix[i - n]
  BY <1>1, PrefixParts, AppendedParts
<1>3. /\ \A i \in n + 1 .. n + m : base[i] # "text"
      /\ hasWritten = TRUE => m = 2 /\ base[n + 1] = "dashes"
      /\ hasWritten = FALSE => m = 0 /\ base = stream
  <2>1. \A i \in n + 1 .. n + m : i - n \in 1 .. m
    BY <1>1, <1>2
  <2>2. hasWritten = FALSE => m = 0
    BY PrefixParts
  <2>3. hasWritten = FALSE => base = stream
    BY <1>1, PrefixParts
  <2>4. ASSUME hasWritten = TRUE PROVE m = 2 /\ base[n + 1] = "dashes"
    <3>1. m = 2 /\ Prefix[1] = "dashes"
      BY <2>4, PrefixParts
    <3>2. n + 1 \in n + 1 .. n + m /\ n + 1 - n = 1
      BY <1>1, <3>1
    <3> QED BY <1>2, <3>1, <3>2
  <2> QED BY <1>2, <2>1, <2>2, <2>3, <2>4, PrefixParts
<1>4. \A e \in kept :
        /\ e[1] \in Nat \ {0} /\ e[2] \in Nat /\ e[1] <= e[2] + 1 /\ e[2] <= n
        /\ \A i \in e[1] .. e[2] : stream[i] # "dashes"
        /\ e[2] < n => stream[e[2] + 1] = "dashes"
        /\ hasWritten = TRUE
  BY DEF KeptInv, IsKept, Interval
<1> HIDE DEF base, n, m
\* A stream that goes on with a separator leaves the documents what they were.
<1>5. ASSUME NEW e \in kept, NEW s \in Seq(Token), Len(s) >= n + m,
             \A i \in 1 .. n + m : s[i] = base[i]
      PROVE  /\ \A i \in e[1] .. e[2] : s[i] # "dashes"
             /\ e[2] < Len(s) => s[e[2] + 1] = "dashes"
             /\ e[2] <= Len(s)
  <2>1. \A i \in 1 .. n : s[i] = stream[i]
    BY <1>1, <1>2, <1>5
  <2>2. \A i \in e[1] .. e[2] : i \in 1 .. n
    BY <1>1, <1>4
  <2>3. CASE e[2] < n
    <3>1. e[2] + 1 \in 1 .. n
      BY <1>1, <1>4, <2>3
    <3>2. e[2] <= Len(s)
      BY <1>1, <1>2, <1>4, <1>5
    <3> QED BY <1>4, <2>1, <2>2, <2>3, <3>1, <3>2
  <2>4. CASE e[2] = n
    <3>1. m = 2 /\ base[n + 1] = "dashes" /\ n + 1 \in 1 .. n + m
      BY <1>1, <1>3, <1>4
    <3>2. e[2] <= Len(s)
      BY <1>1, <1>2, <1>5, <2>4
    <3> QED BY <1>4, <1>5, <2>1, <2>2, <2>4, <3>1, <3>2
  <2> QED BY <1>1, <1>4, <2>3, <2>4
<1>6. CASE WriteFrame(d)
  <2> DEFINE new == <<Len(base) + 1, Len(base \o d)>>
             t == base \o d
  <2>1. stream' = t /\ hasWritten' = TRUE /\ kept' = kept \cup {new}
    BY <1>6 DEF WriteFrame, base
  <2>2. d \in Seq(Token) /\ \A i \in 1 .. Len(d) : d[i] # "dashes"
    BY FramesAssumption, <1>1 DEF Token
  <2>3. /\ t \in Seq(Token) /\ Len(t) = n + m + Len(d) /\ Len(d) \in Nat
        /\ \A i \in 1 .. n + m : t[i] = base[i]
        /\ \A i \in n + m + 1 .. n + m + Len(d) : t[i] = d[i - (n + m)]
    <3>1. /\ t \in Seq(Token) /\ Len(t) = Len(base) + Len(d)
          /\ \A i \in 1 .. Len(base) : t[i] = base[i]
          /\ \A i \in Len(base) + 1 .. Len(base) + Len(d) : t[i] = d[i - Len(base)]
      BY <1>2, <2>2, AppendedParts
    <3> HIDE DEF t
    <3> QED BY <1>2, <2>2, <3>1
  <2>4. new[1] = n + m + 1 /\ new[2] = n + m + Len(d)
    BY <1>2, <2>3
  <2> HIDE DEF new, t
  <2>5. ASSUME NEW e \in kept PROVE IsKept(e)'
    <3>1. Len(t) >= n + m
      BY <1>1, <1>2, <2>3
    <3>2. /\ \A i \in e[1] .. e[2] : t[i] # "dashes"
          /\ e[2] < Len(t) => t[e[2] + 1] = "dashes"
          /\ e[2] <= Len(t)
      BY <1>5, <2>3, <3>1
    <3> QED BY <1>4, <2>1, <3>2 DEF IsKept, Interval
  <2>6. ASSUME NEW e, e = new PROVE IsKept(e)'
    <3>1. \A i \in new[1] .. new[2] : t[i] # "dashes"
      <4>1. \A i \in new[1] .. new[2] : i - (n + m) \in 1 .. Len(d)
        BY <1>1, <1>2, <2>3, <2>4
      <4> QED BY <2>2, <2>3, <2>4, <4>1
    <3>2. /\ new[1] \in Nat \ {0} /\ new[2] \in Nat /\ new[1] <= new[2] + 1
          /\ new[2] = Len(t)
      BY <1>1, <1>2, <2>3, <2>4
    <3> QED BY <2>1, <2>6, <3>1, <3>2 DEF IsKept, Interval
  <2>7. \A e \in kept : e[2] < new[1]
    BY <1>1, <1>2, <1>4, <2>4
  <2>8. ASSUME NEW i \in DOMAIN t, t[i] = "text" PROVE \E e \in kept' : i \in Interval(e)
    <3>1. i \in 1 .. n + m + Len(d)
      BY <2>3, <2>8
    <3>2. CASE i \in new[1] .. new[2]
      BY <2>1, <3>2 DEF Interval
    <3>3. CASE i \in n + 1 .. n + m
      BY <1>1, <1>2, <1>3, <2>3, <2>8, <3>3
    <3>4. CASE i \in 1 .. n
      <4>1. t[i] = stream[i] /\ i \in DOMAIN stream
        BY <1>1, <1>2, <2>3, <3>4 DEF n
      <4>2. kept # {}
        <5>1. stream # <<>>
          BY <1>1, <3>4 DEF n
        <5> QED BY <1>1, <5>1 DEF KeptInv
      <4> QED BY <2>1, <2>8, <4>1, <4>2 DEF KeptInv
    <3> QED BY <1>1, <1>2, <2>3, <2>4, <3>1, <3>2, <3>3, <3>4
  <2>9. \A x, y \in kept' : Apart(x, y)
    BY <2>1, <2>7 DEF KeptInv, Apart
  <2>10. \A x \in kept' : IsKept(x)'
    BY <2>1, <2>5, <2>6
  <2> QED BY <2>1, <2>8, <2>9, <2>10 DEF KeptInv
<1>7. CASE WriteFails(d)
  <2>1. /\ stream' \in {stream, base} /\ UNCHANGED <<hasWritten, kept, phase>>
    BY <1>7 DEF WriteFails, readerVars, base
  <2>2. CASE stream' = stream
    BY <2>1, <2>2 DEF KeptInv, IsKept, Interval
  <2>3. CASE stream' = base
    <3>1. ASSUME NEW e \in kept PROVE IsKept(e)'
      <4>1. /\ \A i \in e[1] .. e[2] : base[i] # "dashes"
            /\ e[2] < Len(base) => base[e[2] + 1] = "dashes"
            /\ e[2] <= Len(base)
        BY <1>1, <1>2, <1>5
      <4> QED BY <1>4, <2>3, <4>1 DEF IsKept, Interval
    <3>2. ASSUME kept # {}, NEW i \in DOMAIN base, base[i] = "text"
          PROVE  \E e \in kept : i \in Interval(e)
      <4>1. i \in 1 .. n + m
        BY <1>2, <3>2
      <4>2. i \in 1 .. n
        BY <1>1, <1>2, <1>3, <3>2, <4>1
      <4>3. i \in DOMAIN stream /\ stream[i] = "text"
        BY <1>1, <1>2, <3>2, <4>2 DEF n
      <4> QED BY <3>2, <4>3 DEF KeptInv
    <3>3. kept = {} => base = stream
      BY <1>3 DEF KeptInv
    <3> QED BY <2>1, <2>3, <3>1, <3>2, <3>3 DEF KeptInv
  <2> QED BY <2>1, <2>2, <2>3
<1> QED BY <1>6, <1>7

LEMMA KeptNext == ReaderInv /\ KeptInv /\ [Next]_vars => KeptInv'
<1> SUFFICES ASSUME ReaderInv, KeptInv, [Next]_vars PROVE KeptInv'
  OBVIOUS
<1>1. ASSUME UNCHANGED writerVars, phase' = "writing" => phase = "writing" PROVE KeptInv'
  BY <1>1 DEF writerVars, KeptInv, IsKept, Apart, Interval
<1>2. ASSUME NEW d \in Documents, WriteFrame(d) \/ WriteFails(d) PROVE KeptInv'
  BY <1>2, WriterKeepsKept
<1>3. CASE Open \/ Call \/ Close \/ EndOfFile \/ ReadFails
  BY <1>1, <1>3 DEF Open, Call, Close, EndOfFile, ReadFails
<1>4. CASE Overflow \/ ReadMore \/ ReturnFrame \/ SkipFrame
  BY <1>1, <1>4 DEF Overflow, ReadMore, ReturnFrame, SkipFrame, Read
<1>5. CASE UNCHANGED vars
  BY <1>1, <1>5 DEF vars, readerVars
<1> QED BY <1>2, <1>3, <1>4, <1>5 DEF Next, ReadFrame

\* The text of a kept document is that between two separators.
LEMMA KeptIsDocument ==
  ASSUME KeptInv, \A d \in kept : stream[d[2]] = "newline",
         stream \in Seq(Token),
         NEW d \in kept, NEW i \in TextOf(d)
  PROVE  TextOf(d) = DocumentText(i, Len(stream))
<1>1. /\ Len(stream) \in Nat /\ DOMAIN stream = 1 .. Len(stream)
      /\ \A e \in kept :
           /\ e[1] \in Nat \ {0} /\ e[2] \in Nat /\ e[2] <= Len(stream)
           /\ \A k \in e[1] .. e[2] : stream[k] # "dashes"
           /\ e[2] < Len(stream) => stream[e[2] + 1] = "dashes"
  BY DEF KeptInv, IsKept, Interval
<1>2. \A s \in SeparatorLines : s \in Nat /\ stream[s] = "dashes"
  BY <1>1 DEF SeparatorLines
<1>3. \A e \in kept : \A j : j \in TextOf(e) <=> j \in e[1] .. e[2] /\ stream[j] = "text"
  BY DEF TextOf, Interval
<1>4. \A j : j \in TextOf(<<1, Len(stream)>>) <=> j \in 1 .. Len(stream) /\ stream[j] = "text"
  BY DEF TextOf, Interval
<1>5. ASSUME NEW j \in TextOf(d)
      PROVE  j \in TextOf(<<1, Len(stream)>>) /\ SameDocument(i, j)
  <2>1. i \in d[1] .. d[2] /\ j \in d[1] .. d[2]
    BY <1>3
  <2>2. \A s \in SeparatorLines : s \notin d[1] .. d[2]
    BY <1>1, <1>2
  <2>3. SameDocument(i, j)
    BY <1>1, <1>2, <2>1, <2>2 DEF SameDocument
  <2> QED BY <1>1, <1>3, <1>4, <2>1, <2>3
\* Between a document and a later one with text is the separator after the first.
<1>6. ASSUME NEW e \in kept, NEW f \in kept, NEW x \in TextOf(e), NEW y \in TextOf(f), e[2] < f[1]
      PROVE  e[2] + 1 \in SeparatorLines /\ x < e[2] + 1 /\ e[2] + 1 < y
  <2>1. /\ x \in e[1] .. e[2] /\ y \in f[1] .. f[2]
    BY <1>3
  <2>2. e[2] < Len(stream) /\ stream[e[2] + 1] = "dashes"
    BY <1>1, <1>6, <2>1
  <2>3. e[2] + 1 # y
    BY <1>1, <2>1, <2>2
  <2>4. e[2] + 1 \in SeparatorLines
    <3> DEFINE s == e[2] + 1
    <3>1. s - 1 = e[2] /\ s \in DOMAIN stream /\ stream[s] = "dashes"
      BY <1>1, <2>2
    <3>2. stream[s - 1] = "newline"
      BY <3>1
    <3> HIDE DEF s
    <3>3. s \in SeparatorLines
      BY <3>1, <3>2 DEF SeparatorLines
    <3> QED BY <3>3 DEF s
  <2> QED BY <1>1, <1>6, <2>1, <2>3, <2>4
<1>7. ASSUME NEW j \in TextOf(<<1, Len(stream)>>), SameDocument(i, j)
      PROVE  j \in TextOf(d)
  <2>1. PICK e \in kept : j \in Interval(e)
    BY <1>1, <1>4 DEF KeptInv
  <2>2. j \in TextOf(e)
    BY <1>4, <2>1 DEF TextOf
  <2>3. ~(d[2] < e[1])
    BY <1>6, <1>7, <2>2 DEF SameDocument
  <2>4. ~(e[2] < d[1])
    BY <1>6, <1>7, <2>2 DEF SameDocument
  <2>5. d = e
    BY <2>3, <2>4 DEF KeptInv, Apart
  <2> QED BY <2>2, <2>5
<1> QED BY <1>5, <1>7 DEF DocumentText

\* What was written is what is read: each document that was written without an error
\* is a frame, and every frame is one of them, whichever writes failed for want of
\* room and left a separator behind (WriteFrame, ReadFrame).
THEOREM WrittenFramesRead == Spec => []WrittenIsRead
<1>1. ASSUME ReaderInv, DocInv, KeptInv PROVE WrittenIsRead
  <2> SUFFICES ASSUME AllRead, failed = 0, readable = Len(stream), kept # {},
                      \A d \in kept : stream[d[2]] = "newline"
               PROVE  {TextOf(d) : d \in kept} \ {{}} =
                        {TextOf(frames[k]) : k \in DOMAIN frames} \ {{}}
    BY DEF WrittenIsRead
  <2> DEFINE Document(i) == DocumentText(i, Len(stream))
  <2>1. /\ \A k \in DOMAIN frames : \A i \in TextOf(frames[k]) : TextOf(frames[k]) = Document(i)
        /\ \A i \in TextOf(<<1, Len(stream)>>) : \E k \in DOMAIN frames : i \in TextOf(frames[k])
    BY <1>1, DocsAreFrames DEF FramesAreDocuments, Cut
  <2>2. stream \in Seq(Token)
    BY <1>1 DEF ReaderInv, TypeOK
  <2>3. \A d \in kept : \A i \in TextOf(d) : TextOf(d) = Document(i)
    BY <1>1, <2>2, KeptIsDocument
  <2>4. ASSUME NEW i \in TextOf(<<1, Len(stream)>>) PROVE \E d \in kept : i \in TextOf(d)
    <3>1. i \in DOMAIN stream /\ stream[i] = "text"
      BY <2>2 DEF TextOf, Interval
    <3> QED BY <1>1, <3>1 DEF KeptInv, TextOf
  <2>5. /\ \A d \in kept : TextOf(d) \subseteq TextOf(<<1, Len(stream)>>)
        /\ \A k \in DOMAIN frames : TextOf(frames[k]) \subseteq TextOf(<<1, Len(stream)>>)
    BY <2>1, <2>3 DEF DocumentText
  <2> HIDE DEF Document
  <2>6. ASSUME NEW d \in kept, TextOf(d) # {}
        PROVE  \E k \in DOMAIN frames : TextOf(d) = TextOf(frames[k])
    <3>1. PICK i \in TextOf(d) : TRUE
      BY <2>6
    <3>2. PICK k \in DOMAIN frames : i \in TextOf(frames[k])
      BY <2>1, <2>5
    <3> QED BY <2>1, <2>3, <3>2
  <2>7. ASSUME NEW k \in DOMAIN frames, TextOf(frames[k]) # {}
        PROVE  \E d \in kept : TextOf(d) = TextOf(frames[k])
    <3>1. PICK i \in TextOf(frames[k]) : TRUE
      BY <2>7
    <3>2. PICK d \in kept : i \in TextOf(d)
      BY <2>4, <2>5
    <3> QED BY <2>1, <2>3, <3>2
  <2> QED BY <2>6, <2>7
<1> QED BY <1>1, InitReader, ReaderNext, InitDocs, DocsNext, InitKept, KeptNext, PTL DEF Spec
=============================================================================
