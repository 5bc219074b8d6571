------------------------------- MODULE Frames -------------------------------
(***************************************************************************)
(* Frames: the YAML documents of a stream (pkg/serializer/frame_writer.go, *)
(* frame_reader.go, frame_utils.go).  A FrameWriter writes documents with  *)
(* "---" lines in between; a FrameReader collects each document from       *)
(* blocks that the YAML framer of apimachinery gives it.                   *)
(*                                                                         *)
(* A stream is a sequence of tokens, each as long as the reader's smallest *)
(* buffer: a piece of text, a newline, or the three dashes of a separator. *)
(* A document that is read is an interval of the stream's positions.       *)
(***************************************************************************)
EXTENDS Naturals, Sequences, FiniteSets

CONSTANTS
  Inputs,        \* streams that others wrote
  Documents,     \* what this program writes
  Room,          \* the length of the byte array of ToBytes
  MaxFrame,      \* maxFrameSize
  ScanLimit,     \* the longest document the framer's scanner takes
  MaxFrames      \* bound: frames in a stream, calls of ReadFrame after an error

Token == {"text", "newline", "dashes"}
Separator == <<"dashes", "newline">>  \* yamlSeparator

\* A line that begins with dashes has nothing else.
DashesAlone(s) == \A i \in 1 .. Len(s) - 1 : s[i] = "dashes" => s[i + 1] = "newline"

ASSUME FramesAssumption ==
  /\ MaxFrame \in Nat \ {0}
  /\ ScanLimit \in Nat /\ Room \in Nat /\ MaxFrames \in Nat
  /\ Inputs \subseteq Seq(Token) /\ \A s \in Inputs : DashesAlone(s)
  /\ Documents \subseteq Seq(Token \ {"dashes"})

VARIABLES
  stream,
  hasWritten,    \* of the yamlWriter
  kept,          \* history: the documents whose Write returned nil
  phase,         \* "writing"; "given": the stream is one of the inputs; "open": between
                 \* two calls of ReadFrame; "reading", "closed"
  readable,      \* how much of the stream can be read before an error, if that is less
  scanned,       \* how much of it the framer has scanned
  remaining,     \* of the framer: what it has scanned and not returned
  frame, mult,   \* the locals of ReadFrame: frame, c
  frames,        \* history: the frames returned with a nil error
  failed         \* history: how many calls returned another error than io.EOF

writerVars == <<stream, hasWritten, kept>>
readerVars == <<phase, readable, scanned, remaining, frame, mult, frames, failed>>
vars == <<writerVars, readerVars>>

Empty == <<1, 0>>
Interval(f) == f[1] .. f[2]
Size(f) == f[2] + 1 - f[1]
-----------------------------------------------------------------------------
(***************************************************************************)
(* The writer.                                                             *)
(***************************************************************************)
Fits(s) == Len(stream) + Len(s) <= Room

\* Mutant: the separator waits for a second document.
Prefix_Late == IF Cardinality(kept) > 1 THEN Separator ELSE <<>>

Prefix == IF hasWritten THEN Separator ELSE <<>>

WriteFrame(d) ==
  /\ phase = "writing"
  /\ Fits(Prefix \o d)
  /\ stream' = stream \o Prefix \o d
  /\ hasWritten' = TRUE
  /\ kept' = kept \cup {<<Len(stream \o Prefix) + 1, Len(stream \o Prefix \o d)>>}
  /\ UNCHANGED readerVars

\* Without room for the document its separator may be in the stream already.
WriteFails(d) ==
  /\ phase = "writing"
  /\ ~Fits(Prefix \o d)
  /\ stream' = IF Fits(Prefix) THEN stream \o Prefix ELSE stream
  /\ UNCHANGED <<hasWritten, kept, readerVars>>

\* FromBytes or FromFile; a file that cannot be opened has nothing readable.
Open ==
  /\ phase \in {"writing", "given"}
  /\ phase' = "open"
  /\ readable' \in 0 .. Len(stream)
  /\ UNCHANGED <<writerVars, scanned, remaining, frame, mult, frames, failed>>
-----------------------------------------------------------------------------
(***************************************************************************)
(* The framer: splitYAMLDocument and YAMLDecoder.Read.  A document ends    *)
(* before a newline with dashes after it, which end their line, too.  An   *)
(* error ends the last document like the end of the stream does: what has  *)
(* been read of it is returned first, as a document, and then the error.   *)
(***************************************************************************)
Ends == {i \in scanned + 1 .. readable - 1 : stream[i] = "newline" /\ stream[i + 1] = "dashes"}
NextEnd == CHOOSE i \in Ends : \A j \in Ends : i <= j

NextDocument == <<scanned + 1, IF Ends = {} THEN readable ELSE NextEnd - 1>>

AtMost(n) == IF n < readable THEN n ELSE readable

\* What the framer has for the next call of Read.
Ready == IF Size(remaining) = 0 THEN NextDocument ELSE remaining

ScannedThen ==
  IF Size(remaining) > 0 THEN scanned
  ELSE IF Ends = {} THEN readable ELSE AtMost(NextEnd + 2)

CanScan == Size(remaining) > 0 \/ (scanned < readable /\ Size(NextDocument) <= ScanLimit)
-----------------------------------------------------------------------------
(***************************************************************************)
(* ReadFrame; each step is one round of its loop.                          *)
(***************************************************************************)
Call ==
  /\ phase = "open"
  /\ Len(frames) + failed < MaxFrames
  /\ phase' = "reading"
  /\ frame' = Empty
  /\ mult' = 1
  /\ UNCHANGED <<writerVars, readable, scanned, remaining, frames, failed>>

\* The frame with what Read has put into the buffer.
Appended ==
  LET n == IF Size(Ready) > mult THEN mult ELSE Size(Ready)
  IN <<IF Size(frame) = 0 THEN Ready[1] ELSE frame[1], Ready[1] + n - 1>>

Read ==
  /\ phase = "reading"
  /\ CanScan
  /\ remaining' = IF Size(Ready) > mult THEN <<Ready[1] + mult, Ready[2]>> ELSE Empty
  /\ scanned' = ScannedThen
  /\ UNCHANGED <<writerVars, readable>>

\* Mutant: the buffer grows whatever the frame's size is.
TooLarge_Never == FALSE

TooLarge == Size(Appended) > MaxFrame

\* Mutant: a buffer that was too short is taken for a document that is done.
ShortBuffer_Ignored == FALSE
ShortBuffer == Size(Ready) > mult

\* A frame of white space; dashes at the beginning of the stream are none.
Blank(f) == \A i \in Interval(f) : stream[i] = "newline"

\* FrameOverflowErr; what is left of the document stays with the framer.
Overflow ==
  /\ Read
  /\ TooLarge
  /\ phase' = "open"
  /\ failed' = failed + 1
  /\ UNCHANGED <<frame, mult, frames>>

\* io.ErrShortBuffer: the rest of the document into a buffer twice as large.
ReadMore ==
  /\ Read
  /\ ~TooLarge /\ ShortBuffer
  /\ frame' = Appended
  /\ mult' = 2 * mult
  /\ UNCHANGED <<phase, frames, failed>>

ReturnFrame ==
  /\ Read
  /\ ~TooLarge /\ ~ShortBuffer
  /\ ~Blank(Appended)
  /\ phase' = "open"
  /\ frames' = Append(frames, Appended)
  /\ UNCHANGED <<frame, mult, failed>>

\* A blank document is skipped; the buffer stays as large as it has become.
SkipFrame ==
  /\ Read
  /\ ~TooLarge /\ ~ShortBuffer
  /\ Blank(Appended)
  /\ frame' = Empty
  /\ UNCHANGED <<phase, mult, frames, failed>>

AtEnd == Size(remaining) = 0 /\ scanned = readable

\* Mutant: the loop goes on as after a blank document.
EndOfFile_Continues ==
  /\ phase = "reading"
  /\ AtEnd /\ readable = Len(stream)
  /\ frame' = Empty
  /\ UNCHANGED <<writerVars, phase, readable, scanned, remaining, mult, frames, failed>>

\* io.EOF, at which the stream is closed.
EndOfFile ==
  /\ phase = "reading"
  /\ AtEnd /\ readable = Len(stream)
  /\ phase' = "closed"
  /\ UNCHANGED <<writerVars, readable, scanned, remaining, frame, mult, frames, failed>>

\* Any other error: of the file, or of a document that is too long to be scanned.
\* The scanner that has filled its buffer reads no further; what the buffer has
\* is the document of the next call.
ReadFails ==
  /\ phase = "reading"
  /\ ~CanScan
  /\ AtEnd => readable < Len(stream)
  /\ readable' = IF AtEnd THEN readable ELSE scanned + ScanLimit
  /\ phase' = "open"
  /\ failed' = failed + 1
  /\ UNCHANGED <<writerVars, scanned, remaining, frame, mult, frames>>

\* The caller closes the reader.
Close ==
  /\ phase = "open"
  /\ phase' = "closed"
  /\ UNCHANGED <<writerVars, readable, scanned, remaining, frame, mult, frames, failed>>

ReadFrame == Overflow \/ ReadMore \/ ReturnFrame \/ SkipFrame \/ EndOfFile \/ ReadFails

Init ==
  /\ \/ phase = "writing" /\ stream = <<>>
     \/ phase = "given" /\ stream \in Inputs
  /\ hasWritten = FALSE
  /\ kept = {}
  /\ readable = 0 /\ scanned = 0
  /\ remaining = Empty
  /\ frame = Empty /\ mult = 1
  /\ frames = <<>> /\ failed = 0

Next ==
  \/ \E d \in Documents : WriteFrame(d) \/ WriteFails(d)
  \/ Open \/ Call \/ ReadFrame \/ Close

\* A call of ReadFrame goes on until it returns.
Spec == Init /\ [][Next]_vars /\ WF_vars(ReadFrame)
-----------------------------------------------------------------------------
(***************************************************************************)
(* Properties.                                                             *)
(***************************************************************************)
Intervals == {f \in Nat \X Nat : f[2] <= Len(stream)}

\* Every variable has its type; however large the documents are, the buffer of
\* ReadFrame is at most twice as long as the largest frame allowed.
TypeOK ==
  /\ stream \in Seq(Token)
  /\ hasWritten \in BOOLEAN
  /\ kept \subseteq Intervals
  /\ phase \in {"writing", "given", "open", "reading", "closed"}
  /\ readable \in 0 .. Len(stream) /\ scanned \in 0 .. readable
  /\ remaining \in Intervals \cup {Empty} /\ frame \in Intervals \cup {Empty}
  /\ mult \in 1 .. 2 * MaxFrame
  /\ \A k \in DOMAIN frames : frames[k] \in Intervals /\ Size(frames[k]) <= MaxFrame
  /\ failed \in 0 .. MaxFrames

TextOf(f) == {i \in Interval(f) : stream[i] = "text"}

SeparatorLines ==
  {i \in DOMAIN stream : stream[i] = "dashes" /\ (i = 1 \/ stream[i - 1] = "newline")}

SameDocument(i, j) ==
  \A s \in SeparatorLines : ~(i < s /\ s < j) /\ ~(j < s /\ s < i)

\* What there is between two calls when everything has been read.
AllRead == phase \in {"open", "closed"} /\ AtEnd

\* The text of the document at position i, in the first n tokens of the stream.
DocumentText(i, n) == {j \in TextOf(<<1, n>>) : SameDocument(i, j)}

\* The frame that an error of the file ends is returned with a nil error before
\* that error is (frame_reader.go:106, 123): it may be a document cut short.
Cut(k) == k = Len(frames) /\ frames[k][2] = readable /\ readable < Len(stream)

\* Until the first error is returned the frames are documents of the stream in
\* their order, none left out, wherever the blocks that the framer gives begin
\* and end (frame_reader.go:81-85).  Each is a whole document of the stream, to
\* its separator or to the stream's end, except a last one that the failure of
\* the file has cut: this one has all that could be read of its document.
FramesAreDocuments ==
  failed = 0 =>
    /\ \A k, l \in DOMAIN frames : k < l => frames[k][2] < frames[l][1]
    /\ \A k \in DOMAIN frames : \A i \in TextOf(frames[k]) :
         TextOf(frames[k]) = DocumentText(i, IF Cut(k) THEN readable ELSE Len(stream))
    /\ \A i \in TextOf(<<1, readable>>) :
         AllRead \/ (\E k \in DOMAIN frames : i < frames[k][1]) =>
           \E k \in DOMAIN frames : i \in TextOf(frames[k])

\* What an encoder has written, as documents that end with a newline, is what is
\* read again, although other documents did not fit in between: their
\* separators, written before the failure, do not split or join the others.
WrittenIsRead ==
  /\ AllRead /\ failed = 0 /\ readable = Len(stream) /\ kept # {}
  /\ \A d \in kept : stream[d[2]] = "newline"
  => {TextOf(d) : d \in kept} \ {{}} =
       {TextOf(frames[k]) : k \in DOMAIN frames} \ {{}}

\* ReadFrame returns, whatever the stream is.
ReadsEnd == phase = "reading" ~> phase # "reading"
=============================================================================
