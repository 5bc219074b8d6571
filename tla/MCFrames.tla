------------------------------ MODULE MCFrames ------------------------------
EXTENDS Frames

CONSTANT MaxInput  \* the length of the inputs

\* Streams in which dashes are alone in their line.
MCInputs ==
  {s \in UNION {[1 .. n -> Token] : n \in 0 .. MaxInput} :
     \A i \in DOMAIN s : s[i] = "dashes" =>
       /\ i = 1 \/ s[i - 1] = "newline"
       /\ i = Len(s) \/ s[i + 1] = "newline"}

\* Encoded objects end with a newline, a frame that was read does not.
MCDocuments ==
  {<<"text", "newline">>, <<"text", "text", "text", "newline">>, <<"newline">>, <<"text">>}
=============================================================================
