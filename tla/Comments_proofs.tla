--------------------------- MODULE Comments_proofs ---------------------------
(***************************************************************************)
(* Theorems about Comments, for objects of any shape, any number of        *)
(* comments and any number of cycles of decoding, changing and encoding.   *)
(***************************************************************************)
EXTENDS Comments, WellFoundedInduction, SequenceTheorems, TLAPS

-----------------------------------------------------------------------------
(***************************************************************************)
(* Documents and objects.                                                  *)
(***************************************************************************)
IsDoc(d) == DOMAIN d = {"nodes", "notes", "top"}
IsObject(o) == DOMAIN o = {"nodes", "source"}

\* The object is annotated with a document, or is while it is not encoded.
Annotated == carried # None

\* What noAnnotationWrapper has taken off is what the object carries.
DocInv ==
  /\ IsDoc(file)
  /\ object # None => IsObject(object)
  /\ Annotated => IsDoc(carried)
  /\ encoding => taken = carried /\ (object # None => object.source = None)
  /\ ~encoding => taken = None /\ (object # None => object.source = carried)
  /\ encoding \in BOOLEAN

LEMMA DocExcept ==
  ASSUME NEW d, IsDoc(d), NEW x, NEW y
  PROVE  /\ LET e == [d EXCEPT !.nodes = x] IN
              IsDoc(e) /\ e.nodes = x /\ e.notes = d.notes /\ e.top = d.top
         /\ LET e == [d EXCEPT !.notes = x] IN
              IsDoc(e) /\ e.nodes = d.nodes /\ e.notes = x /\ e.top = d.top
         /\ LET e == [d EXCEPT !.top = x] IN
              IsDoc(e) /\ e.nodes = d.nodes /\ e.notes = d.notes /\ e.top = x
         /\ LET e == [d EXCEPT !.notes = x, !.top = y] IN
              IsDoc(e) /\ e.nodes = d.nodes /\ e.notes = x /\ e.top = y
         /\ LET e == [d EXCEPT !.nodes = x, !.notes = y] IN
              IsDoc(e) /\ e.nodes = x /\ e.notes = y /\ e.top = d.top
  BY DEF IsDoc

LEMMA TreeParts ==
  ASSUME NEW nodes, NEW notes, NEW top
  PROVE  /\ IsDoc(Tree(nodes, notes, top))
         /\ Tree(nodes, notes, top).nodes = nodes
         /\ Tree(nodes, notes, top).notes = notes
         /\ Tree(nodes, notes, top).top = top
  BY DEF Tree, IsDoc

LEMMA ObjectExcept ==
  ASSUME NEW o, IsObject(o), NEW x
  PROVE  /\ LET e == [o EXCEPT !.nodes = x] IN
              IsObject(e) /\ e.nodes = x /\ e.source = o.source
         /\ LET e == [o EXCEPT !.source = x] IN
              IsObject(e) /\ e.nodes = o.nodes /\ e.source = x
  BY DEF IsObject

\* What is written is a document: the nodes of the object, and what was copied.
LEMMA CopyParts ==
  ASSUME NEW from, NEW to, IsDoc(to)
  PROVE  LET d == CopyComments(from, to) IN
           /\ IsDoc(d)
           /\ d.nodes = to.nodes
           /\ d.notes = [s \in copyFieldComments(from, to) |-> from.notes[s]]
           /\ d.top = from.top \cup rememberLostComments(from, to)
<1> DEFINE notes == [s \in copyFieldComments(from, to) |-> from.notes[s]]
           top == from.top \cup rememberLostComments(from, to)
<1>1. CopyComments(from, to) = [to EXCEPT !.notes = notes, !.top = top]
  BY DEF CopyComments
<1> HIDE DEF notes, top
<1>2. LET d == [to EXCEPT !.notes = notes, !.top = top] IN
        IsDoc(d) /\ d.nodes = to.nodes /\ d.notes = notes /\ d.top = top
  BY DEF IsDoc
<1>3. LET d == CopyComments(from, to) IN
        IsDoc(d) /\ d.nodes = to.nodes /\ d.notes = notes /\ d.top = top
  BY <1>1, <1>2
<1> QED BY <1>3 DEF notes, top

\* An encoding begins without the annotation.
LEMMA BeginParts ==
  ASSUME deleteAnnotation, DocInv
  PROVE  /\ UNCHANGED <<file, carried, authored, edits>> /\ encoding' = TRUE
         /\ object # None /\ IsObject(object') /\ object'.nodes = object.nodes
         /\ object'.source = None /\ taken' = carried
  BY ObjectExcept DEF deleteAnnotation, DocInv, Idle

\* An encoding leaves the object with what it carries, however it ends.
LEMMA EncodingParts ==
  ASSUME NEW ok, Encoding(ok), DocInv
  PROVE  /\ encoding /\ encoding' = FALSE /\ UNCHANGED <<carried, edits>>
         /\ object # None /\ taken = carried /\ taken' = None
         /\ IsObject(object') /\ object'.nodes = object.nodes /\ object'.source = carried
  BY ObjectExcept DEF Encoding, setAnnotation, DocInv

-----------------------------------------------------------------------------
(***************************************************************************)
(* What each operation does to the file and to the object.                 *)
(***************************************************************************)
LEMMA AddParts ==
  ASSUME DocInv, NEW t, AddComment(t)
  PROVE  /\ t \notin authored \cup AllTexts(file)
         /\ authored' = authored \cup {t} /\ UNCHANGED <<object, encoding, taken, carried>>
         /\ IsDoc(file') /\ file'.nodes = file.nodes
         /\ \/ /\ \E s \in Slots(file.nodes) \ DOMAIN file.notes :
                    file'.notes = [r \in DOMAIN file.notes \cup {s} |->
                                     IF r = s THEN t ELSE file.notes[r]]
               /\ file'.top = file.top
            \/ /\ file'.notes = file.notes
               /\ \E e : e[2] = t /\ file'.top = file.top \cup {e}
<1>1. ASSUME NEW e, e[2] = t, file' = [file EXCEPT !.top = @ \cup {e}]
      PROVE  /\ IsDoc(file') /\ file'.nodes = file.nodes /\ file'.notes = file.notes
             /\ file'.top = file.top \cup {e}
  BY <1>1 DEF DocInv, IsDoc
<1>2. ASSUME NEW s \in Slots(file.nodes) \ DOMAIN file.notes,
             file' = [file EXCEPT !.notes = [r \in DOMAIN @ \cup {s} |-> IF r = s THEN t ELSE @[r]]]
      PROVE  /\ IsDoc(file') /\ file'.nodes = file.nodes /\ file'.top = file.top
             /\ file'.notes = [r \in DOMAIN file.notes \cup {s} |->
                                 IF r = s THEN t ELSE file.notes[r]]
  <2> DEFINE notes == [r \in DOMAIN file.notes \cup {s} |-> IF r = s THEN t ELSE file.notes[r]]
  <2>1. file' = [file EXCEPT !.notes = notes]
    BY <1>2
  <2> HIDE DEF notes
  <2>2. IsDoc(file') /\ file'.nodes = file.nodes /\ file'.top = file.top /\ file'.notes = notes
    BY <2>1 DEF DocInv, IsDoc
  <2> QED BY <2>2 DEF notes
<1>3. <<"", t>>[2] = t
  OBVIOUS
<1>4. /\ t \notin authored \cup AllTexts(file)
      /\ authored' = authored \cup {t} /\ UNCHANGED <<object, encoding, taken, carried>>
      /\ \/ \E s \in Slots(file.nodes) \ DOMAIN file.notes :
              file' = [file EXCEPT !.notes = [r \in DOMAIN @ \cup {s} |-> IF r = s THEN t ELSE @[r]]]
         \/ \E e : e[2] = t /\ file' = [file EXCEPT !.top = @ \cup {e}]
  BY <1>3 DEF AddComment
<1> QED BY <1>1, <1>2, <1>4

LEMMA RemoveParts ==
  ASSUME DocInv, NEW s \in DOMAIN file.notes, RemoveComment(s)
  PROVE  /\ authored' = authored \ {file.notes[s]} /\ UNCHANGED <<object, encoding, taken, carried>>
         /\ IsDoc(file') /\ file'.nodes = file.nodes /\ file'.top = file.top
         /\ file'.notes = [r \in DOMAIN file.notes \ {s} |-> file.notes[r]]
<1> DEFINE notes == [r \in DOMAIN file.notes \ {s} |-> file.notes[r]]
<1>1. file' = [file EXCEPT !.notes = notes]
  BY DEF RemoveComment
<1> HIDE DEF notes
<1>2. IsDoc(file') /\ file'.nodes = file.nodes /\ file'.top = file.top /\ file'.notes = notes
  BY <1>1 DEF DocInv, IsDoc
<1> QED BY <1>2 DEF notes, RemoveComment

LEMMA DecodeParts ==
  ASSUME NEW preserve \in BOOLEAN, Decode(preserve)
  PROVE  /\ UNCHANGED <<file, encoding, taken, authored, edits>> /\ ~encoding
         /\ IsObject(object') /\ object'.nodes = file.nodes
         /\ object'.source = carried' /\ carried' \in {file, None}
  BY DEF Decode, IsObject, Idle

LEMMA ChangeParts ==
  ASSUME DocInv, NEW nodes, Change(nodes)
  PROVE  /\ UNCHANGED <<file, encoding, taken, carried, authored, edits>> /\ object # None
         /\ IsObject(object') /\ object'.nodes = nodes /\ object'.source = object.source
  BY DEF Change, DocInv, IsObject

LEMMA MoveParts ==
  ASSUME DocInv, NEW from, NEW to, SetCommentSource(from, to)
  PROVE  /\ UNCHANGED <<file, encoding, taken, authored, edits>> /\ ~encoding
         /\ Annotated /\ object # None /\ object.source = carried
         /\ IsObject(object') /\ object'.nodes = MoveNodes(object.nodes, from, to)
         /\ object'.source = carried' /\ IsDoc(carried')
         /\ carried'.nodes = MoveNodes(carried.nodes, from, to)
         /\ carried'.notes = MoveNotes(carried.notes, from, to)
         /\ carried'.top = carried.top
<1> DEFINE N == MoveNodes(object.source.nodes, from, to)
           C == MoveNotes(object.source.notes, from, to)
           D == MoveNodes(object.nodes, from, to)
<1>1. /\ object' = [nodes |-> D, source |-> [object.source EXCEPT !.nodes = N, !.notes = C]]
      /\ carried' = object'.source
  BY DEF SetCommentSource
<1>2. Annotated /\ object # None /\ object.source = carried /\ IsDoc(carried) /\ ~encoding
  BY DEF SetCommentSource, Annotated, DocInv, Idle
<1> HIDE DEF N, C, D
<1>3. /\ IsObject(object') /\ object'.nodes = D
      /\ object'.source = [object.source EXCEPT !.nodes = N, !.notes = C]
  BY <1>1 DEF IsObject
<1>4. LET e == [carried EXCEPT !.nodes = N, !.notes = C] IN
        IsDoc(e) /\ e.nodes = N /\ e.notes = C /\ e.top = carried.top
  BY <1>2 DEF IsDoc
<1>5. UNCHANGED <<file, encoding, taken, authored, edits>>
  BY DEF SetCommentSource
<1> QED BY <1>1, <1>2, <1>3, <1>4, <1>5 DEF N, C, D

\* The document that the object is encoded to.
Encoded == normalEncode(object)

LEMMA EncodedParts ==
  /\ IsDoc(Encoded) /\ Encoded.nodes = object.nodes
  /\ Encoded.notes = <<>> /\ Encoded.top = {}
  BY TreeParts DEF Encoded, normalEncode

LEMMA PreserveParts ==
  ASSUME DocInv, EncodePreserving
  PROVE  /\ object # None /\ UNCHANGED <<carried, edits>>
         /\ \/ ~Annotated /\ file' = Encoded /\ authored' = {}
            \/ /\ Annotated /\ ~CopyFails(carried, Encoded)
               /\ file' = CopyComments(carried, Encoded)
               /\ authored' = Due(carried, Encoded)
<1>1. object # None /\ UNCHANGED <<carried, edits>> /\ taken = carried
  BY EncodingParts DEF EncodePreserving
<1> QED BY <1>1 DEF EncodePreserving, Encoded, Annotated

\* An encoding, whatever becomes of the file.
LEMMA DocEncoded ==
  ASSUME NEW ok, Encoding(ok), DocInv, IsDoc(file')
  PROVE  DocInv'
  BY EncodingParts DEF DocInv, Annotated

LEMMA DocNext == DocInv /\ [Next]_vars => DocInv'
<1> SUFFICES ASSUME DocInv, [Next]_vars PROVE DocInv'
  OBVIOUS
<1>1. ASSUME NEW t \in Texts, AddComment(t) PROVE DocInv'
  BY <1>1, AddParts DEF DocInv, Annotated
<1>2. ASSUME NEW s \in DOMAIN file.notes, RemoveComment(s) PROVE DocInv'
  BY <1>2, RemoveParts DEF DocInv, Annotated
<1>3. ASSUME NEW preserve \in BOOLEAN, Decode(preserve) PROVE DocInv'
  BY <1>3, DecodeParts DEF DocInv, Annotated
<1>4. ASSUME NEW nodes \in Shapes, Change(nodes) PROVE DocInv'
  BY <1>4, ChangeParts DEF DocInv, Annotated
<1>5. ASSUME NEW from, NEW to, SetCommentSource(from, to) PROVE DocInv'
  BY <1>5, MoveParts DEF DocInv, Annotated
<1>6. CASE EncodePlain
  BY <1>6, DocEncoded, EncodedParts DEF EncodePlain, Encoded
<1>7. CASE EncodePreserving
  <2>1. IsDoc(CopyComments(carried, Encoded)) /\ IsDoc(Encoded)
    BY EncodedParts, CopyParts
  <2>2. IsDoc(file')
    BY <1>7, <2>1, PreserveParts
  <2> QED BY <1>7, <2>2, DocEncoded DEF EncodePreserving
<1>8. CASE EncodeElsewhere \/ EncodeFails
  <2>1. IsDoc(file')
    BY <1>8 DEF EncodeElsewhere, EncodeFails, DocInv
  <2> QED BY <1>8, <2>1, DocEncoded DEF EncodeElsewhere, EncodeFails
<1>9. CASE deleteAnnotation
  BY <1>9, BeginParts DEF DocInv, Annotated
<1>10. CASE UNCHANGED vars
  BY <1>10 DEF DocInv, Annotated, vars
<1> QED BY <1>1, <1>2, <1>3, <1>4, <1>5, <1>6, <1>7, <1>8, <1>9, <1>10 DEF Next

LEMMA DocInit == Init => DocInv
<1> SUFFICES ASSUME Init PROVE DocInv
  OBVIOUS
<1>1. PICK nodes \in Shapes : file = Tree(nodes, <<>>, {})
  BY DEF Init
<1>2. IsDoc(file)
  BY <1>1, TreeParts
<1> QED BY <1>2 DEF Init, DocInv, Annotated

-----------------------------------------------------------------------------
(***************************************************************************)
(* CommentsKept.                                                           *)
(***************************************************************************)
\* The slots whose comments are not in the new document.
Missed(from, to) == ItemSlots(from, to) \cup HiddenSlots(from, to)

\* A comment of the original document is copied, remembered at the top of the new
\* one, that of an item of a list that is not what it was, or hidden by the one
\* behind the key of a field that is gone.
LEMMA CopyKeeps ==
  ASSUME NEW from, NEW to, IsDoc(to)
  PROVE  AllTexts(from) \ {from.notes[s] : s \in Missed(from, to)}
           \subseteq AllTexts(CopyComments(from, to))
<1> DEFINE d == CopyComments(from, to)
<1>1. /\ d.notes = [s \in copyFieldComments(from, to) |-> from.notes[s]]
      /\ d.top = from.top \cup rememberLostComments(from, to)
  BY CopyParts
<1> HIDE DEF d
<1>2. ASSUME NEW s \in DOMAIN from.notes, s \notin Missed(from, to)
      PROVE  from.notes[s] \in AllTexts(d)
  <2>1. CASE s \in copyFieldComments(from, to)
    BY <1>1, <2>1 DEF AllTexts, Range
  <2>2. CASE s \in LostSlots(from, to)
    <3>1. s \notin HiddenSlots(from, to)
      BY <1>2 DEF Missed
    <3>2. <<Last(s[1]), from.notes[s]>> \in d.top
      BY <1>1, <2>2, <3>1 DEF rememberLostComments
    <3> QED BY <3>2 DEF AllTexts
  <2>3. s[1] \in Walked(from) \cup SameItems(from, to)
    BY <1>2 DEF Missed, ItemSlots
  <2> QED BY <1>2, <2>1, <2>2, <2>3 DEF copyFieldComments, LostSlots
<1>3. ASSUME NEW e \in from.top PROVE e[2] \in AllTexts(d)
  BY <1>1 DEF AllTexts
<1>4. AllTexts(from) \ {from.notes[s] : s \in Missed(from, to)} \subseteq AllTexts(d)
  BY <1>2, <1>3 DEF AllTexts, Range
<1> QED BY <1>4 DEF d

LEMMA KeptNext ==
  ASSUME DocInv, CommentsKept, [Next]_vars
  PROVE  CommentsKept'
<1> USE DEF CommentsKept
<1>1. ASSUME NEW t \in Texts, AddComment(t) PROVE CommentsKept'
  <2>1. authored' = authored \cup {t}
    BY <1>1, AddParts
  <2>2. ASSUME NEW e, e[2] = t, file'.notes = file.notes, file'.top = file.top \cup {e}
        PROVE  CommentsKept'
    <3>1. AllTexts(file) \subseteq AllTexts(file') /\ t \in AllTexts(file')
      BY <2>2 DEF AllTexts, Range
    <3> QED BY <2>1, <3>1
  <2>3. ASSUME NEW s \in Slots(file.nodes) \ DOMAIN file.notes, file'.top = file.top,
               file'.notes = [r \in DOMAIN file.notes \cup {s} |-> IF r = s THEN t ELSE file.notes[r]]
        PROVE  CommentsKept'
    <3>1. /\ DOMAIN file'.notes = DOMAIN file.notes \cup {s}
          /\ file'.notes[s] = t /\ \A r \in DOMAIN file.notes : file'.notes[r] = file.notes[r]
      BY <2>3
    <3>2. AllTexts(file) \subseteq AllTexts(file') /\ t \in AllTexts(file')
      BY <2>3, <3>1 DEF AllTexts, Range
    <3> QED BY <2>1, <3>2
  <2> QED BY <1>1, <2>2, <2>3, AddParts
<1>2. ASSUME NEW s \in DOMAIN file.notes, RemoveComment(s) PROVE CommentsKept'
  <2>1. /\ authored' = authored \ {file.notes[s]} /\ file'.top = file.top
        /\ DOMAIN file'.notes = DOMAIN file.notes \ {s}
        /\ \A r \in DOMAIN file.notes \ {s} : file'.notes[r] = file.notes[r]
    BY <1>2, RemoveParts
  <2>2. AllTexts(file) \ {file.notes[s]} \subseteq AllTexts(file')
    BY <2>1 DEF AllTexts, Range
  <2> QED BY <2>1, <2>2
<1>3. CASE EncodePreserving
  <2>1. Due(carried, Encoded) \subseteq AllTexts(CopyComments(carried, Encoded))
    BY EncodedParts, CopyKeeps DEF Due, Missed
  <2> QED BY <1>3, <2>1, PreserveParts
<1>4. CASE EncodePlain
  BY <1>4 DEF EncodePlain
<1>5. ASSUME UNCHANGED <<file, authored>> PROVE CommentsKept'
  BY <1>5
<1> QED BY <1>1, <1>2, <1>3, <1>4, <1>5
       DEF Next, Decode, Change, SetCommentSource, deleteAnnotation, EncodeElsewhere,
           EncodeFails, vars

\* Over any number of cycles of decoding, changing and encoding, in which fields come,
\* go and move and encodings fail, a comment of the author stays somewhere in the file,
\* with two exceptions that Due names: a comment of an item of a list that changes, and
\* one above or below a map or a list that is gone and had a comment behind its key
\* (CopyComments, and rememberLostComments with its break).
THEOREM DueCommentsKept == Spec => []CommentsKept
<1>1. Init => DocInv /\ CommentsKept
  BY DocInit DEF Init, CommentsKept
<1>2. DocInv /\ CommentsKept /\ [Next]_vars => CommentsKept'
  BY KeptNext
<1> QED BY <1>1, <1>2, DocNext, PTL DEF Spec

-----------------------------------------------------------------------------
(***************************************************************************)
(* CommentsOnce, of the file and of the document that the object holds.    *)
(***************************************************************************)
Once(d) ==
  /\ \A s, t \in DOMAIN d.notes : d.notes[s] = d.notes[t] => s = t
  /\ \A a, b \in d.top : a[2] = b[2] => a = b
  /\ \A s \in DOMAIN d.notes, e \in d.top : d.notes[s] # e[2]

OnceInv == Once(file) /\ (Annotated => Once(carried))

\* A slot is copied or remembered, and not both.
LEMMA CopyOnce ==
  ASSUME NEW from, NEW to, IsDoc(to), Once(from)
  PROVE  Once(CopyComments(from, to))
<1> DEFINE d == CopyComments(from, to)
<1>1. /\ d.notes = [s \in copyFieldComments(from, to) |-> from.notes[s]]
      /\ d.top = from.top \cup rememberLostComments(from, to)
  BY CopyParts
<1> HIDE DEF d
<1>2. /\ DOMAIN d.notes = copyFieldComments(from, to)
      /\ \A s \in copyFieldComments(from, to) : d.notes[s] = from.notes[s]
  BY <1>1
<1>3. \A s \in copyFieldComments(from, to) : s \in DOMAIN from.notes /\ s[1] \in DOMAIN to.nodes
  BY DEF copyFieldComments, SameItems
<1>4. \A e \in rememberLostComments(from, to) :
        \E s \in DOMAIN from.notes :
          e = <<Last(s[1]), from.notes[s]>> /\ e[2] = from.notes[s] /\ s[1] \notin DOMAIN to.nodes
  BY DEF rememberLostComments, LostSlots
<1>5. \A s, t \in DOMAIN d.notes : d.notes[s] = d.notes[t] => s = t
  BY <1>2, <1>3 DEF Once
<1>6. ASSUME NEW a \in d.top, NEW b \in d.top, a[2] = b[2] PROVE a = b
  <2>1. CASE a \in from.top /\ b \in from.top
    BY <1>6, <2>1 DEF Once
  <2>2. CASE a \in rememberLostComments(from, to) /\ b \in rememberLostComments(from, to)
    BY <1>4, <1>6, <2>2 DEF Once
  <2>3. CASE \/ a \in rememberLostComments(from, to) /\ b \in from.top
             \/ b \in rememberLostComments(from, to) /\ a \in from.top
    BY <1>4, <1>6, <2>3 DEF Once
  <2> QED BY <1>1, <1>6, <2>1, <2>2, <2>3
<1>7. ASSUME NEW s \in DOMAIN d.notes, NEW e \in d.top PROVE d.notes[s] # e[2]
  <2>1. CASE e \in from.top
    BY <1>2, <1>3, <2>1 DEF Once
  <2>2. CASE e \in rememberLostComments(from, to)
    <3>1. PICK t \in DOMAIN from.notes : e[2] = from.notes[t] /\ t[1] \notin DOMAIN to.nodes
      BY <1>4, <2>2
    <3>2. s # t /\ s \in DOMAIN from.notes
      BY <1>2, <1>3, <3>1
    <3> QED BY <1>2, <3>1, <3>2 DEF Once
  <2> QED BY <1>1, <2>1, <2>2
<1> QED BY <1>5, <1>6, <1>7 DEF Once, d

\* A comment that moves is that of the slot it comes from.
LEMMA MoveNotesParts ==
  ASSUME NEW notes, NEW from, NEW to
  PROVE  LET moved == MoveNotes(notes, from, to) IN
           \A r \in DOMAIN moved :
             \E s \in DOMAIN notes :
               r = <<Rename(s[1], from, to), s[2]>> /\ moved[r] = notes[s]
<1> DEFINE New(s) == <<Rename(s[1], from, to), s[2]>>
           moved == MoveNotes(notes, from, to)
           Old(r) == CHOOSE s \in DOMAIN notes : New(s) = r
<1>1. moved = [r \in {New(s) : s \in DOMAIN notes} |-> notes[Old(r)]]
  BY DEF MoveNotes
<1>2. ASSUME NEW r \in DOMAIN moved
      PROVE  Old(r) \in DOMAIN notes /\ r = New(Old(r)) /\ moved[r] = notes[Old(r)]
  <2>1. \E s \in DOMAIN notes : New(s) = r
    BY <1>1, <1>2
  <2>2. moved[r] = notes[Old(r)]
    BY <1>1, <1>2
  <2> HIDE DEF New
  <2> QED BY <2>1, <2>2
<1> QED BY <1>2

LEMMA OnceNext ==
  ASSUME DocInv, OnceInv, [Next]_vars
  PROVE  OnceInv'
<1>1. ASSUME NEW t \in Texts, AddComment(t) PROVE OnceInv'
  <2>1. t \notin AllTexts(file) /\ UNCHANGED <<object, carried>>
    BY <1>1, AddParts
  <2>2. /\ \A s \in DOMAIN file.notes : file.notes[s] # t
        /\ \A e \in file.top : e[2] # t
    BY <2>1 DEF AllTexts, Range
  <2>3. ASSUME NEW e, e[2] = t, file'.notes = file.notes, file'.top = file.top \cup {e}
        PROVE  Once(file')
    BY <2>2, <2>3 DEF OnceInv, Once
  <2>4. ASSUME NEW s \in Slots(file.nodes) \ DOMAIN file.notes, file'.top = file.top,
               file'.notes = [r \in DOMAIN file.notes \cup {s} |-> IF r = s THEN t ELSE file.notes[r]]
        PROVE  Once(file')
    <3>1. /\ DOMAIN file'.notes = DOMAIN file.notes \cup {s}
          /\ file'.notes[s] = t /\ \A r \in DOMAIN file.notes : file'.notes[r] = file.notes[r]
      BY <2>4
    <3> QED BY <2>2, <2>4, <3>1 DEF OnceInv, Once
  <2>5. Once(file')
    BY <1>1, <2>3, <2>4, AddParts
  <2> QED BY <2>1, <2>5 DEF OnceInv, Once, Annotated
<1>2. ASSUME NEW s \in DOMAIN file.notes, RemoveComment(s) PROVE OnceInv'
  <2>1. /\ UNCHANGED <<object, carried>> /\ file'.top = file.top
        /\ DOMAIN file'.notes = DOMAIN file.notes \ {s}
        /\ \A r \in DOMAIN file.notes \ {s} : file'.notes[r] = file.notes[r]
    BY <1>2, RemoveParts
  <2>2. Once(file')
    BY <2>1 DEF OnceInv, Once
  <2> QED BY <2>1, <2>2 DEF OnceInv, Once, Annotated
<1>3. ASSUME NEW preserve \in BOOLEAN, Decode(preserve) PROVE OnceInv'
  BY <1>3, DecodeParts DEF OnceInv, Once, Annotated
<1>4. ASSUME NEW nodes \in Shapes, Change(nodes) PROVE OnceInv'
  BY <1>4, ChangeParts DEF OnceInv, Once, Annotated
<1>5. ASSUME NEW from, NEW to, SetCommentSource(from, to) PROVE OnceInv'
  <2> DEFINE old == carried
             new == carried'
  <2>1. /\ UNCHANGED file /\ Annotated /\ new.top = old.top
        /\ new.notes = MoveNotes(old.notes, from, to)
    BY <1>5, MoveParts
  <2>2. \A r \in DOMAIN new.notes :
           \E s \in DOMAIN old.notes :
             r = <<Rename(s[1], from, to), s[2]>> /\ new.notes[r] = old.notes[s]
    BY <2>1, MoveNotesParts
  <2>3. Once(old)
    BY <2>1 DEF OnceInv
  <2> HIDE DEF old, new
  <2>4. Once(new)
    BY <2>1, <2>2, <2>3 DEF Once
  <2> QED BY <2>1, <2>4 DEF OnceInv, Once, new
<1>6. CASE EncodePlain
  <2>1. UNCHANGED carried /\ file' = Encoded
    BY <1>6, EncodingParts DEF EncodePlain, Encoded
  <2>2. Once(Encoded)
    BY EncodedParts DEF Once
  <2> QED BY <2>1, <2>2 DEF OnceInv, Once, Annotated
<1>7. CASE EncodePreserving
  <2>1. CASE file' = Encoded /\ UNCHANGED carried
    <3>1. Once(Encoded)
      BY EncodedParts DEF Once
    <3> QED BY <2>1, <3>1 DEF OnceInv, Once, Annotated
  <2>2. CASE Annotated /\ file' = CopyComments(carried, Encoded) /\ UNCHANGED carried
    <3>1. Once(CopyComments(carried, Encoded))
      BY <2>2, EncodedParts, CopyOnce DEF OnceInv
    <3> QED BY <2>2, <3>1 DEF OnceInv, Once, Annotated
  <2> QED BY <1>7, <2>1, <2>2, PreserveParts
<1>8. CASE EncodeElsewhere \/ EncodeFails \/ deleteAnnotation \/ UNCHANGED vars
  <2>1. UNCHANGED <<file, carried>>
    BY <1>8, EncodingParts DEF EncodeElsewhere, EncodeFails, deleteAnnotation, vars
  <2> QED BY <2>1 DEF OnceInv, Once, Annotated
<1> QED BY <1>1, <1>2, <1>3, <1>4, <1>5, <1>6, <1>7, <1>8 DEF Next

\* A comment of the file is in one place, however often fields go and come back:
\* what is copied is not remembered at the top as well, and what is remembered is
\* not there already (copyFieldComments, rememberLostComments).
THEOREM CommentsInOnePlace == Spec => []CommentsOnce
<1>1. Init => DocInv /\ OnceInv
  <2> SUFFICES ASSUME Init PROVE OnceInv
    BY DocInit
  <2>1. PICK nodes \in Shapes : file = Tree(nodes, <<>>, {})
    BY DEF Init
  <2>2. file.notes = <<>> /\ file.top = {}
    BY <2>1, TreeParts
  <2> QED BY <2>2 DEF Init, OnceInv, Once, Annotated
<1>2. DocInv /\ OnceInv /\ [Next]_vars => OnceInv'
  BY OnceNext
<1>3. OnceInv => CommentsOnce
  BY DEF OnceInv, Once, CommentsOnce, Range
<1> QED BY <1>1, <1>2, <1>3, DocNext, PTL DEF Spec

-----------------------------------------------------------------------------
(***************************************************************************)
(* Paths, and what Rename does to them.                                    *)
(***************************************************************************)
Paths == Seq(STRING) \ {<<>>}

\* A set of natural numbers that is not empty has a least element.
LEMMA LeastNatural ==
  ASSUME NEW T \in SUBSET Nat, T # {}
  PROVE  \E x \in T : \A y \in T : x <= y
<1> DEFINE R == OpToRel(<, Nat)
<1>1. IsWellFoundedOn(R, Nat)
  BY NatLessThanWellFounded
<1> HIDE DEF R
<1>2. PICK x \in T : \A y \in T : ~(<<y, x>> \in R)
  BY <1>1, WFMin
<1>3. \A y \in T : y < x => <<y, x>> \in R
  BY DEF R, OpToRel
<1>4. SUFFICES ASSUME NEW y \in T PROVE x <= y
  OBVIOUS
<1>5. x \in Nat /\ y \in Nat /\ ~(y < x)
  BY <1>2, <1>3
<1> QED BY <1>5

LEMMA PrefixPoints ==
  ASSUME NEW S, NEW s \in Seq(S), NEW t \in Seq(S)
  PROVE  IsPrefix(s, t) <=> Len(s) <= Len(t) /\ \A i \in 1 .. Len(s) : s[i] = t[i]
<1>1. SubSeq(s, 1, Len(s)) = s
  BY SubSeqFull
<1>2. ASSUME Len(s) <= Len(t)
      PROVE  /\ SubSeq(t, 1, Len(s)) \in Seq(S) /\ Len(SubSeq(t, 1, Len(s))) = Len(s)
             /\ \A i \in 1 .. Len(s) : SubSeq(t, 1, Len(s))[i] = t[i]
  BY <1>2
<1>3. ASSUME Len(s) <= Len(t), \A i \in 1 .. Len(s) : s[i] = t[i]
      PROVE  s = SubSeq(t, 1, Len(s))
  BY <1>2, <1>3, SeqEqual
<1> QED BY <1>1, <1>2, <1>3 DEF IsPrefix

LEMMA FrontParts ==
  ASSUME NEW S, NEW p \in Seq(S), p # <<>>
  PROVE  /\ Front(p) \in Seq(S) /\ Len(p) \in Nat \ {0} /\ Len(Front(p)) = Len(p) - 1
         /\ \A i \in 1 .. Len(p) - 1 : Front(p)[i] = p[i]
<1>1. Len(p) \in Nat \ {0} /\ \A i \in 1 .. Len(p) : p[i] \in S
  BY EmptySeq, ElementOfSeq
<1> DEFINE n == Len(p) - 1
<1>2. n \in Int /\ 1 \in Int /\ (\A i \in 1 .. n : p[i] \in S)
  BY <1>1
<1> HIDE DEF n
<1>3. /\ SubSeq(p, 1, n) \in Seq(S) /\ Len(SubSeq(p, 1, n)) = IF 1 <= n THEN n - 1 + 1 ELSE 0
      /\ \A i \in 1 .. n - 1 + 1 : SubSeq(p, 1, n)[i] = p[1 + i - 1]
  BY <1>2, SubSeqProperties
<1>4. \A i \in 1 .. n : SubSeq(p, 1, n)[i] = p[i]
  <2> TAKE i \in 1 .. n
  <2>1. i \in 1 .. n - 1 + 1 /\ 1 + i - 1 = i
    BY <1>2
  <2> QED BY <1>3, <2>1
<1>5. n \in Nat
  BY <1>1 DEF n
<1>6. (IF 1 <= n THEN n - 1 + 1 ELSE 0) = n
  BY <1>5
<1>7. Len(SubSeq(p, 1, n)) = n
  BY <1>3, <1>6
<1>8. Front(p) = SubSeq(p, 1, n) /\ n = Len(p) - 1
  BY DEF Front, n
<1> QED BY <1>1, <1>3, <1>4, <1>7, <1>8

LEMMA RenameOutside ==
  ASSUME NEW p, NEW from, NEW to, ~IsPrefix(from, p)
  PROVE  Rename(p, from, to) = p
  BY DEF Rename

\* A path under from keeps what follows from: q is to, then the rest of p.
IsMoved(p, from, to, q, n) ==
  /\ n \in Nat /\ n = Len(p) - Len(from) /\ Len(q) = Len(to) + n
  /\ \A i \in 1 .. Len(to) : q[i] = to[i]
  /\ \A i \in 1 .. n : q[Len(to) + i] = p[Len(from) + i]

LEMMA RenameUnder ==
  ASSUME NEW S, NEW p \in Seq(S), NEW from \in Seq(S), NEW to \in Seq(S), IsPrefix(from, p)
  PROVE  /\ Rename(p, from, to) \in Seq(S)
         /\ IsMoved(p, from, to, Rename(p, from, to), Len(p) - Len(from))
<1> DEFINE rest == SubSeq(p, Len(from) + 1, Len(p))
           q == to \o rest
           n == Len(p) - Len(from)
           m == Len(to)
<1>1. Len(from) <= Len(p) /\ Len(from) \in Nat /\ Len(p) \in Nat
  BY DEF IsPrefix
<1>2. /\ rest \in Seq(S) /\ Len(rest) = n
      /\ \A i \in 1 .. n : rest[i] = p[Len(from) + i]
  <2>1. \A i \in Len(from) + 1 .. Len(p) : p[i] \in S
    BY <1>1, ElementOfSeq
  <2> QED BY <1>1, <2>1, SubSeqProperties
<1>3. n \in Nat /\ m \in Nat
  BY <1>1
<1> HIDE DEF rest, n, m
<1>4. /\ q \in Seq(S) /\ Len(q) = m + n
      /\ \A i \in 1 .. m + n : q[i] = IF i <= m THEN to[i] ELSE rest[i - m]
  BY <1>2, ConcatProperties DEF m
<1>5. Rename(p, from, to) = q
  BY DEF Rename, rest
<1> HIDE DEF q
<1>6. ASSUME NEW i \in 1 .. m PROVE q[i] = to[i]
  <2>1. i \in 1 .. m + n /\ i <= m
    BY <1>3
  <2> QED BY <1>4, <2>1
<1>7. ASSUME NEW i \in 1 .. n PROVE q[m + i] = p[Len(from) + i]
  <2>1. m + i \in 1 .. m + n /\ ~(m + i <= m) /\ (m + i) - m = i
    BY <1>3
  <2>2. q[m + i] = rest[(m + i) - m]
    BY <1>4, <2>1
  <2> QED BY <1>2, <2>1, <2>2
<1> QED BY <1>3, <1>4, <1>5, <1>6, <1>7 DEF IsMoved, m, n

LEMMA RenameFrom ==
  ASSUME NEW S, NEW from \in Seq(S), NEW to \in Seq(S)
  PROVE  Rename(from, from, to) = to
<1>1. IsPrefix(from, from)
  BY PrefixPoints
<1> DEFINE q == Rename(from, from, to)
<1>2. q \in Seq(S) /\ IsMoved(from, from, to, q, Len(from) - Len(from))
  BY <1>1, RenameUnder
<1> HIDE DEF q
<1>3. q \in Seq(S) /\ Len(q) = Len(to) /\ \A i \in 1 .. Len(to) : q[i] = to[i]
  BY <1>2 DEF IsMoved
<1>4. q = to
  BY <1>3, SeqEqual
<1> QED BY <1>4 DEF q

LEMMA RenameFront ==
  ASSUME NEW S, NEW p \in Seq(S), NEW from \in Seq(S), NEW to \in Seq(S),
         IsPrefix(from, p), p # from
  PROVE  /\ p # <<>> /\ IsPrefix(from, Front(p))
         /\ Len(Front(p)) >= Len(from)
         /\ Front(Rename(p, from, to)) = Rename(Front(p), from, to)
<1>1. /\ Len(from) <= Len(p) /\ \A i \in 1 .. Len(from) : from[i] = p[i]
      /\ Len(from) \in Nat /\ Len(p) \in Nat /\ Len(to) \in Nat
  BY PrefixPoints
<1>2. Len(from) < Len(p)
  BY <1>1, SeqEqual
<1>3. p # <<>>
  BY <1>1, <1>2, EmptySeq
<1>4. /\ Front(p) \in Seq(S) /\ Len(Front(p)) = Len(p) - 1
      /\ \A i \in 1 .. Len(p) - 1 : Front(p)[i] = p[i]
  BY <1>3, FrontParts
<1>5. IsPrefix(from, Front(p))
  BY <1>1, <1>2, <1>4, PrefixPoints
<1> DEFINE q == Rename(p, from, to)
           r == Rename(Front(p), from, to)
           m == Len(to)
           n == Len(p) - Len(from)
           k == Len(Front(p)) - Len(from)
<1>6. q \in Seq(S) /\ IsMoved(p, from, to, q, n)
  BY RenameUnder
<1>7. r \in Seq(S) /\ IsMoved(Front(p), from, to, r, k)
  BY <1>4, <1>5, RenameUnder
<1>8. k = n - 1 /\ m \in Nat /\ n = Len(p) - Len(from)
  BY <1>1, <1>4
<1> HIDE DEF q, r, n, k
<1>9. /\ n \in Nat /\ Len(q) = m + n
      /\ \A i \in 1 .. m : q[i] = to[i]
      /\ \A i \in 1 .. n : q[m + i] = p[Len(from) + i]
  BY <1>6 DEF IsMoved
<1>10. /\ k \in Nat /\ Len(r) = m + k
       /\ \A i \in 1 .. m : r[i] = to[i]
       /\ \A i \in 1 .. k : r[m + i] = Front(p)[Len(from) + i]
  BY <1>7 DEF IsMoved
<1> HIDE DEF m
<1>11. q # <<>>
  BY <1>8, <1>9, <1>10, EmptySeq
<1>12. /\ Front(q) \in Seq(S) /\ Len(Front(q)) = Len(q) - 1
       /\ \A i \in 1 .. Len(q) - 1 : Front(q)[i] = q[i]
  BY <1>6, <1>11, FrontParts
<1>13. ASSUME NEW i \in 1 .. m + k PROVE Front(q)[i] = r[i]
  <2>1. i \in 1 .. Len(q) - 1
    BY <1>8, <1>9, <1>10
  <2>2. Front(q)[i] = q[i]
    BY <1>12, <2>1
  <2>3. CASE i \in 1 .. m
    BY <1>9, <1>10, <2>2, <2>3
  <2>4. CASE i \notin 1 .. m
    <3> DEFINE j == i - m
    <3>1. j \in 1 .. k /\ j \in 1 .. n /\ i = m + j
      BY <1>8, <1>9, <1>10, <2>4
    <3>2. Len(from) + j \in 1 .. Len(p) - 1
      BY <1>1, <1>8, <3>1
    <3> HIDE DEF j
    <3>3. r[i] = Front(p)[Len(from) + j] /\ q[i] = p[Len(from) + j]
      BY <1>9, <1>10, <3>1
    <3>4. Front(p)[Len(from) + j] = p[Len(from) + j]
      BY <1>4, <3>2
    <3> QED BY <2>2, <3>3, <3>4
  <2> QED BY <2>3, <2>4
<1>14. Len(q) - 1 = m + k
  BY <1>8, <1>9, <1>10
<1>15. Len(Front(q)) = m + k
  BY <1>12, <1>14
<1>16. Front(q) = r
  BY <1>7, <1>10, <1>12, <1>13, <1>15, SeqEqual
<1> QED BY <1>1, <1>2, <1>3, <1>4, <1>5, <1>16 DEF q, r

\* What follows from tells the paths under it apart.
LEMMA RenameSame ==
  ASSUME NEW S, NEW p \in Seq(S), NEW q \in Seq(S), NEW from \in Seq(S), NEW to \in Seq(S),
         IsPrefix(from, p), IsPrefix(from, q), Rename(p, from, to) = Rename(q, from, to)
  PROVE  p = q
<1> DEFINE r == Rename(p, from, to)
           l == Len(from)
<1>1. IsMoved(p, from, to, r, Len(p) - l) /\ IsMoved(q, from, to, r, Len(q) - l)
  BY RenameUnder
<1>2. /\ l \in Nat /\ Len(p) \in Nat /\ Len(q) \in Nat /\ l <= Len(p) /\ l <= Len(q)
      /\ \A i \in 1 .. l : from[i] = p[i]
      /\ \A i \in 1 .. l : from[i] = q[i]
  BY PrefixPoints
<1> HIDE DEF r
<1>3. Len(p) = Len(q)
  BY <1>1, <1>2 DEF IsMoved
<1>4. ASSUME NEW i \in 1 .. Len(p) PROVE p[i] = q[i]
  <2>1. CASE i \in 1 .. l
    BY <1>2, <2>1
  <2>2. CASE i \notin 1 .. l
    <3> DEFINE j == i - l
    <3>1. j \in 1 .. Len(p) - l /\ j \in 1 .. Len(q) - l /\ i = l + j
      BY <1>2, <1>3, <2>2
    <3> HIDE DEF j
    <3>2. p[l + j] = r[Len(to) + j] /\ q[l + j] = r[Len(to) + j]
      BY <1>1, <3>1 DEF IsMoved
    <3> QED BY <3>1, <3>2
  <2> QED BY <2>1, <2>2
<1> QED BY <1>3, <1>4, SeqEqual

\* The paths of a tree are closed under Front.
IsClosed(paths) ==
  /\ paths \subseteq Paths
  /\ \A p \in paths : Len(p) > 1 => Front(p) \in paths

LEMMA PrefixesIn ==
  ASSUME NEW paths, IsClosed(paths), NEW to \in Paths, NEW q \in paths, IsPrefix(to, q)
  PROVE  to \in paths
<1> DEFINE under == {x \in paths : IsPrefix(to, x)}
           lengths == {Len(x) : x \in under}
<1>1. \A x \in paths : x \in Seq(STRING) /\ Len(x) \in Nat
  BY DEF IsClosed, Paths
<1>2. q \in under
  OBVIOUS
<1>3. lengths \in SUBSET Nat /\ lengths # {}
  BY <1>1, <1>2
<1> HIDE DEF lengths
<1>4. PICK n \in lengths : \A m \in lengths : n <= m
  BY <1>3, LeastNatural
<1>5. PICK x \in under : n = Len(x)
  BY <1>4 DEF lengths
<1>6. CASE x = to
  BY <1>5, <1>6
<1>7. CASE x # to
  <2>1. /\ to \in Seq(STRING) /\ x \in Seq(STRING) /\ IsPrefix(to, x) /\ Len(to) \in Nat \ {0}
    BY <1>1, <1>5, EmptySeq DEF Paths
  <2>2. IsPrefix(to, Front(x)) /\ x # <<>> /\ Len(Front(x)) >= Len(to)
    BY <1>7, <2>1, RenameFront
  <2>3. Len(Front(x)) = Len(x) - 1 /\ Len(x) \in Nat
    BY <2>1, <2>2, FrontParts
  <2>4. Front(x) \in paths
    BY <1>5, <2>1, <2>2, <2>3 DEF IsClosed
  <2>5. Len(Front(x)) \in lengths
    BY <2>2, <2>4 DEF lengths
  <2> QED BY <1>4, <1>5, <2>3, <2>5
<1> QED BY <1>6, <1>7

\* Where nothing is at to or under it, two paths are not renamed to one.
LEMMA RenameInjective ==
  ASSUME NEW paths, IsClosed(paths), NEW from \in Paths, NEW to \in Paths \ paths,
         NEW p \in paths, NEW q \in paths, Rename(p, from, to) = Rename(q, from, to)
  PROVE  p = q
<1>1. from \in Seq(STRING) /\ to \in Seq(STRING) /\ \A x \in paths : x \in Seq(STRING)
  BY DEF IsClosed, Paths
<1>2. ASSUME NEW x \in paths, NEW y \in paths, IsPrefix(from, x), ~IsPrefix(from, y),
             Rename(x, from, to) = Rename(y, from, to)
      PROVE  FALSE
  <2>1. Rename(x, from, to) = y
    BY <1>2, RenameOutside
  <2>2. IsMoved(x, from, to, y, Len(x) - Len(from))
    BY <1>1, <1>2, <2>1, RenameUnder
  <2>3. Len(to) <= Len(y) /\ \A i \in 1 .. Len(to) : to[i] = y[i]
    BY <1>1, <2>2 DEF IsMoved
  <2>4. IsPrefix(to, y)
    BY <1>1, <2>3, PrefixPoints
  <2> QED BY <2>4, PrefixesIn
<1>3. CASE IsPrefix(from, p) /\ IsPrefix(from, q)
  BY <1>1, <1>3, RenameSame
<1>4. CASE ~IsPrefix(from, p) /\ ~IsPrefix(from, q)
  BY <1>4, RenameOutside
<1> QED BY <1>2, <1>3, <1>4

-----------------------------------------------------------------------------
(***************************************************************************)
(* Every document is a tree, and its comments are in it.                   *)
(***************************************************************************)
IsNodes(nodes) ==
  /\ IsClosed(DOMAIN nodes)
  /\ \A p \in DOMAIN nodes : Len(p) > 1 => Kind(nodes[Front(p)]) # "scalar"

IsDocTree(tree) ==
  /\ IsNodes(tree.nodes)
  /\ DOMAIN tree.notes \subseteq Slots(tree.nodes)
  /\ AllTexts(tree) \subseteq Texts

ShapeInv ==
  /\ IsDocTree(file) /\ file.nodes \in Shapes
  /\ object # None => object.nodes \in Shapes
  /\ Annotated => IsDocTree(carried)
  /\ authored \subseteq Texts
  /\ edits \in 0 .. MaxEdits

LEMMA ShapeNodes ==
  ASSUME NEW nodes \in Shapes
  PROVE  IsNodes(nodes)
<1>1. \A p \in DOMAIN nodes : p \in Paths
  BY CommentsAssumption DEF Paths
<1>2. ASSUME NEW p \in DOMAIN nodes, Len(p) > 1
      PROVE  Front(p) \in DOMAIN nodes /\ Kind(nodes[Front(p)]) # "scalar"
  <2>1. Front(p) \in DOMAIN nodes /\ nodes[Front(p)] \in {"map", "list"}
    BY <1>2, CommentsAssumption
  <2> QED BY <2>1 DEF Kind
<1> QED BY <1>1, <1>2 DEF IsNodes, IsClosed

\* A slot is a place at a node.
LEMMA SlotParts ==
  ASSUME NEW nodes, NEW p, NEW place
  PROVE  <<p, place>> \in Slots(nodes) <=> p \in DOMAIN nodes /\ place \in Places
  BY DEF Slots

LEMMA SlotPair ==
  ASSUME NEW nodes, NEW s \in Slots(nodes)
  PROVE  s = <<s[1], s[2]>> /\ s[1] \in DOMAIN nodes /\ s[2] \in Places
  BY DEF Slots

\* MoveNodes takes every node to where Rename puts it.
LEMMA MoveNodesParts ==
  ASSUME NEW nodes, IsNodes(nodes), NEW from \in Paths, NEW to \in Paths \ DOMAIN nodes
  PROVE  LET moved == MoveNodes(nodes, from, to) IN
           /\ \A q : q \in DOMAIN moved <=> \E p \in DOMAIN nodes : q = Rename(p, from, to)
           /\ \A p \in DOMAIN nodes : moved[Rename(p, from, to)] = nodes[p]
<1> DEFINE New(p) == Rename(p, from, to)
           moved == MoveNodes(nodes, from, to)
           Old(q) == CHOOSE p \in DOMAIN nodes : New(p) = q
<1>1. moved = [q \in {New(p) : p \in DOMAIN nodes} |-> nodes[Old(q)]]
  BY DEF MoveNodes
<1>2. \A p, q \in DOMAIN nodes : New(p) = New(q) => p = q
  BY RenameInjective DEF IsNodes
<1> HIDE DEF New, moved
<1>3. ASSUME NEW p \in DOMAIN nodes PROVE Old(New(p)) = p
  <2>1. \E q \in DOMAIN nodes : New(q) = New(p)
    OBVIOUS
  <2>2. Old(New(p)) \in DOMAIN nodes /\ New(Old(New(p))) = New(p)
    BY <2>1
  <2> HIDE DEF Old
  <2> QED BY <1>2, <2>2
<1> HIDE DEF Old
<1>4. \A q : q \in DOMAIN moved <=> \E p \in DOMAIN nodes : q = New(p)
  BY <1>1
<1>5. \A p \in DOMAIN nodes : moved[New(p)] = nodes[p]
  BY <1>1, <1>3
<1> QED BY <1>4, <1>5 DEF New, moved

\* A node that is moved to a new field of a map leaves the document a tree.
LEMMA MovedNodes ==
  ASSUME NEW nodes, IsNodes(nodes), NEW from \in DOMAIN nodes, NEW to \in Paths \ DOMAIN nodes,
         Len(to) > 1 => /\ Front(to) \in DOMAIN nodes /\ nodes[Front(to)] = "map"
                        /\ ~IsPrefix(from, Front(to))
  PROVE  IsNodes(MoveNodes(nodes, from, to))
<1> DEFINE moved == MoveNodes(nodes, from, to)
           New(p) == Rename(p, from, to)
<1>1. /\ IsClosed(DOMAIN nodes) /\ from \in Paths
      /\ \A p \in DOMAIN nodes : p \in Seq(STRING) /\ p # <<>>
      /\ from \in Seq(STRING) /\ to \in Seq(STRING)
  BY DEF IsNodes, IsClosed, Paths
<1>2. /\ \A q : q \in DOMAIN moved <=> \E p \in DOMAIN nodes : q = New(p)
      /\ \A p \in DOMAIN nodes : moved[New(p)] = nodes[p]
  BY <1>1, MoveNodesParts
<1> HIDE DEF moved
<1>3. \A p \in DOMAIN nodes : ~IsPrefix(from, p) => New(p) = p
  BY RenameOutside
<1>4. ASSUME NEW p \in DOMAIN nodes PROVE New(p) \in Paths
  <2>1. CASE IsPrefix(from, p)
    <3>1. New(p) \in Seq(STRING) /\ IsMoved(p, from, to, New(p), Len(p) - Len(from))
      BY <1>1, <2>1, RenameUnder
    <3>2. Len(to) \in Nat \ {0}
      BY EmptySeq DEF Paths
    <3>3. Len(New(p)) > 0
      BY <3>1, <3>2 DEF IsMoved
    <3> QED BY <3>1, <3>3, EmptySeq DEF Paths
  <2>2. CASE ~IsPrefix(from, p)
    BY <1>1, <1>3, <2>2 DEF Paths
  <2> QED BY <2>1, <2>2
<1>5. ASSUME NEW p \in DOMAIN nodes, Len(New(p)) > 1
      PROVE  Front(New(p)) \in DOMAIN moved /\ Kind(moved[Front(New(p))]) # "scalar"
  <2>1. CASE ~IsPrefix(from, p)
    <3>1. New(p) = p /\ Front(p) \in DOMAIN nodes /\ Kind(nodes[Front(p)]) # "scalar"
      BY <1>1, <1>3, <1>5, <2>1 DEF IsNodes, IsClosed
    <3>2. /\ Front(p) \in Seq(STRING) /\ Len(Front(p)) = Len(p) - 1 /\ Len(p) \in Nat
          /\ \A i \in 1 .. Len(p) - 1 : Front(p)[i] = p[i]
      BY <1>1, FrontParts
    <3>3. ~IsPrefix(from, Front(p))
      BY <1>1, <2>1, <3>2, PrefixPoints
    <3> QED BY <1>2, <1>3, <3>1, <3>3
  <2>2. CASE p = from
    <3>1. New(p) = to
      BY <1>1, <2>2, RenameFrom
    <3>2. New(Front(to)) = Front(to) /\ Front(to) \in DOMAIN nodes /\ nodes[Front(to)] = "map"
      BY <1>3, <1>5, <3>1
    <3>3. Front(to) \in DOMAIN moved /\ moved[Front(to)] = "map"
      BY <1>2, <3>2
    <3> QED BY <3>1, <3>3 DEF Kind
  <2>3. CASE IsPrefix(from, p) /\ p # from
    <3>1. Front(New(p)) = New(Front(p)) /\ Len(Front(p)) >= Len(from)
      BY <1>1, <2>3, RenameFront
    <3>2. Len(Front(p)) = Len(p) - 1 /\ Len(p) \in Nat /\ Len(from) \in Nat \ {0}
      BY <1>1, FrontParts, EmptySeq
    <3>3. Front(p) \in DOMAIN nodes /\ Kind(nodes[Front(p)]) # "scalar"
      BY <1>1, <3>1, <3>2 DEF IsNodes, IsClosed
    <3> QED BY <1>2, <3>1, <3>3
  <2> QED BY <2>1, <2>2, <2>3
<1>6. /\ DOMAIN moved \subseteq Paths
      /\ \A q \in DOMAIN moved :
           Len(q) > 1 => Front(q) \in DOMAIN moved /\ Kind(moved[Front(q)]) # "scalar"
  BY <1>2, <1>4, <1>5
<1>7. IsNodes(moved)
  BY <1>6 DEF IsNodes, IsClosed
<1> QED BY <1>7 DEF moved

\* The same place at another node is a slot.
LEMMA SlotKept ==
  ASSUME NEW old, NEW new, NEW s \in Slots(old), NEW q \in DOMAIN new
  PROVE  <<q, s[2]>> \in Slots(new)
  BY SlotPair, SlotParts

\* Where the comments of a document say nothing new, they are texts, too.
LEMMA TextsIn ==
  ASSUME NEW d, NEW from, IsDocTree(from),
         \A s \in DOMAIN d.notes : \E r \in DOMAIN from.notes : d.notes[s] = from.notes[r],
         \A e \in d.top : e[2] \in Texts
  PROVE  AllTexts(d) \subseteq Texts
<1>1. Range(from.notes) \subseteq Texts
  BY DEF IsDocTree, AllTexts
<1>2. \A s \in DOMAIN d.notes : d.notes[s] \in Texts
  BY <1>1 DEF Range
<1> QED BY <1>2 DEF AllTexts, Range

\* What is written is a tree of the object's shape: a comment that is copied is at a
\* node that is there in both (copyFieldComments, VisitList).
LEMMA CopyTree ==
  ASSUME NEW from, NEW to, IsDocTree(from), IsDoc(to), IsNodes(to.nodes)
  PROVE  IsDocTree(CopyComments(from, to))
<1> DEFINE d == CopyComments(from, to)
<1>1. /\ d.nodes = to.nodes
      /\ d.notes = [s \in copyFieldComments(from, to) |-> from.notes[s]]
      /\ d.top = from.top \cup rememberLostComments(from, to)
  BY CopyParts
<1> HIDE DEF d
<1>2. ASSUME NEW s \in copyFieldComments(from, to) PROVE s \in Slots(to.nodes)
  <2>1. s \in DOMAIN from.notes /\ s \in Slots(from.nodes)
    BY DEF copyFieldComments, IsDocTree
  <2>2. s = <<s[1], s[2]>>
    BY <2>1, SlotPair
  <2>3. s[1] \in DOMAIN to.nodes
    BY DEF copyFieldComments, SameItems
  <2>4. <<s[1], s[2]>> \in Slots(to.nodes)
    BY <2>1, <2>3, SlotKept
  <2> QED BY <2>2, <2>4
<1>3. DOMAIN d.notes \subseteq Slots(d.nodes)
  BY <1>1, <1>2
<1>4. \A s \in DOMAIN d.notes : s \in DOMAIN from.notes /\ d.notes[s] = from.notes[s]
  BY <1>1 DEF copyFieldComments
<1>5. ASSUME NEW e \in d.top PROVE e[2] \in Texts
  <2>1. \A s \in DOMAIN from.notes : from.notes[s] \in Texts
    BY DEF IsDocTree, AllTexts, Range
  <2>2. \A x \in from.top : x[2] \in Texts
    BY DEF IsDocTree, AllTexts
  <2>3. CASE e \in rememberLostComments(from, to)
    <3>1. PICK s \in DOMAIN from.notes : e = <<Last(s[1]), from.notes[s]>>
      BY <2>3 DEF rememberLostComments, LostSlots
    <3> QED BY <2>1, <3>1
  <2> QED BY <1>1, <2>2, <2>3
<1>6. AllTexts(d) \subseteq Texts
  BY <1>4, <1>5, TextsIn
<1>7. IsDocTree(d)
  BY <1>1, <1>3, <1>6 DEF IsDocTree
<1> QED BY <1>7 DEF d

\* The annotation of an object whose field was moved (SetCommentSource).
LEMMA MovedTree ==
  ASSUME DocInv, ShapeInv, NEW from, NEW to \in Paths, SetCommentSource(from, to)
  PROVE  object'.nodes \in Shapes /\ IsDocTree(carried')
<1> DEFINE old == carried
           new == carried'
<1>1. /\ Annotated /\ object.source = old
      /\ object'.nodes = MoveNodes(object.nodes, from, to)
      /\ new.nodes = MoveNodes(old.nodes, from, to)
      /\ new.notes = MoveNotes(old.notes, from, to) /\ new.top = old.top
  BY MoveParts
<1>2. /\ from \in DOMAIN object.nodes \cap DOMAIN old.nodes
      /\ to \notin DOMAIN object.nodes /\ to \notin DOMAIN old.nodes
      /\ Len(to) > 1 => Front(to) \in DOMAIN old.nodes /\ old.nodes[Front(to)] = "map"
      /\ object'.nodes \in Shapes
  BY <1>1 DEF SetCommentSource, Walked
<1>3. IsDocTree(old) /\ IsNodes(old.nodes) /\ object.nodes \in Shapes
  BY <1>1, MoveParts DEF ShapeInv, Annotated, IsDocTree
<1>4. IsNodes(object.nodes) /\ IsNodes(object'.nodes)
  BY <1>2, <1>3, ShapeNodes
<1>5. from \in Paths /\ from \in Seq(STRING) /\ to \in Seq(STRING)
  BY <1>2, <1>3 DEF IsNodes, IsClosed, Paths
<1> HIDE DEF old, new
<1>6. ASSUME Len(to) > 1 PROVE ~IsPrefix(from, Front(to))
  <2> SUFFICES ASSUME IsPrefix(from, Front(to)) PROVE FALSE
    OBVIOUS
  <2>1. \A q : q \in DOMAIN object'.nodes <=> \E p \in DOMAIN object.nodes : q = Rename(p, from, to)
    BY <1>1, <1>2, <1>4, <1>5, MoveNodesParts
  <2>2. Rename(from, from, to) = to
    BY <1>5, RenameFrom
  <2>3. Front(to) \in DOMAIN object'.nodes
    BY <1>2, <1>4, <1>6, <2>1, <2>2 DEF IsNodes, IsClosed
  <2>4. PICK p \in DOMAIN object.nodes : Front(to) = Rename(p, from, to)
    BY <2>1, <2>3
  <2>5. p \in Seq(STRING)
    BY <1>4 DEF IsNodes, IsClosed, Paths
  <2>6. IsPrefix(from, p)
    BY <2>4, RenameOutside
  <2>7. IsMoved(p, from, to, Front(to), Len(p) - Len(from))
    BY <1>5, <2>4, <2>5, <2>6, RenameUnder
  <2>8. Len(Front(to)) = Len(to) - 1 /\ Len(to) \in Nat
    BY <1>5, FrontParts DEF Paths
  <2> QED BY <2>7, <2>8 DEF IsMoved
<1>7. IsNodes(new.nodes)
  BY <1>1, <1>2, <1>3, <1>6, MovedNodes
<1>8. /\ \A q : q \in DOMAIN new.nodes <=> \E p \in DOMAIN old.nodes : q = Rename(p, from, to)
      /\ \A p \in DOMAIN old.nodes : new.nodes[Rename(p, from, to)] = old.nodes[p]
  BY <1>1, <1>2, <1>3, <1>5, MoveNodesParts
<1>9. \A r \in DOMAIN new.notes :
        \E s \in DOMAIN old.notes :
          r = <<Rename(s[1], from, to), s[2]>> /\ new.notes[r] = old.notes[s]
  BY <1>1, MoveNotesParts
<1>10. ASSUME NEW r \in DOMAIN new.notes PROVE r \in Slots(new.nodes)
  <2>1. PICK s \in DOMAIN old.notes : r = <<Rename(s[1], from, to), s[2]>>
    BY <1>9
  <2>2. s \in Slots(old.nodes) /\ s[1] \in DOMAIN old.nodes
    BY <1>3, SlotPair DEF IsDocTree
  <2>3. /\ Rename(s[1], from, to) \in DOMAIN new.nodes
        /\ Kind(new.nodes[Rename(s[1], from, to)]) = Kind(old.nodes[s[1]])
    BY <1>8, <2>2
  <2> QED BY <2>1, <2>2, <2>3, SlotKept
<1>11. \A e \in new.top : e[2] \in Texts
  <2>1. new.top = old.top
    BY <1>1
  <2> QED BY <1>3, <2>1 DEF IsDocTree, AllTexts
<1>12. AllTexts(new) \subseteq Texts
  BY <1>3, <1>9, <1>11, TextsIn
<1>13. IsDocTree(new)
  BY <1>7, <1>10, <1>12 DEF IsDocTree
<1> QED BY <1>2, <1>13 DEF new

LEMMA ShapeNext ==
  ASSUME DocInv, ShapeInv, [Next]_vars
  PROVE  ShapeInv'
<1>0. /\ IsDocTree(file) /\ file.nodes \in Shapes
      /\ object # None => object.nodes \in Shapes
      /\ Annotated => IsDocTree(carried)
      /\ authored \subseteq Texts /\ edits \in 0 .. MaxEdits /\ MaxEdits \in Nat
  BY CommentsAssumption DEF ShapeInv
<1>1. ASSUME edits < MaxEdits, NEW t \in Texts, AddComment(t) PROVE ShapeInv'
  <2>1. /\ UNCHANGED <<object, carried>> /\ file'.nodes = file.nodes
        /\ authored' = authored \cup {t} /\ edits' = edits + 1
    BY <1>1, AddParts DEF AddComment
  <2>2. /\ Range(file.notes) \subseteq Texts /\ \A e \in file.top : e[2] \in Texts
        /\ \A s \in DOMAIN file.notes : s \in Slots(file.nodes) /\ file.notes[s] \in Texts
    BY <1>0 DEF IsDocTree, AllTexts, Range
  <2>3. ASSUME NEW e, e[2] = t, file'.notes = file.notes, file'.top = file.top \cup {e}
        PROVE  IsDocTree(file')
    <3>1. AllTexts(file') \subseteq Texts
      BY <2>2, <2>3 DEF AllTexts
    <3> QED BY <1>0, <2>1, <2>3, <3>1 DEF IsDocTree
  <2>4. ASSUME NEW s \in Slots(file.nodes) \ DOMAIN file.notes, file'.top = file.top,
               file'.notes = [r \in DOMAIN file.notes \cup {s} |-> IF r = s THEN t ELSE file.notes[r]]
        PROVE  IsDocTree(file')
    <3>1. \A r \in DOMAIN file'.notes : r \in Slots(file'.nodes) /\ file'.notes[r] \in Texts
      BY <2>1, <2>2, <2>4
    <3>2. AllTexts(file') \subseteq Texts
      BY <2>2, <2>4, <3>1 DEF AllTexts, Range
    <3> QED BY <1>0, <2>1, <3>1, <3>2 DEF IsDocTree
  <2>5. IsDocTree(file')
    BY <1>1, <2>3, <2>4, AddParts
  <2> QED BY <1>1, <1>0, <2>1, <2>5 DEF ShapeInv, Annotated
<1>2. ASSUME edits < MaxEdits, NEW s \in DOMAIN file.notes, RemoveComment(s) PROVE ShapeInv'
  <2>1. /\ UNCHANGED <<object, carried>> /\ file'.nodes = file.nodes /\ file'.top = file.top
        /\ DOMAIN file'.notes = DOMAIN file.notes \ {s}
        /\ \A r \in DOMAIN file.notes \ {s} : file'.notes[r] = file.notes[r]
        /\ authored' \subseteq authored /\ edits' = edits + 1
    BY <1>2, RemoveParts DEF RemoveComment
  <2>2. AllTexts(file') \subseteq AllTexts(file)
    BY <2>1 DEF AllTexts, Range
  <2>3. IsDocTree(file')
    BY <1>0, <2>1, <2>2 DEF IsDocTree
  <2> QED BY <1>2, <1>0, <2>1, <2>3 DEF ShapeInv, Annotated
<1>3. ASSUME NEW preserve \in BOOLEAN, Decode(preserve) PROVE ShapeInv'
  BY <1>3, <1>0, DecodeParts DEF ShapeInv, Annotated
<1>4. ASSUME NEW nodes \in Shapes, Change(nodes) PROVE ShapeInv'
  BY <1>4, <1>0, ChangeParts DEF ShapeInv, Annotated
<1>5. ASSUME NEW from, NEW to \in UNION {DOMAIN nodes : nodes \in Shapes},
             SetCommentSource(from, to)
      PROVE  ShapeInv'
  <2>1. to \in Paths
    BY ShapeNodes DEF IsNodes, IsClosed
  <2>2. UNCHANGED <<file, authored, edits>>
    BY <1>5, MoveParts
  <2>3. object'.nodes \in Shapes /\ IsDocTree(carried')
    BY <1>5, <2>1, MovedTree
  <2> QED BY <1>0, <2>2, <2>3 DEF ShapeInv
<1>6. ASSUME object # None, file' = Encoded PROVE IsDocTree(file') /\ file'.nodes \in Shapes
  <2>1. file'.nodes = object.nodes /\ file'.notes = <<>> /\ file'.top = {}
    BY <1>6, EncodedParts
  <2>2. IsNodes(file'.nodes) /\ file'.nodes \in Shapes
    BY <1>0, <1>6, <2>1, ShapeNodes
  <2>3. DOMAIN file'.notes = {} /\ AllTexts(file') = {}
    BY <2>1 DEF AllTexts, Range
  <2> QED BY <2>2, <2>3 DEF IsDocTree
<1>7. ASSUME NEW ok, Encoding(ok), IsDocTree(file'), file'.nodes \in Shapes, authored' \subseteq Texts
      PROVE  ShapeInv'
  BY <1>0, <1>7, EncodingParts DEF ShapeInv, Annotated
<1>8. CASE EncodePlain
  BY <1>6, <1>7, <1>8, EncodingParts DEF EncodePlain, Encoded
<1>9. CASE EncodePreserving
  <2>1. object # None /\ Due(carried, Encoded) \subseteq Texts
    BY <1>0, <1>9, PreserveParts DEF Due
  <2>2. CASE ~Annotated /\ file' = Encoded /\ authored' = {}
    BY <1>6, <1>7, <1>9, <2>1, <2>2 DEF EncodePreserving
  <2>3. CASE /\ Annotated /\ file' = CopyComments(carried, Encoded)
             /\ authored' = Due(carried, Encoded)
    <3>1. IsDoc(Encoded) /\ Encoded.nodes \in Shapes /\ IsNodes(Encoded.nodes)
      BY <1>0, <2>1, EncodedParts, ShapeNodes
    <3>2. IsDocTree(file')
      BY <1>0, <2>3, <3>1, CopyTree
    <3>3. file'.nodes \in Shapes
      BY <2>3, <3>1, CopyParts
    <3> QED BY <1>7, <1>9, <2>1, <2>3, <3>2, <3>3 DEF EncodePreserving
  <2> QED BY <1>9, <2>2, <2>3, PreserveParts
<1>10. CASE EncodeElsewhere \/ EncodeFails
  BY <1>0, <1>7, <1>10 DEF EncodeElsewhere, EncodeFails
<1>11. CASE deleteAnnotation
  BY <1>0, <1>11, BeginParts DEF ShapeInv, Annotated
<1>12. CASE UNCHANGED vars
  BY <1>0, <1>12 DEF ShapeInv, Annotated, vars
<1> QED BY <1>1, <1>2, <1>3, <1>4, <1>5, <1>8, <1>9, <1>10, <1>11, <1>12 DEF Next

LEMMA ShapeInit == Init => ShapeInv
<1> SUFFICES ASSUME Init PROVE ShapeInv
  OBVIOUS
<1>1. PICK nodes \in Shapes : file = Tree(nodes, <<>>, {})
  BY DEF Init
<1>2. file.nodes = nodes /\ file.notes = <<>> /\ file.top = {}
  BY <1>1, TreeParts
<1>3. DOMAIN file.notes = {} /\ AllTexts(file) = {} /\ IsNodes(file.nodes)
  BY <1>2, ShapeNodes DEF AllTexts, Range
<1> QED BY <1>2, <1>3, CommentsAssumption DEF Init, ShapeInv, IsDocTree, Annotated

\* Every variable has its type, and every comment of the file and of the annotation
\* is at a node: also after a field was moved with what is under it, and when
\* comments were copied from a tree of another shape.
THEOREM CommentsTypeCorrect == Spec => []TypeOK
<1>1. ASSUME NEW tree, IsDocTree(tree) PROVE IsTree(tree)
  BY <1>1 DEF IsDocTree, IsNodes, IsClosed, IsTree
<1>2. DocInv /\ ShapeInv => TypeOK
  BY <1>1 DEF DocInv, ShapeInv, Annotated, TypeOK
<1> QED BY <1>2, DocInit, DocNext, ShapeInit, ShapeNext, PTL DEF Spec
=============================================================================
