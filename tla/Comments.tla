------------------------------ MODULE Comments ------------------------------
(***************************************************************************)
(* The comments of a YAML file that is decoded with PreserveComments,      *)
(* changed as an object and encoded again (pkg/serializer/comments.go and  *)
(* pkg/serializer/comments): the decoder keeps the original document in an *)
(* annotation of the object, from which the encoder copies the comments to *)
(* the new document.                                                       *)
(*                                                                         *)
(* A document is a tree: its nodes by path, from a field's key or an       *)
(* item's index to what is there.  The comments above and below a field    *)
(* are on its key's node.  The one behind it is on its value's node, or on *)
(* its key's if the value is a map or a list, which begins a line below.   *)
(***************************************************************************)
EXTENDS Naturals, Sequences, SequencesExt

CONSTANTS
  Shapes,    \* the nodes of the objects there are: path -> "map", "list" or a scalar
  Texts,     \* what comments say
  MaxEdits,  \* bound: changes by the author of the file
  None

\* The paths of an object are those of a tree: there is a field or an item only where
\* a map or a list is.
ASSUME CommentsAssumption ==
  /\ MaxEdits \in Nat
  /\ \A nodes \in Shapes :
       /\ DOMAIN nodes \subseteq Seq(STRING) \ {<<>>}
       /\ \A p \in DOMAIN nodes :
            Len(p) > 1 => Front(p) \in DOMAIN nodes /\ nodes[Front(p)] \in {"map", "list"}

Places == {"line", "head", "foot"}

Tree(nodes, notes, top) == [nodes |-> nodes, notes |-> notes, top |-> top]

VARIABLES
  file,      \* the YAML file: top is the comment at its beginning, the set of its entries
  object,    \* what the program holds: nodes, and the annotation's document
  encoding,  \* whether the object is being encoded
  taken,     \* the annotation that was taken off it for that time
  carried,   \* history: the document that the object was decoded from
  authored,  \* history: the comments that the file should have
  edits

vars == <<file, object, encoding, taken, carried, authored, edits>>

\* The paths that the walker visits: it does not go into the items of lists.
Walked(tree) ==
  {p \in DOMAIN tree.nodes :
     \A i \in 1 .. Len(p) - 1 : tree.nodes[SubSeq(p, 1, i)] = "map"}

Kind(node) == IF node \in {"map", "list"} THEN node ELSE "scalar"

\* An item is compared by its Value, which is "" for maps and lists.
SameValue(a, b) == Kind(a) = Kind(b) /\ (Kind(a) = "scalar" => a = b)

\* The items of lists whose comments VisitList copies.
SameItems(from, to) ==
  {p \in DOMAIN from.nodes \cap DOMAIN to.nodes :
     /\ Len(p) > 1 /\ Front(p) \in Walked(from) /\ from.nodes[Front(p)] = "list"
     /\ SameValue(from.nodes[p], to.nodes[p])}

\* The slots of fields that the new tree does not have.
LostSlots(from, to) ==
  {s \in DOMAIN from.notes : s[1] \in Walked(from) \ DOMAIN to.nodes}

\* The comments of a node after the one behind it are not looked at (lost.go:69-74):
\* those above and below a map or a list with a comment behind its key.
HiddenSlots(from, to) ==
  {s \in LostSlots(from, to) :
     /\ s[2] # "line" /\ <<s[1], "line">> \in DOMAIN from.notes
     /\ Kind(from.nodes[s[1]]) # "scalar"}

\* Mutant: the comments of a field that stays are remembered, too.
rememberLostComments_All(from, to) ==
  {<<Last(s[1]), from.notes[s]>> : s \in {s \in DOMAIN from.notes : s[1] \in Walked(from)}}

\* The comments of fields that the new tree does not have, with their names.
rememberLostComments(from, to) ==
  {<<Last(s[1]), from.notes[s]>> : s \in LostSlots(from, to) \ HiddenSlots(from, to)}

\* Mutant: the comments of an item go to whatever is in its place.
copyFieldComments_AnyItem(from, to) ==
  {s \in DOMAIN from.notes :
     s[1] \in (Walked(from) \cap DOMAIN to.nodes)
        \cup {p \in DOMAIN from.nodes : Len(p) > 1 /\ from.nodes[Front(p)] = "list"}}

\* The slots whose comments are copied in place.
copyFieldComments(from, to) ==
  {s \in DOMAIN from.notes :
     s[1] \in (Walked(from) \cap DOMAIN to.nodes) \cup SameItems(from, to)}

CopyComments(from, to) ==
  [to EXCEPT !.notes = [s \in copyFieldComments(from, to) |-> from.notes[s]],
             !.top = from.top \cup rememberLostComments(from, to)]

\* The walk fails where a field is of another kind in the new tree.
CopyFails(from, to) ==
  \E p \in Walked(from) \cap DOMAIN to.nodes : Kind(from.nodes[p]) # Kind(to.nodes[p])

\* All the comments of a document.
AllTexts(tree) == Range(tree.notes) \cup {e[2] : e \in tree.top}
-----------------------------------------------------------------------------
(***************************************************************************)
(* The author of the file.                                                 *)
(***************************************************************************)
Slots(nodes) == (DOMAIN nodes) \X Places

\* A new comment in a free place of the file, or at its beginning.
AddComment(t) ==
  /\ t \notin authored \cup AllTexts(file)
  /\ \/ \E s \in Slots(file.nodes) \ DOMAIN file.notes :
          file' = [file EXCEPT !.notes = [r \in DOMAIN @ \cup {s} |-> IF r = s THEN t ELSE @[r]]]
     \/ file' = [file EXCEPT !.top = @ \cup {<<"", t>>}]
  /\ authored' = authored \cup {t}
  /\ edits' = edits + 1
  /\ UNCHANGED <<object, encoding, taken, carried>>

RemoveComment(s) ==
  /\ file' = [file EXCEPT !.notes = [r \in DOMAIN @ \ {s} |-> @[r]]]
  /\ authored' = authored \ {file.notes[s]}
  /\ edits' = edits + 1
  /\ UNCHANGED <<object, encoding, taken, carried>>
-----------------------------------------------------------------------------
(***************************************************************************)
(* The program.                                                            *)
(***************************************************************************)
\* The calls of the serializer and the changes of the object are those of one
\* goroutine, which does nothing else while the object is encoded.
Idle == ~encoding

\* Decode: tryToPreserveComments annotates the object with the document.
Decode(preserve) ==
  /\ Idle
  /\ carried' = IF preserve THEN file ELSE None
  /\ object' = [nodes |-> file.nodes, source |-> carried']
  /\ UNCHANGED <<file, encoding, taken, authored, edits>>

\* The program changes the object.
Change(nodes) ==
  /\ Idle /\ object # None
  /\ object' = [object EXCEPT !.nodes = nodes]
  /\ UNCHANGED <<file, encoding, taken, carried, authored, edits>>

\* A field is moved, and its comments with it, by GetCommentSource and SetCommentSource.
Rename(p, from, to) == IF IsPrefix(from, p) THEN to \o SubSeq(p, Len(from) + 1, Len(p)) ELSE p

MoveNodes(nodes, from, to) ==
  [q \in {Rename(p, from, to) : p \in DOMAIN nodes} |->
     nodes[CHOOSE p \in DOMAIN nodes : Rename(p, from, to) = q]]

MoveNotes(notes, from, to) ==
  [r \in {<<Rename(s[1], from, to), s[2]>> : s \in DOMAIN notes} |->
     notes[CHOOSE s \in DOMAIN notes : <<Rename(s[1], from, to), s[2]>> = r]]

SetCommentSource(from, to) ==
  /\ Idle /\ object # None /\ object.source # None
  /\ from \in DOMAIN object.nodes \cap Walked(object.source)
  /\ to \notin DOMAIN object.nodes \cup DOMAIN object.source.nodes
  /\ object' =
       [nodes |-> MoveNodes(object.nodes, from, to),
        source |-> [object.source EXCEPT !.nodes = MoveNodes(@, from, to),
                                         !.notes = MoveNotes(@, from, to)]]
  /\ Len(to) > 1 =>
       Front(to) \in DOMAIN object.source.nodes /\ object.source.nodes[Front(to)] = "map"
  /\ object'.nodes \in Shapes
  /\ carried' = object'.source
  /\ UNCHANGED <<file, encoding, taken, authored, edits>>

\* noAnnotationWrapper takes the annotation off the object that it was given, whose
\* encoding to the file or to a buffer then begins.
deleteAnnotation ==
  /\ Idle /\ object # None
  /\ encoding' = TRUE
  /\ taken' = object.source
  /\ object' = [object EXCEPT !.source = None]
  /\ UNCHANGED <<file, carried, authored, edits>>

\* Mutant: the annotation is put back after an encoding that has succeeded.
setAnnotation_OnSuccess(ok) ==
  /\ object' = IF ok THEN [object EXCEPT !.source = taken] ELSE object
  /\ taken' = None

\* The deferred call, whether the encoding has succeeded or not.
setAnnotation(ok) ==
  /\ object' = [object EXCEPT !.source = taken]
  /\ taken' = None

Encoding(ok) ==
  /\ object # None /\ encoding
  /\ encoding' = FALSE
  /\ setAnnotation(ok)
  /\ UNCHANGED <<carried, edits>>

normalEncode(o) == Tree(o.nodes, <<>>, {})

\* Without PreserveComments the file loses its comments.
EncodePlain ==
  /\ Encoding(TRUE)
  /\ file' = normalEncode(object)
  /\ authored' = {}

\* To another file, or in JSON.
EncodeElsewhere ==
  /\ Encoding(TRUE)
  /\ UNCHANGED <<file, authored>>

\* The codec fails, the walk, or the writing: nothing is written to the file.
EncodeFails ==
  /\ \E ok \in BOOLEAN : Encoding(ok)
  /\ UNCHANGED <<file, authored>>

\* What the file should have after an encoding with the comments of a document. Not
\* due are those that the author has written since, those of items of lists that are
\* not what they were, and those in hidden slots: they are lost, although the
\* package says that no comment is (comments/comments.go:9-13).
ItemSlots(from, to) ==
  {s \in DOMAIN from.notes : s[1] \notin Walked(from) \cup SameItems(from, to)}

Due(from, to) ==
  (authored \cap AllTexts(from))
    \ {from.notes[s] : s \in ItemSlots(from, to) \cup HiddenSlots(from, to)}

\* With PreserveComments.
EncodePreserving ==
  /\ Encoding(TRUE)
  /\ LET to == normalEncode(object) IN
        /\ taken # None => ~CopyFails(taken, to)
        /\ file' = IF taken = None THEN to ELSE CopyComments(taken, to)
        /\ authored' = IF carried = None THEN {} ELSE Due(carried, to)

Init ==
  /\ \E nodes \in Shapes : file = Tree(nodes, <<>>, {})
  /\ object = None /\ encoding = FALSE /\ taken = None /\ carried = None
  /\ authored = {}
  /\ edits = 0

Next ==
  \/ edits < MaxEdits /\ \E t \in Texts : AddComment(t)
  \/ edits < MaxEdits /\ \E s \in DOMAIN file.notes : RemoveComment(s)
  \/ \E preserve \in BOOLEAN : Decode(preserve)
  \/ \E nodes \in Shapes : Change(nodes)
  \/ \E from, to \in UNION {DOMAIN nodes : nodes \in Shapes} : SetCommentSource(from, to)
  \/ deleteAnnotation
  \/ EncodePlain \/ EncodePreserving \/ EncodeElsewhere \/ EncodeFails

Spec == Init /\ [][Next]_vars
-----------------------------------------------------------------------------
(***************************************************************************)
(* Properties.                                                             *)
(***************************************************************************)
IsTree(tree) ==
  /\ \A p \in DOMAIN tree.nodes :
       Len(p) > 1 => Front(p) \in DOMAIN tree.nodes /\ Kind(tree.nodes[Front(p)]) # "scalar"
  /\ DOMAIN tree.notes \subseteq Slots(tree.nodes)
  /\ AllTexts(tree) \subseteq Texts

\* Every variable has its type; a comment is where the file has a node, even
\* when it was copied from a tree of another shape.
TypeOK ==
  /\ IsTree(file) /\ file.nodes \in Shapes
  /\ object # None =>
       object.nodes \in Shapes /\ (object.source # None => IsTree(object.source))
  /\ encoding \in BOOLEAN /\ (taken # None => IsTree(taken))
  /\ carried # None => IsTree(carried)
  /\ authored \subseteq Texts
  /\ edits \in 0 .. MaxEdits

\* Over any number of cycles in which fields come, go and move, and encodings
\* fail, a comment of the author stays in the file - at its node, or at the
\* beginning when that is gone - but for two losses, which Due leaves out: comments
\* of items of lists that change, and those above or below a field that is gone
\* which also had one behind its key (lost.go:69-74).
CommentsKept == authored \subseteq AllTexts(file)

\* A comment is in one place: the comments of fields that are gone do not pile
\* up at the beginning of the file when they come back and go again.
CommentsOnce ==
  /\ \A s, t \in DOMAIN file.notes : file.notes[s] = file.notes[t] => s = t
  /\ \A d, e \in file.top : d[2] = e[2] => d = e
  /\ Range(file.notes) \cap {e[2] : e \in file.top} = {}
=============================================================================
