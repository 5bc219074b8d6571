----------------------------- MODULE Serializer -----------------------------
(***************************************************************************)
(* Decoding, conversion, defaulting and encoding of objects in versions    *)
(* (pkg/serializer: decode.go, convertor.go, defaulter.go, encode.go).     *)
(*                                                                         *)
(* A kind is either classic, with an internal type that the scheme's       *)
(* functions convert the others from and to, or a CRD, with a Hub that the *)
(* other versions, Convertibles, convert themselves from and to.  Objects  *)
(* have the fields of their type; a conversion keeps those that both types *)
(* have.                                                                   *)
(***************************************************************************)
EXTENDS Naturals, Sequences, FiniteSets, SequencesExt

CONSTANTS
  Kinds,       \* the scheme: type -> the group, version and kind it is registered as
  Hubs,        \* the types with a method Hub
  Spokes,      \* the Convertibles
  Fields,      \* type -> its fields
  Defaults,    \* type -> the fields that its defaulting function sets
  Preferred,   \* group -> the first of PrioritizedVersionsForGroup; only for groups that have versions
  Documents,   \* what others write to the file, one document or the item of a list
  Files,       \* what others write to the file
  Options,     \* the options that decoders are made with
  None

Internal == "__internal"
InternalGroupVersioner == [group |-> None, version |-> Internal]
GVK(group, version, kind) == [group |-> group, version |-> version, kind |-> kind]
listGVK == GVK("", "v1", "List")

Types == DOMAIN Kinds
Registered == UNION {Kinds[type] : type \in Types}
IsExternal(type) == \A k \in Kinds[type] : k.version # Internal
IsGVK(k) == k = GVK(k.group, k.version, k.kind)
SameKind(k, l) == k.group = l.group /\ k.kind = l.kind

\* The errors, as far as they are told apart.
Causes ==
  {"kinds", "conversion", "notRegistered", "panic", "schemeSetup", "invalidArgs", "groupVersioner",
   "noVersion", "strict", "UnknownGroup", "UnknownVersion", "UnknownKind", "aggregate"}

ASSUME NoneAssumption ==
  None \notin Causes /\ None # InternalGroupVersioner /\ \A type \in Types : None \notin Kinds[type]

\* A type is registered as one kind, in internal or in external versions; v1.List
\* is registered by the decoder only, and a preferred version is external.
ASSUME KindsAssumption ==
  /\ {"List", "Unknown"} \cap Types = {} /\ Hubs \cup Spokes \subseteq Types
  /\ \A type \in Types :
       /\ Kinds[type] # {} /\ IsFiniteSet(Kinds[type])
       /\ \A k, l \in Kinds[type] : SameKind(k, l) /\ (k.version = Internal => l.version = Internal)
  /\ \A s, t \in Types : s # t => Kinds[s] \cap Kinds[t] = {}
  /\ \A k \in Registered : IsGVK(k) /\ k.group # None /\ ~SameKind(k, listGVK)
  /\ \A group \in DOMAIN Preferred : Preferred[group] # Internal

\* What the functions of the scheme's owner are for: the defaults are of fields of
\* the type, and a Hub or an internal type, of which a kind does not have both, has
\* the fields of the other versions.
ASSUME SchemeAssumption ==
  /\ \A type \in Types : Defaults[type] \subseteq Fields[type]
  /\ \A s \in Types, t \in {t \in Types : t \in Hubs \/ ~IsExternal(t)} :
       (\E k \in Kinds[s], l \in Kinds[t] : k.kind = l.kind) => Fields[s] \subseteq Fields[t]
  /\ \A t \in Hubs, s \in Types :
       (\E k \in Kinds[s], l \in Kinds[t] : SameKind(k, l)) => IsExternal(s)

IsDocument(d) == \A f \in DOMAIN d.data : d.data[f] \in {"author", "default"}

ASSUME InputAssumption ==
  /\ Files \subseteq Seq(Documents)
  /\ \A d \in Documents : IsGVK(d.gvk) /\ IsDocument(d) /\ d.items \in Seq(Documents)
  /\ Options \subseteq [{"hub", "strict", "default", "lists", "unknown"} -> BOOLEAN]

VARIABLES
  listKnown,   \* whether v1.List is registered in the scheme, which all decoders share
  file,        \* a sequence of documents: [gvk, data, items], the items of a v1.List
  objs,        \* what the program holds: [type, meta, data, items], meta the TypeMeta
  error,       \* what the last call returned
  call         \* history: the last call and what it was given

vars == <<listKnown, file, objs, error, call>>

Err(cause) == [error |-> cause]
Failed(r) == "error" \in DOMAIN r

\* prioritizedVersionForGroup fails.
NoVersion(group) == group \notin DOMAIN Preferred
-----------------------------------------------------------------------------
(***************************************************************************)
(* The scheme.                                                             *)
(***************************************************************************)
KindsOf(type) == IF type \in Types THEN Kinds[type] ELSE IF type = "List" THEN {listGVK} ELSE {}

New(gvk) ==
  [type |-> IF gvk = listGVK THEN "List" ELSE CHOOSE type \in Types : gvk \in Kinds[type],
   meta |-> None, data |-> <<>>, items |-> <<>>]

Keep(data, type) == [f \in DOMAIN data \cap Fields[type] |-> data[f]]

\* Mutant: the defaults replace what is there.
Default_Overwrites(o) ==
  IF o.type \notin Types THEN o
  ELSE [o EXCEPT !.data = [f \in DOMAIN @ \cup Defaults[o.type] |->
                             IF f \in Defaults[o.type] THEN "default" ELSE @[f]]]

Default(o) ==
  IF o.type \notin Types THEN o
  ELSE [o EXCEPT !.data = [f \in DOMAIN @ \cup Defaults[o.type] |->
                             IF f \in DOMAIN @ THEN @[f] ELSE "default"]]

\* TypeMeta is trusted; without it there must be one kind for the type.
GVKForObject(o) ==
  IF o.meta # None THEN o.meta
  ELSE IF Cardinality(KindsOf(o.type)) = 1 THEN CHOOSE k \in KindsOf(o.type) : TRUE
  ELSE Err("kinds")

\* The type's conversion functions are between the internal type and the others.
SchemeConvert(in, out) ==
  IF \E k \in KindsOf(in.type), l \in KindsOf(out.type) :
       /\ k.group = l.group /\ k.kind = l.kind
       /\ in.type # out.type
       /\ k.version = Internal \/ l.version = Internal
  THEN [out EXCEPT !.data = Keep(in.data, out.type)]
  ELSE Err("conversion")

\* The internal version is not written to the TypeMeta.
SetTargetKind(o, gvk) == [o EXCEPT !.meta = IF gvk.version = Internal THEN None ELSE gvk]

\* target is a group and version, InternalGroupVersioner or, from ConvertToHub, None.
SchemeConvertToVersion(o, target) ==
  LET kind == CHOOSE k \in KindsOf(o.type) : TRUE
      gvk == GVK(kind.group, IF target = None THEN None ELSE target.version, kind.kind)
  IN IF KindsOf(o.type) = {} THEN Err("notRegistered")
     ELSE IF target = None THEN Err("panic")
     ELSE IF target.group \notin {None, kind.group} THEN Err("notRegistered")
     ELSE IF gvk \in KindsOf(o.type) THEN SetTargetKind(o, gvk)
     ELSE IF gvk \notin Registered THEN Err("notRegistered")
     ELSE LET out == SchemeConvert(o, New(gvk))
          IN IF Failed(out) THEN out ELSE SetTargetKind(out, gvk)
-----------------------------------------------------------------------------
(***************************************************************************)
(* The objectConvertor.                                                    *)
(***************************************************************************)
populateGVK(o) ==
  LET gvk == GVKForObject(o) IN IF Failed(gvk) THEN gvk ELSE [o EXCEPT !.meta = gvk]

\* IsConvertible of controller-runtime: one Hub, and no version that is neither.
IsConvertible(gvk) ==
  LET types == {t \in Types : \E k \in Kinds[t] : k.group = gvk.group /\ k.kind = gvk.kind}
  IN Cardinality(types \cap Hubs) = 1 /\ types \subseteq Hubs \cup Spokes

validateConvertible(o) ==
  LET gvk == GVKForObject(o)
  IN IF Failed(gvk) \/ IsConvertible(gvk) THEN gvk ELSE Err("schemeSetup")

\* ConvertTo or ConvertFrom of the Convertible among the two.
ConvertCRD(in, out, spoke) ==
  LET gvk == validateConvertible(spoke)
  IN IF Failed(gvk) THEN gvk ELSE populateGVK([out EXCEPT !.data = Keep(in.data, out.type)])

Convert(in, out) ==
  IF in.type \in Spokes
  THEN IF out.type \in Hubs THEN ConvertCRD(in, out, in) ELSE Err("invalidArgs")
  ELSE IF out.type \in Spokes
  THEN IF in.type \in Hubs THEN ConvertCRD(in, out, out) ELSE Err("invalidArgs")
  ELSE IF in.type \in Hubs /\ out.type \in Hubs THEN Err("invalidArgs")
  ELSE SchemeConvert(in, out)

\* The Hubs of the kind in other versions, of which the code takes any.
findHubType(gvk) ==
  {k \in Registered : /\ k.group = gvk.group /\ k.kind = gvk.kind /\ k.version # gvk.version
                      /\ New(k).type \in Hubs}

\* Mutant: the object keeps its old TypeMeta.
convertToHub_OldMeta(in) ==
  LET gvk == validateConvertible(in)
      hub == CHOOSE k \in findHubType(gvk) : TRUE
  IN IF Failed(gvk) THEN gvk
     ELSE IF findHubType(gvk) = {} THEN Err("schemeSetup")
     ELSE [New(hub) EXCEPT !.data = Keep(in.data, New(hub).type), !.meta = gvk]

convertToHub(in) ==
  LET gvk == validateConvertible(in)
      hub == CHOOSE k \in findHubType(gvk) : TRUE
  IN IF Failed(gvk) THEN gvk
     ELSE IF findHubType(gvk) = {} THEN Err("schemeSetup")
     ELSE [New(hub) EXCEPT !.data = Keep(in.data, New(hub).type), !.meta = hub]

\* For the encoder: o, a Hub or a Convertible, in the version asked for.
ToGroupVersion(o, gv) ==
  LET gvk == GVKForObject(o)
      out == GVK(gv.group, gv.version, gvk.kind)
  IN IF gv = None THEN Err("groupVersioner")
     ELSE IF Failed(gvk) THEN gvk
     ELSE IF gvk.group = gv.group /\ gvk.version = gv.version THEN [o EXCEPT !.meta = gvk]
     ELSE IF out \notin Registered THEN Err("notRegistered")
     ELSE Convert(o, New(out))

ConvertToVersion(o, target) ==
  IF o.type \notin Hubs \cup Spokes THEN SchemeConvertToVersion(o, target)
  ELSE IF o.type \in Hubs \cap Spokes THEN Err("invalidArgs")
  ELSE IF target # InternalGroupVersioner THEN ToGroupVersion(o, target)
  ELSE IF o.type \in Hubs THEN o ELSE convertToHub(o)
-----------------------------------------------------------------------------
(***************************************************************************)
(* The decoder.  opts has the options: hub (ConvertToHub), strict,         *)
(* default, lists (DecodeListElements) and unknown (DecodeUnknown).        *)
(***************************************************************************)
\* decode registers v1.List for all decoders when its own options need it.
RegisterList(opts) == listKnown' = (listKnown \/ (opts.lists /\ file # <<>>))

InScheme(opts) == Registered \cup (IF listKnown \/ opts.lists THEN {listGVK} ELSE {})

\* The JSON serializer: into is used if it is of the document's kind.
Parse(doc, opts) ==
  IF doc.gvk \notin InScheme(opts) THEN Err("notRegistered")
  ELSE IF doc.gvk = listGVK
  THEN [type |-> "List", meta |-> doc.gvk, data |-> <<>>, items |-> doc.items]
  ELSE LET type == New(doc.gvk).type
       IN IF opts.strict /\ ~(DOMAIN doc.data \subseteq Fields[type]) THEN Err("strict")
          ELSE [New(doc.gvk) EXCEPT !.meta = doc.gvk, !.data = Keep(doc.data, type)]

ConvertDecoded(o, into, opts) ==
  IF into # None THEN IF into.type = o.type THEN o ELSE Convert(o, into)
  ELSE IF opts.hub THEN ConvertToVersion(o, InternalGroupVersioner) ELSE o

\* The codec: defaulting of what was parsed, and conversion after it.
Decoded(parsed, into, opts) ==
  IF Failed(parsed) THEN parsed
  ELSE ConvertDecoded(IF opts.default THEN Default(parsed) ELSE parsed, into, opts)

handleDecodeError(gvk, opts, cause) ==
  LET known == InScheme(opts)
  IN IF \A k \in known : k.group # gvk.group THEN Err("UnknownGroup")
     ELSE IF \A k \in known : <<k.group, k.version>> # <<gvk.group, gvk.version>>
     THEN Err("UnknownVersion")
     ELSE IF gvk \notin known THEN Err("UnknownKind")
     ELSE Err(cause)

decodeUnknown(doc) == [type |-> "Unknown", meta |-> doc.gvk, data |-> doc.data, items |-> doc.items]

HandleDecoded(o, doc, into, opts) ==
  IF ~Failed(o) THEN o
  ELSE IF opts.unknown /\ into = None /\ o.error = "notRegistered" THEN decodeUnknown(doc)
  ELSE handleDecodeError(doc.gvk, opts, o.error)

decode(doc, into, opts) == HandleDecoded(Decoded(Parse(doc, opts), into, opts), doc, into, opts)

\* The results of one document: its object, or those of its items.
extractNestedObjects(o, opts) ==
  IF Failed(o) \/ ~opts.lists \/ o.type # "List" THEN <<o>>
  ELSE [i \in DOMAIN o.items |-> decode(o.items[i], None, opts)]

DecodeEach(opts) ==
  FlattenSeq([i \in DOMAIN file |-> extractNestedObjects(decode(file[i], None, opts), opts)])

\* Mutant: documents that cannot be decoded are skipped.
DecodeAll_Skips(opts) ==
  LET Works(r) == ~Failed(r)
  IN /\ objs' = SelectSeq(DecodeEach(opts), Works)
     /\ error' = None
     /\ call' = <<"DecodeAll", opts>>
     /\ RegisterList(opts)
     /\ UNCHANGED file

ReturnsAll(results) ==
  LET failing == {i \in DOMAIN results : Failed(results[i])}
  IN IF failing = {} THEN objs' = results /\ error' = None
     ELSE /\ objs' = <<>>
          /\ error' = results[CHOOSE i \in failing : \A j \in failing : i <= j].error

DecodeAll(opts) ==
  /\ ReturnsAll(DecodeEach(opts))
  /\ call' = <<"DecodeAll", opts>>
  /\ RegisterList(opts)
  /\ UNCHANGED file

\* A call that has an object or an error as its result.
Returns(r) ==
  IF Failed(r) THEN objs' = objs /\ error' = r.error ELSE objs' = <<r>> /\ error' = None

\* Of the file's first document, into an empty object; Unknown takes any document.
DecodeInto(gvk, opts) ==
  /\ Returns(IF gvk = None THEN decodeUnknown(file[1]) ELSE decode(file[1], New(gvk), opts))
  /\ call' = <<"DecodeInto">>
  /\ RegisterList(opts)
  /\ UNCHANGED file
-----------------------------------------------------------------------------
(***************************************************************************)
(* The converter and the defaulter.                                        *)
(***************************************************************************)
ConvertIntoNew(i, gvk) ==
  /\ Returns(IF gvk \in Registered THEN Convert(objs[i], New(gvk)) ELSE Err("notRegistered"))
  /\ call' = <<"ConvertIntoNew">>
  /\ UNCHANGED <<listKnown, file>>

ConvertToHub(i) ==
  /\ Returns(ConvertToVersion(objs[i], None))
  /\ call' = <<"ConvertToHub">>
  /\ UNCHANGED <<listKnown, file>>

\* An internal object is defaulted as the preferred version is; what that does
\* not have stays as it is.
runDefaulting(o) ==
  LET gvk == GVKForObject(o)
  IN IF Failed(gvk) THEN gvk
     ELSE IF gvk.version # Internal THEN Default(o)
     ELSE IF NoVersion(gvk.group) THEN Err("noVersion")
     ELSE LET target == GVK(gvk.group, Preferred[gvk.group], gvk.kind)
              external == IF target \in Registered THEN SchemeConvert(o, New(target))
                          ELSE Err("notRegistered")
          IN IF Failed(external) THEN external
             ELSE [o EXCEPT !.data =
                     LET d == Keep(Default(external).data, o.type)
                     IN [f \in DOMAIN d \cup DOMAIN @ |-> IF f \in DOMAIN d THEN d[f] ELSE @[f]]]

\* Each object in its place; the errors are put together.
DefaultAll ==
  LET results == [i \in DOMAIN objs |-> runDefaulting(objs[i])]
  IN /\ objs' = [i \in DOMAIN objs |-> IF Failed(results[i]) THEN objs[i] ELSE results[i]]
     /\ error' = IF \E i \in DOMAIN objs : Failed(results[i]) THEN "aggregate" ELSE None
     /\ call' = <<"Default">>
     /\ UNCHANGED <<listKnown, file>>

NewDefaultedObject(gvk) ==
  /\ Returns(runDefaulting(New(gvk)))
  /\ call' = <<"NewDefaultedObject">>
  /\ UNCHANGED <<listKnown, file>>
-----------------------------------------------------------------------------
(***************************************************************************)
(* The encoder.                                                            *)
(***************************************************************************)
Document(o) == [gvk |-> o.meta, data |-> o.data, items |-> o.items]

\* Unknown objects are written as they were read.
EncodeForGroupVersion(o, gv) ==
  LET out == ConvertToVersion(o, gv)
  IN IF o.type = "Unknown" THEN Document(o)
     ELSE IF Failed(out) THEN out ELSE Document(out)

\* Mutant: every object is written in the preferred version.
EncodeVersion_Preferred(gvk) == IF gvk.group \in DOMAIN Preferred THEN Preferred[gvk.group] ELSE gvk.version

\* An internal object is written in the preferred version, others in their own.
EncodeVersion(gvk) == IF gvk.version = Internal THEN Preferred[gvk.group] ELSE gvk.version

EncodeOne(o) ==
  LET gvk == GVKForObject(o)
  IN IF Failed(gvk) THEN gvk
     ELSE IF gvk.version = Internal /\ NoVersion(gvk.group) THEN Err("noVersion")
     ELSE EncodeForGroupVersion(o, GVK(gvk.group, EncodeVersion(gvk), ""))

\* The objects that come before the first failure are written.
Writes(documents) ==
  LET failing == {i \in DOMAIN documents : Failed(documents[i])}
      first == CHOOSE i \in failing : \A j \in failing : i <= j
  IN /\ file' = IF failing = {} THEN documents ELSE SubSeq(documents, 1, first - 1)
     /\ error' = IF failing = {} THEN None ELSE documents[first].error
     /\ UNCHANGED <<listKnown, objs>>

Encode ==
  /\ Writes([i \in DOMAIN objs |-> EncodeOne(objs[i])])
  /\ call' = <<"Encode">>

EncodeFor(i, gv) ==
  /\ Writes(<<EncodeForGroupVersion(objs[i], gv)>>)
  /\ call' = <<"EncodeFor", i, gv>>
-----------------------------------------------------------------------------
Init ==
  /\ listKnown = FALSE
  /\ file \in Files
  /\ objs = <<>>
  /\ error = None
  /\ call = <<>>

Versions == {[group |-> k.group, version |-> k.version] : k \in {k \in Registered : k.version # Internal}}

OfKind(kind) == {gvk \in Registered : gvk.kind = kind}

Calls ==
  \/ \E opts \in Options :
       \/ DecodeAll(opts)
       \/ file # <<>> /\ \E gvk \in OfKind(file[1].gvk.kind) \cup {None} : DecodeInto(gvk, opts)
  \/ \E i \in DOMAIN objs :
       \/ objs[i].type \in Types /\ \E k \in KindsOf(objs[i].type) :
            \E gvk \in OfKind(k.kind) : ConvertIntoNew(i, gvk)
       \/ \E gv \in Versions : EncodeFor(i, gv)
  \/ \E gvk \in Registered : NewDefaultedObject(gvk)
  \/ DefaultAll \/ Encode

Next == Calls \/ \E i \in DOMAIN objs : ConvertToHub(i)

Spec == Init /\ [][error # "panic" /\ Next]_vars
-----------------------------------------------------------------------------
(***************************************************************************)
(* Properties.                                                             *)
(***************************************************************************)
\* Every variable has its type; an object's TypeMeta is a kind that its Go type
\* is registered as, through any sequence of conversions, since GVKForObject
\* trusts it (serializer.go:247-251).
TypeOK ==
  /\ listKnown \in BOOLEAN
  /\ \A i \in DOMAIN file : IsDocument(file[i])
  /\ \A i \in DOMAIN objs :
       /\ IsDocument(objs[i])
       /\ objs[i].type \in Types \cup {"List", "Unknown"}
       /\ objs[i].meta # None /\ objs[i].type # "Unknown" => objs[i].meta \in KindsOf(objs[i].type)
       /\ objs[i].type \in Types => DOMAIN objs[i].data \subseteq Fields[objs[i].type]

Authored(r) == {f \in DOMAIN r.data : r.data[f] = "author"}

\* The documents with those in lists in their place.  A list itself has no hub: where
\* the hub's version is asked for it is not taken apart (decode.go:161-167), whatever
\* its items are: the comment of DecodeAll has no such condition (decode.go:233-235).
Flat(docs, opts) ==
  FlattenSeq([i \in DOMAIN docs |->
    IF docs[i].gvk = listGVK /\ opts.lists /\ ~opts.hub THEN docs[i].items ELSE <<docs[i]>>])

HubKinds(gvk) ==
  {k \in Registered :
     /\ k.group = gvk.group /\ k.kind = gvk.kind
     /\ \/ k.version = Internal
        \/ New(k).type \in Hubs /\ New(gvk).type \in Hubs \cup Spokes}

\* What decoders do not know: a kind that the scheme has not, or, where the hub's
\* version is asked for, a kind without a hub, and with them every list.
NotKnown(gvk, opts) == gvk \notin InScheme(opts) \/ (opts.hub /\ HubKinds(gvk) = {})

\* DecodeAll returns an object for every document and every item of a list that is
\* taken apart, in their order, in the hub's version if that is asked for and of the
\* document's version otherwise, or an error and nothing (decode.go:223-258).  A
\* document is an Unknown with all that it had exactly if decoders do not know its kind.
DecodesAll ==
  [][call' # <<>> /\ call'[1] = "DecodeAll" =>
       LET opts == call'[2]
           docs == Flat(file, opts)
       IN IF error' # None THEN objs' = <<>>
          ELSE /\ Len(objs') = Len(docs)
               /\ \A i \in DOMAIN docs :
                    LET o == objs'[i] IN
                    IF NotKnown(docs[i].gvk, opts)
                    THEN /\ opts.unknown /\ o.type = "Unknown"
                         /\ o.meta = docs[i].gvk /\ o.data = docs[i].data /\ o.items = docs[i].items
                    ELSE KindsOf(o.type) \cap
                         (IF opts.hub THEN HubKinds(docs[i].gvk) ELSE {docs[i].gvk}) # {}]_vars

TypeFields(gvk) == IF gvk \in Registered THEN Fields[New(gvk).type] ELSE {}

\* No field that somebody has written is lost or defaulted away by decoding,
\* defaulting and encoding, but for those that the version written does not have.
FieldsKept ==
  [][error' = None =>
       CASE call'[1] = "Default" ->
              \A i \in DOMAIN objs : Authored(objs'[i]) = Authored(objs[i])
         [] call'[1] = "Encode" ->
              \A i \in DOMAIN objs : objs[i].type \in Types =>
                Authored(file'[i]) = Authored(objs[i]) \cap TypeFields(file'[i].gvk)
         [] call'[1] = "DecodeAll" ->
              (\A i \in DOMAIN file : file[i].gvk # listGVK) =>
                \A i \in DOMAIN file : objs'[i].type \in Types =>
                  Authored(objs'[i]) = Authored(file[i]) \cap TypeFields(file[i].gvk)
         [] OTHER -> TRUE]_vars

\* A document is written in the version asked for; without one, in the
\* object's own or, for internal objects, the preferred one (encode.go:73-77).
VersionAsked ==
  [][error' = None =>
       CASE call'[1] = "EncodeFor" /\ objs[call'[2]].type \in Types ->
              \E k \in KindsOf(objs[call'[2]].type) :
                file'[1].gvk = GVK(call'[3].group, call'[3].version, k.kind)
         [] call'[1] = "Encode" ->
              /\ Len(file') = Len(objs)
              /\ \A i \in DOMAIN objs : objs[i].type \in Types =>
                   IF IsExternal(objs[i].type) THEN file'[i].gvk \in KindsOf(objs[i].type)
                   ELSE file'[i].gvk.version = Preferred[file'[i].gvk.group]
         [] OTHER -> TRUE]_vars
=============================================================================
