--------------------------- MODULE GenericStorage ---------------------------
(***************************************************************************)
(* GenericStorage (pkg/storage/storage.go) over a GenericRawStorage        *)
(* (pkg/storage/rawstorage.go), used by several goroutines.  Neither has a *)
(* lock: every access to the disk is a step, and a file is truncated and   *)
(* written in two.  The content type is JSON.                              *)
(***************************************************************************)
EXTENDS Integers, FiniteSets, Sequences, SequencesExt

CONSTANTS
  Clients,    \* the goroutines that read and write objects
  Walkers,    \* those that list them
  Keys,       \* ObjectKeys of one kind
  Supported,  \* those in the GroupVersion of the raw storage
  Fields,     \* an object's content is the set of its fields that are set
  Meta,       \* the name, namespace and UID of the object with that key
  Factories,  \* the identifier factories, in the order in which they are asked
  Filters,    \* the filters of a List
  MaxFaults,  \* bound: crashes and failed writes
  NoCall      \* the client has not called

Values == SUBSET Fields

\* The content of a file.  A torn one goes on after the content, with the end
\* of a longer one that was there.
File(v) == [is |-> "whole", value |-> v]
Torn(v) == [is |-> "torn", value |-> v]
Absent == [is |-> "absent", value |-> {}]
Empty == [is |-> "empty", value |-> {}]

Files == {File(v) : v \in Values} \cup {Torn(v) : v \in Values} \cup {Absent, Empty}

\* The identifier that a factory gives an object, as a path: <<>> if it gives none.
Identify(f, m) ==
  CASE f = "name" /\ m.namespace # <<>> /\ m.name # <<>> -> <<m.namespace, m.name>>
    [] f = "uid" /\ m.uid # <<>> -> <<m.uid>>
    [] OTHER -> <<>>

identify(m) ==
  LET ids == SelectSeq([i \in DOMAIN Factories |-> Identify(Factories[i], m)],
                       LAMBDA id : id # <<>>)
  IN IF ids = <<>> THEN <<>> ELSE ids[1]

\* The identifiers of the keys: the file of k is <dir>/<kind>/Identifier[k]/metadata.json.
Identifier == [k \in Keys |-> identify(Meta[k])]

Reads == {"get", "getMeta"}
Writes == {"create", "update", "patch", "delete"}
Errors == {"notFound", "alreadyExists", "failed"}

\* A call, and what ObjectStore sees of it.
CallRecords ==
  [op : Reads \cup Writes, key : Keys, arg : Values, content : Values,
   pc : {"exists", "read", "stat", "open", "put", "unlink", "rmdir", "done"},
   linked : BOOLEAN, alone : BOOLEAN,
   status : Errors \cup {"running", "ok"}, value : Values]
AbstractCallRecords ==
  [op : Reads \cup Writes, key : Keys, arg : Values, alone : BOOLEAN, applied : BOOLEAN,
   status : Errors \cup {"running", "ok"}, value : Values]

ASSUME StorageAssumption ==
  /\ Supported \subseteq Keys
  /\ \A k, l \in Keys : IsPrefix(Identifier[k], Identifier[l]) => k = l
  /\ \A k \in Keys : Identifier[k] # <<>>
  /\ NoCall \notin CallRecords \cup AbstractCallRecords
  /\ IsFiniteSet(Fields)
  /\ MaxFaults \in Nat

VARIABLES
  files,   \* what is at each key's path
  dirs,    \* the directories that exist below <dir>, from <dir>/<kind> on
  calls,   \* what each client is doing
  walks,   \* what each walker is doing
  faults

diskVars == <<files, dirs>>
vars == <<diskVars, calls, walks, faults>>

Running(k) ==
  {c \in Clients : calls[c] # NoCall /\ calls[c].key = k /\ calls[c].pc # "done"}
Writing(k) == {c \in Running(k) : calls[c].op \in Writes}

At(c, pc) == calls[c] # NoCall /\ calls[c].pc = pc

GoTo(c, pc) == calls' = [calls EXCEPT ![c].pc = pc]

Return(c, s, v) ==
  calls' = [calls EXCEPT ![c] =
    [op |-> @.op, key |-> @.key, arg |-> {}, content |-> {}, pc |-> "done",
     linked |-> FALSE, alone |-> TRUE, status |-> s, value |-> v]]

\* A call begins.  alone is kept for the refinement: whether no write of the
\* key has run at the same time (a read may overlap other reads).
Call(c, op, k, v) ==
  /\ calls[c] = NoCall
  /\ op \in Reads \cup {"delete"} => v = {}
  /\ calls' = [d \in Clients |->
       IF d = c
       THEN [op |-> op, key |-> k, arg |-> v, content |-> v, pc |-> "exists",
             linked |-> FALSE, alone |-> Writing(k) = {},
             status |-> "running", value |-> {}]
       ELSE IF op \in Writes /\ d \in Running(k)
       THEN [calls[d] EXCEPT !.alone = FALSE]
       ELSE calls[d]]
  /\ UNCHANGED <<diskVars, walks, faults>>

\* The directories that lead to the key's file.
Dirs(k) ==
  {Identifier[k]} \cup {SubSeq(Identifier[k], 1, n) : n \in 0 .. Len(Identifier[k]) - 1}

Exists(k) == k \in Supported /\ files[k] # Absent

\* GenericStorage.write: the object is encoded, and given to the raw Write.
write(c) == GoTo(c, "stat")

\* Mutant: Create overwrites.
CheckExists_Overwrites(c) ==
  /\ At(c, "exists") /\ calls[c].op \in {"create", "update"}
  /\ IF calls[c].op = "update" /\ ~Exists(calls[c].key)
     THEN Return(c, "notFound", {})
     ELSE write(c)
  /\ UNCHANGED <<diskVars, walks, faults>>

\* The first look at the disk of Create and Update.
CheckExists(c) ==
  /\ At(c, "exists") /\ calls[c].op \in {"create", "update"}
  /\ IF calls[c].op = "create" /\ Exists(calls[c].key)
     THEN Return(c, "alreadyExists", {})
     ELSE IF calls[c].op = "update" /\ ~Exists(calls[c].key)
     THEN Return(c, "notFound", {})
     ELSE write(c)
  /\ UNCHANGED <<diskVars, walks, faults>>

\* That of the raw Read and Delete, which look at the GroupVersion before.
CheckFound(c) ==
  /\ At(c, "exists") /\ calls[c].op \notin {"create", "update"}
  /\ IF calls[c].key \notin Supported THEN Return(c, "failed", {})
     ELSE IF ~Exists(calls[c].key) THEN Return(c, "notFound", {})
     ELSE GoTo(c, IF calls[c].op = "delete" THEN "unlink" ELSE "read")
  /\ UNCHANGED <<diskVars, walks, faults>>

\* decode takes the first frame of a file, decodeMeta and the patcher all of it.
Decodes(k) == files[k].is \in {"whole", "torn"}
DecodesMeta(k) == files[k].is = "whole"

Get(c) ==
  /\ At(c, "read") /\ calls[c].op \in Reads
  /\ LET k == calls[c].key IN
     IF calls[c].op = "get"
     THEN IF Decodes(k) THEN Return(c, "ok", files[k].value) ELSE Return(c, "failed", {})
     ELSE IF DecodesMeta(k) THEN Return(c, "ok", {}) ELSE Return(c, "failed", {})
  /\ UNCHANGED <<diskVars, walks, faults>>

\* patcher.Apply: the fields of the patch are set, the other ones kept.
Apply(original, patch) == original \cup patch

Patch(c) ==
  /\ At(c, "read") /\ calls[c].op = "patch"
  /\ LET k == calls[c].key IN
     IF DecodesMeta(k)
     THEN calls' = [calls EXCEPT
            ![c].pc = "stat", ![c].content = Apply(files[k].value, calls[c].arg)]
     ELSE Return(c, "failed", {})
  /\ UNCHANGED <<diskVars, walks, faults>>

\* Mutant: the GroupVersion is not looked at.
MkdirAll_AnyVersion(c) ==
  /\ At(c, "stat")
  /\ GoTo(c, "open")
  /\ dirs' = IF Exists(calls[c].key) THEN dirs ELSE dirs \cup Dirs(calls[c].key)
  /\ UNCHANGED <<files, walks, faults>>

\* The raw Write: the directories are made where there is no file.
MkdirAll(c) ==
  /\ At(c, "stat")
  /\ IF calls[c].key \notin Supported
     THEN Return(c, "failed", {}) /\ UNCHANGED dirs
     ELSE /\ GoTo(c, "open")
          /\ dirs' = IF Exists(calls[c].key) THEN dirs ELSE dirs \cup Dirs(calls[c].key)
  /\ UNCHANGED <<files, walks, faults>>

\* ioutil.WriteFile opens the file, which truncates or creates it...
OpenFile(c) ==
  /\ At(c, "open")
  /\ LET k == calls[c].key IN
     IF Identifier[k] \notin dirs
     THEN Return(c, "failed", {}) /\ UNCHANGED files
     ELSE /\ files' = [files EXCEPT ![k] = Empty]
          /\ calls' = [calls EXCEPT ![c].pc = "put", ![c].linked = TRUE]
  /\ UNCHANGED <<dirs, walks, faults>>

\* ...and writes at its beginning, over what another call may have written
\* since then; the file is no longer in the directory if it was removed.
PutContent(c) ==
  /\ At(c, "put")
  /\ LET k == calls[c].key
         v == calls[c].content
         overLonger ==
           \/ files[k].is = "torn"
           \/ files[k].is = "whole" /\ Cardinality(files[k].value) > Cardinality(v)
     IN IF calls[c].linked
        THEN files' = [files EXCEPT ![k] = IF overLonger THEN Torn(v) ELSE File(v)]
        ELSE UNCHANGED files
  /\ Return(c, "ok", {})
  /\ UNCHANGED <<dirs, walks, faults>>

PutFails(c) ==
  /\ At(c, "put") /\ faults < MaxFaults
  /\ faults' = faults + 1
  /\ Return(c, "failed", {})
  /\ UNCHANGED <<diskVars, walks>>

\* os.RemoveAll removes the file, and then the directory.
Unlink(c) ==
  /\ At(c, "unlink")
  /\ LET k == calls[c].key IN
     /\ files' = [files EXCEPT ![k] = Absent]
     /\ calls' = [d \in Clients |->
          IF d = c THEN [calls[d] EXCEPT !.pc = "rmdir"]
          ELSE IF d \in Running(k) THEN [calls[d] EXCEPT !.linked = FALSE]
          ELSE calls[d]]
     /\ walks' = [w \in Walkers |-> [walks[w] EXCEPT !.stable = @ \ {k}]]
  /\ UNCHANGED <<dirs, faults>>

\* Mutant: only the file is removed.
RemoveDir_KeepsDir(c) ==
  /\ At(c, "rmdir")
  /\ Return(c, "ok", {})
  /\ UNCHANGED <<files, dirs, walks, faults>>

RemoveDir(c) ==
  /\ At(c, "rmdir")
  /\ IF files[calls[c].key] # Absent
     THEN Return(c, "failed", {}) /\ UNCHANGED dirs
     ELSE Return(c, "ok", {}) /\ dirs' = {d \in dirs : ~IsPrefix(Identifier[calls[c].key], d)}
  /\ UNCHANGED <<files, walks, faults>>

Forget(c) ==
  /\ At(c, "done")
  /\ calls' = [calls EXCEPT ![c] = NoCall]
  /\ UNCHANGED <<diskVars, walks, faults>>
-----------------------------------------------------------------------------
(***************************************************************************)
(* List, Find and Count, by the walkers.                                   *)
(***************************************************************************)
NoWalk ==
  [pc |-> "idle", meta |-> FALSE, todo |-> {}, at |-> {}, found |-> {}, stable |-> {}]

Failed == [NoWalk EXCEPT !.pc = "failed"]

Entries == {d \in dirs : Len(d) = 1}

\* ReadDir's error, for a kind directory that no Write has made yet, is returned with
\* the count of no entries.
Count == [error |-> <<>> \notin dirs, count |-> Cardinality(Entries)]

\* ioutil.ReadDir of the kind's directory.  stable is kept for ListsStable:
\* the keys that have been there since the walk began.
ReadDir(w, meta) ==
  /\ walks[w].pc = "idle"
  /\ walks' = [walks EXCEPT ![w] =
       IF <<>> \in dirs
       THEN [NoWalk EXCEPT !.pc = "next", !.meta = meta, !.todo = Entries,
                           !.stable = {k \in Keys : files[k] # Absent}]
       ELSE Failed]
  /\ UNCHANGED <<diskVars, calls, faults>>

\* Mutant: the walk stops at an entry without a file.
WalkExists_Stops(w, e) ==
  /\ walks[w].pc = "next" /\ e \in walks[w].todo
  /\ walks' = [walks EXCEPT ![w] =
       LET at == {k \in Keys : Identifier[k] = e /\ Exists(k)} IN
       IF at = {} THEN [walks[w] EXCEPT !.todo = {}]
       ELSE [walks[w] EXCEPT !.pc = "read", !.todo = @ \ {e}, !.at = at]]
  /\ UNCHANGED <<diskVars, calls, faults>>

\* The key of an entry has the entry's name for its identifier; where no file
\* has that key, the entry is skipped.
WalkExists(w, e) ==
  /\ walks[w].pc = "next" /\ e \in walks[w].todo
  /\ walks' = [walks EXCEPT ![w] =
       LET at == {k \in Keys : Identifier[k] = e /\ Exists(k)} IN
       [walks[w] EXCEPT !.pc = IF at = {} THEN "next" ELSE "read",
                        !.todo = @ \ {e}, !.at = at]]
  /\ UNCHANGED <<diskVars, calls, faults>>

\* List decodes the objects, ListMeta their metadata only.
Readable(w, k) == IF walks[w].meta THEN DecodesMeta(k) ELSE Decodes(k)

\* An entry that cannot be read, because it was removed since, or that cannot
\* be decoded makes the walk fail.
WalkRead(w) ==
  /\ walks[w].pc = "read"
  /\ walks' = [walks EXCEPT ![w] =
       IF \A k \in walks[w].at : Readable(w, k)
       THEN [walks[w] EXCEPT !.pc = "next", !.found = @ \cup walks[w].at, !.at = {}]
       ELSE Failed]
  /\ UNCHANGED <<diskVars, calls, faults>>

\* The walk is over when there is nothing left of it to do.
Listed(w) == walks[w].pc = "next" /\ walks[w].todo = {}

WalkEnds(w) ==
  /\ Listed(w) \/ walks[w].pc = "failed"
  /\ walks' = [walks EXCEPT ![w] = NoWalk]
  /\ UNCHANGED <<diskVars, calls, faults>>

MatchName(f, m) ==
  /\ f.namespace \in {<<>>, m.namespace}
  /\ IF f.matchPrefix THEN IsPrefix(f.name, m.name) ELSE f.name = m.name

MatchUID(f, m) ==
  IF f.matchPrefix THEN IsPrefix(f.uid, m.uid) ELSE f.uid = m.uid

Match(f, m) == IF f.by = "name" THEN MatchName(f, m) ELSE MatchUID(f, m)

Parameter(f) == IF f.by = "name" THEN f.name ELSE f.uid

\* The objects that pass the first n filters; the next one fails when it has
\* no parameter and an object reaches it.
Passing(fs, objs, n) == {k \in objs : \A i \in 1 .. n : Match(fs[i], Meta[k])}

List(fs, objs) == Passing(fs, objs, Len(fs))

ListFails(fs, objs) ==
  \E i \in 1 .. Len(fs) : Parameter(fs[i]) = <<>> /\ Passing(fs, objs, i - 1) # {}

Find(fs, objs) ==
  IF ListFails(fs, objs) THEN "failed" ELSE
  CASE List(fs, objs) = {} -> "notFound"
    [] Cardinality(List(fs, objs)) = 1 -> "ok"
    [] OTHER -> "ambiguous"
-----------------------------------------------------------------------------
\* The process ends, at any step, and is started again.
Crash ==
  /\ faults < MaxFaults
  /\ faults' = faults + 1
  /\ calls' = [c \in Clients |-> NoCall]
  /\ walks' = [w \in Walkers |-> NoWalk]
  /\ UNCHANGED diskVars

Init ==
  /\ files = [k \in Keys |-> Absent]
  /\ dirs = {}
  /\ calls = [c \in Clients |-> NoCall]
  /\ walks = [w \in Walkers |-> NoWalk]
  /\ faults = 0

ClientStep(c) ==
  \/ CheckExists(c) \/ CheckFound(c) \/ Get(c) \/ Patch(c)
  \/ MkdirAll(c) \/ OpenFile(c) \/ PutContent(c) \/ PutFails(c)
  \/ Unlink(c) \/ RemoveDir(c) \/ Forget(c)

WalkStep(w) ==
  \/ \E meta \in BOOLEAN : ReadDir(w, meta)
  \/ WalkRead(w) \/ WalkEnds(w)
  \/ \E e \in walks[w].todo : WalkExists(w, e)

Next ==
  \/ \E c \in Clients, op \in Reads \cup Writes, k \in Keys, v \in Values :
       Call(c, op, k, v)
  \/ \E c \in Clients : ClientStep(c)
  \/ \E w \in Walkers : WalkStep(w)
  \/ Crash

Spec == Init /\ [][Next]_vars
-----------------------------------------------------------------------------
(***************************************************************************)
(* Properties.                                                             *)
(***************************************************************************)
\* Every variable has its type, and a file is in a directory.
TypeOK ==
  /\ files \in [Keys -> Files]
  /\ \A k \in Keys : files[k] # Absent => Identifier[k] \in dirs
  /\ dirs \subseteq UNION {Dirs(k) : k \in Supported}
  /\ calls \in [Clients -> CallRecords \cup {NoCall}]
  /\ \A w \in Walkers :
       /\ walks[w].pc \in {"idle", "next", "read", "failed"}
       /\ walks[w].meta \in BOOLEAN
       /\ walks[w].at \cup walks[w].found \cup walks[w].stable \subseteq Keys
  /\ faults \in 0 .. MaxFaults

\* The objects that the files stand for, while nothing writes to them.
View(k) ==
  IF files[k].is \in {"empty", "torn"} THEN [is |-> "damaged", value |-> {}]
  ELSE files[k]

\* An object has its new content from the opening of the file on; it is not
\* known while writes of it overlap.
objects ==
  [k \in Keys |->
     IF \E c \in Writing(k) : ~calls[c].alone
     THEN [is |-> "unknown", value |-> {}]
     ELSE IF \E c \in Writing(k) : calls[c].pc = "put"
     THEN File(calls[CHOOSE c \in Writing(k) : calls[c].pc = "put"].content)
     ELSE View(k)]

abstractCalls ==
  [c \in Clients |->
     IF calls[c] = NoCall THEN NoCall
     ELSE [op |-> calls[c].op, key |-> calls[c].key, arg |-> calls[c].arg,
           alone |-> calls[c].alone,
           applied |-> calls[c].alone /\ calls[c].pc \in {"put", "rmdir"},
           status |-> calls[c].status, value |-> calls[c].value]]

Store == INSTANCE ObjectStore WITH objects <- objects, calls <- abstractCalls

\* The storage implements ObjectStore: without a lock, a call that overlaps no
\* write of its key is atomic, what two overlapping writes of a key, a failed
\* write or a crash damage is the objects being written, and the next Update
\* or Delete that is alone repairs it.
ImplementsStore == Store!Spec

\* A List that succeeds has every object that was there from its beginning to
\* its end, whatever is created and deleted while it walks, and a Find returns
\* an object only if no other that was there matches (storage.go:240-281).
ListsStable ==
  \A w \in Walkers : Listed(w) =>
    /\ walks[w].stable \subseteq walks[w].found
    /\ \A fs \in Filters :
         LET stable == List(fs, walks[w].stable)
             answer == Find(fs, walks[w].found)
         IN ~ListFails(fs, walks[w].found) =>
              /\ stable # {} => answer \in {"ok", "ambiguous"}
              /\ Cardinality(stable) > 1 => answer = "ambiguous"

\* Count counts the objects, when no write runs and none was cut off: creating and
\* deleting them leaves no directories behind, and Count fails at most where there is
\* no object to count (storage.go:302).
CountsObjects ==
  LET there == {k \in Keys : files[k] # Absent} IN
  (faults = 0 /\ \A k \in Keys : Writing(k) = {})
    => Count.count = Cardinality(there) /\ (Count.error => there = {})

\* List returns all the objects of a kind (rawstorage.go:33), at least when no
\* call changes them.
ListsAll ==
  (\A c \in Clients : calls[c] = NoCall)
    => \A w \in Walkers : Listed(w) => walks[w].stable \subseteq walks[w].found
=============================================================================
