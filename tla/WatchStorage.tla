----------------------------- MODULE WatchStorage -----------------------------
(***************************************************************************)
(* GenericWatchStorage (pkg/storage/watch/storage.go): a Storage over a    *)
(* MappedRawStorage whose mappings follow the files.  monitorFunc turns    *)
(* file updates into object events and keeps the mappings; a client writes *)
(* through the storage, and other processes change the files.              *)
(***************************************************************************)
EXTENDS FileWatcher, Folds

CONSTANTS
    Objects,    \* the objects that can be identified (namespace and name)
    Nameless,   \* a file that parses, but to an object that cannot be identified
    Garbage,    \* a file that does not parse
    Junk,       \* which of the two others put into files
    Absent,     \* no file
    Torn,       \* a file between its truncation and its write
    NilKey,     \* the key of an object that cannot be identified
    NoPath,     \* no mapping
    OutsideOps, \* what other processes do in this instance
    ClientOps,  \* what the client does
    MaxOps,     \* bound: the operations of both
    CanClose    \* the client closes the storage

ASSUME WatchStorageAssumption ==
    /\ OutsideOps \subseteq {"write", "delete", "rename", "moveOut", "moveIn"}
    /\ Junk \subseteq {Nameless, Garbage}
    /\ Objects \cap {Nameless, Garbage, Absent, Torn, NilKey} = {}
    /\ Absent \notin {Torn, NilKey} /\ {Absent, Torn} \cap Junk = {}
    /\ NoPath \notin Paths
    /\ ClientOps \subseteq {"create", "update", "delete"}
    /\ MaxOps \in Nat /\ 1..MaxOps \subseteq Cookies
    /\ CanClose \in BOOLEAN

VARIABLES
    disk,       \* what each file holds
    mappings,   \* raw.fileMappings
    toScan,     \* monitorFunc: the files of the first scan
    update,     \* monitorFunc: the update it handles, and the content it has read
    listening,  \* s.events # nil
    client,     \* what the client is doing
    outside,    \* the file another process is writing
    ops,        \* how many operations there were
    view,       \* history: the objects a reader of the events knows of
    nameless,   \* history: the files that were mapped under NilKey
    unheard,    \* history: the objects with a change that no event was sent of
    strayed,    \* history: the objects whose mapping a move may have left behind
    owner,      \* history: the last object that each file held or was mapped for
    replaced    \* history: the files that were given another object too early

storageVars == <<disk, mappings, toScan, update, listening, client, outside, ops, view,
                 nameless, unheard, strayed, owner, replaced>>
vars == <<batchVars, watcherVars, storageVars>>

Contents == Objects \cup Junk
Keys == Objects \cup {NilKey}
Mapped(p) == {k \in Keys : mappings[k] = p}
NoUpdate == [event |-> "none"]
Idle == [op |-> "idle"]
NotWriting == [path |-> NoPath, content |-> Absent]

\* ObjectKeyFor: an object without name or namespace has the key nil, and the
\* error is only logged.  An empty file, too, parses to such an object.
ObjectKeyFor(content) == IF content \in Objects THEN content ELSE NilKey

AddMapping(key, p) ==
    /\ mappings' = [mappings EXCEPT ![key] = p]
    /\ nameless' = IF key = NilKey THEN nameless \cup {p} ELSE nameless
RemoveMapping(key) == mappings' = [mappings EXCEPT ![key] = NoPath] /\ UNCHANGED nameless

\* p is given to an object while something of its former one is on its way or mapped.
Busy(p) ==
    \/ \E e \in Pending \ {NoEvent} : e.path = p
    \/ \E u \in ToSet(outbox) \cup ToSet(updates) \cup ({update} \ {NoUpdate}) : u.path = p
Early(o, p) == owner[p] \notin {o, Absent} /\ (Busy(p) \/ Mapped(p) \ {o} # {})
Ousted(o, p) == IF Early(o, p) THEN {owner[p]} ELSE {}

\* The copy of an object that is in two files may be renamed.
Gives(content, p) ==
    IF content \in Objects
    THEN /\ owner' = [owner EXCEPT ![p] = content]
         /\ replaced' = IF Early(content, p) \/ content \in {disk[q] : q \in replaced}
                         THEN replaced \cup {p} ELSE replaced
         /\ strayed' = strayed \cup Ousted(content, p)
    ELSE UNCHANGED <<owner, replaced, strayed>>

sendEvent(event, key) ==
    IF listening
    THEN /\ view' = IF event = "DELETE" THEN view \ {key} ELSE view \cup {key}
         /\ UNCHANGED unheard
    ELSE unheard' = unheard \cup {key} /\ UNCHANGED view

(***************************************************************************)
(* monitorFunc: the first scan, then the updates.                          *)
(***************************************************************************)
Parses(content) == content \in Objects \cup {Nameless, Torn}

\* Each file that can be read and parsed is mapped and reported as MODIFY.
ScanFile ==
    /\ toScan # {}
    /\ \E p \in toScan :
        /\ toScan' = toScan \ {p}
        /\ IF Parses(disk[p])
           THEN /\ AddMapping(ObjectKeyFor(disk[p]), p)
                /\ sendEvent("MODIFY", ObjectKeyFor(disk[p]))
           ELSE UNCHANGED <<mappings, view, nameless, unheard>>
    /\ UNCHANGED <<batchVars, watcherVars, disk, update, listening, client, outside, ops, strayed, owner, replaced>>

\* An update is received, and the file is read unless it was deleted.
ReceiveUpdate ==
    /\ toScan = {}
    /\ update = NoUpdate
    /\ updates # <<>>
    /\ LET u == Head(updates)
       IN  update' = IF u.event # "delete" /\ ~Parses(disk[u.path]) THEN NoUpdate
                     ELSE [event |-> u.event, path |-> u.path, content |-> disk[u.path]]
    /\ updates' = Tail(updates)
    /\ LET u == Head(updates)
       IN  strayed' = IF u.event = "move" /\ disk[u.path] \notin Objects
                      THEN strayed \cup ({owner[u.path]} \cap Objects) ELSE strayed
    /\ UNCHANGED <<batchVars, events, closing, suspendEvent, monitor, dispatcher, outbox,
                   updatesClosed, moveCaches, incomplete, visited, missed, raced, disk, mappings,
                   toScan, listening, client, outside, ops, view, nameless, unheard, owner,
                   replaced>>

HandlesUpdate ==
    /\ update # NoUpdate
    /\ update' = NoUpdate
    /\ UNCHANGED <<syncMap, armed, flushes, flushClosed, toVisit, watcherVars, disk, toScan,
                   listening, client, outside, ops, strayed, owner, replaced>>

\* GetKey finds one of the keys mapped to the path.  GetGVK of a nil key panics.
HandleDelete ==
    /\ update.event = "delete"
    /\ IF Mapped(update.path) = {}
       THEN UNCHANGED <<mappings, view, nameless, unheard, panicked>>
       ELSE \E key \in Mapped(update.path) :
            IF key = NilKey
            THEN panicked' = "nilKey" /\ UNCHANGED <<mappings, view, nameless, unheard>>
            ELSE /\ RemoveMapping(key)
                 /\ sendEvent("DELETE", key)
                 /\ UNCHANGED panicked
    /\ HandlesUpdate

\* Mutant: an internal move leaves the mapping where it was.
HandleMove_NotMapped ==
    /\ update.event = "move"
    /\ UNCHANGED <<mappings, view, nameless, unheard, panicked>>
    /\ HandlesUpdate

\* The mapping of a moved object is replaced, and no event is sent, not even of an
\* object that was never reported.
HandleMove ==
    /\ update.event = "move"
    /\ LET key == ObjectKeyFor(update.content)
       IN  /\ AddMapping(key, update.path)
           /\ unheard' = unheard \cup ({key} \ view)
    /\ UNCHANGED <<view, panicked>>
    /\ HandlesUpdate

\* Mutant: an object that gets its mapping is not reported.
HandleModify_NoCreate ==
    /\ update.event = "modify"
    /\ IF Mapped(update.path) = {}
       THEN AddMapping(ObjectKeyFor(update.content), update.path) /\ UNCHANGED <<view, unheard>>
       ELSE /\ UNCHANGED <<mappings, nameless>>
            /\ sendEvent("MODIFY", ObjectKeyFor(update.content))
    /\ UNCHANGED panicked
    /\ HandlesUpdate

\* A path that has no mapping makes it a creation.
HandleModify ==
    /\ update.event = "modify"
    /\ IF Mapped(update.path) = {}
       THEN /\ AddMapping(ObjectKeyFor(update.content), update.path)
            /\ sendEvent("CREATE", ObjectKeyFor(update.content))
       ELSE /\ UNCHANGED <<mappings, nameless>>
            /\ sendEvent("MODIFY", ObjectKeyFor(update.content))
    /\ UNCHANGED panicked
    /\ HandlesUpdate

StorageSteps == ScanFile \/ ReceiveUpdate \/ HandleDelete \/ HandleMove \/ HandleModify

SetUpdateStream ==
    /\ ~listening
    /\ listening' = TRUE
    /\ UNCHANGED <<batchVars, watcherVars, disk, mappings, toScan, update, client, outside, ops,
                   view, nameless, unheard, strayed, owner, replaced>>

(***************************************************************************)
(* The client.  Every write suspends the next event of its kind, then      *)
(* calls the embedded Storage, which may fail without an event.            *)
(***************************************************************************)
OnDisk ==
    {disk[p] : p \in Paths} \cup {outside.content}
        \cup (IF client.op \in {"create", "write"} THEN {client.key} ELSE {})
Exists(key) == mappings[key] # NoPath /\ disk[mappings[key]] # Absent

\* A client that creates an object gives it a path first.
ClientCreate(o, p) ==
    /\ "create" \in ClientOps
    /\ o \notin OnDisk /\ mappings[o] = NoPath
    /\ disk[p] = Absent
    /\ AddMapping(o, p)
    /\ Gives(o, p)
    /\ Suspend("modify")
    /\ client' = [op |-> "create", key |-> o]

\* Update and Patch.
ClientUpdate(o) ==
    /\ "update" \in ClientOps
    /\ Suspend("modify")
    /\ client' = [op |-> "update", key |-> o]
    /\ UNCHANGED <<mappings, nameless, owner, replaced, strayed>>

ClientDelete(o) ==
    /\ "delete" \in ClientOps
    /\ Suspend("delete")
    /\ client' = [op |-> "delete", key |-> o]
    /\ UNCHANGED <<mappings, nameless, owner, replaced, strayed>>

ClientCalls ==
    /\ client = Idle
    /\ closing = "open"
    /\ ops < MaxOps
    /\ ops' = ops + 1
    /\ \E o \in Objects :
            ClientUpdate(o) \/ ClientDelete(o) \/ \E p \in Paths : ClientCreate(o, p)
    /\ UNCHANGED <<batchVars, events, closing, monitor, dispatcher, outbox, updates,
                   updatesClosed, moveCaches, incomplete, visited, missed, raced, disk, toScan,
                   update, listening, outside, view, unheard>>

\* Create fails when the object exists, the others when it does not.
ClientFails ==
    /\ client.op \in {"create", "update", "delete"}
    /\ IF client.op = "create" THEN Exists(client.key) \/ mappings[client.key] = NoPath
       ELSE IF client.op = "update" THEN ~Exists(client.key)
       ELSE mappings[client.key] = NoPath
    /\ client' = Idle
    /\ UNCHANGED <<batchVars, watcherVars, disk, mappings, toScan, update, listening,
                   outside, ops, view, nameless, unheard, strayed, owner, replaced>>

\* ioutil.WriteFile truncates or creates the file, and writes it.
ClientOpens ==
    /\ client.op \in {"create", "update"}
    /\ mappings[client.key] # NoPath
    /\ (client.op = "update") = Exists(client.key)
    /\ disk[mappings[client.key]] # Torn
    /\ disk' = [disk EXCEPT ![mappings[client.key]] = Torn]
    /\ client' = [op |-> "write", key |-> client.key, path |-> mappings[client.key]]
    /\ LET o == client.key
           p == mappings[o]
           copies == {q \in Paths \ {p} : o = IF outside.path = q THEN outside.content ELSE disk[q]}
       IN  /\ owner' = [owner EXCEPT ![p] = o]
           /\ replaced' = replaced \cup copies \cup (IF Early(o, p) \/ copies # {} THEN {p} ELSE {})
           /\ strayed' = strayed \cup Ousted(o, p)
    /\ UNCHANGED <<batchVars, watcherVars, mappings, toScan, update, listening, outside,
                   ops, view, nameless, unheard>>

\* The object's mapping may have been removed meanwhile, with an event: the next events
\* of the file are then no longer the object's.
ClientWrites ==
    /\ client.op = "write"
    /\ disk' = [disk EXCEPT ![client.path] = client.key]
    /\ Notify(<<[type |-> "closeWrite", path |-> client.path, cookie |-> NoCookie]>>)
    /\ view' = view \cup {client.key}
    /\ unheard' = IF mappings[client.key] = NoPath THEN unheard \cup {client.key} ELSE unheard
    /\ client' = Idle
    /\ UNCHANGED <<batchVars, closing, suspendEvent, monitor, dispatcher, outbox, updates,
                   updatesClosed, moveCaches, incomplete, visited, mappings, toScan, update,
                   listening, outside, ops, nameless, strayed, owner, replaced>>

\* The file, if there is one, and the mapping are removed.
ClientRemoves ==
    /\ client.op = "delete"
    /\ LET p == mappings[client.key]
       IN  /\ p # NoPath
           /\ disk[p] # Torn
           /\ disk' = [disk EXCEPT ![p] = Absent]
           /\ IF disk[p] = Absent THEN UNCHANGED <<events, missed, raced>>
              ELSE Notify(<<[type |-> "delete", path |-> p, cookie |-> NoCookie]>>)
    /\ RemoveMapping(client.key)
    /\ view' = view \ {client.key}
    /\ client' = Idle
    /\ UNCHANGED <<batchVars, closing, suspendEvent, monitor, dispatcher, outbox, updates,
                   updatesClosed, moveCaches, incomplete, visited, toScan, update,
                   listening, outside, ops, nameless, unheard, strayed, owner, replaced>>

ClientSteps == ClientCalls \/ ClientFails \/ ClientOpens \/ ClientWrites \/ ClientRemoves

(***************************************************************************)
(* Other processes.  A file keeps its object; an object is in one file.    *)
(***************************************************************************)
NewContents(p) ==
    ({disk[p]} \cap Contents)
        \cup (IF disk[p] \in Objects THEN {} ELSE Objects \ OnDisk)
        \cup Junk

OutsideOpens(p) ==
    /\ "write" \in OutsideOps
    /\ outside = NotWriting
    /\ disk[p] # Torn
    /\ \E c \in NewContents(p) : outside' = [path |-> p, content |-> c] /\ Gives(c, p)
    /\ disk' = [disk EXCEPT ![p] = Torn]
    /\ UNCHANGED <<events, missed, raced>>

OutsideDeletes(p) ==
    /\ "delete" \in OutsideOps
    /\ disk[p] \in Contents
    /\ disk' = [disk EXCEPT ![p] = Absent]
    /\ Notify(<<[type |-> "delete", path |-> p, cookie |-> NoCookie]>>)
    /\ UNCHANGED <<outside, owner, replaced, strayed>>

OutsideRenames(p, q) ==
    /\ "rename" \in OutsideOps
    /\ disk[p] \in Contents
    /\ disk[q] = Absent
    /\ disk' = [disk EXCEPT ![p] = Absent, ![q] = disk[p]]
    /\ Notify(<<[type |-> "movedFrom", path |-> p, cookie |-> ops + 1],
                [type |-> "movedTo", path |-> q, cookie |-> ops + 1]>>)
    /\ LET o == disk[p]
       IN  IF o \in Objects THEN Gives(o, q)
           ELSE /\ strayed' = strayed \cup ({owner[p]} \cap Objects)
                /\ UNCHANGED <<owner, replaced>>
    /\ UNCHANGED outside

\* To and from a place that is not watched, or a name that is not a manifest's.
OutsideMovesOut(p) ==
    /\ "moveOut" \in OutsideOps
    /\ disk[p] \in Contents
    /\ disk' = [disk EXCEPT ![p] = Absent]
    /\ Notify(<<[type |-> "movedFrom", path |-> p, cookie |-> ops + 1]>>)
    /\ UNCHANGED <<outside, owner, replaced, strayed>>

OutsideMovesIn(p) ==
    /\ "moveIn" \in OutsideOps
    /\ disk[p] # Torn
    /\ \E c \in NewContents(p) : disk' = [disk EXCEPT ![p] = c] /\ Gives(c, p)
    /\ Notify(<<[type |-> "movedTo", path |-> p, cookie |-> ops + 1]>>)
    /\ UNCHANGED outside

OutsideWrites ==
    /\ outside # NotWriting
    /\ disk' = [disk EXCEPT ![outside.path] = outside.content]
    /\ Notify(<<[type |-> "closeWrite", path |-> outside.path, cookie |-> NoCookie]>>)
    /\ outside' = NotWriting
    /\ UNCHANGED <<ops, owner, replaced, strayed>>

OutsideSteps ==
    /\ \/ /\ ops < MaxOps
          /\ ops' = ops + 1
          /\ \E p \in Paths : OutsideOpens(p) \/ OutsideDeletes(p)
                              \/ OutsideMovesOut(p) \/ OutsideMovesIn(p)
                              \/ \E q \in Paths : OutsideRenames(p, q)
       \/ OutsideWrites
    /\ UNCHANGED <<batchVars, closing, suspendEvent, monitor, dispatcher, outbox, updates,
                   updatesClosed, moveCaches, incomplete, visited, mappings, toScan, update,
                   listening, client, view, nameless, unheard>>

WatcherSteps == MonitorSteps \/ DispatchSteps \/ TimerSteps

Close == CanClose /\ toScan = {} /\ client = Idle /\ CloseSteps

Init ==
    /\ WatcherInit
    /\ disk \in [Paths -> Contents \cup {Absent}]
    /\ \A p, q \in Paths : disk[p] \in Objects /\ disk[p] = disk[q] => p = q
    /\ mappings = [k \in Keys |-> NoPath]
    /\ toScan = {p \in Paths : disk[p] # Absent}
    /\ update = NoUpdate
    /\ listening = FALSE
    /\ client = Idle
    /\ outside = NotWriting
    /\ ops = 0
    /\ view = {}
    /\ nameless = {}
    /\ unheard = {}
    /\ strayed = {}
    /\ owner = [p \in Paths |-> IF disk[p] \in Objects THEN disk[p] ELSE Absent]
    /\ replaced = {}

Next ==
    /\ panicked = "no"
    /\ \/ WatcherSteps /\ UNCHANGED storageVars
       \/ Close /\ UNCHANGED storageVars
       \/ StorageSteps \/ SetUpdateStream
       \/ ClientSteps \/ OutsideSteps

Spec == Init /\ [][Next]_vars

Fairness ==
    /\ WF_vars(MonitorSteps /\ UNCHANGED storageVars)
    /\ WF_vars(DispatchSteps /\ UNCHANGED storageVars)
    /\ WF_vars(TimerSteps /\ UNCHANGED storageVars)
    /\ WF_vars(StorageSteps)
    /\ WF_vars(ClientFails \/ ClientOpens \/ ClientWrites \/ ClientRemoves)
    /\ WF_vars(OutsideWrites /\ OutsideSteps)

FairSpec == Spec /\ Fairness

-----------------------------------------------------------------------------
Update == [event: FileEvents, path: Paths]

\* The types of the pipeline, the capacities of its queues, and the mappings.
TypeOK ==
    /\ \A p \in Paths : syncMap[p] = NoValue \/ syncMap[p] \in Seq(Event) \ {<<>>}
    /\ monitor \in Seq(Event)
    /\ events \in Seq(Event) /\ Len(events) <= EventCap
    /\ updates \in Seq(Update) /\ Len(updates) <= UpdateCap
    /\ outbox \in Seq(Update)
    /\ toVisit \subseteq Paths
    /\ panicked \in Panics
    /\ suspendEvent \in FileEvents
    /\ disk \in [Paths -> Contents \cup {Absent, Torn}]
    /\ mappings \in [Keys -> Paths \cup {NoPath}]
    /\ view \subseteq Keys
    /\ missed \cup raced \cup nameless \cup replaced \subseteq Paths /\ unheard \subseteq Keys
    /\ strayed \subseteq Objects
    /\ owner \in [Paths -> Objects \cup {Absent}]

\* No event is on its way and nobody is at work.
Quiet ==
    /\ events = <<>> /\ monitor = <<>> /\ Stored = {}
    /\ ~armed /\ flushes = 0 /\ dispatcher = "wait" /\ outbox = <<>>
    /\ incomplete = <<>> /\ \A c \in Cookies : moveCaches[c] = NoCache
    /\ updates = <<>> /\ update = NoUpdate /\ toScan = {}
    /\ client = Idle /\ outside = NotWriting
    /\ closing = "open" /\ panicked = "no"

\* Once every event has been handled, whatever the batches, timers and reads in
\* between, the mapping of an object is the file that holds it: the contract of the
\* mapped storage under a watcher.  What the watcher is known to lose is left out:
\* files with an event that it dropped, skipped, cancelled or reported in the wrong
\* order, files mapped under the nil key, and, for the mappings of files that are
\* gone, a move whose file could not be read when it was handled.
QuietMappings ==
    Quiet => \A p \in Paths \ (missed \cup raced \cup nameless \cup replaced), o \in Objects :
                /\ disk[p] = o => mappings[o] = p
                /\ mappings[o] = p /\ o \notin strayed => disk[p] \in {o} \cup Junk

\* Once every event has been handled, a reader of the events (who also knows of the
\* writes of the client) knows of every object that is in a file whose events were
\* not lost and, when no file's were, of no object that is gone.
QuietReader ==
    Quiet => LET lost == missed \cup raced \cup nameless \cup replaced
             IN  \A o \in Objects \ unheard :
                    /\ \A p \in Paths \ lost : disk[p] = o => o \in view
                    /\ lost = {} /\ o \in view \ strayed =>
                        \E p \in Paths : disk[p] = o \/ (owner[p] = o /\ disk[p] \in Junk)

\* No events are left in the batch with nobody to flush it.
NoStrandedBatch ==
    Stored # {} /\ closing = "open" => armed \/ flushes > 0 \/ dispatcher = "range"

\* The pipeline empties again and again, unless the storage is closed or has died.
PipelineDrains == []<>(Quiet \/ closing # "open" \/ panicked # "no")

=============================================================================
