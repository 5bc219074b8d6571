------------------------------ MODULE FileWatcher ------------------------------
(***************************************************************************)
(* FileWatcher (pkg/util/watcher/filewatcher.go): inotify events of the    *)
(* manifest files of a directory, one event queue for all of them, become  *)
(* file updates.  monitorFunc collects the events of each file in a        *)
(* BatchWriter, dispatchFunc combines the events of each file of a batch   *)
(* and sends the updates.  The two halves of a rename carry one cookie and *)
(* meet in moveCaches, where a timer makes a lonely half a deletion or a   *)
(* creation.  Suspend has monitorFunc skip the next event of a kind.       *)
(*                                                                         *)
(* Each goroutine is cut where another one can run in between: at every    *)
(* receive, send, Load and Store, and at every visit of Range.             *)
(***************************************************************************)
EXTENDS BatchWriter, SequencesExt

CONSTANTS
    Cookies,    \* one for each rename
    NoCookie,   \* of an event that belongs to none
    EventCap,   \* the capacity of w.events (4096 in the code)
    UpdateCap   \* the capacity of w.updates (4096 in the code)

Event == [type: {"delete", "closeWrite", "movedFrom", "movedTo"}, path: Paths,
          cookie: Cookies \cup {NoCookie}]

ASSUME FileWatcherAssumption ==
    /\ NoCookie \notin Cookies
    /\ EventCap \in Nat \ {0}
    /\ UpdateCap \in Nat \ {0}
    /\ NoValue \notin Seq(Event)

VARIABLES
    events,     \* w.events
    closing,    \* how far Close is
    suspendEvent,   \* w.suspendEvent
    monitor,    \* the list monitorFunc is about to store, <<>> when it receives
    dispatcher, \* dispatchFunc
    outbox,     \* the updates dispatchFunc has still to send for a file
    updates,    \* w.updates
    updatesClosed,  \* monitorFunc has ended, and closed w.updates
    moveCaches, \* the half of a rename that waits, by cookie
    incomplete, \* the goroutines of the timers of moveCaches, and their step
    visited,    \* history: what Range saw of each file in this batch
    missed,     \* history: the files with an event that became no update
    raced       \* history: the files with an event whose update raced with another

watcherVars == <<events, closing, suspendEvent, monitor, dispatcher, outbox, updates,
                 updatesClosed, moveCaches, incomplete, visited, missed, raced>>

NoEvent == [type |-> "none"]
FileEvents == {"none", "modify", "delete", "move"}
FileUpdate(type, path) == [event |-> type, path |-> path]

\* eventMap
convertEvent(e) ==
    CASE e.type = "delete" -> "delete"
      [] e.type = "closeWrite" -> "modify"
      [] OTHER -> "none"

(***************************************************************************)
(* notify: inotify's events go to w.events, and are dropped when it is     *)
(* full.                                                                   *)
(***************************************************************************)
Pending ==
    ToSet(events) \cup ToSet(monitor) \cup (UNION {ToSet(syncMap[p]) : p \in Stored})
        \cup {moveCaches[c].event : c \in Cookies} \cup {i.event : i \in ToSet(incomplete)}

\* The timer of a rename may have e reported before, or after, an earlier event.
Races(e) ==
    \E f \in Pending \ {NoEvent} :
        /\ f.path = e.path
        /\ f.type = "movedFrom" \/ (f.type = "delete" /\ e.type = "movedTo")

\* What is sent of the events of one operation, at most two: each is dropped on its
\* own.  Where there is room for one of two, it is the first, or the second when the
\* monitor takes an event in between.
Sent(new) ==
    IF Len(events) + Len(new) <= EventCap THEN {new}
    ELSE IF Len(events) < EventCap THEN {<<e>> : e \in ToSet(new)}
    ELSE {<<>>}

Notify(new) ==
    IF closing # "open" THEN UNCHANGED <<events, missed, raced>>
    ELSE \E sent \in Sent(new) :
            /\ events' = events \o sent
            /\ missed' = missed \cup {e.path : e \in ToSet(new) \ ToSet(sent)}
            /\ raced' = raced \cup {e.path : e \in {e \in ToSet(new) : Races(e)}}

(***************************************************************************)
(* monitorFunc.                                                            *)
(***************************************************************************)
Suspend(type) == suspendEvent' = type

Suspended(e) == suspendEvent # "none" /\ convertEvent(e) = suspendEvent

\* The suspended event is skipped, once, whichever file it is about.
MonitorSkips ==
    /\ monitor = <<>>
    /\ events # <<>>
    /\ Suspended(Head(events))
    /\ suspendEvent' = "none"
    /\ events' = Tail(events)
    /\ missed' = missed \cup {Head(events).path}
    /\ UNCHANGED <<batchVars, closing, monitor, dispatcher, outbox, updates,
                   updatesClosed, moveCaches, incomplete, visited, raced>>

\* Load, and append the event to what has been found.
MonitorLoads ==
    /\ monitor = <<>>
    /\ events # <<>>
    /\ LET e == Head(events)
       IN  /\ ~Suspended(e)
           /\ monitor' = IF syncMap[e.path] = NoValue THEN <<e>>
                         ELSE Append(syncMap[e.path], e)
    /\ events' = Tail(events)
    /\ UNCHANGED <<batchVars, closing, suspendEvent, dispatcher, outbox, updates,
                   updatesClosed, moveCaches, incomplete, visited, missed, raced>>

MonitorStores ==
    /\ monitor # <<>>
    /\ Store(Last(monitor).path, monitor)
    /\ monitor' = <<>>
    /\ UNCHANGED <<events, closing, suspendEvent, dispatcher, outbox, updates,
                   updatesClosed, moveCaches, incomplete, visited, missed, raced>>

\* w.events is closed and empty: the deferred close(w.updates).
MonitorEnds ==
    /\ monitor = <<>>
    /\ events = <<>>
    /\ closing = "closed" /\ ~updatesClosed
    /\ updatesClosed' = TRUE
    /\ UNCHANGED <<batchVars, events, closing, suspendEvent, monitor, dispatcher, outbox, updates,
                   moveCaches, incomplete, visited, missed, raced>>

MonitorSteps == MonitorSkips \/ MonitorLoads \/ MonitorStores \/ MonitorEnds

(***************************************************************************)
(* concatenateEvents and move: what becomes of the events of one file.     *)
(***************************************************************************)
Prefix(s, first, second) ==
    Len(s) >= 2 /\ s[1].type = first /\ s[2].type = second

\* combinedEvents: DELETE + MODIFY => MODIFY, MODIFY + DELETE => NONE.  Only a
\* prefix is matched, again and again until none matches.
CombinePrefix(s) ==
    IF Prefix(s, "delete", "closeWrite") THEN Tail(s)
    ELSE IF Prefix(s, "closeWrite", "delete") THEN Tail(Tail(s))
    ELSE s
Combining(s) ==
    LET after[n \in 0..Len(s)] == IF n = 0 THEN s ELSE CombinePrefix(after[n - 1])
    IN  after
Combined(s) == Combining(s)[Len(s)]
CancelsDelete(s) ==
    \E n \in 0..Len(s) : Prefix(Combining(s)[n], "closeWrite", "delete")

NoCache == [event |-> NoEvent, armed |-> FALSE]

\* The first half of a rename waits in moveCaches, the second one makes it a move
\* to the path of the half that is a movedTo.
move(acc, e) ==
    LET cache == acc.caches[e.cookie]
    IN  IF cache = NoCache
        THEN [acc EXCEPT !.caches[e.cookie] = [event |-> e, armed |-> TRUE]]
        ELSE [acc EXCEPT !.caches[e.cookie] = NoCache,
                         !.out = Append(@, FileUpdate("move",
                            IF e.type = "movedTo" THEN e.path ELSE cache.event.path))]

concatenateEvents(s) ==
    FoldLeft(LAMBDA acc, e :
                IF convertEvent(e) = "none" THEN move(acc, e)
                ELSE [acc EXCEPT !.out = Append(@, FileUpdate(convertEvent(e), e.path))],
             [out |-> <<>>, caches |-> moveCaches], Combined(s))

(***************************************************************************)
(* dispatchFunc.                                                           *)
(***************************************************************************)
DispatchBegins ==
    /\ dispatcher = "wait"
    /\ ~flushClosed
    /\ ReceiveFlush
    /\ dispatcher' = "range"
    /\ visited' = EmptyMap
    /\ UNCHANGED <<events, closing, suspendEvent, monitor, outbox, updates,
                   updatesClosed, moveCaches, incomplete, missed, raced>>

\* Range hands over what is stored under p now.
DispatchVisits(p) ==
    /\ dispatcher = "range"
    /\ outbox = <<>>
    /\ Visit(p)
    /\ LET result == concatenateEvents(syncMap[p])
       IN  outbox' = result.out /\ moveCaches' = result.caches
    /\ visited' = [visited EXCEPT ![p] = syncMap[p]]
    /\ missed' = IF CancelsDelete(syncMap[p]) THEN missed \cup {p} ELSE missed
    /\ UNCHANGED <<events, closing, suspendEvent, monitor, dispatcher, updates,
                   updatesClosed, incomplete, raced>>

\* Mutant: the send does not wait for room.
sendUpdate_NoWait(update) ==
    /\ updates' = IF updatesClosed THEN updates ELSE Append(updates, update)
    /\ UNCHANGED panicked

\* w.updates <- update
sendUpdate(update) ==
    IF updatesClosed
    THEN panicked' = "closedChannel" /\ UNCHANGED updates
    ELSE /\ Len(updates) < UpdateCap
         /\ updates' = Append(updates, update)
         /\ UNCHANGED panicked

DispatchSends ==
    /\ outbox # <<>>
    /\ sendUpdate(Head(outbox))
    /\ outbox' = Tail(outbox)
    /\ UNCHANGED <<syncMap, armed, flushes, flushClosed, toVisit, events, closing,
                   suspendEvent, monitor, dispatcher, updatesClosed, moveCaches,
                   incomplete, visited, missed, raced>>

\* What was stored since Range passed by goes with the rest of the map.
DispatchResets ==
    /\ dispatcher = "range"
    /\ outbox = <<>>
    /\ ResetMap
    /\ dispatcher' = "wait"
    /\ missed' = missed \cup {p \in Stored : visited[p] # syncMap[p]}
    /\ visited' = EmptyMap
    /\ UNCHANGED <<events, closing, suspendEvent, monitor, outbox, updates,
                   updatesClosed, moveCaches, incomplete, raced>>

DispatchEnds ==
    /\ dispatcher = "wait"
    /\ flushClosed
    /\ dispatcher' = "ended"
    /\ UNCHANGED <<batchVars, events, closing, suspendEvent, monitor, outbox, updates,
                   updatesClosed, moveCaches, incomplete, visited, missed, raced>>

DispatchSteps ==
    \/ DispatchBegins \/ DispatchSends \/ DispatchResets \/ DispatchEnds
    \/ \E p \in Paths : DispatchVisits(p)

(***************************************************************************)
(* The timers: of the batch, and of each half of a rename that waits.      *)
(***************************************************************************)
BatchTimerFires == TimerFires /\ UNCHANGED watcherVars

MoveTimerFires(c) ==
    /\ moveCaches[c].armed
    /\ moveCaches' = [moveCaches EXCEPT ![c].armed = FALSE]
    /\ incomplete' = Append(incomplete, [event |-> moveCaches[c].event, step |-> "send"])
    /\ UNCHANGED <<batchVars, events, closing, suspendEvent, monitor, dispatcher, outbox,
                   updates, updatesClosed, visited, missed, raced>>

\* A lonely movedFrom is a deletion, a lonely movedTo a modification.
IncompleteSends(n) ==
    /\ incomplete[n].step = "send"
    /\ LET half == incomplete[n].event
       IN  sendUpdate(FileUpdate(IF half.type = "movedFrom" THEN "delete" ELSE "modify", half.path))
    /\ incomplete' = [incomplete EXCEPT ![n].step = "forget"]
    /\ UNCHANGED <<syncMap, armed, flushes, flushClosed, toVisit, events, closing,
                   suspendEvent, monitor, dispatcher, outbox, updatesClosed, moveCaches,
                   visited, missed, raced>>

\* Whatever the cookie is mapped to is deleted.  When that is another half, its timer
\* goes on, and cannot be cancelled any more.
IncompleteForgets(n) ==
    /\ incomplete[n].step = "forget"
    /\ LET c == incomplete[n].event.cookie
       IN  /\ moveCaches' = [moveCaches EXCEPT ![c] = NoCache]
           /\ incomplete' = RemoveAt(incomplete, n) \o
                (IF moveCaches[c].armed
                 THEN <<[event |-> moveCaches[c].event, step |-> "send"]>> ELSE <<>>)
    /\ UNCHANGED <<batchVars, events, closing, suspendEvent, monitor, dispatcher, outbox,
                   updates, updatesClosed, visited, missed, raced>>

TimerSteps ==
    \/ BatchTimerFires
    \/ \E c \in Cookies : MoveTimerFires(c)
    \/ \E n \in DOMAIN incomplete : IncompleteSends(n) \/ IncompleteForgets(n)

(***************************************************************************)
(* Close: notify.Stop, batcher.Close, close(w.events), and the two waits.  *)
(***************************************************************************)
CloseStops ==
    /\ closing = "open"
    /\ closing' = "stopped"
    /\ UNCHANGED <<batchVars, events, suspendEvent, monitor, dispatcher, outbox, updates,
                   updatesClosed, moveCaches, incomplete, visited, missed, raced>>

CloseFlushes ==
    /\ closing = "stopped"
    /\ CloseBatch
    /\ closing' = "batchClosed"
    /\ UNCHANGED <<events, suspendEvent, monitor, dispatcher, outbox, updates,
                   updatesClosed, moveCaches, incomplete, visited, missed, raced>>

CloseEvents ==
    /\ closing = "batchClosed"
    /\ closing' = "closed"
    /\ UNCHANGED <<batchVars, events, suspendEvent, monitor, dispatcher, outbox, updates,
                   updatesClosed, moveCaches, incomplete, visited, missed, raced>>

CloseReturns ==
    /\ closing = "closed"
    /\ updatesClosed /\ dispatcher = "ended"
    /\ closing' = "done"
    /\ UNCHANGED <<batchVars, events, suspendEvent, monitor, dispatcher, outbox, updates,
                   updatesClosed, moveCaches, incomplete, visited, missed, raced>>

CloseSteps == CloseStops \/ CloseFlushes \/ CloseEvents \/ CloseReturns

WatcherInit ==
    /\ BatchInit
    /\ events = <<>>
    /\ closing = "open"
    /\ suspendEvent = "none"
    /\ monitor = <<>>
    /\ dispatcher = "wait"
    /\ outbox = <<>>
    /\ updates = <<>>
    /\ updatesClosed = FALSE
    /\ moveCaches = [c \in Cookies |-> NoCache]
    /\ incomplete = <<>>
    /\ visited = EmptyMap
    /\ missed = {}
    /\ raced = {}
=============================================================================
