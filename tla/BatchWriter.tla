------------------------------ MODULE BatchWriter ------------------------------
(***************************************************************************)
(* BatchWriter (pkg/util/sync/batcher.go): one goroutine stores values     *)
(* under keys, another processes the whole map once the timer, restarted   *)
(* by every Store, has fired.  The timer's function runs in a goroutine of *)
(* its own, which blocks in its send until ProcessBatch receives: a Store  *)
(* can stop a timer that is armed, but not a flush that is on its way.     *)
(***************************************************************************)
EXTENDS Naturals, Sequences

CONSTANTS
    Paths,      \* the keys: the paths of the files
    NoValue     \* Load finds nothing

VARIABLES
    syncMap,    \* b.syncMap
    armed,      \* b.timer has been started and has not fired
    flushes,    \* the goroutines blocked in their send on flushCh
    flushClosed,    \* flushCh is closed
    toVisit,    \* in ProcessBatch, the keys that Range has still to visit
    panicked    \* how the process died, if it did

batchVars == <<syncMap, armed, flushes, flushClosed, toVisit, panicked>>

Panics == {"no", "closedChannel", "nilKey"}
EmptyMap == [p \in Paths |-> NoValue]
Stored == {p \in Paths : syncMap[p] # NoValue}

\* Mutant: the timer is stopped and not started again.
Store_NotRestarted(p, value) ==
    /\ syncMap' = [syncMap EXCEPT ![p] = value]
    /\ armed' = FALSE
    /\ UNCHANGED <<flushes, flushClosed, toVisit, panicked>>

\* The timer is stopped if it has not fired, and started again.
Store(p, value) ==
    /\ syncMap' = [syncMap EXCEPT ![p] = value]
    /\ armed' = TRUE
    /\ UNCHANGED <<flushes, flushClosed, toVisit, panicked>>

\* Mutant: the send does not wait for ProcessBatch.
TimerFires_NoWait ==
    /\ armed
    /\ armed' = FALSE
    /\ UNCHANGED <<syncMap, flushes, flushClosed, toVisit, panicked>>

\* A send on a closed channel panics.
TimerFires ==
    /\ armed
    /\ armed' = FALSE
    /\ IF flushClosed
       THEN panicked' = "closedChannel" /\ UNCHANGED flushes
       ELSE flushes' = flushes + 1 /\ UNCHANGED panicked
    /\ UNCHANGED <<syncMap, flushClosed, toVisit>>

\* ProcessBatch: a flush is received, and Range begins with the keys there are.
ReceiveFlush ==
    /\ flushes > 0
    /\ flushes' = flushes - 1
    /\ toVisit' = Stored
    /\ UNCHANGED <<syncMap, armed, flushClosed, panicked>>

\* Range visits the keys in any order.
Visit(p) ==
    /\ p \in toVisit
    /\ toVisit' = toVisit \ {p}
    /\ UNCHANGED <<syncMap, armed, flushes, flushClosed, panicked>>

\* ProcessBatch ends by replacing the map, whatever has been stored since.
ResetMap ==
    /\ toVisit = {}
    /\ syncMap' = EmptyMap
    /\ UNCHANGED <<armed, flushes, flushClosed, toVisit, panicked>>

\* Close closes flushCh, under the senders that are blocked on it, and leaves the
\* timer running.
CloseBatch ==
    /\ flushClosed' = TRUE
    /\ panicked' = IF flushes > 0 THEN "closedChannel" ELSE panicked
    /\ UNCHANGED <<syncMap, armed, flushes, toVisit>>

BatchInit ==
    /\ syncMap = EmptyMap
    /\ armed = FALSE
    /\ flushes = 0
    /\ flushClosed = FALSE
    /\ toVisit = {}
    /\ panicked = "no"
=============================================================================
