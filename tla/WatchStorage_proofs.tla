-------------------------- MODULE WatchStorage_proofs --------------------------
(***************************************************************************)
(* For any number of files, objects, operations and queue capacities: the  *)
(* batch of the file watcher is never left without a flush, the pipeline   *)
(* is well formed, and, once every event has been handled, the mappings    *)
(* are those of the files and a reader of the events knows what is there.  *)
(***************************************************************************)
EXTENDS WatchStorage, SequenceTheorems, WellFoundedInduction, TLAPS

\* NoStrandedBatch alone is not inductive: a timer that fires on a closed channel
\* flushes nothing, so the channel must not be closed while the watcher is open.
BatchInv ==
    /\ flushes \in Nat
    /\ flushClosed => closing # "open"
    /\ NoStrandedBatch

\* What BatchInv and the steps that keep it are about.
batchState == <<syncMap, armed, flushes, flushClosed, closing, dispatcher>>

LEMMA BatchUnchanged ==
    ASSUME BatchInv, UNCHANGED batchState
    PROVE  BatchInv'
BY DEF BatchInv, NoStrandedBatch, Stored, batchState

LEMMA BatchInitially == Init => BatchInv
BY DEF Init, WatcherInit, BatchInit, BatchInv, NoStrandedBatch, Stored, EmptyMap

\* monitorFunc: a Store starts the timer.
LEMMA MonitorKeepsBatch ==
    ASSUME BatchInv, MonitorSteps
    PROVE  BatchInv'
<1>1. CASE MonitorStores
  BY <1>1 DEF MonitorStores, Store, BatchInv, NoStrandedBatch
<1>2. CASE MonitorSkips \/ MonitorLoads \/ MonitorEnds
  <2>1. UNCHANGED batchState
    BY <1>2 DEF MonitorSkips, MonitorLoads, MonitorEnds, batchVars, batchState
  <2> QED BY <2>1, BatchUnchanged
<1> QED BY <1>1, <1>2 DEF MonitorSteps

\* dispatchFunc: a flush it receives is followed by the visits, and a new map.
LEMMA DispatchKeepsBatch ==
    ASSUME BatchInv, DispatchSteps
    PROVE  BatchInv'
<1>1. CASE DispatchBegins
  BY <1>1 DEF DispatchBegins, ReceiveFlush, BatchInv, NoStrandedBatch
<1>2. CASE DispatchResets
  <2>1. Stored' = {}
    BY <1>2 DEF DispatchResets, ResetMap, EmptyMap, Stored
  <2> QED BY <1>2, <2>1 DEF DispatchResets, ResetMap, BatchInv, NoStrandedBatch
<1>3. CASE DispatchEnds
  BY <1>3 DEF DispatchEnds, batchVars, BatchInv, NoStrandedBatch, Stored
<1>4. CASE DispatchSends
  <2>1. UNCHANGED batchState
    BY <1>4 DEF DispatchSends, batchState
  <2> QED BY <2>1, BatchUnchanged
<1>5. ASSUME NEW p \in Paths, DispatchVisits(p)
      PROVE  BatchInv'
  <2>1. UNCHANGED batchState
    BY <1>5 DEF DispatchVisits, Visit, batchState
  <2> QED BY <2>1, BatchUnchanged
<1> QED BY <1>1, <1>2, <1>3, <1>4, <1>5 DEF DispatchSteps

\* The batch's timer becomes a flush.
LEMMA TimersKeepBatch ==
    ASSUME BatchInv, TimerSteps
    PROVE  BatchInv'
<1>1. CASE BatchTimerFires
  BY <1>1 DEF BatchTimerFires, TimerFires, watcherVars, BatchInv, NoStrandedBatch, Stored
<1>2. ASSUME NEW c \in Cookies, MoveTimerFires(c)
      PROVE  BatchInv'
  <2>1. UNCHANGED batchState
    BY <1>2 DEF MoveTimerFires, batchVars, batchState
  <2> QED BY <2>1, BatchUnchanged
<1>3. ASSUME NEW n \in DOMAIN incomplete, IncompleteSends(n) \/ IncompleteForgets(n)
      PROVE  BatchInv'
  <2>1. UNCHANGED batchState
    BY <1>3 DEF IncompleteSends, IncompleteForgets, batchVars, batchState
  <2> QED BY <2>1, BatchUnchanged
<1> QED BY <1>1, <1>2, <1>3 DEF TimerSteps

\* Close closes the channel after it has stopped the events.
LEMMA CloseKeepsBatch ==
    ASSUME BatchInv, CloseSteps
    PROVE  BatchInv'
<1>1. closing' # "open"
  BY DEF CloseSteps, CloseStops, CloseFlushes, CloseEvents, CloseReturns
<1>2. flushes' \in Nat
  BY DEF CloseSteps, CloseStops, CloseFlushes, CloseEvents, CloseReturns, CloseBatch,
         batchVars, BatchInv
<1> QED BY <1>1, <1>2 DEF BatchInv, NoStrandedBatch

\* The watch storage, its client and other processes do not touch the batch.
LEMMA StorageKeepsBatch ==
    ASSUME BatchInv, StorageSteps \/ SetUpdateStream \/ ClientSteps \/ OutsideSteps
    PROVE  BatchInv'
<1>1. CASE StorageSteps
  <2>1. UNCHANGED batchState
    BY <1>1 DEF StorageSteps, ScanFile, ReceiveUpdate, HandleDelete, HandleMove, HandleModify,
                HandlesUpdate, batchVars, watcherVars, batchState
  <2> QED BY <2>1, BatchUnchanged
<1>2. CASE SetUpdateStream
  <2>1. UNCHANGED batchState
    BY <1>2 DEF SetUpdateStream, batchVars, watcherVars, batchState
  <2> QED BY <2>1, BatchUnchanged
<1>3. CASE ClientSteps
  <2>1. UNCHANGED batchState
    BY <1>3 DEF ClientSteps, ClientCalls, ClientFails, ClientOpens, ClientWrites, ClientRemoves,
                batchVars, watcherVars, batchState
  <2> QED BY <2>1, BatchUnchanged
<1>4. CASE OutsideSteps
  <2>1. UNCHANGED batchState
    BY <1>4 DEF OutsideSteps, batchVars, batchState
  <2> QED BY <2>1, BatchUnchanged
<1> QED BY <1>1, <1>2, <1>3, <1>4

LEMMA BatchNext ==
    ASSUME BatchInv, [Next]_vars
    PROVE  BatchInv'
<1>1. CASE UNCHANGED vars
  BY <1>1, BatchUnchanged DEF vars, batchVars, watcherVars, batchState
<1>2. CASE Next
  BY <1>2, MonitorKeepsBatch, DispatchKeepsBatch, TimersKeepBatch, CloseKeepsBatch,
     StorageKeepsBatch DEF Next, WatcherSteps, Close
<1> QED BY <1>1, <1>2

\* Events in the batch always have a timer, a flush on its way, or a dispatcher at
\* work to take them on (batcher.go: a Store that stops the timer starts it again, and
\* a timer that cannot be stopped any more flushes).
THEOREM BatchIsFlushed == Spec => []NoStrandedBatch
<1>1. BatchInv => NoStrandedBatch
  BY DEF BatchInv
<1> QED BY <1>1, BatchInitially, BatchNext, PTL DEF Spec

-----------------------------------------------------------------------------
(***************************************************************************)
(* Combined: what is left of a list of events.                             *)
(***************************************************************************)
LEMMA LeastNatural ==
    ASSUME NEW S \in SUBSET Nat, S # {}
    PROVE  \E n \in S : \A m \in S : n <= m
<1> DEFINE R == OpToRel(<, Nat)
<1>1. IsWellFoundedOn(R, Nat)
  BY NatLessThanWellFounded
<1> HIDE DEF R
<1>2. PICK n \in S : \A m \in S : ~(<<m, n>> \in R)
  BY <1>1, WFMin
<1>3. \A m \in S : m < n => <<m, n>> \in R
  BY DEF R, OpToRel
<1>4. ASSUME NEW m \in S PROVE n <= m
  <2>1. n \in Nat /\ m \in Nat /\ ~(m < n)
    BY <1>2, <1>3
  <2> QED BY <2>1
<1> QED BY <1>4

\* The rounds of combining, the first n of them.
Rounds(f, s, n) == f = [i \in 0..n |-> IF i = 0 THEN s ELSE CombinePrefix(f[i - 1])]

LEMMA RoundsExist ==
    ASSUME NEW s, NEW len \in Nat
    PROVE  \E f : Rounds(f, s, len)
<1> DEFINE P(n) == \E f : Rounds(f, s, n)
           Fails == {n \in Nat : ~P(n)}
<1>1. P(0)
  <2> DEFINE g == [i \in 0..0 |-> s]
  <2>1. g = [i \in 0..0 |-> IF i = 0 THEN s ELSE CombinePrefix(g[i - 1])]
    OBVIOUS
  <2> HIDE DEF g
  <2> QED BY <2>1 DEF Rounds
<1>2. ASSUME NEW n \in Nat, P(n) PROVE P(n + 1)
  <2>1. PICK f : Rounds(f, s, n)
    BY <1>2
  <2> DEFINE g == [i \in 0..(n + 1) |-> IF i <= n THEN f[i] ELSE CombinePrefix(f[n])]
  <2>2. ASSUME NEW i \in 0..(n + 1)
        PROVE  g[i] = IF i = 0 THEN s ELSE CombinePrefix(g[i - 1])
    <3>1. CASE i <= n
      <4>1. f[i] = IF i = 0 THEN s ELSE CombinePrefix(f[i - 1])
        <5> DEFINE h == [k \in 0..n |-> IF k = 0 THEN s ELSE CombinePrefix(f[k - 1])]
        <5>1. h[i] = IF i = 0 THEN s ELSE CombinePrefix(f[i - 1])
          BY <3>1
        <5>2. f = h
          BY <2>1 DEF Rounds
        <5> HIDE DEF h
        <5> QED BY <5>1, <5>2
      <4>2. g[i] = f[i] /\ (i # 0 => g[i - 1] = f[i - 1])
        BY <3>1
      <4> QED BY <4>1, <4>2
    <3>2. CASE i = n + 1
      <4>1. g[i] = CombinePrefix(f[n]) /\ g[i - 1] = f[n] /\ i # 0
        BY <3>2
      <4> QED BY <4>1
    <3> QED BY <3>1, <3>2
  <2>3. g = [i \in 0..(n + 1) |-> IF i = 0 THEN s ELSE CombinePrefix(g[i - 1])]
    BY <2>2
  <2> HIDE DEF g
  <2> QED BY <2>3 DEF Rounds
<1> HIDE DEF P
<1>3. CASE Fails = {}
  <2> QED BY <1>3 DEF P
<1>4. CASE Fails # {}
  <2>1. PICK n \in Fails : \A m \in Fails : n <= m
    BY <1>4, LeastNatural
  <2>2. n # 0
    BY <1>1, <2>1
  <2>3. n - 1 \in Nat /\ n - 1 \notin Fails
    BY <2>1, <2>2
  <2>4. P((n - 1) + 1)
    BY <1>2, <2>3
  <2> QED BY <2>1, <2>4
<1> QED BY <1>3, <1>4

LEMMA CombiningRounds ==
    ASSUME NEW s, Len(s) \in Nat
    PROVE  /\ DOMAIN Combining(s) = 0..Len(s)
           /\ Combining(s)[0] = s
           /\ \A n \in 1..Len(s) : Combining(s)[n] = CombinePrefix(Combining(s)[n - 1])
<1> DEFINE c == Combining(s)
<1>1. c = CHOOSE f : Rounds(f, s, Len(s))
  BY DEF Combining, Rounds
<1>2. Rounds(c, s, Len(s))
  BY <1>1, RoundsExist
<1> HIDE DEF c
<1>3. c = [i \in 0..Len(s) |-> IF i = 0 THEN s ELSE CombinePrefix(c[i - 1])]
  BY <1>2 DEF Rounds
<1> DEFINE h == [i \in 0..Len(s) |-> IF i = 0 THEN s ELSE CombinePrefix(c[i - 1])]
<1>4. /\ DOMAIN h = 0..Len(s) /\ h[0] = s
      /\ \A n \in 1..Len(s) : h[n] = CombinePrefix(c[n - 1])
  OBVIOUS
<1>5. c = h
  BY <1>3
<1> HIDE DEF h
<1> QED BY <1>4, <1>5 DEF c

LEMMA CombinedIsSeq ==
    ASSUME NEW S, NEW s \in Seq(S)
    PROVE  Combined(s) \in Seq(S)
<1>1. Len(s) \in Nat
  OBVIOUS
<1>2. ASSUME NEW t \in Seq(S) PROVE CombinePrefix(t) \in Seq(S)
  <2>1. CASE Len(t) >= 2
    <3>1. \A u \in Seq(S) : Len(u) >= 1 => Tail(u) \in Seq(S) /\ Len(Tail(u)) = Len(u) - 1
      OBVIOUS
    <3>2. Len(t) \in Nat
      OBVIOUS
    <3>3. Tail(t) \in Seq(S) /\ Len(Tail(t)) >= 1
      BY <2>1, <3>1, <3>2
    <3>4. Tail(Tail(t)) \in Seq(S)
      BY <3>1, <3>3
    <3> QED BY <3>3, <3>4 DEF CombinePrefix
  <2>2. CASE ~(Len(t) >= 2)
    BY <2>2 DEF CombinePrefix, Prefix
  <2> QED BY <2>1, <2>2
<1> DEFINE c == Combining(s)
           Fails == {n \in 0..Len(s) : c[n] \notin Seq(S)}
<1>3. c[0] = s /\ \A n \in 1..Len(s) : c[n] = CombinePrefix(c[n - 1])
  BY <1>1, CombiningRounds
<1> HIDE DEF c
<1>4. CASE Fails = {}
  <2>1. c[Len(s)] \in Seq(S)
    BY <1>1, <1>4
  <2> QED BY <2>1 DEF Combined, c
<1>5. CASE Fails # {}
  <2>1. Fails \in SUBSET Nat
    BY <1>1
  <2>2. PICK n \in Fails : \A m \in Fails : n <= m
    BY <1>5, <2>1, LeastNatural
  <2>3. n # 0
    BY <1>3, <2>2
  <2>4. n \in 1..Len(s) /\ n - 1 \in 0..Len(s) /\ n - 1 \notin Fails
    BY <1>1, <2>2, <2>3
  <2>5. c[n] = CombinePrefix(c[n - 1]) /\ c[n - 1] \in Seq(S)
    BY <1>3, <2>4
  <2> QED BY <1>2, <2>2, <2>5
<1> QED BY <1>4, <1>5

-----------------------------------------------------------------------------
(***************************************************************************)
(* FoldLeft, as concatenateEvents uses it: what the events add one by one. *)
(***************************************************************************)
Adds(acc, e) ==
    IF convertEvent(e) = "none" THEN move(acc, e)
    ELSE [acc EXCEPT !.out = Append(@, FileUpdate(convertEvent(e), e.path))]

Before == [out |-> <<>>, caches |-> moveCaches]

\* What the events with these places in s add, for every set of places up to n.
Folds(f, s, n) ==
    f = [P \in SUBSET (1..n) |->
            IF P = {} THEN Before ELSE Adds(f[P \ {Max(P)}], s[Max(P)])]

LEMMA MaxOfPlaces ==
    ASSUME NEW n \in Nat, NEW P \in SUBSET (1..n), P # {}
    PROVE  Max(P) \in P /\ \A i \in P : i <= Max(P)
<1> DEFINE Bounds == {m \in Nat : \A i \in P : i <= m}
<1>1. PICK m \in Bounds : \A k \in Bounds : m <= k
  <2>1. n \in Bounds
    OBVIOUS
  <2> QED BY <2>1, LeastNatural
<1>2. m \in P
  <2>1. CASE m = 0
    <3>1. PICK i \in P : TRUE
      OBVIOUS
    <3>2. i \in 1..n /\ i <= m
      BY <1>1
    <3> QED BY <2>1, <3>2
  <2>2. CASE m # 0
    <3>1. m - 1 \in Nat /\ m - 1 \notin Bounds
      BY <1>1, <2>2
    <3>2. PICK i \in P : ~(i <= m - 1)
      BY <3>1
    <3>3. i <= m /\ i \in Nat /\ m \in Nat
      BY <1>1
    <3> QED BY <3>2, <3>3
  <2> QED BY <2>1, <2>2
<1>3. \E x \in P : \A y \in P : x >= y
  BY <1>1, <1>2
<1>4. Max(P) \in P /\ \A y \in P : Max(P) >= y
  BY <1>3 DEF Max
<1> QED BY <1>4

LEMMA FoldsExist ==
    ASSUME NEW s, NEW len \in Nat
    PROVE  \E f : Folds(f, s, len)
<1> DEFINE Holds(n) == \E f : Folds(f, s, n)
           Fails == {n \in Nat : ~Holds(n)}
<1>1. Holds(0)
  <2> DEFINE g == [P \in SUBSET (1..0) |-> Before]
  <2>1. \A P \in SUBSET (1..0) : P = {}
    OBVIOUS
  <2>2. g = [P \in SUBSET (1..0) |->
               IF P = {} THEN Before ELSE Adds(g[P \ {Max(P)}], s[Max(P)])]
    BY <2>1
  <2> HIDE DEF g
  <2> QED BY <2>2 DEF Folds
<1>2. ASSUME NEW n \in Nat, Holds(n) PROVE Holds(n + 1)
  <2>1. PICK f : Folds(f, s, n)
    BY <1>2
  <2> DEFINE g == [P \in SUBSET (1..(n + 1)) |->
                     IF n + 1 \in P THEN Adds(f[P \ {n + 1}], s[n + 1]) ELSE f[P]]
  <2>2. ASSUME NEW P \in SUBSET (1..(n + 1))
        PROVE  g[P] = IF P = {} THEN Before ELSE Adds(g[P \ {Max(P)}], s[Max(P)])
    <3>1. CASE n + 1 \in P
      <4>1. Max(P) = n + 1
        <5>1. Max(P) \in P /\ n + 1 <= Max(P)
          BY <3>1, MaxOfPlaces
        <5>2. Max(P) \in 1..(n + 1)
          BY <5>1
        <5> HIDE DEF g
        <5> QED BY <5>1, <5>2
      <4>2. g[P] = Adds(f[P \ {n + 1}], s[n + 1])
        BY <3>1
      <4>3. g[P \ {n + 1}] = f[P \ {n + 1}]
        OBVIOUS
      <4> HIDE DEF g
      <4> QED BY <3>1, <4>1, <4>2, <4>3
    <3>2. CASE n + 1 \notin P
      <4>1. P \in SUBSET (1..n)
        BY <3>2
      <4>2. f[P] = IF P = {} THEN Before ELSE Adds(f[P \ {Max(P)}], s[Max(P)])
        <5> DEFINE h == [Q \in SUBSET (1..n) |->
                           IF Q = {} THEN Before ELSE Adds(f[Q \ {Max(Q)}], s[Max(Q)])]
        <5>1. h[P] = IF P = {} THEN Before ELSE Adds(f[P \ {Max(P)}], s[Max(P)])
          BY <4>1
        <5>2. f = h
          BY <2>1 DEF Folds
        <5> HIDE DEF h
        <5> QED BY <5>1, <5>2
      <4>3. g[P] = f[P] /\ g[P \ {Max(P)}] = f[P \ {Max(P)}]
        BY <3>2
      <4> HIDE DEF g
      <4> QED BY <4>2, <4>3
    <3> QED BY <3>1, <3>2
  <2>3. g = [P \in SUBSET (1..(n + 1)) |->
               IF P = {} THEN Before ELSE Adds(g[P \ {Max(P)}], s[Max(P)])]
    <3> DEFINE h == [P \in SUBSET (1..(n + 1)) |->
                       IF P = {} THEN Before ELSE Adds(g[P \ {Max(P)}], s[Max(P)])]
    <3>1. \A P \in SUBSET (1..(n + 1)) : g[P] = h[P]
      BY <2>2
    <3>2. g = h
      <4>1. DOMAIN g = SUBSET (1..(n + 1)) /\ DOMAIN h = SUBSET (1..(n + 1))
        OBVIOUS
      <4>2. g = [P \in SUBSET (1..(n + 1)) |-> g[P]] /\ h = [P \in SUBSET (1..(n + 1)) |-> h[P]]
        OBVIOUS
      <4> HIDE DEF g, h
      <4> QED BY <3>1, <4>2
    <3> QED BY <3>2
  <2> HIDE DEF g
  <2> QED BY <2>3 DEF Folds
<1> HIDE DEF Holds
<1>3. CASE Fails = {}
  BY <1>3 DEF Holds
<1>4. CASE Fails # {}
  <2>1. PICK n \in Fails : \A m \in Fails : n <= m
    BY <1>4, LeastNatural
  <2>2. n # 0
    BY <1>1, <2>1
  <2>3. n - 1 \in Nat /\ n - 1 \notin Fails
    BY <2>1, <2>2
  <2>4. Holds((n - 1) + 1)
    BY <1>2, <2>3
  <2> QED BY <2>1, <2>4
<1> QED BY <1>3, <1>4

\* concatenateEvents adds what each event that is left adds, from the first on.
LEMMA ConcatenateSteps ==
    ASSUME NEW S, NEW s \in Seq(S)
    PROVE  LET t == Combined(s) IN
           \E acc : /\ acc[0] = Before
                    /\ \A n \in 1..Len(t) : acc[n] = Adds(acc[n - 1], t[n])
                    /\ concatenateEvents(s) = acc[Len(t)]
<1> DEFINE t == Combined(s)
<1>1. t \in Seq(S) /\ Len(t) \in Nat /\ DOMAIN t = 1..Len(t)
  <2>1. t \in Seq(S)
    BY CombinedIsSeq
  <2> HIDE DEF t
  <2> QED BY <2>1
<1> DEFINE F(f) == f = [P \in SUBSET DOMAIN t |->
                          IF P = {} THEN Before ELSE Adds(f[P \ {Max(P)}], t[Max(P)])]
           f == CHOOSE f : F(f)
<1>2. concatenateEvents(s) = f[DOMAIN t]
  BY DEF concatenateEvents, FoldLeft, MapThenFoldSet, Adds, Before
<1> HIDE DEF t
<1>3. F(f)
  <2>1. \E g : F(g)
    <3>1. PICK g : Folds(g, t, Len(t))
      BY <1>1, FoldsExist
    <3>2. F(g)
      BY <1>1, <3>1 DEF Folds
    <3> QED BY <3>2
  <2> HIDE DEF F
  <2> QED BY <2>1
<1> HIDE DEF f
<1>4. ASSUME NEW P \in SUBSET (1..Len(t))
      PROVE  f[P] = IF P = {} THEN Before ELSE Adds(f[P \ {Max(P)}], t[Max(P)])
  <2> DEFINE h == [Q \in SUBSET (1..Len(t)) |->
                     IF Q = {} THEN Before ELSE Adds(f[Q \ {Max(Q)}], t[Max(Q)])]
  <2>1. h[P] = IF P = {} THEN Before ELSE Adds(f[P \ {Max(P)}], t[Max(P)])
    OBVIOUS
  <2>2. f = h
    BY <1>1, <1>3
  <2> HIDE DEF h, F
  <2> QED BY <2>1, <2>2
<1> HIDE DEF F
<1> DEFINE acc == [n \in 0..Len(t) |-> f[1..n]]
<1>5. acc[0] = Before
  <2>1. 1..0 = {} /\ acc[0] = f[1..0]
    BY <1>1
  <2>2. f[{}] = Before
    BY <1>4
  <2> HIDE DEF acc
  <2> QED BY <2>1, <2>2
<1>6. ASSUME NEW n \in 1..Len(t) PROVE acc[n] = Adds(acc[n - 1], t[n])
  <2>1. 1..n \in SUBSET (1..Len(t)) /\ 1..n # {} /\ (1..n) \ {n} = 1..(n - 1)
    <3>1. n \in Nat /\ n \in 1..n /\ \A i \in 1..n : i \in 1..Len(t)
      BY <1>1
    <3>2. \A i : i \in (1..n) \ {n} <=> i \in 1..(n - 1)
      BY <3>1
    <3> QED BY <3>1, <3>2
  <2>2. Max(1..n) = n
    <3>1. 1..n \in SUBSET (1..n) /\ n \in Nat /\ n \in 1..n
      BY <1>1
    <3>2. Max(1..n) \in 1..n /\ n <= Max(1..n)
      BY <2>1, <3>1, MaxOfPlaces
    <3> QED BY <3>1, <3>2
  <2>3. f[1..n] = Adds(f[1..(n - 1)], t[n])
    BY <1>4, <2>1, <2>2
  <2>4. acc[n] = f[1..n] /\ acc[n - 1] = f[1..(n - 1)]
    BY <1>1
  <2> HIDE DEF acc
  <2> QED BY <2>3, <2>4
<1>7. concatenateEvents(s) = acc[Len(t)]
  BY <1>1, <1>2
<1> QED BY <1>5, <1>6, <1>7 DEF t

-----------------------------------------------------------------------------
(***************************************************************************)
(* Types of the pipeline.                                                  *)
(***************************************************************************)
\* A half of a rename has the rename's cookie.
Events == {e \in Event : convertEvent(e) = "none" => e.cookie \in Cookies}
Halves == {e \in Events : convertEvent(e) = "none"}
Caches == {NoCache} \cup [event : Halves, armed : BOOLEAN]
Incompletes == [event : Halves, step : {"send", "forget"}]
Results == [out : Seq(Update), caches : [Cookies -> Caches]]

LEMMA AddsTyped ==
    ASSUME NEW acc \in Results, NEW e \in Events
    PROVE  Adds(acc, e) \in Results
<1>1. e.path \in Paths /\ convertEvent(e) \in FileEvents
  BY DEF Events, Event, convertEvent, FileEvents
<1>2. ASSUME NEW type \in FileEvents, NEW p \in Paths
      PROVE  Append(acc.out, FileUpdate(type, p)) \in Seq(Update)
  BY <1>2 DEF Results, Update, FileUpdate
<1>3. CASE convertEvent(e) # "none"
  <2>1. Adds(acc, e) = [acc EXCEPT !.out = Append(acc.out, FileUpdate(convertEvent(e), e.path))]
    BY <1>3 DEF Adds
  <2>2. Append(acc.out, FileUpdate(convertEvent(e), e.path)) \in Seq(Update)
    BY <1>1, <1>2
  <2> QED BY <2>1, <2>2 DEF Results
<1>4. CASE convertEvent(e) = "none"
  <2>1. e \in Halves /\ e.cookie \in Cookies
    BY <1>4 DEF Halves, Events
  <2> DEFINE cache == acc.caches[e.cookie]
  <2>2. cache \in Caches /\ acc.out \in Seq(Update) /\ acc.caches \in [Cookies -> Caches]
    BY <2>1 DEF Results
  <2>3. CASE cache = NoCache
    <3>1. [event |-> e, armed |-> TRUE] \in Caches
      BY <2>1 DEF Caches
    <3>2. Adds(acc, e) = [acc EXCEPT !.caches[e.cookie] = [event |-> e, armed |-> TRUE]]
      BY <1>4, <2>3 DEF Adds, move
    <3>3. Adds(acc, e) = [acc EXCEPT !.caches =
                            [acc.caches EXCEPT ![e.cookie] = [event |-> e, armed |-> TRUE]]]
      BY <3>2
    <3>4. [acc.caches EXCEPT ![e.cookie] = [event |-> e, armed |-> TRUE]] \in [Cookies -> Caches]
      BY <2>1, <2>2, <3>1
    <3> HIDE DEF Caches
    <3> QED BY <3>3, <3>4 DEF Results
  <2>4. CASE cache # NoCache
    <3>1. cache.event \in Halves
      BY <2>2, <2>4 DEF Caches
    <3> DEFINE q == IF e.type = "movedTo" THEN e.path ELSE cache.event.path
               out == Append(acc.out, FileUpdate("move", q))
               caches == [acc.caches EXCEPT ![e.cookie] = NoCache]
    <3>2. Adds(acc, e) = [acc EXCEPT !.caches = caches, !.out = out]
      BY <1>4, <2>4 DEF Adds, move
    <3>3. q \in Paths
      BY <1>1, <3>1 DEF Halves, Events, Event
    <3>4. out \in Seq(Update)
      BY <1>2, <3>3 DEF FileEvents
    <3>5. caches \in [Cookies -> Caches]
      BY <2>1, <2>2 DEF Caches
    <3> HIDE DEF q, out, caches
    <3> QED BY <3>2, <3>4, <3>5 DEF Results
  <2> QED BY <2>3, <2>4
<1> QED BY <1>3, <1>4

LEMMA ConcatenateTyped ==
    ASSUME NEW s \in Seq(Events), moveCaches \in [Cookies -> Caches]
    PROVE  concatenateEvents(s) \in Results
<1> DEFINE t == Combined(s)
<1>1. t \in Seq(Events) /\ Len(t) \in Nat
  <2>1. t \in Seq(Events)
    BY CombinedIsSeq
  <2> HIDE DEF t
  <2> QED BY <2>1
<1>2. PICK acc : /\ acc[0] = Before
                 /\ \A n \in 1..Len(t) : acc[n] = Adds(acc[n - 1], t[n])
                 /\ concatenateEvents(s) = acc[Len(t)]
  BY ConcatenateSteps
<1> HIDE DEF t
<1> DEFINE Fails == {n \in 0..Len(t) : acc[n] \notin Results}
<1>3. acc[0] \in Results
  BY <1>2 DEF Before, Results
<1>4. CASE Fails = {}
  BY <1>1, <1>2, <1>4
<1>5. CASE Fails # {}
  <2>1. Fails \in SUBSET Nat
    BY <1>1
  <2>2. PICK n \in Fails : \A m \in Fails : n <= m
    BY <1>5, <2>1, LeastNatural
  <2>3. n # 0
    BY <1>3, <2>2
  <2>4. n \in 1..Len(t) /\ n - 1 \in 0..Len(t) /\ n - 1 \notin Fails
    BY <1>1, <2>2, <2>3
  <2>5. acc[n] = Adds(acc[n - 1], t[n]) /\ acc[n - 1] \in Results /\ t[n] \in Events
    BY <1>1, <1>2, <2>4
  <2> QED BY <2>2, <2>5, AddsTyped
<1> QED BY <1>4, <1>5

\* BatchWriter and FileWatcher.
PipelineTypeOK ==
    /\ syncMap \in [Paths -> (Seq(Events) \ {<<>>}) \cup {NoValue}]
    /\ toVisit \subseteq Stored
    /\ panicked \in Panics
    /\ events \in Seq(Events) /\ Len(events) <= EventCap
    /\ suspendEvent \in FileEvents
    /\ monitor \in Seq(Events)
    /\ outbox \in Seq(Update)
    /\ updates \in Seq(Update) /\ Len(updates) <= UpdateCap
    /\ moveCaches \in [Cookies -> Caches]
    /\ \A c \in Cookies : moveCaches[c].armed => moveCaches[c].event \in Halves
    /\ incomplete \in Seq(Incompletes)
    /\ missed \cup raced \subseteq Paths

\* The files and the mappings, and who works on them.
FilesTypeOK ==
    /\ disk \in [Paths -> Contents \cup {Absent, Torn}]
    /\ mappings \in [Keys -> Paths \cup {NoPath}]
    /\ toScan \subseteq Paths
    /\ \/ update = NoUpdate
       \/ update \in [event : FileEvents, path : Paths, content : Contents \cup {Absent, Torn}]
    /\ \/ client = Idle
       \/ client \in [op : {"create", "update", "delete"}, key : Objects]
       \/ client \in [op : {"write"}, key : Objects, path : Paths]
    /\ outside = NotWriting \/ outside \in [path : Paths, content : Contents]
    /\ ops \in Nat
    /\ view \subseteq Keys /\ unheard \subseteq Keys /\ nameless \subseteq Paths
    /\ owner \in [Paths -> Objects \cup {Absent}]
    /\ replaced \subseteq Paths /\ strayed \subseteq Objects

TypeInv == PipelineTypeOK /\ FilesTypeOK

LEMMA TypeInvTypeOK == TypeInv => TypeOK
<1> SUFFICES ASSUME TypeInv PROVE TypeOK
  OBVIOUS
<1>1. Events \subseteq Event
  BY DEF Events
<1>2. \A s \in Seq(Events) : s \in Seq(Event)
  BY <1>1
<1> HIDE DEF Events
<1>3. \A p \in Paths : syncMap[p] = NoValue \/ syncMap[p] \in Seq(Event) \ {<<>>}
  BY <1>2 DEF TypeInv, PipelineTypeOK
<1> QED BY <1>2, <1>3 DEF TypeInv, PipelineTypeOK, FilesTypeOK, TypeOK, Stored

LEMMA TypeInit == Init => TypeInv
<1> SUFFICES ASSUME Init PROVE TypeInv
  OBVIOUS
<1>1. PipelineTypeOK
  <2>1. syncMap \in [Paths -> {NoValue}] /\ toVisit = {} /\ panicked \in Panics
    BY DEF Init, WatcherInit, BatchInit, EmptyMap, Panics
  <2>2. moveCaches \in [Cookies -> Caches] /\ \A c \in Cookies : ~moveCaches[c].armed
    BY DEF Init, WatcherInit, Caches, NoCache
  <2>3. EventCap \in Nat /\ UpdateCap \in Nat
    BY FileWatcherAssumption
  <2>4. /\ events = <<>> /\ monitor = <<>> /\ outbox = <<>> /\ updates = <<>>
        /\ suspendEvent \in FileEvents /\ incomplete = <<>> /\ missed = {} /\ raced = {}
    BY DEF Init, WatcherInit, FileEvents
  <2> QED BY <2>1, <2>2, <2>3, <2>4 DEF PipelineTypeOK
<1>2. FilesTypeOK
  BY DEF Init, FilesTypeOK, Contents
<1> QED BY <1>1, <1>2 DEF TypeInv

LEMMA PipelineUnchanged ==
    ASSUME PipelineTypeOK, UNCHANGED <<batchVars, watcherVars>>
    PROVE  PipelineTypeOK'
BY DEF PipelineTypeOK, Stored, batchVars, watcherVars

LEMMA FilesUnchanged ==
    ASSUME FilesTypeOK, UNCHANGED storageVars
    PROVE  FilesTypeOK'
BY DEF FilesTypeOK, storageVars

\* What is sent of new events is in their order, and the files of the others are missed.
LEMMA NotifySends ==
    ASSUME NEW new \in Seq(Events), Notify(new), closing = "open"
    PROVE  \E sent \in Seq(Events) :
                /\ sent \in Sent(new) /\ events' = events \o sent
                /\ ToSet(sent) \subseteq ToSet(new)
                /\ \A e \in ToSet(new) : e \in ToSet(sent) \/ e.path \in missed'
                /\ sent = new \/ DOMAIN sent \subseteq {1}
<1>1. PICK sent \in Sent(new) :
          /\ events' = events \o sent
          /\ missed' = missed \cup {e.path : e \in ToSet(new) \ ToSet(sent)}
  BY DEF Notify
<1>2. ToSet(new) \subseteq Events
  BY DEF ToSet
<1>3. \A e \in ToSet(new) : e \in ToSet(sent) \/ e.path \in missed'
  BY <1>1
<1>4. CASE sent = new
  BY <1>1, <1>3, <1>4
<1>5. ASSUME NEW e \in ToSet(new), sent = <<e>>
      PROVE  /\ sent \in Seq(Events) /\ ToSet(sent) \subseteq ToSet(new)
             /\ DOMAIN sent \subseteq {1}
  BY <1>2, <1>5 DEF ToSet
<1>6. CASE sent = <<>>
  <2>1. sent \in Seq(Events) /\ DOMAIN sent = {} /\ ToSet(sent) = {}
    BY <1>6 DEF ToSet
  <2> QED BY <1>1, <1>3, <2>1
<1>7. sent = new \/ (\E e \in ToSet(new) : sent = <<e>>) \/ sent = <<>>
  BY <1>1 DEF Sent
<1> QED BY <1>1, <1>3, <1>4, <1>5, <1>6, <1>7

LEMMA NotifyTyped ==
    ASSUME PipelineTypeOK, NEW new \in Seq(Events), Notify(new)
    PROVE  /\ events' \in Seq(Events) /\ Len(events') <= EventCap
           /\ missed' \cup raced' \subseteq Paths
<1>1. ToSet(new) \subseteq Events /\ \A e \in Events : e.path \in Paths
  BY DEF ToSet, Events, Event
<1>2. {e.path : e \in ToSet(new)} \subseteq Paths
  BY <1>1
<1>3. {e.path : e \in {e \in ToSet(new) : Races(e)}} \subseteq Paths
  BY <1>1
<1>4. events \in Seq(Events) /\ Len(events) <= EventCap /\ missed \cup raced \subseteq Paths
  BY DEF PipelineTypeOK
<1>5. CASE closing # "open"
  BY <1>4, <1>5 DEF Notify
<1>6. CASE closing = "open"
  <2>1. PICK sent \in Seq(Events) : sent \in Sent(new) /\ events' = events \o sent
    BY <1>6, NotifySends
  <2>2. events \o sent \in Seq(Events) /\ Len(events \o sent) = Len(events) + Len(sent)
    BY <1>4, <2>1, ConcatProperties
  <2>3. Len(events) + Len(sent) <= EventCap
    <3>1. Len(events) \in Nat /\ EventCap \in Nat
      BY <1>4, FileWatcherAssumption
    <3>2. \A e : Len(<<e>>) = 1
      OBVIOUS
    <3>3. Len(<<>>) = 0
      OBVIOUS
    <3>4. \/ (Len(events) + Len(new) <= EventCap) /\ (sent = new)
          \/ (Len(events) < EventCap) /\ (\E e : sent = <<e>>)
          \/ sent = <<>>
      <4>1. CASE Len(events) + Len(new) <= EventCap
        BY <2>1, <4>1 DEF Sent
      <4>2. CASE ~(Len(events) + Len(new) <= EventCap) /\ Len(events) < EventCap
        <5>1. sent \in {<<e>> : e \in ToSet(new)}
          BY <2>1, <4>2 DEF Sent
        <5>2. \E e : sent = <<e>>
          BY <5>1
        <5> QED BY <4>2, <5>2
      <4>3. CASE ~(Len(events) + Len(new) <= EventCap) /\ ~(Len(events) < EventCap)
        BY <2>1, <4>3 DEF Sent
      <4> QED BY <4>1, <4>2, <4>3
    <3>5. Len(events) < EventCap => Len(events) + 1 <= EventCap
      BY <3>1
    <3>6. ASSUME NEW e, sent = <<e>>, Len(events) < EventCap PROVE Len(events) + Len(sent) <= EventCap
      BY <3>2, <3>5, <3>6
    <3>7. ASSUME sent = <<>> PROVE Len(events) + Len(sent) <= EventCap
      BY <1>4, <3>1, <3>3, <3>7
    <3>8. ASSUME sent = new, Len(events) + Len(new) <= EventCap PROVE Len(events) + Len(sent) <= EventCap
      BY <3>8
    <3> QED BY <3>4, <3>6, <3>7, <3>8
  <2>4. missed' \cup raced' \subseteq Paths
    BY <1>2, <1>3, <1>4, <1>6 DEF Notify
  <2> QED BY <2>1, <2>2, <2>3, <2>4
<1> QED BY <1>5, <1>6

\* monitorFunc of the watcher.
LEMMA MonitorTyped ==
    ASSUME PipelineTypeOK, MonitorSteps
    PROVE  PipelineTypeOK'
<1>1. ASSUME events # <<>>
      PROVE  /\ Head(events) \in Events /\ Tail(events) \in Seq(Events)
             /\ Len(Tail(events)) <= EventCap /\ Head(events).path \in Paths
  <2>1. events \in Seq(Events) /\ Len(events) <= EventCap /\ Len(events) \in Nat
    BY DEF PipelineTypeOK
  <2>2. Head(events) \in Events /\ Tail(events) \in Seq(Events) /\ Len(Tail(events)) = Len(events) - 1
    BY <1>1, <2>1
  <2>3. EventCap \in Nat
    BY FileWatcherAssumption
  <2> QED BY <2>1, <2>2, <2>3 DEF Events, Event
<1>2. CASE MonitorSkips
  <2>1. missed' \subseteq Paths
    BY <1>1, <1>2 DEF MonitorSkips, PipelineTypeOK
  <2>2. events' \in Seq(Events) /\ Len(events') <= EventCap /\ suspendEvent' \in FileEvents
    BY <1>1, <1>2 DEF MonitorSkips, FileEvents
  <2> QED BY <1>2, <2>1, <2>2 DEF MonitorSkips, PipelineTypeOK, batchVars, Stored
<1>3. CASE MonitorLoads
  <2> DEFINE e == Head(events)
  <2>1. syncMap[e.path] = NoValue \/ syncMap[e.path] \in Seq(Events)
    BY <1>1, <1>3 DEF MonitorLoads, PipelineTypeOK
  <2>2. monitor' \in Seq(Events)
    <3>1. monitor' = IF syncMap[e.path] = NoValue THEN <<e>> ELSE Append(syncMap[e.path], e)
      BY <1>3 DEF MonitorLoads
    <3>2. e \in Events
      BY <1>1, <1>3 DEF MonitorLoads
    <3> HIDE DEF e
    <3> QED BY <2>1, <3>1, <3>2
  <2>3. events' \in Seq(Events) /\ Len(events') <= EventCap
    BY <1>1, <1>3 DEF MonitorLoads
  <2> QED BY <1>3, <2>2, <2>3 DEF MonitorLoads, PipelineTypeOK, batchVars, Stored
<1>4. CASE MonitorStores
  <2> DEFINE p == Last(monitor).path
  <2>1. p \in Paths
    <3>1. monitor \in Seq(Events) /\ monitor # <<>>
      BY <1>4 DEF MonitorStores, PipelineTypeOK
    <3>2. Last(monitor) \in Events
      BY <3>1 DEF Last
    <3> QED BY <3>2 DEF Events, Event
  <2>2. monitor \in Seq(Events) \ {<<>>}
    BY <1>4 DEF MonitorStores, PipelineTypeOK
  <2>3. syncMap' = [syncMap EXCEPT ![p] = monitor] /\ monitor' = <<>>
    BY <1>4 DEF MonitorStores, Store
  <2>4. monitor # NoValue
    <3>1. \A s \in Seq(Events) : s \in Seq(Event)
      <4>1. Events \subseteq Event
        BY DEF Events
      <4> HIDE DEF Events
      <4> QED BY <4>1
    <3> QED BY <2>2, <3>1, FileWatcherAssumption
  <2> HIDE DEF p
  <2>5. syncMap' \in [Paths -> (Seq(Events) \ {<<>>}) \cup {NoValue}]
    BY <2>1, <2>2, <2>3 DEF PipelineTypeOK
  <2>6. Stored \subseteq Stored'
    BY <2>1, <2>3, <2>4 DEF PipelineTypeOK, Stored
  <2>7. toVisit' \subseteq Stored'
    BY <1>4, <2>6 DEF MonitorStores, Store, PipelineTypeOK
  <2> QED BY <1>4, <2>3, <2>5, <2>7 DEF MonitorStores, Store, PipelineTypeOK
<1>5. CASE MonitorEnds
  BY <1>5 DEF MonitorEnds, PipelineTypeOK, batchVars, Stored
<1> QED BY <1>2, <1>3, <1>4, <1>5 DEF MonitorSteps

LEMMA SendTyped ==
    ASSUME PipelineTypeOK, NEW u \in Update, sendUpdate(u)
    PROVE  /\ updates' \in Seq(Update) /\ Len(updates') <= UpdateCap
           /\ panicked' \in Panics
<1>1. /\ updates \in Seq(Update) /\ Len(updates) <= UpdateCap /\ Len(updates) \in Nat
      /\ panicked \in Panics
  BY DEF PipelineTypeOK
<1>2. UpdateCap \in Nat
  BY FileWatcherAssumption
<1>3. Append(updates, u) \in Seq(Update) /\ Len(Append(updates, u)) = Len(updates) + 1
  BY <1>1
<1> QED BY <1>1, <1>2, <1>3 DEF sendUpdate, Panics

\* dispatchFunc.
LEMMA DispatchTyped ==
    ASSUME PipelineTypeOK, DispatchSteps
    PROVE  PipelineTypeOK'
<1>1. CASE DispatchBegins
  BY <1>1 DEF DispatchBegins, ReceiveFlush, PipelineTypeOK, Stored
<1>2. ASSUME NEW p \in Paths, DispatchVisits(p)
      PROVE  PipelineTypeOK'
  <2>1. syncMap[p] \in Seq(Events)
    BY <1>2 DEF DispatchVisits, Visit, PipelineTypeOK, Stored
  <2>2. concatenateEvents(syncMap[p]) \in Results
    BY <2>1, ConcatenateTyped DEF PipelineTypeOK
  <2>3. outbox' \in Seq(Update) /\ moveCaches' \in [Cookies -> Caches]
    BY <1>2, <2>2 DEF DispatchVisits, Results
  <2>4. \A c \in Cookies : moveCaches'[c].armed => moveCaches'[c].event \in Halves
    <3>1. \A cache \in Caches : cache.armed => cache.event \in Halves
      BY DEF Caches, NoCache
    <3> QED BY <2>3, <3>1
  <2>5. missed' \subseteq Paths
    BY <1>2 DEF DispatchVisits, PipelineTypeOK
  <2>6. syncMap' = syncMap /\ toVisit' \subseteq Stored' /\ panicked' = panicked
    BY <1>2 DEF DispatchVisits, Visit, PipelineTypeOK, Stored
  <2> QED BY <1>2, <2>3, <2>4, <2>5, <2>6 DEF DispatchVisits, PipelineTypeOK
<1>3. CASE DispatchSends
  <2>1. /\ Head(outbox) \in Update /\ Tail(outbox) \in Seq(Update)
    BY <1>3 DEF DispatchSends, PipelineTypeOK
  <2>2. updates' \in Seq(Update) /\ Len(updates') <= UpdateCap /\ panicked' \in Panics
    BY <1>3, <2>1, SendTyped DEF DispatchSends
  <2>3. outbox' \in Seq(Update)
    BY <1>3, <2>1 DEF DispatchSends
  <2> QED BY <1>3, <2>2, <2>3 DEF DispatchSends, PipelineTypeOK, Stored
<1>4. CASE DispatchResets
  <2>1. syncMap' \in [Paths -> {NoValue}] /\ toVisit' = {} /\ panicked' = panicked
    BY <1>4 DEF DispatchResets, ResetMap, EmptyMap
  <2>2. missed' \subseteq Paths
    BY <1>4 DEF DispatchResets, PipelineTypeOK, Stored
  <2> QED BY <1>4, <2>1, <2>2 DEF DispatchResets, PipelineTypeOK
<1>5. CASE DispatchEnds
  BY <1>5 DEF DispatchEnds, PipelineTypeOK, batchVars, Stored
<1> QED BY <1>1, <1>2, <1>3, <1>4, <1>5 DEF DispatchSteps

\* The timers.
LEMMA RemoveTyped ==
    ASSUME NEW S, NEW s \in Seq(S), NEW n \in DOMAIN s
    PROVE  /\ RemoveAt(s, n) \in Seq(S) /\ Len(RemoveAt(s, n)) = Len(s) - 1
           /\ \A i \in 1..(Len(s) - 1) :
                RemoveAt(s, n)[i] = IF i < n THEN s[i] ELSE s[i + 1]
<1>1. n \in 1..Len(s) /\ Len(s) \in Nat
  OBVIOUS
<1> DEFINE a == SubSeq(s, 1, n - 1)
           b == SubSeq(s, n + 1, Len(s))
<1>2. a \in Seq(S) /\ Len(a) = n - 1 /\ \A i \in 1..(n - 1) : a[i] = s[i]
  BY <1>1
<1>3. b \in Seq(S) /\ Len(b) = Len(s) - n /\ \A i \in 1..(Len(s) - n) : b[i] = s[n + i]
  BY <1>1
<1>4. RemoveAt(s, n) = a \o b
  BY DEF RemoveAt
<1> HIDE DEF a, b
<1>5. a \o b \in Seq(S) /\ Len(a \o b) = Len(s) - 1
  BY <1>1, <1>2, <1>3
<1>6. ASSUME NEW i \in 1..(Len(s) - 1)
      PROVE  (a \o b)[i] = IF i < n THEN s[i] ELSE s[i + 1]
  <2>1. CASE i < n
    BY <1>1, <1>2, <1>3, <2>1
  <2>2. CASE ~(i < n)
    <3>1. (a \o b)[i] = b[i - (n - 1)] /\ i - (n - 1) \in 1..(Len(s) - n)
      BY <1>1, <1>2, <1>3, <2>2
    <3>2. n + (i - (n - 1)) = i + 1
      BY <1>1
    <3> QED BY <1>3, <2>2, <3>1, <3>2
  <2> QED BY <2>1, <2>2
<1> QED BY <1>4, <1>5, <1>6

LEMMA TimersTyped ==
    ASSUME PipelineTypeOK, TimerSteps
    PROVE  PipelineTypeOK'
<1>1. CASE BatchTimerFires
  BY <1>1 DEF BatchTimerFires, TimerFires, watcherVars, PipelineTypeOK, Panics, Stored
<1>2. ASSUME NEW c \in Cookies, MoveTimerFires(c)
      PROVE  PipelineTypeOK'
  <2>1. moveCaches[c].event \in Halves /\ moveCaches[c] \in Caches
    BY <1>2 DEF MoveTimerFires, PipelineTypeOK
  <2>2. moveCaches[c] \in [event : Halves, armed : BOOLEAN]
    BY <1>2, <2>1 DEF MoveTimerFires, Caches, NoCache
  <2>3. [moveCaches[c] EXCEPT !.armed = FALSE] \in Caches
    BY <2>2 DEF Caches
  <2>4. moveCaches' = [moveCaches EXCEPT ![c] = [moveCaches[c] EXCEPT !.armed = FALSE]]
    BY <1>2 DEF MoveTimerFires
  <2>5. moveCaches' \in [Cookies -> Caches]
    BY <2>3, <2>4 DEF PipelineTypeOK
  <2>6. \A d \in Cookies : moveCaches'[d].armed => moveCaches'[d].event \in Halves
    BY <2>2, <2>4 DEF PipelineTypeOK
  <2>7. incomplete' \in Seq(Incompletes)
    <3>1. [event |-> moveCaches[c].event, step |-> "send"] \in Incompletes
      BY <2>1 DEF Incompletes
    <3>2. incomplete \in Seq(Incompletes)
      BY DEF PipelineTypeOK
    <3> QED BY <1>2, <3>1, <3>2 DEF MoveTimerFires
  <2> QED BY <1>2, <2>5, <2>6, <2>7 DEF MoveTimerFires, PipelineTypeOK, batchVars, Stored
<1>3. ASSUME NEW n \in DOMAIN incomplete, IncompleteSends(n)
      PROVE  PipelineTypeOK'
  <2>1. incomplete \in Seq(Incompletes) /\ incomplete[n] \in Incompletes
    BY DEF PipelineTypeOK
  <2> DEFINE half == incomplete[n].event
  <2>2. FileUpdate(IF half.type = "movedFrom" THEN "delete" ELSE "modify", half.path) \in Update
    BY <2>1 DEF FileUpdate, Update, FileEvents, Incompletes, Halves, Events, Event
  <2>3. updates' \in Seq(Update) /\ Len(updates') <= UpdateCap /\ panicked' \in Panics
    BY <1>3, <2>2, SendTyped DEF IncompleteSends
  <2>4. incomplete' \in Seq(Incompletes)
    <3>1. [incomplete[n] EXCEPT !.step = "forget"] \in Incompletes
      BY <2>1 DEF Incompletes
    <3>2. incomplete' = [incomplete EXCEPT ![n] = [incomplete[n] EXCEPT !.step = "forget"]]
      BY <1>3 DEF IncompleteSends
    <3> QED BY <2>1, <3>1, <3>2
  <2> QED BY <1>3, <2>3, <2>4 DEF IncompleteSends, PipelineTypeOK, Stored
<1>4. ASSUME NEW n \in DOMAIN incomplete, IncompleteForgets(n)
      PROVE  PipelineTypeOK'
  <2> DEFINE c == incomplete[n].event.cookie
  <2>1. incomplete \in Seq(Incompletes) /\ incomplete[n] \in Incompletes
    BY DEF PipelineTypeOK
  <2>2. c \in Cookies
    BY <2>1 DEF Incompletes, Halves, Events
  <2>3. moveCaches' = [moveCaches EXCEPT ![c] = NoCache] /\ NoCache \in Caches
    BY <1>4 DEF IncompleteForgets, Caches
  <2>4. incomplete' \in Seq(Incompletes)
    <3>1. RemoveAt(incomplete, n) \in Seq(Incompletes)
      BY <2>1, RemoveTyped
    <3>2. moveCaches[c].armed => [event |-> moveCaches[c].event, step |-> "send"] \in Incompletes
      BY <2>2 DEF PipelineTypeOK, Incompletes
    <3>3. incomplete' = RemoveAt(incomplete, n) \o
            (IF moveCaches[c].armed
             THEN <<[event |-> moveCaches[c].event, step |-> "send"]>> ELSE <<>>)
      BY <1>4 DEF IncompleteForgets
    <3> HIDE DEF c
    <3> QED BY <3>1, <3>2, <3>3
  <2> HIDE DEF c
  <2>5. moveCaches' \in [Cookies -> Caches]
    BY <2>2, <2>3 DEF PipelineTypeOK
  <2>6. \A d \in Cookies : moveCaches'[d].armed => moveCaches'[d].event \in Halves
    BY <2>2, <2>3 DEF PipelineTypeOK, NoCache
  <2> QED BY <1>4, <2>4, <2>5, <2>6 DEF IncompleteForgets, PipelineTypeOK, batchVars, Stored
<1> QED BY <1>1, <1>2, <1>3, <1>4 DEF TimerSteps

LEMMA CloseTyped ==
    ASSUME PipelineTypeOK, CloseSteps
    PROVE  PipelineTypeOK'
<1>1. CASE CloseFlushes
  BY <1>1 DEF CloseFlushes, CloseBatch, PipelineTypeOK, Panics, Stored
<1>2. CASE CloseStops \/ CloseEvents \/ CloseReturns
  BY <1>2 DEF CloseStops, CloseEvents, CloseReturns, PipelineTypeOK, batchVars, Stored
<1> QED BY <1>1, <1>2 DEF CloseSteps

\* monitorFunc of the storage.
LEMMA SendEventTyped ==
    ASSUME FilesTypeOK, NEW event, NEW key \in Keys, sendEvent(event, key)
    PROVE  view' \subseteq Keys /\ unheard' \subseteq Keys
BY DEF FilesTypeOK, sendEvent

LEMMA AddMappingTyped ==
    ASSUME FilesTypeOK, NEW key \in Keys, NEW p \in Paths, AddMapping(key, p)
    PROVE  mappings' \in [Keys -> Paths \cup {NoPath}] /\ nameless' \subseteq Paths
BY DEF FilesTypeOK, AddMapping

LEMMA RemoveMappingTyped ==
    ASSUME FilesTypeOK, NEW key \in Keys, RemoveMapping(key)
    PROVE  mappings' \in [Keys -> Paths \cup {NoPath}] /\ nameless' \subseteq Paths
BY DEF FilesTypeOK, RemoveMapping

LEMMA KeyTyped == ASSUME NEW content PROVE ObjectKeyFor(content) \in Keys
BY DEF ObjectKeyFor, Keys

LEMMA StorageTyped ==
    ASSUME TypeInv, StorageSteps
    PROVE  TypeInv'
<1>1. CASE ScanFile
  <2>1. PipelineTypeOK'
    BY <1>1, PipelineUnchanged DEF ScanFile, TypeInv
  <2>2. PICK p \in toScan :
          /\ toScan' = toScan \ {p}
          /\ IF Parses(disk[p])
             THEN /\ AddMapping(ObjectKeyFor(disk[p]), p)
                  /\ sendEvent("MODIFY", ObjectKeyFor(disk[p]))
             ELSE UNCHANGED <<mappings, view, nameless, unheard>>
    BY <1>1 DEF ScanFile
  <2>3. p \in Paths /\ toScan' \subseteq Paths
    BY <2>2 DEF TypeInv, FilesTypeOK
  <2>4. /\ mappings' \in [Keys -> Paths \cup {NoPath}] /\ nameless' \subseteq Paths
        /\ view' \subseteq Keys /\ unheard' \subseteq Keys
    <3>1. CASE Parses(disk[p])
      BY <2>2, <2>3, <3>1, KeyTyped, AddMappingTyped, SendEventTyped DEF TypeInv
    <3>2. CASE ~Parses(disk[p])
      BY <2>2, <3>2 DEF TypeInv, FilesTypeOK
    <3> QED BY <3>1, <3>2
  <2> QED BY <1>1, <2>1, <2>3, <2>4 DEF ScanFile, TypeInv, FilesTypeOK
<1>2. CASE ReceiveUpdate
  <2> DEFINE u == Head(updates)
  <2>1. /\ u \in Update /\ Tail(updates) \in Seq(Update) /\ Len(Tail(updates)) <= UpdateCap
    <3>1. /\ updates \in Seq(Update) /\ updates # <<>> /\ Len(updates) <= UpdateCap
          /\ Len(updates) \in Nat /\ UpdateCap \in Nat
      BY <1>2, FileWatcherAssumption DEF ReceiveUpdate, TypeInv, PipelineTypeOK
    <3>2. u \in Update /\ Tail(updates) \in Seq(Update) /\ Len(Tail(updates)) = Len(updates) - 1
      BY <3>1
    <3> QED BY <3>1, <3>2
  <2>2. PipelineTypeOK'
    BY <1>2, <2>1 DEF ReceiveUpdate, TypeInv, PipelineTypeOK, batchVars, Stored
  <2>3. \/ update' = NoUpdate
        \/ update' \in [event : FileEvents, path : Paths, content : Contents \cup {Absent, Torn}]
    <3>1. \/ update' = NoUpdate
          \/ update' = [event |-> u.event, path |-> u.path, content |-> disk[u.path]]
      BY <1>2 DEF ReceiveUpdate
    <3>2. u.event \in FileEvents /\ u.path \in Paths
      BY <2>1 DEF Update
    <3>3. disk[u.path] \in Contents \cup {Absent, Torn}
      BY <3>2 DEF TypeInv, FilesTypeOK
    <3> QED BY <3>1, <3>2, <3>3
  <2> QED BY <1>2, <2>2, <2>3 DEF ReceiveUpdate, TypeInv, FilesTypeOK
<1>3. ASSUME HandleDelete \/ HandleMove \/ HandleModify
      PROVE  TypeInv'
  <2>1. HandlesUpdate /\ panicked' \in Panics
    BY <1>3 DEF HandleDelete, HandleMove, HandleModify, Panics, TypeInv, PipelineTypeOK
  <2>2. PipelineTypeOK'
    BY <2>1 DEF HandlesUpdate, watcherVars, TypeInv, PipelineTypeOK, Stored
  <2>3. update.path \in Paths
    BY <2>1 DEF HandlesUpdate, TypeInv, FilesTypeOK
  <2>4. /\ mappings' \in [Keys -> Paths \cup {NoPath}] /\ nameless' \subseteq Paths
        /\ view' \subseteq Keys /\ unheard' \subseteq Keys
    <3>1. CASE HandleDelete
      <4>1. CASE UNCHANGED <<mappings, view, nameless, unheard>>
        BY <4>1 DEF TypeInv, FilesTypeOK
      <4>2. ASSUME NEW key \in Mapped(update.path), RemoveMapping(key), sendEvent("DELETE", key)
            PROVE  <2>4
        <5>1. key \in Keys
          BY DEF Mapped
        <5> QED BY <4>2, <5>1, RemoveMappingTyped, SendEventTyped DEF TypeInv
      <4> QED BY <3>1, <4>1, <4>2 DEF HandleDelete
    <3>2. CASE HandleMove
      <4> DEFINE key == ObjectKeyFor(update.content)
      <4>1. key \in Keys /\ AddMapping(key, update.path)
        BY <3>2, KeyTyped DEF HandleMove
      <4>2. view' = view /\ unheard' \subseteq unheard \cup {key}
        BY <3>2 DEF HandleMove
      <4> HIDE DEF key
      <4>3. view \subseteq Keys /\ unheard \subseteq Keys
        BY DEF TypeInv, FilesTypeOK
      <4> QED BY <2>3, <4>1, <4>2, <4>3, AddMappingTyped DEF TypeInv
    <3>3. CASE HandleModify
      <4> DEFINE key == ObjectKeyFor(update.content)
      <4>1. key \in Keys
        BY KeyTyped
      <4>2. PICK event \in {"CREATE", "MODIFY"} : sendEvent(event, key)
        BY <3>3 DEF HandleModify
      <4>3. AddMapping(key, update.path) \/ UNCHANGED <<mappings, nameless>>
        BY <3>3 DEF HandleModify
      <4> HIDE DEF key
      <4>4. view' \subseteq Keys /\ unheard' \subseteq Keys
        BY <4>1, <4>2, SendEventTyped DEF TypeInv
      <4>5. mappings' \in [Keys -> Paths \cup {NoPath}] /\ nameless' \subseteq Paths
        <5>1. CASE AddMapping(key, update.path)
          BY <2>3, <4>1, <5>1, AddMappingTyped DEF TypeInv
        <5>2. CASE UNCHANGED <<mappings, nameless>>
          BY <5>2 DEF TypeInv, FilesTypeOK
        <5> QED BY <4>3, <5>1, <5>2
      <4> QED BY <4>4, <4>5
    <3> QED BY <1>3, <3>1, <3>2, <3>3
  <2> QED BY <2>1, <2>2, <2>4 DEF HandlesUpdate, TypeInv, FilesTypeOK
<1> QED BY <1>1, <1>2, <1>3 DEF StorageSteps

\* The client.
LEMMA GivesTyped ==
    ASSUME FilesTypeOK, NEW content, NEW p \in Paths, Gives(content, p)
    PROVE  /\ owner' \in [Paths -> Objects \cup {Absent}] /\ replaced' \subseteq Paths
           /\ strayed' \subseteq Objects
BY DEF FilesTypeOK, Gives, Ousted, Early

LEMMA OneEvent ==
    ASSUME NEW p \in Paths, NEW type \in {"delete", "closeWrite"}
    PROVE  <<[type |-> type, path |-> p, cookie |-> NoCookie]>> \in Seq(Events)
<1> DEFINE e == [type |-> type, path |-> p, cookie |-> NoCookie]
<1>1. e \in Events
  BY DEF Events, Event, convertEvent
<1>2. <<e>> \in Seq(Events)
  <2> HIDE DEF e
  <2> QED BY <1>1
<1> QED BY <1>2

LEMMA OneHalf ==
    ASSUME FilesTypeOK, ops < MaxOps, NEW p \in Paths, NEW type \in {"movedFrom", "movedTo"}
    PROVE  [type |-> type, path |-> p, cookie |-> ops + 1] \in Events
<1>1. ops + 1 \in Cookies
  <2>1. ops \in Nat /\ MaxOps \in Nat /\ 1..MaxOps \subseteq Cookies
    BY WatchStorageAssumption DEF FilesTypeOK
  <2> QED BY <2>1
<1> QED BY <1>1 DEF Events, Event, convertEvent

LEMMA ClientTyped ==
    ASSUME TypeInv, ClientSteps
    PROVE  TypeInv'
<1>1. CASE ClientCalls
  <2>1. /\ suspendEvent' \in FileEvents
        /\ mappings' \in [Keys -> Paths \cup {NoPath}] /\ nameless' \subseteq Paths
        /\ owner' \in [Paths -> Objects \cup {Absent}] /\ replaced' \subseteq Paths
        /\ strayed' \subseteq Objects
        /\ client' \in [op : {"create", "update", "delete"}, key : Objects]
    <3>1. PICK o \in Objects :
            ClientUpdate(o) \/ ClientDelete(o) \/ \E p \in Paths : ClientCreate(o, p)
      BY <1>1 DEF ClientCalls
    <3>2. CASE ClientUpdate(o) \/ ClientDelete(o)
      BY <3>2 DEF ClientUpdate, ClientDelete, Suspend, FileEvents, TypeInv, FilesTypeOK
    <3>3. ASSUME NEW p \in Paths, ClientCreate(o, p)
          PROVE  <2>1
      <4>1. AddMapping(o, p) /\ Gives(o, p) /\ o \in Keys
        BY <3>3 DEF ClientCreate, Keys
      <4>2. suspendEvent' = "modify" /\ client' = [op |-> "create", key |-> o]
        BY <3>3 DEF ClientCreate, Suspend
      <4> QED BY <4>1, <4>2, AddMappingTyped, GivesTyped DEF FileEvents, TypeInv
    <3> QED BY <3>1, <3>2, <3>3
  <2>2. PipelineTypeOK'
    BY <1>1, <2>1 DEF ClientCalls, TypeInv, PipelineTypeOK, batchVars, Stored
  <2>3. ops' \in Nat
    BY <1>1 DEF ClientCalls, TypeInv, FilesTypeOK
  <2> QED BY <1>1, <2>1, <2>2, <2>3 DEF ClientCalls, TypeInv, FilesTypeOK
<1>2. CASE ClientFails
  <2>1. PipelineTypeOK'
    BY <1>2, PipelineUnchanged DEF ClientFails, TypeInv
  <2> QED BY <1>2, <2>1 DEF ClientFails, TypeInv, FilesTypeOK
<1>3. CASE ClientOpens
  <2>1. PipelineTypeOK'
    BY <1>3, PipelineUnchanged DEF ClientOpens, TypeInv
  <2>2. client.key \in Objects /\ mappings[client.key] \in Paths
    BY <1>3 DEF ClientOpens, TypeInv, FilesTypeOK, Idle, Keys
  <2>3. disk' \in [Paths -> Contents \cup {Absent, Torn}]
    BY <1>3, <2>2 DEF ClientOpens, TypeInv, FilesTypeOK
  <2>4. client' \in [op : {"write"}, key : Objects, path : Paths]
    BY <1>3, <2>2 DEF ClientOpens
  <2>5. /\ owner' \in [Paths -> Objects \cup {Absent}] /\ replaced' \subseteq Paths
        /\ strayed' \subseteq Objects
    <3>1. owner' = [owner EXCEPT ![mappings[client.key]] = client.key]
      BY <1>3 DEF ClientOpens
    <3>2. replaced' \subseteq Paths
      BY <1>3, <2>2 DEF ClientOpens, TypeInv, FilesTypeOK
    <3>3. strayed' \subseteq strayed \cup ({owner[mappings[client.key]]} \ {Absent})
      BY <1>3 DEF ClientOpens, Ousted, Early, TypeInv, FilesTypeOK
    <3> QED BY <2>2, <3>1, <3>2, <3>3 DEF TypeInv, FilesTypeOK
  <2> QED BY <1>3, <2>1, <2>3, <2>4, <2>5 DEF ClientOpens, TypeInv, FilesTypeOK
<1>4. CASE ClientWrites
  <2>1. client.key \in Objects /\ client.path \in Paths
    BY <1>4 DEF ClientWrites, TypeInv, FilesTypeOK, Idle
  <2>2. /\ events' \in Seq(Events) /\ Len(events') <= EventCap
        /\ missed' \cup raced' \subseteq Paths
    BY <1>4, <2>1, OneEvent, NotifyTyped DEF ClientWrites, TypeInv
  <2>3. PipelineTypeOK'
    BY <1>4, <2>2 DEF ClientWrites, TypeInv, PipelineTypeOK, batchVars, Stored
  <2>4. disk' \in [Paths -> Contents \cup {Absent, Torn}] /\ view' \subseteq Keys
    BY <1>4, <2>1 DEF ClientWrites, TypeInv, FilesTypeOK, Contents, Keys
  <2> QED BY <1>4, <2>3, <2>4 DEF ClientWrites, TypeInv, FilesTypeOK
<1>5. CASE ClientRemoves
  <2> DEFINE p == mappings[client.key]
  <2>1. client.key \in Keys /\ p \in Paths
    BY <1>5 DEF ClientRemoves, TypeInv, FilesTypeOK, Idle, Keys
  <2>2. /\ events' \in Seq(Events) /\ Len(events') <= EventCap
        /\ missed' \cup raced' \subseteq Paths
    <3>1. CASE UNCHANGED <<events, missed, raced>>
      BY <3>1 DEF TypeInv, PipelineTypeOK
    <3>2. CASE Notify(<<[type |-> "delete", path |-> p, cookie |-> NoCookie]>>)
      <4> HIDE DEF p
      <4> QED BY <2>1, <3>2, OneEvent, NotifyTyped DEF TypeInv
    <3> QED BY <1>5, <3>1, <3>2 DEF ClientRemoves
  <2>3. PipelineTypeOK'
    BY <1>5, <2>2 DEF ClientRemoves, TypeInv, PipelineTypeOK, batchVars, Stored
  <2>4. disk' \in [Paths -> Contents \cup {Absent, Torn}] /\ view' \subseteq Keys
    BY <1>5 DEF ClientRemoves, TypeInv, FilesTypeOK
  <2>5. mappings' \in [Keys -> Paths \cup {NoPath}] /\ nameless' \subseteq Paths
    BY <1>5, <2>1, RemoveMappingTyped DEF ClientRemoves, TypeInv
  <2> QED BY <1>5, <2>3, <2>4, <2>5 DEF ClientRemoves, TypeInv, FilesTypeOK
<1> QED BY <1>1, <1>2, <1>3, <1>4, <1>5 DEF ClientSteps

\* Other processes.
LEMMA OutsideTyped ==
    ASSUME TypeInv, OutsideSteps
    PROVE  TypeInv'
<1> DEFINE Typed == /\ disk' \in [Paths -> Contents \cup {Absent, Torn}]
                    /\ outside' = NotWriting \/ outside' \in [path : Paths, content : Contents]
                    /\ owner' \in [Paths -> Objects \cup {Absent}] /\ replaced' \subseteq Paths
                    /\ strayed' \subseteq Objects
                    /\ events' \in Seq(Events) /\ Len(events') <= EventCap
                    /\ missed' \cup raced' \subseteq Paths
<1>1. ASSUME NEW p \in Paths, NEW c \in NewContents(p)
      PROVE  c \in Contents
  BY DEF NewContents, Contents
<1>2. ASSUME NEW p \in Paths, OutsideOpens(p)
      PROVE  Typed
  <2>1. PICK c \in NewContents(p) : outside' = [path |-> p, content |-> c] /\ Gives(c, p)
    BY <1>2 DEF OutsideOpens
  <2>2. /\ owner' \in [Paths -> Objects \cup {Absent}] /\ replaced' \subseteq Paths
        /\ strayed' \subseteq Objects
    BY <2>1, GivesTyped DEF TypeInv
  <2>3. disk' \in [Paths -> Contents \cup {Absent, Torn}]
    BY <1>2 DEF OutsideOpens, TypeInv, FilesTypeOK
  <2>4. UNCHANGED <<events, missed, raced>>
    BY <1>2 DEF OutsideOpens
  <2> QED BY <1>1, <2>1, <2>2, <2>3, <2>4 DEF TypeInv, PipelineTypeOK
<1>3. ASSUME NEW p \in Paths, OutsideDeletes(p)
      PROVE  Typed
  <2>1. disk' \in [Paths -> Contents \cup {Absent, Torn}] /\ UNCHANGED <<outside, owner, replaced, strayed>>
    BY <1>3 DEF OutsideDeletes, TypeInv, FilesTypeOK
  <2>2. /\ events' \in Seq(Events) /\ Len(events') <= EventCap /\ missed' \cup raced' \subseteq Paths
    BY <1>3, OneEvent, NotifyTyped DEF OutsideDeletes, TypeInv
  <2> QED BY <2>1, <2>2 DEF TypeInv, FilesTypeOK
<1>4. ASSUME NEW p \in Paths, OutsideMovesOut(p), ops < MaxOps
      PROVE  Typed
  <2>1. disk' \in [Paths -> Contents \cup {Absent, Torn}] /\ UNCHANGED <<outside, owner, replaced, strayed>>
    BY <1>4 DEF OutsideMovesOut, TypeInv, FilesTypeOK
  <2> DEFINE e == [type |-> "movedFrom", path |-> p, cookie |-> ops + 1]
  <2>2. e \in Events /\ Notify(<<e>>)
    BY <1>4, OneHalf DEF OutsideMovesOut, TypeInv
  <2> HIDE DEF e
  <2>3. <<e>> \in Seq(Events)
    BY <2>2
  <2>4. /\ events' \in Seq(Events) /\ Len(events') <= EventCap /\ missed' \cup raced' \subseteq Paths
    BY <2>2, <2>3, NotifyTyped DEF TypeInv
  <2> QED BY <2>1, <2>4 DEF TypeInv, FilesTypeOK
<1>5. ASSUME NEW p \in Paths, OutsideMovesIn(p), ops < MaxOps
      PROVE  Typed
  <2>1. PICK c \in NewContents(p) : disk' = [disk EXCEPT ![p] = c] /\ Gives(c, p)
    BY <1>5 DEF OutsideMovesIn
  <2>2. /\ owner' \in [Paths -> Objects \cup {Absent}] /\ replaced' \subseteq Paths
        /\ strayed' \subseteq Objects
    BY <2>1, GivesTyped DEF TypeInv
  <2>3. disk' \in [Paths -> Contents \cup {Absent, Torn}] /\ UNCHANGED outside
    BY <1>1, <1>5, <2>1 DEF OutsideMovesIn, TypeInv, FilesTypeOK
  <2> DEFINE e == [type |-> "movedTo", path |-> p, cookie |-> ops + 1]
  <2>4. e \in Events /\ Notify(<<e>>)
    BY <1>5, OneHalf DEF OutsideMovesIn, TypeInv
  <2> HIDE DEF e
  <2>5. <<e>> \in Seq(Events)
    BY <2>4
  <2>6. /\ events' \in Seq(Events) /\ Len(events') <= EventCap /\ missed' \cup raced' \subseteq Paths
    BY <2>4, <2>5, NotifyTyped DEF TypeInv
  <2> QED BY <2>2, <2>3, <2>6 DEF TypeInv, FilesTypeOK
<1>6. ASSUME NEW p \in Paths, NEW q \in Paths, OutsideRenames(p, q), ops < MaxOps
      PROVE  Typed
  <2>1. disk' \in [Paths -> Contents \cup {Absent, Torn}] /\ UNCHANGED outside
    BY <1>6 DEF OutsideRenames, TypeInv, FilesTypeOK
  <2>2. /\ owner' \in [Paths -> Objects \cup {Absent}] /\ replaced' \subseteq Paths
        /\ strayed' \subseteq Objects
    <3>1. CASE disk[p] \in Objects
      BY <1>6, <3>1, GivesTyped DEF OutsideRenames, TypeInv
    <3>2. CASE disk[p] \notin Objects
      BY <1>6, <3>2 DEF OutsideRenames, TypeInv, FilesTypeOK
    <3> QED BY <3>1, <3>2
  <2> DEFINE e == [type |-> "movedFrom", path |-> p, cookie |-> ops + 1]
             f == [type |-> "movedTo", path |-> q, cookie |-> ops + 1]
  <2>3. e \in Events /\ f \in Events /\ Notify(<<e, f>>)
    BY <1>6, OneHalf DEF OutsideRenames, TypeInv
  <2> HIDE DEF e, f
  <2>4. <<e, f>> \in Seq(Events)
    BY <2>3
  <2>5. /\ events' \in Seq(Events) /\ Len(events') <= EventCap /\ missed' \cup raced' \subseteq Paths
    BY <2>3, <2>4, NotifyTyped DEF TypeInv
  <2> QED BY <2>1, <2>2, <2>5 DEF TypeInv, FilesTypeOK
<1>7. ASSUME OutsideWrites
      PROVE  Typed /\ ops' = ops
  <2>1. outside.path \in Paths /\ outside.content \in Contents
    BY <1>7 DEF OutsideWrites, TypeInv, FilesTypeOK
  <2>2. disk' \in [Paths -> Contents \cup {Absent, Torn}] /\ outside' = NotWriting
    BY <1>7, <2>1 DEF OutsideWrites, TypeInv, FilesTypeOK
  <2>3. /\ events' \in Seq(Events) /\ Len(events') <= EventCap /\ missed' \cup raced' \subseteq Paths
    BY <1>7, <2>1, OneEvent, NotifyTyped DEF OutsideWrites, TypeInv
  <2> QED BY <1>7, <2>2, <2>3 DEF OutsideWrites, TypeInv, FilesTypeOK
<1>8. Typed /\ ops' \in Nat
  <2>1. ops \in Nat /\ ops + 1 \in Nat
    BY DEF TypeInv, FilesTypeOK
  <2> HIDE DEF Typed
  <2> QED BY <1>2, <1>3, <1>4, <1>5, <1>6, <1>7, <2>1 DEF OutsideSteps
<1>9. PipelineTypeOK'
  BY <1>8 DEF OutsideSteps, TypeInv, PipelineTypeOK, batchVars, Stored
<1> QED BY <1>8, <1>9 DEF OutsideSteps, TypeInv, FilesTypeOK

LEMMA TypeNext ==
    ASSUME TypeInv, [Next]_vars
    PROVE  TypeInv'
<1>1. CASE WatcherSteps /\ UNCHANGED storageVars
  BY <1>1, MonitorTyped, DispatchTyped, TimersTyped, FilesUnchanged DEF WatcherSteps, TypeInv
<1>2. CASE Close /\ UNCHANGED storageVars
  BY <1>2, CloseTyped, FilesUnchanged DEF Close, TypeInv
<1>3. CASE SetUpdateStream
  <2>1. PipelineTypeOK'
    BY <1>3, PipelineUnchanged DEF SetUpdateStream, TypeInv
  <2> QED BY <1>3, <2>1 DEF SetUpdateStream, TypeInv, FilesTypeOK
<1>4. CASE UNCHANGED vars
  BY <1>4, PipelineUnchanged, FilesUnchanged DEF vars, TypeInv
<1> QED BY <1>1, <1>2, <1>3, <1>4, StorageTyped, ClientTyped, OutsideTyped DEF Next

\* Queues keep to their capacities, and what goes through the pipeline and into the
\* mappings is well formed, whatever the goroutines, timers, client and other processes
\* do: Range finds something under every key that it visits, a half of a rename has its
\* cookie, and the file that is written to is one of the files.
THEOREM WatchTypeCorrect == Spec => []TypeOK
BY TypeInit, TypeNext, TypeInvTypeOK, PTL DEF Spec

-----------------------------------------------------------------------------
(***************************************************************************)
(* The mappings follow the files.  QuietMappings says nothing before the   *)
(* pipeline is empty, so it is not inductive.  MapInv says of each file    *)
(* what is still to be done, and by whom: Held for one that holds an       *)
(* object, Gone for one that is gone and is still mapped.  Both look at    *)
(* the newest event of the file that Range has not handed over; when there *)
(* is none, at what was reported.  QueuesInv is why the newest event       *)
(* decides: the queues keep the order of a file's events, and the halves   *)
(* of a rename find each other and nothing else.                           *)
(***************************************************************************)
Open == closing = "open" /\ panicked = "no"
Good(p) == p \in Paths \ (missed \cup raced \cup nameless \cup replaced)

\* Where the events of a file are that dispatchFunc has not seen yet.
Queued(p) == \E i \in DOMAIN events : events[i].path = p
Loaded(p) == monitor # <<>> /\ Last(monitor).path = p
Unvisited(p) == syncMap[p] # NoValue /\ visited[p] # syncMap[p]
Undelivered(p) == Queued(p) \/ Loaded(p) \/ Unvisited(p)

\* The last of them.
NewestIn(s, p, e) ==
    \E i \in DOMAIN s : /\ s[i] = e /\ e.path = p
                        /\ \A j \in DOMAIN s : s[j].path = p => j <= i
Newest(p, e) ==
    \/ NewestIn(events, p, e)
    \/ ~Queued(p) /\ Loaded(p) /\ e = Last(monitor)
    \/ ~Queued(p) /\ ~Loaded(p) /\ Unvisited(p) /\ e = Last(syncMap[p])

\* The events on their way, and the halves of renames among them that were handed over.
Waiting == Pending \ {NoEvent}
Cached == ({moveCaches[c].event : c \in Cookies} \cup {i.event : i \in ToSet(incomplete)}) \ {NoEvent}

\* Range, the map and the monitor.
PlacesInv ==
    /\ DOMAIN visited = Paths
    /\ dispatcher = "wait" => visited = EmptyMap
    /\ \A p \in toVisit : visited[p] = NoValue
    /\ \A p \in Paths : visited[p] # NoValue =>
            /\ syncMap[p] # NoValue
            /\ visited[p] \in Seq(Events) /\ Len(visited[p]) <= Len(syncMap[p])
    /\ \A p \in Paths : Loaded(p) /\ syncMap[p] # NoValue => Len(monitor) = Len(syncMap[p]) + 1
    /\ \A p \in Stored : \A i \in DOMAIN syncMap[p] : syncMap[p][i].path = p
    /\ \A i \in DOMAIN monitor : monitor[i].path = Last(monitor).path
    /\ \A c \in Cookies : moveCaches[c] # NoCache => moveCaches[c].event.cookie = c
    /\ toScan # {} => update = NoUpdate

\* A cookie belongs to one rename.
CookiesInv ==
    \A e \in Waiting \cap Halves :
        /\ e.cookie \in 1..ops
        /\ \A f \in Waiting \cap Halves :
                e.cookie = f.cookie /\ e.type = f.type => e.path = f.path

\* The first half of a rename is delivered once.
OnceInv ==
    /\ \A i, j \in DOMAIN events :
            events[i].type = "movedFrom" /\ events[i] = events[j] => i = j
    /\ \A f \in ToSet(events) : f.type = "movedFrom" =>
            /\ f \notin ToSet(monitor) \cup Cached
            /\ syncMap[f.path] # NoValue => f \notin ToSet(syncMap[f.path])
    /\ monitor # <<>> /\ Last(monitor).type = "movedFrom" =>
            LET f == Last(monitor)
            IN  /\ \A i \in DOMAIN monitor : monitor[i] = f => i = Len(monitor)
                /\ f \notin Cached
                /\ syncMap[f.path] # NoValue => f \notin ToSet(syncMap[f.path])
    /\ \A p \in Paths : Unvisited(p) /\ Last(syncMap[p]).type = "movedFrom" =>
            /\ \A i \in DOMAIN syncMap[p] : syncMap[p][i] = Last(syncMap[p]) => i = Len(syncMap[p])
            /\ Last(syncMap[p]) \notin Cached

\* What raced leaves out.
RacesInv ==
    \A p \in Paths : Good(p) =>
        \A f \in Waiting : f.path = p =>
            /\ f.type = "movedFrom" => disk[p] \in {Absent, Torn} /\ \A e \in Waiting : Newest(p, e) => e = f
            /\ f.type = "delete" => \A e \in Waiting : Newest(p, e) => e.type # "movedTo"

\* An object is in one file, unless the client has copied it.
Holds(p, o) ==
    \/ disk[p] = o
    \/ outside.path = p /\ outside.content = o
    \/ client.op = "write" /\ client.path = p /\ client.key = o
CopiesInv ==
    \A p, q \in Paths, o \in Objects :
        p # q /\ Holds(p, o) /\ Holds(q, o) => p \in replaced /\ q \in replaced

\* owner is what a file holds, or is about to, and the only object mapped to it.
Writing(p) == client.op = "write" /\ client.path = p
OwnerInv ==
    /\ \A p \in Paths : disk[p] \in Objects => owner[p] = disk[p]
    /\ \A p \in Paths : disk[p] = Torn <=> outside.path = p \/ Writing(p)
    /\ client.op = "write" => outside.path # client.path
    /\ outside.content \in Objects => owner[outside.path] = outside.content
    /\ client.op = "write" => owner[client.path] = client.key
    /\ \A p \in Paths : Good(p) => Mapped(p) \subseteq {owner[p]}
    /\ update # NoUpdate /\ Good(update.path) /\ update.content \in Objects
            => update.content = owner[update.path]

\* What was reported of a file.
Slot(p, o) == update # NoUpdate /\ update.event # "delete" /\ update.path = p /\ update.content = o
NoDelete(s, p) == \A i \in DOMAIN s : s[i].path = p => s[i].event # "delete"
EndsPresent(s, p) ==
    \E k \in DOMAIN s : /\ s[k].path = p
                        /\ \A j \in DOMAIN s : j >= k /\ s[j].path = p => s[j].event # "delete"
CachedHalf(type, p, c) ==
    moveCaches[c].armed /\ moveCaches[c].event.type = type /\ moveCaches[c].event.path = p
SendsHalf(type, p) ==
    \E n \in DOMAIN incomplete : /\ incomplete[n].step = "send"
                                 /\ incomplete[n].event.type = type
                                 /\ incomplete[n].event.path = p
Reported(p, o) ==
    \/ EndsPresent(outbox, p)
    \/ /\ NoDelete(outbox, p)
       /\ \/ EndsPresent(updates, p)
          \/ NoDelete(updates, p) /\ Slot(p, o)
          \/ \E c \in Cookies : CachedHalf("movedTo", p, c)
          \/ SendsHalf("movedTo", p)
\* What was reported was mapped, and an event of it sent, if anybody listens.
Known(p, o) == mappings[o] = p /\ o \in view \cup unheard
Settled(p, o) ==
    /\ Known(p, o) \/ p \in toScan
    /\ NoDelete(outbox, p) /\ NoDelete(updates, p)
    /\ ~(update.event = "delete" /\ update.path = p)
    /\ \A q \in Paths \ {p} : ~Slot(q, o)

\* The newest event of a file that holds an object reports it.
Held(p, o) ==
    Good(p) /\ disk[p] = o =>
        /\ \A e \in Waiting : Newest(p, e) => e.type \in {"closeWrite", "movedTo"}
        /\ ~Undelivered(p) => Reported(p, o) \/ Settled(p, o)

\* What a rename, an update, and the events of a file take from the mapping of o.
RenameTakes(c, p, o) ==
    \A f \in Waiting : f.type = "movedTo" /\ f.cookie = c => f.path # p /\ owner[f.path] = o
Takes(u, p, o) ==
    u.path \in Paths /\ (IF u.path = p THEN u.event = "delete" ELSE u.event = "move" /\ owner[u.path] = o)
Removed(p, o) ==
    \/ \E u \in ToSet(outbox) \cup ToSet(updates) : Takes(u, p, o)
    \/ update.event = "delete" /\ update.path = p
    \/ update.event = "move" /\ update.path # p /\ update.content = o
    \/ \E c \in Cookies : CachedHalf("movedFrom", p, c) /\ RenameTakes(c, p, o)
    \/ SendsHalf("movedFrom", p)
Removes(e, p, o) == e.type = "delete" \/ (e.type = "movedFrom" /\ RenameTakes(e.cookie, p, o))
Creating(o) == client.op = "create" /\ client.key = o

\* The newest event of a file that is gone takes its mapping away.
Gone(p, o) ==
    /\ Good(p) /\ disk[p] = Absent /\ o \notin strayed
    /\ Slot(p, o) \/ (mappings[o] = p /\ ~Creating(o))
    => /\ \A e \in Waiting : Newest(p, e) => Removes(e, p, o)
       /\ ~Undelivered(p) => Removed(p, o)

FilesInv == OwnerInv /\ CopiesInv /\ \A p \in Paths, o \in Objects : Held(p, o) /\ Gone(p, o)
QueuesInv == PlacesInv /\ CookiesInv /\ OnceInv /\ RacesInv
MapInv == TypeInv /\ BatchInv /\ (Open => QueuesInv /\ FilesInv)
-----------------------------------------------------------------------------
(***************************************************************************)
(* Lemmas about sequences and events.                                      *)
(***************************************************************************)
LEMMA EventTyped ==
    ASSUME NEW e \in Events
    PROVE  /\ e \in Event /\ e # NoEvent /\ e.path \in Paths
           /\ e.type \in {"delete", "closeWrite", "movedFrom", "movedTo"}
           /\ e \in Halves <=> e.type \in {"movedFrom", "movedTo"}
           /\ e \in Halves => e.cookie \in Cookies
BY DEF Events, Event, NoEvent, Halves, convertEvent

LEMMA InSeq ==
    ASSUME NEW S, NEW s \in Seq(S)
    PROVE  /\ Len(s) \in Nat /\ DOMAIN s = 1..Len(s)
           /\ \A i \in DOMAIN s : s[i] \in S
           /\ ToSet(s) = {s[i] : i \in DOMAIN s} /\ ToSet(s) \subseteq S
           /\ s # <<>> => Len(s) > 0 /\ Last(s) = s[Len(s)] /\ Len(s) \in DOMAIN s
                          /\ Last(s) \in ToSet(s) /\ Last(s) \in S
<1>1. Len(s) \in Nat /\ DOMAIN s = 1..Len(s)
  OBVIOUS
<1>2. \A i \in DOMAIN s : s[i] \in S
  OBVIOUS
<1>3. ToSet(s) = {s[i] : i \in DOMAIN s}
  BY DEF ToSet
<1>4. s # <<>> => Len(s) > 0
  OBVIOUS
<1>5. Last(s) = s[Len(s)]
  BY DEF Last
<1> QED BY <1>1, <1>2, <1>3, <1>4, <1>5

LEMMA TailOf ==
    ASSUME NEW S, NEW s \in Seq(S), s # <<>>
    PROVE  /\ Tail(s) \in Seq(S) /\ Len(Tail(s)) = Len(s) - 1 /\ Len(s) > 0
           /\ DOMAIN Tail(s) = 1..(Len(s) - 1)
           /\ \A i \in 1..(Len(s) - 1) : Tail(s)[i] = s[i + 1]
           /\ Head(s) = s[1] /\ 1 \in DOMAIN s /\ Head(s) \in S
           /\ ToSet(s) = ToSet(Tail(s)) \cup {Head(s)}
<1>1. Len(s) \in Nat /\ Len(s) > 0 /\ DOMAIN s = 1..Len(s)
  OBVIOUS
<1>2. Tail(s) \in Seq(S) /\ Len(Tail(s)) = Len(s) - 1 /\ \A i \in 1..(Len(s) - 1) : Tail(s)[i] = s[i + 1]
  BY <1>1
<1>3. DOMAIN Tail(s) = 1..(Len(s) - 1)
  BY <1>2
<1>4. Head(s) = s[1] /\ Head(s) \in S
  BY <1>1
<1>5. ToSet(s) = ToSet(Tail(s)) \cup {Head(s)}
  <2>1. ASSUME NEW i \in 1..Len(s) PROVE s[i] \in ToSet(Tail(s)) \cup {Head(s)}
    <3>1. CASE i = 1
      BY <1>4, <3>1
    <3>2. CASE i # 1
      <4>1. i - 1 \in 1..(Len(s) - 1) /\ s[i] = s[(i - 1) + 1]
        BY <1>1, <3>2
      <4> QED BY <1>2, <1>3, <4>1 DEF ToSet
    <3> QED BY <3>1, <3>2
  <2>2. ASSUME NEW i \in 1..(Len(s) - 1) PROVE Tail(s)[i] \in ToSet(s)
    <3>1. i + 1 \in 1..Len(s)
      BY <1>1
    <3> QED BY <1>1, <1>2, <3>1 DEF ToSet
  <2> QED BY <1>1, <1>3, <1>4, <2>1, <2>2 DEF ToSet
<1> QED BY <1>1, <1>2, <1>3, <1>4, <1>5

LEMMA AppendOf ==
    ASSUME NEW S, NEW s \in Seq(S), NEW e \in S
    PROVE  /\ Append(s, e) \in Seq(S) /\ Append(s, e) # <<>> /\ Len(Append(s, e)) = Len(s) + 1
           /\ DOMAIN Append(s, e) = 1..(Len(s) + 1)
           /\ \A i \in 1..Len(s) : Append(s, e)[i] = s[i]
           /\ Append(s, e)[Len(s) + 1] = e /\ Last(Append(s, e)) = e
           /\ ToSet(Append(s, e)) = ToSet(s) \cup {e}
<1>1. Len(s) \in Nat /\ DOMAIN s = 1..Len(s)
  OBVIOUS
<1>2. /\ Append(s, e) \in Seq(S) /\ Append(s, e) # <<>> /\ Len(Append(s, e)) = Len(s) + 1
      /\ \A i \in 1..Len(s) : Append(s, e)[i] = s[i]
      /\ Append(s, e)[Len(s) + 1] = e
  OBVIOUS
<1>3. DOMAIN Append(s, e) = 1..(Len(s) + 1)
  BY <1>2
<1>4. Last(Append(s, e)) = e
  BY <1>2 DEF Last
<1>5. ToSet(Append(s, e)) = ToSet(s) \cup {e}
  <2>1. \A i \in 1..(Len(s) + 1) : i \in 1..Len(s) \/ i = Len(s) + 1
    BY <1>1
  <2>2. Len(s) + 1 \in 1..(Len(s) + 1) /\ \A i \in 1..Len(s) : i \in 1..(Len(s) + 1)
    BY <1>1
  <2> QED BY <1>1, <1>2, <1>3, <2>1, <2>2 DEF ToSet
<1> QED BY <1>2, <1>3, <1>4, <1>5

LEMMA ConcatOf ==
    ASSUME NEW S, NEW s \in Seq(S), NEW t \in Seq(S)
    PROVE  /\ s \o t \in Seq(S) /\ Len(s \o t) = Len(s) + Len(t)
           /\ DOMAIN (s \o t) = 1..(Len(s) + Len(t))
           /\ \A i \in 1..Len(s) : (s \o t)[i] = s[i]
           /\ \A i \in 1..Len(t) : (s \o t)[Len(s) + i] = t[i]
           /\ \A i \in DOMAIN (s \o t) :
                i \in 1..Len(s) \/ \E j \in 1..Len(t) : i = Len(s) + j
           /\ ToSet(s \o t) = ToSet(s) \cup ToSet(t)
<1>1. Len(s) \in Nat /\ Len(t) \in Nat /\ DOMAIN s = 1..Len(s) /\ DOMAIN t = 1..Len(t)
  OBVIOUS
<1>2. /\ s \o t \in Seq(S) /\ Len(s \o t) = Len(s) + Len(t)
      /\ \A i \in 1..Len(s) : (s \o t)[i] = s[i]
      /\ \A i \in 1..Len(t) : (s \o t)[Len(s) + i] = t[i]
  BY ConcatProperties
<1>3. DOMAIN (s \o t) = 1..(Len(s) + Len(t))
  BY <1>2
<1>4. ASSUME NEW i \in 1..(Len(s) + Len(t))
      PROVE  i \in 1..Len(s) \/ \E j \in 1..Len(t) : i = Len(s) + j
  <2>1. CASE i <= Len(s)
    BY <1>1, <2>1
  <2>2. CASE i > Len(s)
    <3>1. i - Len(s) \in 1..Len(t) /\ i = Len(s) + (i - Len(s))
      BY <1>1, <2>2
    <3> QED BY <3>1
  <2> QED BY <1>1, <2>1, <2>2
<1>5. \A i \in 1..Len(s) : i \in 1..(Len(s) + Len(t))
  BY <1>1
<1>6. \A j \in 1..Len(t) : Len(s) + j \in 1..(Len(s) + Len(t))
  BY <1>1
<1>7. ToSet(s \o t) = ToSet(s) \cup ToSet(t)
  <2> DEFINE u == s \o t
  <2>1. ToSet(u) = {u[i] : i \in 1..(Len(s) + Len(t))}
    BY <1>3 DEF ToSet
  <2>2. ToSet(s) = {s[i] : i \in 1..Len(s)} /\ ToSet(t) = {t[i] : i \in 1..Len(t)}
    BY <1>1 DEF ToSet
  <2>3. /\ \A i \in 1..Len(s) : u[i] = s[i]
        /\ \A i \in 1..Len(t) : u[Len(s) + i] = t[i]
    BY <1>2
  <2> HIDE DEF u
  <2>4. ASSUME NEW x \in ToSet(u) PROVE x \in ToSet(s) \cup ToSet(t)
    <3>1. PICK i \in 1..(Len(s) + Len(t)) : x = u[i]
      BY <2>1
    <3> QED BY <1>4, <2>2, <2>3, <3>1
  <2>5. ToSet(s) \subseteq ToSet(u)
    BY <1>5, <2>1, <2>2, <2>3
  <2>6. ToSet(t) \subseteq ToSet(u)
    BY <1>6, <2>1, <2>2, <2>3
  <2> QED BY <2>4, <2>5, <2>6 DEF u
<1> QED BY <1>2, <1>3, <1>4, <1>7

-----------------------------------------------------------------------------
(***************************************************************************)
(* What waits, and what is the newest of a file.                           *)
(***************************************************************************)
PlacesTyped ==
    /\ events \in Seq(Events) /\ monitor \in Seq(Events)
    /\ \A p \in Paths : syncMap[p] # NoValue => syncMap[p] \in Seq(Events) /\ syncMap[p] # <<>>
    /\ \A c \in Cookies : \/ moveCaches[c] = NoCache
                          \/ moveCaches[c] \in [event : Halves, armed : BOOLEAN]
    /\ incomplete \in Seq(Incompletes)
    /\ \A n \in DOMAIN incomplete : incomplete[n] \in Incompletes

LEMMA PlacesAreTyped == PipelineTypeOK => PlacesTyped
<1> SUFFICES ASSUME PipelineTypeOK PROVE PlacesTyped
  OBVIOUS
<1>1. incomplete \in Seq(Incompletes)
  BY DEF PipelineTypeOK
<1>2. \A n \in DOMAIN incomplete : incomplete[n] \in Incompletes
  BY <1>1
<1>3. \A c \in Cookies : moveCaches[c] \in Caches
  BY DEF PipelineTypeOK
<1>4. \A p \in Paths : syncMap[p] \in (Seq(Events) \ {<<>>}) \cup {NoValue}
  BY DEF PipelineTypeOK
<1> QED BY <1>1, <1>2, <1>3, <1>4 DEF PipelineTypeOK, PlacesTyped, Caches

LEMMA PlacesAreTypedNext == PipelineTypeOK' => PlacesTyped'
BY PlacesAreTyped, PTL

WaitingFacts ==
    /\ Waiting \subseteq Events
    /\ ToSet(events) \subseteq Waiting /\ ToSet(monitor) \subseteq Waiting
    /\ \A p \in Stored : ToSet(syncMap[p]) \subseteq Waiting
    /\ \A c \in Cookies : moveCaches[c] # NoCache => moveCaches[c].event \in Cached
    /\ \A n \in DOMAIN incomplete : incomplete[n].event \in Cached
    /\ Cached \subseteq Waiting \cap Halves
    /\ \A e \in Waiting : \/ e \in ToSet(events) \/ e \in ToSet(monitor) \/ e \in Cached
                          \/ \E p \in Stored : e \in ToSet(syncMap[p])
    /\ \A e \in Cached : \/ \E c \in Cookies : moveCaches[c] # NoCache /\ e = moveCaches[c].event
                         \/ \E n \in DOMAIN incomplete : e = incomplete[n].event

LEMMA WaitingIs == PipelineTypeOK => WaitingFacts
<1> SUFFICES ASSUME PipelineTypeOK PROVE WaitingFacts
  OBVIOUS
<1>1. PlacesTyped
  BY PlacesAreTyped
<1>2. ToSet(events) \subseteq Events /\ ToSet(monitor) \subseteq Events
  <2>1. events \in Seq(Events) /\ monitor \in Seq(Events)
    BY <1>1 DEF PlacesTyped
  <2> QED BY <2>1, InSeq
<1>3. \A p \in Stored : ToSet(syncMap[p]) \subseteq Events
  <2>1. \A p \in Stored : syncMap[p] \in Seq(Events)
    BY <1>1 DEF PlacesTyped, Stored
  <2> QED BY <2>1, InSeq
<1>4. ToSet(incomplete) = {incomplete[n] : n \in DOMAIN incomplete}
  BY DEF ToSet
<1>5. \A c \in Cookies : moveCaches[c] # NoCache => moveCaches[c].event \in Halves
  BY <1>1 DEF PlacesTyped
<1>6. \A n \in DOMAIN incomplete : incomplete[n].event \in Halves
  BY <1>1 DEF PlacesTyped, Incompletes
<1>7. NoCache.event = NoEvent
  BY DEF NoCache
<1>8. Halves \subseteq Events
  BY DEF Halves
<1>9. NoEvent \notin Events
  BY EventTyped
<1>10. /\ \A c \in Cookies : moveCaches[c] # NoCache => moveCaches[c].event \in Cached
       /\ \A n \in DOMAIN incomplete : incomplete[n].event \in Cached
  BY <1>4, <1>5, <1>6, <1>8, <1>9 DEF Cached
<1>11. \A e \in Cached : \/ \E c \in Cookies : moveCaches[c] # NoCache /\ e = moveCaches[c].event
                         \/ \E n \in DOMAIN incomplete : e = incomplete[n].event
  BY <1>4, <1>7 DEF Cached
<1>12. Cached \subseteq Halves
  BY <1>5, <1>6, <1>11
<1>13. Waiting = ToSet(events) \cup ToSet(monitor) \cup (UNION {ToSet(syncMap[p]) : p \in Stored}) \cup Cached
  <2>1. Waiting = (ToSet(events) \ {NoEvent}) \cup (ToSet(monitor) \ {NoEvent})
                    \cup ((UNION {ToSet(syncMap[p]) : p \in Stored}) \ {NoEvent}) \cup Cached
    BY DEF Waiting, Pending, Cached
  <2>2. NoEvent \notin UNION {ToSet(syncMap[p]) : p \in Stored}
    BY <1>3, <1>9
  <2> QED BY <1>2, <1>9, <2>1, <2>2
<1>14. \A e \in UNION {ToSet(syncMap[p]) : p \in Stored} : \E p \in Stored : e \in ToSet(syncMap[p])
  OBVIOUS
<1>15. \A p \in Stored : ToSet(syncMap[p]) \subseteq Waiting
  BY <1>13
<1>16. Waiting \subseteq Events
  BY <1>2, <1>3, <1>8, <1>12, <1>13
<1> QED BY <1>8, <1>10, <1>11, <1>12, <1>13, <1>14, <1>15, <1>16 DEF WaitingFacts

LEMMA WaitingIsNext == PipelineTypeOK' => WaitingFacts'
BY WaitingIs, PTL

NewestFacts ==
    \A p \in Paths : \A e : Newest(p, e) => e \in Waiting /\ e.path = p /\ Undelivered(p)

LEMMA NewestWaits == PipelineTypeOK /\ PlacesInv => NewestFacts
<1> SUFFICES ASSUME PipelineTypeOK, PlacesInv, NEW p \in Paths, NEW e, Newest(p, e)
             PROVE  e \in Waiting /\ e.path = p /\ Undelivered(p)
  BY DEF NewestFacts
<1>1. PlacesTyped /\ WaitingFacts
  BY PlacesAreTyped, WaitingIs
<1>2. CASE NewestIn(events, p, e)
  <2>1. PICK i \in DOMAIN events : events[i] = e /\ e.path = p
    BY <1>2 DEF NewestIn
  <2>2. e \in ToSet(events)
    BY <2>1 DEF ToSet
  <2> QED BY <1>1, <2>1, <2>2 DEF WaitingFacts, Undelivered, Queued
<1>3. CASE Loaded(p) /\ e = Last(monitor)
  <2>1. monitor # <<>> /\ Last(monitor).path = p /\ monitor \in Seq(Events)
    BY <1>1, <1>3 DEF Loaded, PlacesTyped
  <2>2. Last(monitor) \in ToSet(monitor)
    BY <2>1, InSeq
  <2> QED BY <1>1, <1>3, <2>1, <2>2 DEF WaitingFacts, Undelivered
<1>4. CASE Unvisited(p) /\ e = Last(syncMap[p])
  <2>1. p \in Stored /\ syncMap[p] \in Seq(Events) /\ syncMap[p] # <<>>
    BY <1>1, <1>4 DEF Unvisited, PlacesTyped, Stored
  <2>2. Last(syncMap[p]) \in ToSet(syncMap[p]) /\ Len(syncMap[p]) \in DOMAIN syncMap[p]
        /\ Last(syncMap[p]) = syncMap[p][Len(syncMap[p])]
    BY <2>1, InSeq
  <2>3. Last(syncMap[p]).path = p
    BY <2>1, <2>2 DEF PlacesInv
  <2> QED BY <1>1, <1>4, <2>1, <2>2, <2>3 DEF WaitingFacts, Undelivered
<1> QED BY <1>2, <1>3, <1>4 DEF Newest

LEMMA NewestWaitsNext == PipelineTypeOK' /\ PlacesInv' => NewestFacts'
BY NewestWaits, PTL

queues == <<events, monitor, syncMap, visited, moveCaches, incomplete>>

LEMMA QueuesKept ==
    ASSUME UNCHANGED queues
    PROVE  /\ Waiting' = Waiting /\ Cached' = Cached
           /\ \A p \in Paths : /\ Queued(p)' <=> Queued(p)
                               /\ Loaded(p)' <=> Loaded(p)
                               /\ Unvisited(p)' <=> Unvisited(p)
                               /\ Undelivered(p)' <=> Undelivered(p)
                               /\ \A e : Newest(p, e)' <=> Newest(p, e)
<1>1. /\ events' = events /\ monitor' = monitor /\ syncMap' = syncMap /\ visited' = visited
      /\ moveCaches' = moveCaches /\ incomplete' = incomplete
  BY DEF queues
<1>2. Waiting' = Waiting /\ Cached' = Cached
  BY <1>1 DEF Waiting, Pending, Cached, Stored
<1>3. ASSUME NEW p \in Paths
      PROVE  /\ Queued(p)' <=> Queued(p)
             /\ Loaded(p)' <=> Loaded(p)
             /\ Unvisited(p)' <=> Unvisited(p)
  BY <1>1 DEF Queued, Loaded, Unvisited
<1>4. ASSUME NEW p \in Paths
      PROVE  Undelivered(p)' <=> Undelivered(p)
  BY <1>3 DEF Undelivered
<1>5. ASSUME NEW p \in Paths, NEW e
      PROVE  Newest(p, e)' <=> Newest(p, e)
  BY <1>1, <1>3 DEF Newest
<1> QED BY <1>2, <1>3, <1>4, <1>5

Has(s, p) == \E i \in DOMAIN s : s[i].path = p

LEMMA NewestTail ==
    ASSUME NEW s \in Seq(Events), s # <<>>, NEW p
    PROVE  /\ \A e : NewestIn(Tail(s), p, e) => NewestIn(s, p, e)
           /\ Has(Tail(s), p) => Has(s, p)
           /\ Head(s).path # p => (Has(Tail(s), p) <=> Has(s, p))
           /\ Head(s).path = p => Has(s, p)
           /\ Head(s).path = p /\ ~Has(Tail(s), p) => NewestIn(s, p, Head(s))
<1> DEFINE t == Tail(s)
           n == Len(s) - 1
<1>1. /\ n \in Nat /\ DOMAIN t = 1..n /\ DOMAIN s = 1..(n + 1)
      /\ \A i \in 1..n : t[i] = s[i + 1]
      /\ Head(s) = s[1]
  BY TailOf, InSeq
<1> HIDE DEF t, n
<1>2. \A i \in 1..n : i + 1 \in 1..(n + 1)
  BY <1>1
<1>3. \A j \in 1..(n + 1) : j = 1 \/ (j - 1 \in 1..n /\ s[j] = t[j - 1])
  <2> SUFFICES ASSUME NEW j \in 1..(n + 1), j # 1 PROVE j - 1 \in 1..n /\ s[j] = t[j - 1]
    OBVIOUS
  <2>1. j - 1 \in 1..n /\ (j - 1) + 1 = j
    BY <1>1
  <2> QED BY <1>1, <2>1
<1>4. 1 \in 1..(n + 1)
  BY <1>1
<1>5. ASSUME NEW e, NewestIn(t, p, e) PROVE NewestIn(s, p, e)
  <2>1. PICK i \in 1..n : t[i] = e /\ e.path = p /\ \A j \in 1..n : t[j].path = p => j <= i
    BY <1>1, <1>5 DEF NewestIn
  <2>2. i + 1 \in 1..(n + 1) /\ s[i + 1] = e
    BY <1>1, <1>2, <2>1
  <2>3. ASSUME NEW j \in 1..(n + 1), s[j].path = p PROVE j <= i + 1
    <3>1. CASE j = 1
      BY <3>1
    <3>2. CASE j # 1
      <4>1. j - 1 \in 1..n /\ t[j - 1].path = p
        BY <1>3, <2>3, <3>2
      <4>2. j - 1 <= i
        BY <2>1, <4>1
      <4> QED BY <4>2
    <3> QED BY <3>1, <3>2
  <2> QED BY <1>1, <2>1, <2>2, <2>3 DEF NewestIn
<1>6. Has(t, p) => Has(s, p)
  BY <1>1, <1>2 DEF Has
<1>7. Head(s).path # p => (Has(t, p) <=> Has(s, p))
  BY <1>1, <1>3, <1>6 DEF Has
<1>8. Head(s).path = p => Has(s, p)
  BY <1>1, <1>4 DEF Has
<1>9. ASSUME Head(s).path = p, ~Has(t, p) PROVE NewestIn(s, p, Head(s))
  <2>1. ASSUME NEW j \in 1..(n + 1), s[j].path = p PROVE j <= 1
    <3>1. CASE j = 1
      BY <3>1
    <3>2. CASE j # 1
      BY <1>1, <1>3, <1>9, <2>1, <3>2 DEF Has
    <3> QED BY <3>1, <3>2
  <2> QED BY <1>1, <1>4, <1>9, <2>1 DEF NewestIn
<1> QED BY <1>5, <1>6, <1>7, <1>8, <1>9 DEF t

Drains ==
    /\ Waiting' \subseteq Waiting
    /\ \A p \in Paths : Good(p)' => Good(p) /\ \A e : Newest(p, e)' => Newest(p, e)

LEMMA MonitorDrains ==
    ASSUME PipelineTypeOK, PipelineTypeOK', PlacesInv, MonitorSkips \/ MonitorLoads \/ MonitorStores,
           UNCHANGED storageVars
    PROVE  Drains /\ \A p \in Paths : Good(p)' /\ Undelivered(p) => Undelivered(p)'
<1>1. PlacesTyped /\ WaitingFacts /\ PlacesTyped' /\ WaitingFacts'
  BY PlacesAreTyped, WaitingIs, PlacesAreTypedNext, WaitingIsNext
<1>2. nameless' = nameless /\ replaced' = replaced
  BY DEF storageVars
<1>3. ASSUME MonitorSkips
      PROVE  Drains /\ \A p \in Paths : Good(p)' /\ Undelivered(p) => Undelivered(p)'
  <2> DEFINE q == Head(events).path
  <2>1. /\ events # <<>> /\ events \in Seq(Events) /\ events' = Tail(events)
        /\ missed' = missed \cup {q} /\ raced' = raced
        /\ monitor' = monitor /\ syncMap' = syncMap /\ visited' = visited
        /\ moveCaches' = moveCaches /\ incomplete' = incomplete
    BY <1>1, <1>3 DEF MonitorSkips, batchVars, PlacesTyped
  <2>2. ToSet(events') \subseteq ToSet(events)
    BY <2>1, TailOf
  <2>3. Waiting' \subseteq Waiting
    <3>1. Cached' = Cached /\ Stored' = Stored
      BY <2>1 DEF Cached, Stored
    <3> QED BY <1>1, <2>1, <2>2, <3>1 DEF WaitingFacts
  <2>4. ASSUME NEW p \in Paths, Good(p)'
        PROVE  Good(p) /\ (\A e : Newest(p, e)' => Newest(p, e)) /\ (Undelivered(p) => Undelivered(p)')
    <3>1. p # q /\ Good(p)
      BY <1>2, <2>1, <2>4 DEF Good
    <3>2. (Queued(p)' <=> Queued(p)) /\ \A e : NewestIn(events', p, e) => NewestIn(events, p, e)
      BY <2>1, <3>1, NewestTail DEF Queued, Has
    <3>3. (Loaded(p)' <=> Loaded(p)) /\ (Unvisited(p)' <=> Unvisited(p))
      BY <2>1 DEF Loaded, Unvisited
    <3> QED BY <2>1, <3>1, <3>2, <3>3 DEF Newest, Undelivered
  <2> QED BY <2>3, <2>4 DEF Drains
<1>4. ASSUME MonitorLoads
      PROVE  Drains /\ \A p \in Paths : Good(p)' /\ Undelivered(p) => Undelivered(p)'
  <2> DEFINE ev == Head(events)
             q == ev.path
  <2>1. /\ events # <<>> /\ events \in Seq(Events) /\ events' = Tail(events)
        /\ missed' = missed /\ raced' = raced /\ monitor = <<>>
        /\ syncMap' = syncMap /\ visited' = visited
        /\ moveCaches' = moveCaches /\ incomplete' = incomplete
        /\ monitor' = IF syncMap[q] = NoValue THEN <<ev>> ELSE Append(syncMap[q], ev)
    BY <1>1, <1>4 DEF MonitorLoads, batchVars, PlacesTyped
  <2>2. ToSet(events') \subseteq ToSet(events) /\ ev \in ToSet(events) /\ ev \in Events /\ q \in Paths
    BY <2>1, TailOf, EventTyped
  <2>3. /\ monitor' # <<>> /\ Last(monitor') = ev
        /\ \A e \in ToSet(monitor') : e = ev \/ (q \in Stored /\ e \in ToSet(syncMap[q]))
    <3>1. CASE syncMap[q] = NoValue
      BY <2>1, <3>1 DEF Last, ToSet
    <3>2. CASE syncMap[q] # NoValue
      <4>1. syncMap[q] \in Seq(Events) /\ q \in Stored
        BY <1>1, <2>2, <3>2 DEF PlacesTyped, Stored
      <4> HIDE DEF ev, q
      <4>2. monitor' = Append(syncMap[q], ev)
        BY <2>1, <3>2
      <4> QED BY <2>2, <4>1, <4>2, AppendOf
    <3> QED BY <3>1, <3>2
  <2>4. Waiting' \subseteq Waiting
    <3>1. Cached' = Cached /\ Stored' = Stored
      BY <2>1 DEF Cached, Stored
    <3> QED BY <1>1, <2>1, <2>2, <2>3, <3>1 DEF WaitingFacts
  <2> HIDE DEF ev
  <2>5. ASSUME NEW p \in Paths, Good(p)'
        PROVE  Good(p) /\ (\A e : Newest(p, e)' => Newest(p, e)) /\ (Undelivered(p) => Undelivered(p)')
    <3>1. Good(p)
      BY <1>2, <2>1, <2>5 DEF Good
    <3>2. /\ Queued(p)' <=> Has(Tail(events), p)
          /\ Queued(p) <=> Has(events, p)
          /\ Loaded(p)' <=> q = p
          /\ ~Loaded(p)
          /\ Unvisited(p)' <=> Unvisited(p)
      BY <2>1, <2>3 DEF Queued, Has, Loaded, Unvisited
    <3>3. /\ \A e : NewestIn(events', p, e) => NewestIn(events, p, e)
          /\ Has(Tail(events), p) => Has(events, p)
          /\ q # p => (Has(Tail(events), p) <=> Has(events, p))
          /\ q = p => Has(events, p)
          /\ q = p /\ ~Has(Tail(events), p) => NewestIn(events, p, ev)
      BY <2>1, NewestTail DEF ev
    <3>4. ASSUME NEW e, Newest(p, e)' PROVE Newest(p, e)
      BY <2>1, <2>3, <3>2, <3>3, <3>4 DEF Newest
    <3> QED BY <3>1, <3>2, <3>3, <3>4 DEF Undelivered
  <2> QED BY <2>4, <2>5 DEF Drains
<1>5. ASSUME MonitorStores
      PROVE  Drains /\ \A p \in Paths : Good(p)' /\ Undelivered(p) => Undelivered(p)'
  <2>0. PICK q : q = Last(monitor).path
    OBVIOUS
  <2>1. /\ monitor # <<>> /\ monitor \in Seq(Events) /\ events' = events
        /\ missed' = missed /\ raced' = raced /\ monitor' = <<>>
        /\ syncMap' = [syncMap EXCEPT ![q] = monitor] /\ visited' = visited
        /\ moveCaches' = moveCaches /\ incomplete' = incomplete
    BY <1>1, <1>5, <2>0 DEF MonitorStores, Store, PlacesTyped
  <2>2. Last(monitor) \in Events /\ q \in Paths /\ Len(monitor) \in Nat
    BY <2>0, <2>1, InSeq, EventTyped
  <2>3. syncMap'[q] = monitor /\ \A p \in Paths \ {q} : syncMap'[p] = syncMap[p]
    BY <2>1, <2>2 DEF PipelineTypeOK
  <2>4. monitor # NoValue
    <3>1. Events \subseteq Event
      BY DEF Events
    <3>2. monitor \in Seq(Event)
      BY <2>1, <3>1
    <3> QED BY <3>2, FileWatcherAssumption
  <2>5. Waiting' \subseteq Waiting
    <3>1. Cached' = Cached
      BY <2>1 DEF Cached
    <3>2. \A p \in Stored' : p = q \/ (p \in Stored /\ syncMap'[p] = syncMap[p])
      BY <2>3 DEF Stored
    <3>3. ToSet(monitor') = {}
      BY <2>1 DEF ToSet
    <3>4. ASSUME NEW e \in Waiting', NEW p \in Stored', e \in ToSet(syncMap'[p]) PROVE e \in Waiting
      <4>1. CASE p = q
        BY <1>1, <2>3, <3>4, <4>1 DEF WaitingFacts
      <4>2. CASE p # q
        BY <1>1, <3>2, <3>4, <4>2 DEF WaitingFacts
      <4> QED BY <4>1, <4>2
    <3> QED BY <1>1, <2>1, <3>1, <3>3, <3>4 DEF WaitingFacts
  <2>6. Unvisited(q)'
    <3>1. visited[q] # monitor
      <4>1. CASE visited[q] = NoValue
        BY <2>4, <4>1
      <4>2. CASE visited[q] # NoValue
        <5>1. syncMap[q] # NoValue /\ visited[q] \in Seq(Events) /\ Len(visited[q]) <= Len(syncMap[q])
          BY <2>2, <4>2 DEF PlacesInv
        <5>2. Loaded(q)
          BY <2>0, <2>1 DEF Loaded
        <5>3. Len(monitor) = Len(syncMap[q]) + 1
          BY <2>2, <5>1, <5>2 DEF PlacesInv
        <5>4. syncMap[q] \in Seq(Events)
          BY <1>1, <2>2, <5>1 DEF PlacesTyped
        <5>5. Len(syncMap[q]) \in Nat /\ Len(visited[q]) \in Nat
          BY <5>1, <5>4
        <5> QED BY <5>1, <5>3, <5>5
      <4> QED BY <4>1, <4>2
    <3> QED BY <2>1, <2>3, <2>4, <3>1 DEF Unvisited
  <2>7. ASSUME NEW p \in Paths, Good(p)'
        PROVE  Good(p) /\ (\A e : Newest(p, e)' => Newest(p, e)) /\ (Undelivered(p) => Undelivered(p)')
    <3>1. Good(p)
      BY <1>2, <2>1, <2>7 DEF Good
    <3>2. /\ Queued(p)' <=> Queued(p)
          /\ ~Loaded(p)'
          /\ Loaded(p) <=> p = q
          /\ p = q => Unvisited(p)' /\ syncMap'[p] = monitor
          /\ p # q => (Unvisited(p)' <=> Unvisited(p)) /\ syncMap'[p] = syncMap[p]
      BY <2>0, <2>1, <2>3, <2>6 DEF Queued, Loaded, Unvisited
    <3>3. ASSUME NEW e, Newest(p, e)' PROVE Newest(p, e)
      BY <2>0, <2>1, <3>2, <3>3 DEF Newest
    <3> QED BY <3>1, <3>2, <3>3 DEF Undelivered
  <2> QED BY <2>5, <2>7 DEF Drains
<1> QED BY <1>3, <1>4, <1>5

-----------------------------------------------------------------------------
(***************************************************************************)
(* What concatenateEvents makes of the list of a file.                     *)
(***************************************************************************)
LEMMA StepsStay ==
    ASSUME NEW n \in Nat, NEW f, NEW S, f[0] \in S, \A i \in 1..n : f[i - 1] \in S => f[i] \in S
    PROVE  f[n] \in S
<1> DEFINE Fails == {i \in 0..n : f[i] \notin S}
<1>1. CASE Fails = {}
  BY <1>1
<1>2. CASE Fails # {}
  <2>1. Fails \in SUBSET Nat
    OBVIOUS
  <2>2. PICK i \in Fails : \A j \in Fails : i <= j
    BY <1>2, <2>1, LeastNatural
  <2>3. i # 0
    BY <2>2
  <2>4. i \in 1..n /\ i - 1 \in 0..n /\ i - 1 \notin Fails
    BY <2>2, <2>3
  <2> QED BY <2>2, <2>4
<1> QED BY <1>1, <1>2

LEMMA CombinedOf ==
    ASSUME NEW s \in Seq(Events)
    PROVE  Combined(s) \in Seq(ToSet(s)) /\ Combined(s) \in Seq(Events)
<1>1. s \in Seq(ToSet(s))
  <2>1. Len(s) \in Nat /\ DOMAIN s = 1..Len(s) /\ s = [i \in 1..Len(s) |-> s[i]]
    OBVIOUS
  <2>2. \A i \in 1..Len(s) : s[i] \in ToSet(s)
    BY <2>1 DEF ToSet
  <2> QED BY <2>1, <2>2
<1> QED BY <1>1, CombinedIsSeq

LEMMA PrefixTail ==
    ASSUME NEW T, NEW t \in Seq(T), ~Prefix(t, "closeWrite", "delete")
    PROVE  \/ CombinePrefix(t) = t
           \/ /\ CombinePrefix(t) \in Seq(T) /\ Len(CombinePrefix(t)) = Len(t) - 1 /\ Len(t) >= 2
              /\ \A i \in 1..(Len(t) - 1) : CombinePrefix(t)[i] = t[i + 1]
<1>1. CASE Prefix(t, "delete", "closeWrite")
  <2>1. CombinePrefix(t) = Tail(t)
    BY <1>1 DEF CombinePrefix
  <2>2. Len(t) >= 2 /\ Len(t) \in Nat
    BY <1>1 DEF Prefix
  <2> QED BY <2>1, <2>2
<1>2. CASE ~Prefix(t, "delete", "closeWrite")
  BY <1>2 DEF CombinePrefix
<1> QED BY <1>1, <1>2

\* Unless a deletion is cancelled, the last events of the list are left.
LEMMA CombinedSuffix ==
    ASSUME NEW s \in Seq(Events), s # <<>>, ~CancelsDelete(s)
    PROVE  \E d \in 0..(Len(s) - 1) :
                /\ Len(Combined(s)) = Len(s) - d
                /\ \A i \in 1..(Len(s) - d) : Combined(s)[i] = s[i + d]
<1>1. Len(s) \in Nat /\ Len(s) > 0
  OBVIOUS
<1> DEFINE Ends == {t \in Seq(Events) : \E d \in 0..(Len(s) - 1) :
                            /\ Len(t) = Len(s) - d
                            /\ \A i \in 1..(Len(s) - d) : t[i] = s[i + d]}
           c == Combining(s)
<1>2. c[0] = s /\ \A n \in 1..Len(s) : c[n] = CombinePrefix(c[n - 1])
  BY <1>1, CombiningRounds
<1>3. \A n \in 0..Len(s) : ~Prefix(c[n], "closeWrite", "delete")
  BY DEF CancelsDelete
<1> HIDE DEF c
<1>4. c[0] \in Ends
  <2>1. 0 \in 0..(Len(s) - 1) /\ Len(s) = Len(s) - 0 /\ \A i \in 1..(Len(s) - 0) : s[i] = s[i + 0]
    BY <1>1
  <2> QED BY <1>2, <2>1
<1>5. ASSUME NEW n \in 1..Len(s), c[n - 1] \in Ends PROVE c[n] \in Ends
  <2>1. n - 1 \in 0..Len(s)
    BY <1>1
  <2> DEFINE t == c[n - 1]
  <2>2. t \in Seq(Events) /\ ~Prefix(t, "closeWrite", "delete") /\ c[n] = CombinePrefix(t)
    BY <1>2, <1>3, <1>5, <2>1
  <2>3. PICK d \in 0..(Len(s) - 1) : /\ Len(t) = Len(s) - d
                                     /\ \A i \in 1..(Len(s) - d) : t[i] = s[i + d]
    BY <1>5
  <2> HIDE DEF t
  <2>4. CASE CombinePrefix(t) = t
    BY <2>2, <2>3, <2>4
  <2>5. CASE /\ CombinePrefix(t) \in Seq(Events) /\ Len(CombinePrefix(t)) = Len(t) - 1 /\ Len(t) >= 2
             /\ \A i \in 1..(Len(t) - 1) : CombinePrefix(t)[i] = t[i + 1]
    <3> DEFINE u == CombinePrefix(t)
    <3>1. d + 1 \in 0..(Len(s) - 1) /\ Len(u) = Len(s) - (d + 1)
      BY <1>1, <2>3, <2>5
    <3>2. ASSUME NEW i \in 1..(Len(s) - (d + 1)) PROVE u[i] = s[i + (d + 1)]
      <4>1. i \in 1..(Len(t) - 1) /\ i + 1 \in 1..(Len(s) - d) /\ (i + 1) + d = i + (d + 1)
        BY <1>1, <2>3, <3>1
      <4> QED BY <2>3, <2>5, <4>1
    <3> QED BY <2>2, <2>5, <3>1, <3>2
  <2> QED BY <2>2, <2>4, <2>5, PrefixTail
<1> HIDE DEF Ends
<1>6. c[Len(s)] \in Ends
  BY <1>1, <1>4, <1>5, StepsStay
<1>7. Combined(s) = c[Len(s)]
  BY DEF Combined, c
<1> QED BY <1>6, <1>7 DEF Ends

\* What holds before, and is kept by what each event adds, holds of the result.
LEMMA FoldStays ==
    ASSUME NEW s \in Seq(Events), NEW S, Before \in S,
           \A acc \in S, e \in ToSet(s) : Adds(acc, e) \in S
    PROVE  concatenateEvents(s) \in S
<1> DEFINE t == Combined(s)
<1>1. t \in Seq(ToSet(s))
  BY CombinedOf
<1>2. PICK acc : /\ acc[0] = Before
                 /\ \A n \in 1..Len(t) : acc[n] = Adds(acc[n - 1], t[n])
                 /\ concatenateEvents(s) = acc[Len(t)]
  BY ConcatenateSteps
<1> HIDE DEF t
<1>3. Len(t) \in Nat /\ \A n \in 1..Len(t) : t[n] \in ToSet(s)
  BY <1>1
<1>4. \A n \in 1..Len(t) : acc[n - 1] \in S => acc[n] \in S
  BY <1>2, <1>3
<1>5. acc[Len(t)] \in S
  BY <1>2, <1>3, <1>4, StepsStay
<1> QED BY <1>2, <1>5

\* The same up to the last event of the list, whatever that one adds.
LEMMA FoldLast ==
    ASSUME NEW s \in Seq(Events), s # <<>>, ~CancelsDelete(s), NEW S, Before \in S,
           \A acc \in S, i \in 1..(Len(s) - 1) : Adds(acc, s[i]) \in S
    PROVE  \E acc \in S : concatenateEvents(s) = Adds(acc, Last(s))
<1> DEFINE t == Combined(s)
<1>1. Len(s) \in Nat /\ Len(s) > 0 /\ Last(s) = s[Len(s)]
  BY DEF Last
<1>2. PICK d \in 0..(Len(s) - 1) : /\ Len(t) = Len(s) - d
                                   /\ \A i \in 1..(Len(s) - d) : t[i] = s[i + d]
  BY CombinedSuffix
<1>3. PICK acc : /\ acc[0] = Before
                 /\ \A n \in 1..Len(t) : acc[n] = Adds(acc[n - 1], t[n])
                 /\ concatenateEvents(s) = acc[Len(t)]
  BY ConcatenateSteps
<1> HIDE DEF t
<1>4. Len(t) \in Nat /\ Len(t) - 1 \in Nat /\ Len(t) \in 1..Len(t) /\ t[Len(t)] = Last(s)
  <2>1. Len(t) \in Nat /\ Len(t) > 0 /\ Len(t) + d = Len(s)
    BY <1>1, <1>2
  <2> QED BY <1>1, <1>2, <2>1
<1>5. ASSUME NEW n \in 1..(Len(t) - 1), acc[n - 1] \in S PROVE acc[n] \in S
  <2>1. n \in 1..Len(t) /\ n + d \in 1..(Len(s) - 1) /\ t[n] = s[n + d]
    BY <1>1, <1>2, <1>4
  <2> QED BY <1>3, <1>5, <2>1
<1>6. acc[Len(t) - 1] \in S
  BY <1>3, <1>4, <1>5, StepsStay
<1>7. acc[Len(t)] = Adds(acc[Len(t) - 1], Last(s))
  BY <1>3, <1>4
<1> QED BY <1>3, <1>6, <1>7

LEMMA AddsEvent ==
    ASSUME NEW acc \in Results, NEW e \in Events, e.type \in {"delete", "closeWrite"}
    PROVE  /\ Adds(acc, e) \in Results /\ Adds(acc, e).caches = acc.caches
           /\ Adds(acc, e).out =
                Append(acc.out, FileUpdate(IF e.type = "delete" THEN "delete" ELSE "modify", e.path))
<1>1. convertEvent(e) = IF e.type = "delete" THEN "delete" ELSE "modify"
  BY DEF convertEvent
<1>2. Adds(acc, e) = [acc EXCEPT !.out = Append(acc.out, FileUpdate(convertEvent(e), e.path))]
  BY <1>1 DEF Adds
<1> QED BY <1>1, <1>2, AddsTyped DEF Results

LEMMA AddsHalf ==
    ASSUME NEW acc \in Results, NEW e \in Halves
    PROVE  /\ Adds(acc, e) \in Results /\ e.cookie \in Cookies
           /\ acc.caches[e.cookie] = NoCache =>
                /\ Adds(acc, e).out = acc.out
                /\ Adds(acc, e).caches = [acc.caches EXCEPT ![e.cookie] = [event |-> e, armed |-> TRUE]]
           /\ acc.caches[e.cookie] # NoCache =>
                /\ Adds(acc, e).out =
                      Append(acc.out, FileUpdate("move", IF e.type = "movedTo" THEN e.path
                                                         ELSE acc.caches[e.cookie].event.path))
                /\ Adds(acc, e).caches = [acc.caches EXCEPT ![e.cookie] = NoCache]
<1>1. e \in Events /\ convertEvent(e) = "none" /\ e.cookie \in Cookies
  BY EventTyped DEF Halves
<1>2. Adds(acc, e) = move(acc, e)
  BY <1>1 DEF Adds
<1>3. CASE acc.caches[e.cookie] = NoCache
  <2>1. Adds(acc, e) = [acc EXCEPT !.caches = [acc.caches EXCEPT ![e.cookie] = [event |-> e, armed |-> TRUE]]]
    BY <1>2, <1>3 DEF move
  <2> QED BY <1>1, <1>3, <2>1, AddsTyped DEF Results
<1>4. CASE acc.caches[e.cookie] # NoCache
  <2> DEFINE u == FileUpdate("move", IF e.type = "movedTo" THEN e.path ELSE acc.caches[e.cookie].event.path)
  <2>1. Adds(acc, e) = [acc EXCEPT !.caches = [acc.caches EXCEPT ![e.cookie] = NoCache],
                                   !.out = Append(acc.out, u)]
    BY <1>2, <1>4 DEF move
  <2> HIDE DEF u
  <2>2. Adds(acc, e).out = Append(acc.out, u) /\ Adds(acc, e).caches = [acc.caches EXCEPT ![e.cookie] = NoCache]
    BY <2>1 DEF Results
  <2> QED BY <1>1, <1>4, <2>2, AddsTyped DEF u
<1> QED BY <1>3, <1>4

LEMMA AddsOne ==
    ASSUME NEW acc \in Results, NEW e \in Events
    PROVE  /\ Adds(acc, e) \in Results
           /\ ToSet(acc.out) \subseteq ToSet(Adds(acc, e).out)
           /\ \A c \in Cookies : e \notin Halves \/ e.cookie # c => Adds(acc, e).caches[c] = acc.caches[c]
<1>1. Adds(acc, e) \in Results
  BY AddsTyped
<1>2. acc.out \in Seq(Update) /\ acc.caches \in [Cookies -> Caches]
  BY DEF Results
<1>3. ASSUME NEW u, Adds(acc, e).out = Append(acc.out, u)
      PROVE  ToSet(acc.out) \subseteq ToSet(Adds(acc, e).out)
  <2>1. /\ Len(acc.out) \in Nat /\ DOMAIN acc.out = 1..Len(acc.out)
        /\ DOMAIN Append(acc.out, u) = 1..(Len(acc.out) + 1)
        /\ \A i \in 1..Len(acc.out) : Append(acc.out, u)[i] = acc.out[i]
    BY <1>2
  <2>2. \A i \in 1..Len(acc.out) : i \in 1..(Len(acc.out) + 1)
    BY <2>1
  <2> QED BY <1>3, <2>1, <2>2 DEF ToSet
<1>4. CASE e \notin Halves
  <2>1. e.type \in {"delete", "closeWrite"}
    BY <1>4, EventTyped
  <2>2. Adds(acc, e).caches = acc.caches
    BY <2>1, AddsEvent
  <2>3. ToSet(acc.out) \subseteq ToSet(Adds(acc, e).out)
    BY <1>3, <2>1, AddsEvent
  <2> QED BY <1>1, <2>2, <2>3
<1>5. CASE e \in Halves
  <2>1. CASE acc.caches[e.cookie] = NoCache
    <3>1. /\ Adds(acc, e).out = acc.out
          /\ Adds(acc, e).caches = [acc.caches EXCEPT ![e.cookie] = [event |-> e, armed |-> TRUE]]
      BY <1>5, <2>1, AddsHalf
    <3> QED BY <1>1, <1>2, <1>5, <3>1
  <2>2. CASE acc.caches[e.cookie] # NoCache
    <3> DEFINE u == FileUpdate("move", IF e.type = "movedTo" THEN e.path ELSE acc.caches[e.cookie].event.path)
    <3>1. /\ Adds(acc, e).out = Append(acc.out, u)
          /\ Adds(acc, e).caches = [acc.caches EXCEPT ![e.cookie] = NoCache]
      BY <1>5, <2>2, AddsHalf
    <3> HIDE DEF u
    <3> QED BY <1>1, <1>2, <1>3, <1>5, <3>1
  <2> QED BY <2>1, <2>2
<1> QED BY <1>4, <1>5

\* The results that come about while the list L of the file p is gone through, when
\* the entries of moveCaches are there or those of the events of Seen.
Collected(Seen) ==
    {acc \in Results : \A c \in Cookies :
        \/ acc.caches[c] = NoCache
        \/ /\ acc.caches[c].event \in (Cached \cup Seen) \cap Halves
           /\ acc.caches[c].event.cookie = c}

LEMMA AddsCollected ==
    ASSUME NEW Seen, NEW acc \in Collected(Seen), NEW e \in Seen \cap Events
    PROVE  Adds(acc, e) \in Collected(Seen)
<1>1. acc \in Results
  BY DEF Collected
<1>2. CASE e.type \in {"delete", "closeWrite"}
  BY <1>1, <1>2, AddsEvent DEF Collected
<1>3. CASE e \in Halves
  <2>1. e.cookie \in Cookies /\ Adds(acc, e) \in Results
    BY <1>1, <1>3, AddsHalf
  <2>2. acc.caches \in [Cookies -> Caches]
    BY <1>1 DEF Results
  <2>3. CASE acc.caches[e.cookie] = NoCache
    <3>1. Adds(acc, e).caches = [acc.caches EXCEPT ![e.cookie] = [event |-> e, armed |-> TRUE]]
      BY <1>1, <1>3, <2>3, AddsHalf
    <3> QED BY <1>3, <2>1, <2>2, <3>1 DEF Collected
  <2>4. CASE acc.caches[e.cookie] # NoCache
    <3>1. Adds(acc, e).caches = [acc.caches EXCEPT ![e.cookie] = NoCache]
      BY <1>1, <1>3, <2>4, AddsHalf
    <3> QED BY <2>1, <2>2, <3>1 DEF Collected
  <2> QED BY <2>3, <2>4
<1> QED BY <1>2, <1>3, EventTyped

LEMMA BeforeCollected ==
    ASSUME PipelineTypeOK, PlacesInv, NEW Seen
    PROVE  Before \in Collected(Seen)
<1>1. WaitingFacts
  BY WaitingIs
<1>2. Before \in Results
  BY DEF Before, Results, PipelineTypeOK
<1>3. \A c \in Cookies : moveCaches[c] # NoCache =>
            moveCaches[c].event \in Cached \cap Halves /\ moveCaches[c].event.cookie = c
  BY <1>1 DEF WaitingFacts, PlacesInv
<1> QED BY <1>2, <1>3 DEF Collected, Before

\* A half that waits for its other half, of another file than p, goes on to wait or is
\* found by it.
Kept(c, p, L, acc) ==
    \/ acc.caches[c] = moveCaches[c]
    \/ \E e \in ToSet(L) \cap Halves :
            /\ e.cookie = c /\ e.type # moveCaches[c].event.type
            /\ FileUpdate("move", IF e.type = "movedTo" THEN p ELSE moveCaches[c].event.path)
                    \in ToSet(acc.out)

LEMMA AddsKept ==
    ASSUME PipelineTypeOK, PlacesInv, CookiesInv, NEW p \in Stored, NEW c \in Cookies,
           moveCaches[c].armed, moveCaches[c].event.path # p,
           NEW acc \in Results, Kept(c, p, syncMap[p], acc), NEW e \in ToSet(syncMap[p])
    PROVE  Kept(c, p, syncMap[p], Adds(acc, e))
<1> DEFINE L == syncMap[p]
           g == moveCaches[c].event
<1>1. PlacesTyped /\ WaitingFacts
  BY PlacesAreTyped, WaitingIs
<1>2. e \in Waiting /\ e \in Events /\ e.path = p
  <2>1. e \in Waiting /\ e \in Events
    BY <1>1 DEF WaitingFacts
  <2>2. e.path = p
    BY DEF ToSet, PlacesInv
  <2> QED BY <2>1, <2>2
<1>3. moveCaches[c] # NoCache /\ g \in Waiting \cap Halves /\ g.cookie = c
  <2>1. moveCaches[c] # NoCache
    BY DEF NoCache
  <2> QED BY <1>1, <2>1 DEF WaitingFacts, PlacesInv
<1>4. acc.out \in Seq(Update)
  BY DEF Results
<1>5. ASSUME NEW u \in Update, Adds(acc, e).out = Append(acc.out, u)
      PROVE  u \in ToSet(Adds(acc, e).out)
  BY <1>4, <1>5, AppendOf
<1>6. /\ ToSet(acc.out) \subseteq ToSet(Adds(acc, e).out)
      /\ e \notin Halves \/ e.cookie # c => Adds(acc, e).caches[c] = acc.caches[c]
  BY <1>2, AddsOne
<1>7. CASE acc.caches[c] = moveCaches[c]
  <2>1. CASE e \in Halves /\ e.cookie = c
    <3>1. e.type # g.type
      BY <1>2, <1>3, <2>1 DEF CookiesInv
    <3> DEFINE u == FileUpdate("move", IF e.type = "movedTo" THEN p ELSE g.path)
               v == FileUpdate("move", IF e.type = "movedTo" THEN e.path ELSE acc.caches[e.cookie].event.path)
    <3>2. Adds(acc, e).out = Append(acc.out, v)
      <4>1. acc.caches[e.cookie] # NoCache
        BY <1>3, <1>7, <2>1
      <4> QED BY <2>1, <4>1, AddsHalf
    <3>3. u = v
      <4>1. acc.caches[e.cookie].event = g /\ e.path = p
        BY <1>2, <1>7, <2>1
      <4> QED BY <4>1
    <3>4. u \in Update
      <4>1. p \in Paths /\ g.path \in Paths
        BY <1>3, EventTyped DEF Stored, Halves
      <4> QED BY <4>1 DEF FileUpdate, Update, FileEvents
    <3>5. u \in ToSet(Adds(acc, e).out)
      <4> HIDE DEF u, v
      <4> QED BY <1>5, <3>2, <3>3, <3>4
    <3> QED BY <2>1, <3>1, <3>5 DEF Kept
  <2>2. CASE e \notin Halves \/ e.cookie # c
    BY <1>6, <1>7, <2>2 DEF Kept
  <2> QED BY <2>1, <2>2
<1>8. CASE acc.caches[c] # moveCaches[c]
  BY <1>6, <1>8 DEF Kept
<1> QED BY <1>7, <1>8

LEMMA AddsNoDelete ==
    ASSUME NEW acc \in Results, NEW e \in Events, NEW p, NEW D, e.path = p, e.type = "delete" => D,
           \A i \in DOMAIN acc.out : acc.out[i].event = "delete" => acc.out[i].path = p /\ D
    PROVE  \A i \in DOMAIN Adds(acc, e).out :
                Adds(acc, e).out[i].event = "delete" => Adds(acc, e).out[i].path = p /\ D
<1>1. acc.out \in Seq(Update)
  BY DEF Results
<1>2. ASSUME NEW u, Adds(acc, e).out = Append(acc.out, u), u.event = "delete" => u.path = p /\ D
      PROVE  \A i \in DOMAIN Adds(acc, e).out :
                Adds(acc, e).out[i].event = "delete" => Adds(acc, e).out[i].path = p /\ D
  <2>1. /\ DOMAIN Append(acc.out, u) = 1..(Len(acc.out) + 1) /\ Append(acc.out, u)[Len(acc.out) + 1] = u
        /\ Len(acc.out) \in Nat /\ DOMAIN acc.out = 1..Len(acc.out)
        /\ \A i \in 1..Len(acc.out) : Append(acc.out, u)[i] = acc.out[i]
    BY <1>1
  <2>2. \A i \in 1..(Len(acc.out) + 1) : i \in 1..Len(acc.out) \/ i = Len(acc.out) + 1
    BY <2>1
  <2> QED BY <1>2, <2>1, <2>2
<1>3. CASE e.type \in {"delete", "closeWrite"}
  <2> DEFINE u == FileUpdate(IF e.type = "delete" THEN "delete" ELSE "modify", e.path)
  <2>1. Adds(acc, e).out = Append(acc.out, u) /\ (u.event = "delete" => u.path = p /\ D)
    BY <1>3, AddsEvent DEF FileUpdate
  <2> HIDE DEF u
  <2> QED BY <1>2, <2>1
<1>4. CASE e \in Halves
  <2>1. CASE acc.caches[e.cookie] = NoCache
    BY <1>4, <2>1, AddsHalf
  <2>2. CASE acc.caches[e.cookie] # NoCache
    <3> DEFINE u == FileUpdate("move", IF e.type = "movedTo" THEN e.path ELSE acc.caches[e.cookie].event.path)
    <3>1. Adds(acc, e).out = Append(acc.out, u) /\ u.event # "delete"
      BY <1>4, <2>2, AddsHalf DEF FileUpdate
    <3> HIDE DEF u
    <3> QED BY <1>2, <3>1
  <2> QED BY <2>1, <2>2
<1> QED BY <1>3, <1>4, EventTyped

LEMMA ListTyped ==
    ASSUME PipelineTypeOK, PlacesInv, NEW p \in Stored
    PROVE  LET L == syncMap[p] IN
           /\ p \in Paths /\ L \in Seq(Events) /\ L # <<>> /\ ToSet(L) \subseteq Waiting
           /\ \A e \in ToSet(L) : e \in Events /\ e.path = p
           /\ Len(L) \in Nat /\ Len(L) \in DOMAIN L /\ Last(L) = L[Len(L)]
           /\ \A i \in DOMAIN L : L[i] \in ToSet(L)
           /\ Last(L) \in ToSet(L)
<1>1. PlacesTyped /\ WaitingFacts
  BY PlacesAreTyped, WaitingIs
<1>2. p \in Paths /\ syncMap[p] \in Seq(Events) /\ syncMap[p] # <<>> /\ ToSet(syncMap[p]) \subseteq Waiting
  BY <1>1 DEF PlacesTyped, WaitingFacts, Stored
<1>3. \A i \in DOMAIN syncMap[p] : syncMap[p][i] \in ToSet(syncMap[p]) /\ syncMap[p][i].path = p
  BY DEF PlacesInv, ToSet
<1>4. \A e \in ToSet(syncMap[p]) : e \in Events /\ e.path = p
  BY <1>2, <1>3, InSeq DEF ToSet
<1> QED BY <1>2, <1>3, <1>4, InSeq

\* A visit of p deletes no other file, and keeps the halves that wait.
LEMMA VisitMakes ==
    ASSUME PipelineTypeOK, PlacesInv, CookiesInv, NEW p \in Paths, DispatchVisits(p)
    PROVE  /\ p \in Stored /\ outbox = <<>> /\ outbox' \in Seq(Update)
           /\ \A i \in DOMAIN outbox' : outbox'[i].event = "delete" =>
                    outbox'[i].path = p /\ \E e \in ToSet(syncMap[p]) : e.type = "delete"
           /\ \A c \in Cookies : \/ moveCaches'[c] = NoCache
                                 \/ /\ moveCaches'[c].event \in Cached \cup ToSet(syncMap[p])
                                    /\ moveCaches'[c].event.cookie = c
           /\ \A c \in Cookies : moveCaches[c].armed /\ moveCaches[c].event.path # p =>
                    Kept(c, p, syncMap[p], [out |-> outbox', caches |-> moveCaches'])
<1> DEFINE L == syncMap[p]
           result == concatenateEvents(L)
<1>1. p \in Stored /\ outbox = <<>> /\ outbox' = result.out /\ moveCaches' = result.caches
  BY DEF DispatchVisits, Visit, PipelineTypeOK
<1>2. L \in Seq(Events) /\ ToSet(L) \subseteq Waiting /\ \A e \in ToSet(L) : e \in Events /\ e.path = p
  BY <1>1, ListTyped
<1>3. Before \in Collected(ToSet(L)) /\ Before \in Results
  BY BeforeCollected DEF Collected
<1>4. result \in Collected(ToSet(L))
  <2>1. \A acc \in Collected(ToSet(L)), e \in ToSet(L) : Adds(acc, e) \in Collected(ToSet(L))
    BY <1>2, AddsCollected
  <2> HIDE DEF L
  <2> QED BY <1>2, <1>3, <2>1, FoldStays
<1>5. result \in Results
  BY <1>4 DEF Collected
<1>6. \A i \in DOMAIN result.out : result.out[i].event = "delete" =>
            result.out[i].path = p /\ \E e \in ToSet(L) : e.type = "delete"
  <2> DEFINE D == \E e \in ToSet(L) : e.type = "delete"
             S == {acc \in Results : \A i \in DOMAIN acc.out : acc.out[i].event = "delete" =>
                                            acc.out[i].path = p /\ D}
  <2>1. Before \in S
    BY <1>3 DEF Before
  <2>2. ASSUME NEW acc \in S, NEW e \in ToSet(L) PROVE Adds(acc, e) \in S
    <3>1. e \in Events /\ e.path = p /\ (e.type = "delete" => D) /\ acc \in Results
          /\ \A i \in DOMAIN acc.out : acc.out[i].event = "delete" => acc.out[i].path = p /\ D
      BY <1>2
    <3> HIDE DEF D
    <3>2. Adds(acc, e) \in Results
      BY <3>1, AddsTyped
    <3> QED BY <3>1, <3>2, AddsNoDelete
  <2> HIDE DEF S, L
  <2>3. result \in S
    BY <1>2, <2>1, <2>2, FoldStays
  <2> QED BY <2>3 DEF S
<1>7. ASSUME NEW c \in Cookies, moveCaches[c].armed, moveCaches[c].event.path # p
      PROVE  Kept(c, p, L, result)
  <2> DEFINE S == {acc \in Results : Kept(c, p, L, acc)}
  <2>1. Before \in S
    BY <1>3 DEF Before, Kept
  <2>2. \A acc \in S, e \in ToSet(L) : Adds(acc, e) \in S
    BY <1>1, <1>2, <1>7, AddsKept, AddsTyped
  <2> HIDE DEF S, L
  <2>3. result \in S
    BY <1>2, <2>1, <2>2, FoldStays
  <2> QED BY <2>3 DEF S
<1>8. \A c \in Cookies : moveCaches[c].armed /\ moveCaches[c].event.path # p =>
            Kept(c, p, L, [out |-> result.out, caches |-> result.caches])
  BY <1>7 DEF Kept
<1>9. \A c \in Cookies : \/ result.caches[c] = NoCache
                         \/ /\ result.caches[c].event \in Cached \cup ToSet(L)
                            /\ result.caches[c].event.cookie = c
  BY <1>4 DEF Collected
<1> HIDE DEF result
<1> QED BY <1>1, <1>5, <1>6, <1>8, <1>9 DEF Results

\* What the last event of the list comes to.
LastAdds(p, L, e) ==
    /\ e.type = "closeWrite" => \E out \in Seq(Update) : outbox' = Append(out, FileUpdate("modify", p))
    /\ e.type = "delete" => FileUpdate("delete", p) \in ToSet(outbox')
    /\ e.type = "movedTo" =>
            \/ \E out \in Seq(Update) : outbox' = Append(out, FileUpdate("move", p))
            \/ e.cookie \in Cookies /\ moveCaches'[e.cookie] = [event |-> e, armed |-> TRUE]
    /\ e.type = "movedFrom" =>
            \/ e.cookie \in Cookies /\ moveCaches'[e.cookie] = [event |-> e, armed |-> TRUE]
            \/ \E g \in Halves : /\ g \in Cached \/ \E i \in 1..(Len(L) - 1) : g = L[i]
                                 /\ g.cookie = e.cookie
                                 /\ FileUpdate("move", g.path) \in ToSet(outbox')

LEMMA VisitLast ==
    ASSUME PipelineTypeOK, PlacesInv, NEW p \in Paths, DispatchVisits(p), ~CancelsDelete(syncMap[p])
    PROVE  LastAdds(p, syncMap[p], Last(syncMap[p]))
<1> DEFINE L == syncMap[p]
           e == Last(L)
           Seen == {L[i] : i \in 1..(Len(L) - 1)}
           result == concatenateEvents(L)
<1>1. p \in Stored /\ outbox' = result.out /\ moveCaches' = result.caches
  BY DEF DispatchVisits, Visit, PipelineTypeOK
<1>2. L \in Seq(Events) /\ L # <<>> /\ e \in Events /\ e.path = p /\ ~CancelsDelete(L)
  BY <1>1, ListTyped
<1>3. Before \in Collected(Seen)
  BY BeforeCollected
<1>4. \A acc \in Collected(Seen), i \in 1..(Len(L) - 1) : Adds(acc, L[i]) \in Collected(Seen)
  <2>1. \A i \in 1..(Len(L) - 1) : L[i] \in Seen \cap Events
    BY <1>2
  <2> HIDE DEF L, Seen
  <2> QED BY <2>1, AddsCollected
<1>5. PICK acc \in Collected(Seen) : result = Adds(acc, e)
  <2> HIDE DEF Seen, L
  <2> QED BY <1>2, <1>3, <1>4, FoldLast
<1>6. acc \in Results /\ acc.out \in Seq(Update) /\ acc.caches \in [Cookies -> Caches]
  BY <1>5 DEF Collected, Results
<1> HIDE DEF result
<1>7. CASE e.type \in {"delete", "closeWrite"}
  <2> DEFINE u == FileUpdate(IF e.type = "delete" THEN "delete" ELSE "modify", p)
  <2>1. outbox' = Append(acc.out, u)
    BY <1>1, <1>2, <1>5, <1>6, <1>7, AddsEvent
  <2>2. u \in Update
    BY DEF FileUpdate, Update, FileEvents
  <2>3. u \in ToSet(outbox')
    <3> HIDE DEF u
    <3> QED BY <1>6, <2>1, <2>2, AppendOf
  <2> QED BY <1>6, <1>7, <2>1, <2>3 DEF LastAdds
<1>8. CASE e \in Halves
  <2>1. e.cookie \in Cookies /\ e.type \in {"movedFrom", "movedTo"}
    BY <1>2, <1>8, EventTyped
  <2>2. CASE acc.caches[e.cookie] = NoCache
    <3>1. moveCaches' = [acc.caches EXCEPT ![e.cookie] = [event |-> e, armed |-> TRUE]]
      BY <1>1, <1>5, <1>6, <1>8, <2>2, AddsHalf
    <3>2. moveCaches'[e.cookie] = [event |-> e, armed |-> TRUE]
      BY <1>6, <2>1, <3>1
    <3> QED BY <2>1, <3>2 DEF LastAdds
  <2>3. CASE acc.caches[e.cookie] # NoCache
    <3> DEFINE g == acc.caches[e.cookie].event
               u == FileUpdate("move", IF e.type = "movedTo" THEN e.path ELSE g.path)
    <3>1. g \in (Cached \cup Seen) \cap Halves /\ g.cookie = e.cookie
      BY <1>5, <2>1, <2>3 DEF Collected
    <3>2. outbox' = Append(acc.out, u)
      BY <1>1, <1>5, <1>6, <1>8, <2>3, AddsHalf
    <3>3. u \in Update
      <4>1. g.path \in Paths /\ e.path \in Paths
        BY <1>2, <3>1, EventTyped DEF Halves
      <4> QED BY <4>1 DEF FileUpdate, Update, FileEvents
    <3>4. u \in ToSet(outbox')
      <4> HIDE DEF u
      <4> QED BY <1>6, <3>2, <3>3, AppendOf
    <3>5. CASE e.type = "movedTo"
      <4>1. outbox' = Append(acc.out, FileUpdate("move", p))
        BY <1>2, <3>2, <3>5
      <4> QED BY <1>6, <3>5, <4>1 DEF LastAdds
    <3>6. CASE e.type = "movedFrom"
      <4>1. FileUpdate("move", g.path) \in ToSet(outbox')
        BY <3>4, <3>6
      <4> HIDE DEF g
      <4> QED BY <3>1, <3>6, <4>1 DEF LastAdds
    <3> QED BY <2>1, <3>5, <3>6
  <2> QED BY <2>2, <2>3
<1> QED BY <1>2, <1>7, <1>8, EventTyped

-----------------------------------------------------------------------------
(***************************************************************************)
(* The steps of the pipeline only take events on.                          *)
(***************************************************************************)
\* The steps that leave the lists and the queue of events alone.
LEMMA CachesDrain ==
    ASSUME PipelineTypeOK, PipelineTypeOK', UNCHANGED <<events, monitor, syncMap, visited>>,
           UNCHANGED <<missed, raced, nameless, replaced>>, Cached' \subseteq Cached
    PROVE  Drains /\ \A p \in Paths : Undelivered(p) => Undelivered(p)'
<1>1. WaitingFacts /\ WaitingFacts'
  BY WaitingIs, WaitingIsNext
<1>2. Waiting' \subseteq Waiting
  <2>1. Stored' = Stored
    BY DEF Stored
  <2> QED BY <1>1, <2>1 DEF WaitingFacts
<1>3. ASSUME NEW p \in Paths
      PROVE  /\ Good(p)' => Good(p)
             /\ Queued(p)' <=> Queued(p)
             /\ Loaded(p)' <=> Loaded(p)
             /\ Unvisited(p)' <=> Unvisited(p)
  BY DEF Good, Queued, Loaded, Unvisited
<1>4. ASSUME NEW p \in Paths, NEW e, Newest(p, e)' PROVE Newest(p, e)
  BY <1>3, <1>4 DEF Newest
<1> QED BY <1>2, <1>3, <1>4 DEF Drains, Undelivered

LEMMA VisitDrains ==
    ASSUME PipelineTypeOK, PipelineTypeOK', PlacesInv, CookiesInv, NEW p \in Paths, DispatchVisits(p),
           UNCHANGED storageVars
    PROVE  /\ Drains /\ Unvisited(p) /\ Cached' \subseteq Cached \cup ToSet(syncMap[p])
           /\ \A q \in Paths : (Queued(q)' <=> Queued(q)) /\ (Loaded(q)' <=> Loaded(q))
           /\ \A q \in Paths \ {p} : Unvisited(q)' <=> Unvisited(q)
           /\ ~Unvisited(p)'
           /\ Good(p)' => ~CancelsDelete(syncMap[p])
<1>1. WaitingFacts /\ WaitingFacts'
  BY WaitingIs, WaitingIsNext
<1>2. /\ events' = events /\ monitor' = monitor /\ syncMap' = syncMap /\ incomplete' = incomplete
      /\ visited' = [visited EXCEPT ![p] = syncMap[p]] /\ raced' = raced
      /\ nameless' = nameless /\ replaced' = replaced
      /\ missed' = IF CancelsDelete(syncMap[p]) THEN missed \cup {p} ELSE missed
  BY DEF DispatchVisits, Visit, storageVars
<1>3. p \in toVisit /\ p \in Stored
  BY DEF DispatchVisits, Visit, PipelineTypeOK
<1>4. visited[p] = NoValue /\ syncMap[p] # NoValue
  BY <1>3 DEF PlacesInv, Stored
<1>5. Cached' \subseteq Cached \cup ToSet(syncMap[p])
  <2>1. \A c \in Cookies : moveCaches'[c] # NoCache => moveCaches'[c].event \in Cached \cup ToSet(syncMap[p])
    BY VisitMakes
  <2> QED BY <1>1, <1>2, <2>1 DEF WaitingFacts
<1>6. Waiting' \subseteq Waiting
  <2>1. Stored' = Stored
    BY <1>2 DEF Stored
  <2> QED BY <1>1, <1>2, <1>3, <1>5, <2>1 DEF WaitingFacts
<1>7. \A q \in Paths : (Queued(q)' <=> Queued(q)) /\ (Loaded(q)' <=> Loaded(q))
  BY <1>2 DEF Queued, Loaded
<1>8. \A q \in Paths \ {p} : Unvisited(q)' <=> Unvisited(q)
  BY <1>2 DEF Unvisited
<1>9. Unvisited(p)
  BY <1>4 DEF Unvisited
<1>10. ~Unvisited(p)'
  <2>1. p \in DOMAIN visited
    BY DEF PlacesInv
  <2> QED BY <1>2, <2>1 DEF Unvisited
<1>11. ASSUME NEW q \in Paths, Good(q)' PROVE Good(q) /\ (q = p => ~CancelsDelete(syncMap[p]))
  BY <1>2, <1>11 DEF Good
<1>12. ASSUME NEW q \in Paths, NEW e, Newest(q, e)' PROVE Newest(q, e)
  BY <1>2, <1>7, <1>8, <1>9, <1>10, <1>12 DEF Newest
<1> QED BY <1>5, <1>6, <1>7, <1>8, <1>9, <1>10, <1>11, <1>12 DEF Drains

LEMMA ResetDrains ==
    ASSUME PipelineTypeOK, PipelineTypeOK', DispatchResets, UNCHANGED storageVars
    PROVE  Drains /\ \A p \in Paths : Good(p)' /\ Undelivered(p) => Undelivered(p)'
<1>1. WaitingFacts /\ WaitingFacts'
  BY WaitingIs, WaitingIsNext
<1>2. /\ events' = events /\ monitor' = monitor /\ incomplete' = incomplete /\ moveCaches' = moveCaches
      /\ syncMap' = EmptyMap /\ visited' = EmptyMap /\ raced' = raced
      /\ nameless' = nameless /\ replaced' = replaced
      /\ missed' = missed \cup {p \in Stored : visited[p] # syncMap[p]}
  BY DEF DispatchResets, ResetMap, storageVars
<1>3. Waiting' \subseteq Waiting
  <2>1. Stored' = {} /\ Cached' = Cached
    BY <1>2 DEF Stored, EmptyMap, Cached
  <2> QED BY <1>1, <1>2, <2>1 DEF WaitingFacts
<1>4. ASSUME NEW p \in Paths, Good(p)'
      PROVE  /\ Good(p) /\ ~Unvisited(p) /\ ~Unvisited(p)'
             /\ (Queued(p)' <=> Queued(p)) /\ (Loaded(p)' <=> Loaded(p))
  <2>1. Good(p) /\ ~Unvisited(p)
    BY <1>2, <1>4 DEF Good, Unvisited, Stored
  <2>2. ~Unvisited(p)' /\ (Queued(p)' <=> Queued(p)) /\ (Loaded(p)' <=> Loaded(p))
    BY <1>2 DEF Unvisited, EmptyMap, Queued, Loaded
  <2> QED BY <2>1, <2>2
<1>5. ASSUME NEW p \in Paths, Good(p)', NEW e, Newest(p, e)' PROVE Newest(p, e)
  BY <1>2, <1>4, <1>5 DEF Newest
<1> QED BY <1>3, <1>4, <1>5 DEF Drains, Undelivered

\* The goroutine of a timer takes the half of the rename, and lets it go.
LEMMA TimersDrain ==
    ASSUME PipelineTypeOK, PipelineTypeOK',
           \/ \E c \in Cookies : MoveTimerFires(c)
           \/ \E n \in DOMAIN incomplete : IncompleteSends(n) \/ IncompleteForgets(n),
           UNCHANGED storageVars
    PROVE  Drains /\ Cached' \subseteq Cached /\ \A p \in Paths : Undelivered(p) => Undelivered(p)'
<1>1. PlacesTyped /\ WaitingFacts /\ WaitingFacts'
  BY PlacesAreTyped, WaitingIs, WaitingIsNext
<1>2. UNCHANGED <<events, monitor, syncMap, visited, missed, raced, nameless, replaced>>
  BY DEF MoveTimerFires, IncompleteSends, IncompleteForgets, batchVars, storageVars
<1>3. moveCaches \in [Cookies -> Caches] /\ incomplete \in Seq(Incompletes)
  BY DEF PipelineTypeOK
<1>4. Cached' \subseteq Cached
  <2>1. ASSUME NEW c \in Cookies, MoveTimerFires(c) PROVE Cached' \subseteq Cached
    <3>1. /\ moveCaches' = [moveCaches EXCEPT ![c].armed = FALSE] /\ moveCaches[c].armed
          /\ incomplete' = Append(incomplete, [event |-> moveCaches[c].event, step |-> "send"])
      BY <2>1 DEF MoveTimerFires
    <3>2. moveCaches[c] # NoCache /\ moveCaches[c].event \in Halves
      BY <1>1, <3>1 DEF NoCache, PlacesTyped
    <3>3. \A d \in Cookies : moveCaches'[d].event = moveCaches[d].event
      BY <1>3, <3>1
    <3>4. ToSet(incomplete') = ToSet(incomplete) \cup {[event |-> moveCaches[c].event, step |-> "send"]}
      <4>1. [event |-> moveCaches[c].event, step |-> "send"] \in Incompletes
        BY <3>2 DEF Incompletes
      <4> QED BY <1>3, <3>1, <4>1, AppendOf
    <3> QED BY <3>3, <3>4 DEF Cached
  <2>2. ASSUME NEW n \in DOMAIN incomplete, IncompleteSends(n) PROVE Cached' \subseteq Cached
    <3>1. moveCaches' = moveCaches /\ incomplete' = [incomplete EXCEPT ![n].step = "forget"]
      BY <2>2 DEF IncompleteSends
    <3>2. /\ DOMAIN incomplete' = DOMAIN incomplete
          /\ \A i \in DOMAIN incomplete : incomplete'[i].event = incomplete[i].event
      <4>1. DOMAIN incomplete = 1..Len(incomplete) /\ \A i \in DOMAIN incomplete : incomplete[i] \in Incompletes
        BY <1>3
      <4> QED BY <3>1, <4>1 DEF Incompletes
    <3> QED BY <1>1, <3>1, <3>2 DEF WaitingFacts
  <2>3. ASSUME NEW n \in DOMAIN incomplete, IncompleteForgets(n) PROVE Cached' \subseteq Cached
    <3> DEFINE c == incomplete[n].event.cookie
               orphan == IF moveCaches[c].armed
                         THEN <<[event |-> moveCaches[c].event, step |-> "send"]>> ELSE <<>>
    <3>1. /\ moveCaches' = [moveCaches EXCEPT ![c] = NoCache]
          /\ incomplete' = RemoveAt(incomplete, n) \o orphan
      BY <2>3 DEF IncompleteForgets
    <3>2. c \in Cookies
      <4>1. incomplete[n].event \in Halves
        BY <1>1 DEF PlacesTyped, Incompletes
      <4> QED BY <4>1, EventTyped DEF Halves
    <3>3. orphan \in Seq(Incompletes) /\ \A i \in DOMAIN orphan : orphan[i].event \in Cached
      <4>1. CASE moveCaches[c].armed
        <5>1. moveCaches[c] # NoCache
          BY <4>1 DEF NoCache
        <5>2. moveCaches[c].event \in Cached \cap Halves
          BY <1>1, <3>2, <5>1 DEF WaitingFacts
        <5> HIDE DEF c
        <5>3. [event |-> moveCaches[c].event, step |-> "send"] \in Incompletes
          BY <5>2 DEF Incompletes
        <5> QED BY <4>1, <5>2, <5>3
      <4>2. CASE ~moveCaches[c].armed
        BY <4>2
      <4> QED BY <4>1, <4>2
    <3> HIDE DEF c, orphan
    <3>4. RemoveAt(incomplete, n) \in Seq(Incompletes)
          /\ \A i \in DOMAIN RemoveAt(incomplete, n) : RemoveAt(incomplete, n)[i].event \in Cached
      <4> DEFINE t == RemoveAt(incomplete, n)
      <4>1. /\ t \in Seq(Incompletes) /\ Len(t) = Len(incomplete) - 1
            /\ \A i \in 1..(Len(incomplete) - 1) : t[i] = IF i < n THEN incomplete[i] ELSE incomplete[i + 1]
        BY <1>3, RemoveTyped
      <4> HIDE DEF t
      <4>2. DOMAIN t = 1..(Len(incomplete) - 1) /\ DOMAIN incomplete = 1..Len(incomplete) /\ Len(incomplete) \in Nat
        BY <1>3, <4>1
      <4>3. ASSUME NEW i \in 1..(Len(incomplete) - 1) PROVE t[i].event \in Cached
        <5>1. i \in DOMAIN incomplete /\ i + 1 \in DOMAIN incomplete
          BY <4>2
        <5> QED BY <1>1, <4>1, <5>1 DEF WaitingFacts
      <4> QED BY <4>1, <4>2, <4>3 DEF t
    <3>5. \A i \in DOMAIN incomplete' : incomplete'[i].event \in Cached
      <4> DEFINE t == RemoveAt(incomplete, n)
      <4>1. \A i \in DOMAIN (t \o orphan) : i \in 1..Len(t) \/ \E j \in 1..Len(orphan) : i = Len(t) + j
        BY <3>3, <3>4, ConcatOf
      <4>2. /\ \A i \in 1..Len(t) : (t \o orphan)[i] = t[i] /\ i \in DOMAIN t
            /\ \A i \in 1..Len(orphan) : (t \o orphan)[Len(t) + i] = orphan[i] /\ i \in DOMAIN orphan
        BY <3>3, <3>4, ConcatOf
      <4> HIDE DEF t
      <4> QED BY <3>1, <3>3, <3>4, <4>1, <4>2 DEF t
    <3>6. \A d \in Cookies : moveCaches'[d] # NoCache => moveCaches'[d].event \in Cached
      BY <1>1, <1>3, <3>1, <3>2 DEF WaitingFacts
    <3> QED BY <1>1, <3>5, <3>6 DEF WaitingFacts
  <2> QED BY <2>1, <2>2, <2>3
<1> QED BY <1>2, <1>4, CachesDrain

-----------------------------------------------------------------------------
(***************************************************************************)
(* The pipeline keeps QueuesInv.                                           *)
(***************************************************************************)
LEMMA CookiesDrain ==
    ASSUME FilesTypeOK, CookiesInv, Waiting' \subseteq Waiting, ops' \in {ops, ops + 1}
    PROVE  CookiesInv'
<1>1. \A i \in 1..ops : i \in 1..ops'
  BY DEF FilesTypeOK
<1>2. CookiesInv' <=> \A e \in Waiting' \cap Halves :
        /\ e.cookie \in 1..ops'
        /\ \A f \in Waiting' \cap Halves : e.cookie = f.cookie /\ e.type = f.type => e.path = f.path
  BY DEF CookiesInv
<1> QED BY <1>1, <1>2 DEF CookiesInv

LEMMA RacesDrain ==
    ASSUME RacesInv, Drains,
           \A p \in Paths : Good(p)' /\ disk[p] \in {Absent, Torn} => disk'[p] \in {Absent, Torn}
    PROVE  RacesInv'
<1> SUFFICES ASSUME NEW p \in Paths, Good(p)', NEW f \in Waiting', f.path = p
             PROVE  /\ f.type = "movedFrom" =>
                        disk'[p] \in {Absent, Torn} /\ \A e \in Waiting' : Newest(p, e)' => e = f
                    /\ f.type = "delete" => \A e \in Waiting' : Newest(p, e)' => e.type # "movedTo"
  BY DEF RacesInv
<1>1. Good(p) /\ f \in Waiting /\ \A e \in Waiting' : Newest(p, e)' => e \in Waiting /\ Newest(p, e)
  BY DEF Drains
<1> QED BY <1>1 DEF RacesInv

CachesCookies == \A c \in Cookies : moveCaches[c] # NoCache => moveCaches[c].event.cookie = c

LEMMA PlacesKept ==
    ASSUME PlacesInv, UNCHANGED <<dispatcher, visited, syncMap, monitor, toVisit>>, CachesCookies',
           toScan' # {} => update' = NoUpdate
    PROVE  PlacesInv'
<1>1. \A p : Loaded(p)' <=> Loaded(p)
  BY DEF Loaded
<1>2. Stored' = Stored
  BY DEF Stored
<1> QED BY <1>1, <1>2 DEF PlacesInv, CachesCookies

LEMMA MonitorPlaces ==
    ASSUME PipelineTypeOK, PlacesInv, MonitorSkips \/ MonitorLoads \/ MonitorStores, UNCHANGED storageVars
    PROVE  PlacesInv'
<1>1. PlacesTyped
  BY PlacesAreTyped
<1>2. toScan' = toScan /\ update' = update
  BY DEF storageVars
<1>3. CASE MonitorSkips
  BY <1>2, <1>3, PlacesKept DEF MonitorSkips, batchVars, CachesCookies, PlacesInv
<1>4. CASE MonitorLoads
  <2>0. PICK q : q = Head(events).path
    OBVIOUS
  <2>1. /\ events # <<>> /\ events \in Seq(Events)
        /\ dispatcher' = dispatcher /\ toVisit' = toVisit /\ syncMap' = syncMap /\ visited' = visited
        /\ moveCaches' = moveCaches
        /\ monitor' = IF syncMap[q] = NoValue THEN <<Head(events)>> ELSE Append(syncMap[q], Head(events))
    BY <1>1, <1>4, <2>0 DEF MonitorLoads, batchVars, PlacesTyped
  <2>2. Head(events) \in Events /\ q \in Paths
    BY <2>0, <2>1, TailOf, EventTyped
  <2>3. /\ monitor' # <<>> /\ Last(monitor') = Head(events)
        /\ \A i \in DOMAIN monitor' : monitor'[i].path = q
        /\ syncMap[q] # NoValue => Len(monitor') = Len(syncMap[q]) + 1
    <3>1. CASE syncMap[q] = NoValue
      BY <2>0, <2>1, <3>1 DEF Last
    <3>2. CASE syncMap[q] # NoValue
      <4>1. syncMap[q] \in Seq(Events) /\ q \in Stored
        BY <1>1, <2>2, <3>2 DEF PlacesTyped, Stored
      <4>2. monitor' = Append(syncMap[q], Head(events))
        BY <2>1, <3>2
      <4>3. /\ DOMAIN monitor' = 1..(Len(syncMap[q]) + 1) /\ Len(syncMap[q]) \in Nat
            /\ \A i \in 1..Len(syncMap[q]) : monitor'[i] = syncMap[q][i] /\ i \in DOMAIN syncMap[q]
            /\ monitor'[Len(syncMap[q]) + 1] = Head(events)
            /\ Last(monitor') = Head(events) /\ Len(monitor') = Len(syncMap[q]) + 1 /\ monitor' # <<>>
        BY <2>2, <4>1, <4>2, AppendOf
      <4>4. \A i \in DOMAIN syncMap[q] : syncMap[q][i].path = q
        BY <4>1 DEF PlacesInv
      <4>5. \A i \in DOMAIN monitor' : i \in 1..Len(syncMap[q]) \/ i = Len(syncMap[q]) + 1
        BY <4>3
      <4> QED BY <2>0, <4>3, <4>4, <4>5
    <3> QED BY <3>1, <3>2
  <2>4. Stored' = Stored
    BY <2>1 DEF Stored
  <2>5. \A p : Loaded(p)' => p = q
    BY <2>0, <2>3 DEF Loaded
  <2> QED BY <1>2, <2>0, <2>1, <2>3, <2>4, <2>5 DEF PlacesInv
<1>5. CASE MonitorStores
  <2>0. PICK q : q = Last(monitor).path
    OBVIOUS
  <2>1. /\ monitor # <<>> /\ monitor \in Seq(Events) /\ monitor' = <<>>
        /\ dispatcher' = dispatcher /\ toVisit' = toVisit /\ visited' = visited
        /\ syncMap' = [syncMap EXCEPT ![q] = monitor] /\ moveCaches' = moveCaches
    BY <1>1, <1>5, <2>0 DEF MonitorStores, Store, PlacesTyped
  <2>2. Last(monitor) \in Events /\ q \in Paths /\ Len(monitor) \in Nat
    BY <2>0, <2>1, InSeq, EventTyped
  <2>3. syncMap'[q] = monitor /\ \A p \in Paths \ {q} : syncMap'[p] = syncMap[p]
    BY <2>1, <2>2 DEF PipelineTypeOK
  <2>4. monitor # NoValue
    <3>1. Events \subseteq Event
      BY DEF Events
    <3>2. monitor \in Seq(Event)
      BY <2>1, <3>1
    <3> QED BY <3>2, FileWatcherAssumption
  <2>5. \A p : ~Loaded(p)'
    BY <2>1 DEF Loaded
  <2>6. ASSUME visited[q] # NoValue PROVE visited[q] \in Seq(Events) /\ Len(visited[q]) <= Len(monitor)
    <3>1. syncMap[q] # NoValue /\ visited[q] \in Seq(Events) /\ Len(visited[q]) <= Len(syncMap[q])
      BY <2>2, <2>6 DEF PlacesInv
    <3>2. Len(monitor) = Len(syncMap[q]) + 1
      BY <2>0, <2>1, <2>2, <3>1 DEF PlacesInv, Loaded
    <3>3. syncMap[q] \in Seq(Events)
      BY <1>1, <2>2, <3>1 DEF PlacesTyped
    <3>4. Len(syncMap[q]) \in Nat /\ Len(visited[q]) \in Nat
      BY <3>1, <3>3
    <3> QED BY <3>1, <3>2, <3>4
  <2>7. \A p \in Paths : visited'[p] # NoValue =>
            syncMap'[p] # NoValue /\ visited'[p] \in Seq(Events) /\ Len(visited'[p]) <= Len(syncMap'[p])
    <3> SUFFICES ASSUME NEW p \in Paths, visited[p] # NoValue
                 PROVE  syncMap'[p] # NoValue /\ visited[p] \in Seq(Events) /\ Len(visited[p]) <= Len(syncMap'[p])
      BY <2>1
    <3>1. CASE p = q
      BY <2>3, <2>4, <2>6, <3>1
    <3>2. CASE p # q
      BY <2>3, <3>2 DEF PlacesInv
    <3> QED BY <3>1, <3>2
  <2>8. \A p \in Stored' : \A i \in DOMAIN syncMap'[p] : syncMap'[p][i].path = p
    <3> SUFFICES ASSUME NEW p \in Stored', NEW i \in DOMAIN syncMap'[p] PROVE syncMap'[p][i].path = p
      OBVIOUS
    <3>1. CASE p = q
      BY <2>0, <2>3, <3>1 DEF PlacesInv
    <3>2. CASE p # q
      <4>1. p \in Stored /\ syncMap'[p] = syncMap[p]
        BY <2>3, <3>2 DEF Stored
      <4> QED BY <4>1 DEF PlacesInv
    <3> QED BY <3>1, <3>2
  <2>9. \A i \in DOMAIN monitor' : monitor'[i].path = Last(monitor').path
    BY <2>1
  <2> QED BY <1>2, <2>1, <2>5, <2>7, <2>8, <2>9 DEF PlacesInv
<1> QED BY <1>3, <1>4, <1>5

LEMMA DispatchPlaces ==
    ASSUME PipelineTypeOK, PlacesInv, CookiesInv,
           DispatchBegins \/ DispatchSends \/ DispatchResets \/ \E p \in Paths : DispatchVisits(p),
           UNCHANGED storageVars
    PROVE  PlacesInv'
<1>1. PlacesTyped
  BY PlacesAreTyped
<1>2. toScan' = toScan /\ update' = update
  BY DEF storageVars
<1>3. DOMAIN EmptyMap = Paths /\ \A p \in Paths : EmptyMap[p] = NoValue
  BY DEF EmptyMap
<1>4. CASE DispatchBegins
  <2>1. /\ visited' = EmptyMap /\ visited = EmptyMap /\ toVisit' = Stored /\ dispatcher' = "range"
        /\ syncMap' = syncMap /\ monitor' = monitor /\ moveCaches' = moveCaches
    BY <1>4 DEF DispatchBegins, ReceiveFlush, PlacesInv
  <2>2. \A p : Loaded(p)' <=> Loaded(p)
    BY <2>1 DEF Loaded
  <2>3. Stored' = Stored /\ Stored \subseteq Paths
    BY <2>1 DEF Stored
  <2> QED BY <1>2, <1>3, <2>1, <2>2, <2>3 DEF PlacesInv
<1>5. CASE DispatchSends
  BY <1>2, <1>5, PlacesKept DEF DispatchSends, CachesCookies, PlacesInv
<1>6. CASE DispatchResets
  <2>1. /\ visited' = EmptyMap /\ toVisit' = {} /\ syncMap' = EmptyMap /\ monitor' = monitor
        /\ moveCaches' = moveCaches
    BY <1>6 DEF DispatchResets, ResetMap
  <2>2. Stored' = {}
    BY <1>3, <2>1 DEF Stored
  <2> QED BY <1>2, <1>3, <2>1, <2>2 DEF PlacesInv
<1>7. ASSUME NEW p \in Paths, DispatchVisits(p) PROVE PlacesInv'
  <2>1. /\ dispatcher' = dispatcher /\ dispatcher = "range" /\ syncMap' = syncMap /\ monitor' = monitor
        /\ visited' = [visited EXCEPT ![p] = syncMap[p]] /\ toVisit' = toVisit \ {p} /\ p \in Stored
    BY <1>7 DEF DispatchVisits, Visit, PipelineTypeOK
  <2>2. CachesCookies'
    BY <1>7, VisitMakes DEF CachesCookies
  <2>3. \A q : Loaded(q)' <=> Loaded(q)
    BY <2>1 DEF Loaded
  <2>4. Stored' = Stored /\ toVisit \subseteq Paths
    BY <2>1 DEF Stored, PipelineTypeOK
  <2>5. syncMap[p] \in Seq(Events) /\ syncMap[p] # NoValue /\ Len(syncMap[p]) \in Nat
    BY <1>1, <2>1 DEF PlacesTyped, Stored
  <2>6. DOMAIN visited = Paths
    BY DEF PlacesInv
  <2>7. \A q \in Paths : visited'[q] = IF q = p THEN syncMap[p] ELSE visited[q]
    BY <2>1, <2>6
  <2>8. DOMAIN visited' = Paths /\ \A q \in toVisit' : visited'[q] = NoValue
    BY <2>1, <2>4, <2>6, <2>7 DEF PlacesInv
  <2>9. \A q \in Paths : visited'[q] # NoValue =>
            syncMap[q] # NoValue /\ visited'[q] \in Seq(Events) /\ Len(visited'[q]) <= Len(syncMap[q])
    BY <2>5, <2>7 DEF PlacesInv
  <2> QED BY <1>2, <2>1, <2>2, <2>3, <2>4, <2>8, <2>9 DEF PlacesInv, CachesCookies
<1> QED BY <1>4, <1>5, <1>6, <1>7

LEMMA TimersPlaces ==
    ASSUME PipelineTypeOK, PlacesInv, TimerSteps, UNCHANGED storageVars
    PROVE  PlacesInv'
<1>1. toScan' = toScan /\ update' = update /\ moveCaches \in [Cookies -> Caches]
  BY DEF storageVars, PipelineTypeOK
<1>2. UNCHANGED <<dispatcher, visited, syncMap, monitor, toVisit>>
  BY DEF TimerSteps, BatchTimerFires, TimerFires, watcherVars, MoveTimerFires, IncompleteSends,
         IncompleteForgets, batchVars
<1>3. \A c \in Cookies : moveCaches'[c] = NoCache \/ moveCaches'[c].event = moveCaches[c].event
  <2>1. CASE moveCaches' = moveCaches
    BY <2>1
  <2>2. ASSUME NEW d \in Cookies, MoveTimerFires(d)
        PROVE  \A c \in Cookies : moveCaches'[c].event = moveCaches[c].event
    <3>1. moveCaches' = [moveCaches EXCEPT ![d].armed = FALSE]
      BY <2>2 DEF MoveTimerFires
    <3> QED BY <1>1, <3>1
  <2>3. ASSUME NEW n \in DOMAIN incomplete, IncompleteForgets(n)
        PROVE  \A c \in Cookies : moveCaches'[c] = NoCache \/ moveCaches'[c] = moveCaches[c]
    <3>1. moveCaches' = [moveCaches EXCEPT ![incomplete[n].event.cookie] = NoCache]
      BY <2>3 DEF IncompleteForgets
    <3> QED BY <1>1, <3>1
  <2> QED BY <2>1, <2>2, <2>3 DEF TimerSteps, BatchTimerFires, watcherVars, IncompleteSends
<1>4. \A c \in Cookies : moveCaches'[c] # NoCache => moveCaches[c] # NoCache
  <2>1. CASE moveCaches' = moveCaches
    BY <2>1
  <2>2. ASSUME NEW d \in Cookies, MoveTimerFires(d), NEW c \in Cookies, moveCaches[c] = NoCache
        PROVE  moveCaches'[c] = NoCache
    <3>1. moveCaches' = [moveCaches EXCEPT ![d].armed = FALSE] /\ c # d
      BY <2>2 DEF MoveTimerFires, NoCache
    <3> QED BY <1>1, <2>2, <3>1
  <2>3. ASSUME NEW n \in DOMAIN incomplete, IncompleteForgets(n), NEW c \in Cookies, moveCaches[c] = NoCache
        PROVE  moveCaches'[c] = NoCache
    <3>1. moveCaches' = [moveCaches EXCEPT ![incomplete[n].event.cookie] = NoCache]
      BY <2>3 DEF IncompleteForgets
    <3> QED BY <1>1, <2>3, <3>1
  <2> QED BY <2>1, <2>2, <2>3 DEF TimerSteps, BatchTimerFires, watcherVars, IncompleteSends
<1>5. CachesCookies'
  BY <1>3, <1>4 DEF CachesCookies, PlacesInv
<1> QED BY <1>1, <1>2, <1>5, PlacesKept DEF PlacesInv

\* The parts of OnceInv.
QueuedOnce ==
    /\ \A i, j \in DOMAIN events :
            events[i].type = "movedFrom" /\ events[i] = events[j] => i = j
    /\ \A f \in ToSet(events) : f.type = "movedFrom" =>
            /\ f \notin ToSet(monitor) \cup Cached
            /\ syncMap[f.path] # NoValue => f \notin ToSet(syncMap[f.path])
LoadedOnce ==
    monitor # <<>> /\ Last(monitor).type = "movedFrom" =>
        LET f == Last(monitor)
        IN  /\ \A i \in DOMAIN monitor : monitor[i] = f => i = Len(monitor)
            /\ f \notin Cached
            /\ syncMap[f.path] # NoValue => f \notin ToSet(syncMap[f.path])
StoredOnce ==
    \A p \in Paths : Unvisited(p) /\ Last(syncMap[p]).type = "movedFrom" =>
        /\ \A i \in DOMAIN syncMap[p] : syncMap[p][i] = Last(syncMap[p]) => i = Len(syncMap[p])
        /\ Last(syncMap[p]) \notin Cached

LEMMA OnceParts == OnceInv <=> QueuedOnce /\ LoadedOnce /\ StoredOnce
BY DEF OnceInv, QueuedOnce, LoadedOnce, StoredOnce

LEMMA OncePartsNext == OnceInv' <=> QueuedOnce' /\ LoadedOnce' /\ StoredOnce'
BY OnceParts, PTL

LEMMA OnceKept ==
    ASSUME OnceInv, UNCHANGED <<events, monitor, syncMap>>, Cached' \subseteq Cached,
           \A p \in Paths : Unvisited(p)' => Unvisited(p)
    PROVE  OnceInv'
<1>1. QueuedOnce'
  BY OnceParts DEF QueuedOnce
<1>2. LoadedOnce'
  BY OnceParts DEF LoadedOnce
<1>3. StoredOnce'
  BY OnceParts DEF StoredOnce
<1> QED BY <1>1, <1>2, <1>3, OncePartsNext

LEMMA MonitorOnce ==
    ASSUME PipelineTypeOK, PipelineTypeOK', PlacesInv, OnceInv, MonitorSkips \/ MonitorLoads \/ MonitorStores
    PROVE  OnceInv'
<1>1. PlacesTyped /\ WaitingFacts /\ QueuedOnce /\ LoadedOnce /\ StoredOnce
  BY PlacesAreTyped, WaitingIs, OnceParts
<1>2. /\ Cached' = Cached /\ visited' = visited
  BY DEF MonitorSkips, MonitorLoads, MonitorStores, batchVars, Cached
<1>3. ASSUME events # <<>>, events' = Tail(events)
      PROVE  /\ ToSet(events') \subseteq ToSet(events)
             /\ \A i, j \in DOMAIN events' :
                    events'[i].type = "movedFrom" /\ events'[i] = events'[j] => i = j
             /\ Head(events).type = "movedFrom" => Head(events) \notin ToSet(events')
             /\ Head(events) \in ToSet(events) /\ Head(events) \in Events
  <2> DEFINE n == Len(events) - 1
  <2>1. /\ events \in Seq(Events) /\ n \in Nat
        /\ DOMAIN events' = 1..n /\ DOMAIN events = 1..(n + 1)
        /\ \A i \in 1..n : events'[i] = events[i + 1]
        /\ Head(events) = events[1] /\ Head(events) \in Events
        /\ ToSet(events) = ToSet(events') \cup {Head(events)}
    <3>1. events \in Seq(Events)
      BY <1>1 DEF PlacesTyped
    <3> QED BY <1>3, <3>1, TailOf, InSeq
  <2> HIDE DEF n
  <2>2. \A i \in 1..n : i + 1 \in 1..(n + 1) /\ i + 1 # 1
    BY <2>1
  <2>3. 1 \in 1..(n + 1)
    BY <2>1
  <2>4. ASSUME NEW i \in 1..n, NEW j \in 1..n, events'[i].type = "movedFrom", events'[i] = events'[j]
        PROVE  i = j
    <3>1. /\ i + 1 \in DOMAIN events /\ j + 1 \in DOMAIN events
          /\ events[i + 1].type = "movedFrom" /\ events[i + 1] = events[j + 1]
      BY <2>1, <2>2, <2>4
    <3>2. i + 1 = j + 1
      BY <1>1, <3>1 DEF QueuedOnce
    <3>3. i \in Nat /\ j \in Nat
      BY <2>1
    <3> QED BY <3>2, <3>3
  <2>5. ASSUME Head(events).type = "movedFrom", NEW i \in 1..n PROVE events'[i] # Head(events)
    BY <1>1, <2>1, <2>2, <2>3, <2>5 DEF QueuedOnce
  <2>6. ToSet(events') = {events'[i] : i \in 1..n}
    BY <2>1 DEF ToSet
  <2> QED BY <2>1, <2>4, <2>5, <2>6
<1>4. CASE MonitorSkips
  <2>1. events # <<>> /\ events' = Tail(events) /\ monitor' = monitor /\ syncMap' = syncMap
    BY <1>4 DEF MonitorSkips, batchVars
  <2>2. QueuedOnce'
    BY <1>1, <1>2, <1>3, <2>1 DEF QueuedOnce
  <2>3. LoadedOnce' /\ StoredOnce'
    BY <1>1, <1>2, <2>1 DEF LoadedOnce, StoredOnce, Unvisited
  <2> QED BY <2>2, <2>3, OncePartsNext
<1>5. CASE MonitorLoads
  <2>0. PICK ev, q : ev = Head(events) /\ q = ev.path
    OBVIOUS
  <2>1. /\ events # <<>> /\ events' = Tail(events) /\ syncMap' = syncMap
        /\ monitor' = IF syncMap[q] = NoValue THEN <<ev>> ELSE Append(syncMap[q], ev)
    BY <1>5, <2>0 DEF MonitorLoads, batchVars
  <2>2. /\ ToSet(events') \subseteq ToSet(events)
        /\ ev.type = "movedFrom" => ev \notin ToSet(events')
        /\ ev \in ToSet(events) /\ ev \in Events
    BY <1>3, <2>0, <2>1
  <2>3. q \in Paths
    BY <2>0, <2>2, EventTyped
  <2>4. /\ monitor' # <<>> /\ Last(monitor') = ev
        /\ \A f \in ToSet(monitor') : f = ev \/ (syncMap[q] # NoValue /\ f \in ToSet(syncMap[q]) /\ f.path = q)
        /\ \A i \in DOMAIN monitor' : i = Len(monitor')
                                      \/ (syncMap[q] # NoValue /\ monitor'[i] \in ToSet(syncMap[q]))
    <3>1. CASE syncMap[q] = NoValue
      BY <2>1, <3>1 DEF Last, ToSet
    <3>2. CASE syncMap[q] # NoValue
      <4>1. syncMap[q] \in Seq(Events) /\ q \in Stored
        BY <1>1, <2>3, <3>2 DEF PlacesTyped, Stored
      <4>2. monitor' = Append(syncMap[q], ev)
        BY <2>1, <3>2
      <4>3. /\ ToSet(monitor') = ToSet(syncMap[q]) \cup {ev} /\ Last(monitor') = ev /\ monitor' # <<>>
            /\ DOMAIN monitor' = 1..(Len(syncMap[q]) + 1) /\ Len(syncMap[q]) \in Nat
            /\ Len(monitor') = Len(syncMap[q]) + 1
            /\ \A i \in 1..Len(syncMap[q]) : monitor'[i] = syncMap[q][i] /\ syncMap[q][i] \in ToSet(syncMap[q])
        BY <2>2, <4>1, <4>2, AppendOf, InSeq
      <4>4. \A f \in ToSet(syncMap[q]) : f.path = q
        BY <4>1 DEF PlacesInv, ToSet
      <4>5. \A i \in DOMAIN monitor' : i \in 1..Len(syncMap[q]) \/ i = Len(syncMap[q]) + 1
        BY <4>3
      <4> QED BY <3>2, <4>3, <4>4, <4>5
    <3> QED BY <3>1, <3>2
  <2>5. QueuedOnce'
    <3> SUFFICES ASSUME NEW f \in ToSet(events'), f.type = "movedFrom"
                 PROVE  /\ f \notin ToSet(monitor') \cup Cached'
                        /\ syncMap'[f.path] # NoValue => f \notin ToSet(syncMap'[f.path])
      BY <1>3, <2>1 DEF QueuedOnce
    <3>1. f \in ToSet(events) /\ f # ev
      BY <2>2
    <3>2. f \notin Cached /\ (syncMap[f.path] # NoValue => f \notin ToSet(syncMap[f.path]))
      BY <1>1, <3>1 DEF QueuedOnce
    <3>3. f \notin ToSet(monitor')
      BY <2>4, <3>1, <3>2
    <3> QED BY <1>2, <2>1, <3>2, <3>3
  <2>6. LoadedOnce'
    <3> SUFFICES ASSUME ev.type = "movedFrom"
                 PROVE  /\ \A i \in DOMAIN monitor' : monitor'[i] = ev => i = Len(monitor')
                        /\ ev \notin Cached'
                        /\ syncMap'[ev.path] # NoValue => ev \notin ToSet(syncMap'[ev.path])
      BY <2>4 DEF LoadedOnce
    <3>1. ev \notin Cached /\ (syncMap[q] # NoValue => ev \notin ToSet(syncMap[q]))
      BY <1>1, <2>0, <2>2 DEF QueuedOnce
    <3> QED BY <1>2, <2>0, <2>1, <2>4, <3>1
  <2>7. StoredOnce'
    BY <1>1, <1>2, <2>1 DEF StoredOnce, Unvisited
  <2> QED BY <2>5, <2>6, <2>7, OncePartsNext
<1>6. CASE MonitorStores
  <2>0. PICK q : q = Last(monitor).path
    OBVIOUS
  <2>1. /\ monitor # <<>> /\ monitor \in Seq(Events) /\ events' = events /\ monitor' = <<>>
        /\ syncMap' = [syncMap EXCEPT ![q] = monitor]
    BY <1>1, <1>6, <2>0 DEF MonitorStores, Store, PlacesTyped
  <2>2. q \in Paths
    BY <2>0, <2>1, InSeq, EventTyped
  <2>3. syncMap'[q] = monitor /\ \A p : p # q => syncMap'[p] = syncMap[p]
    BY <2>1, <2>2 DEF PipelineTypeOK
  <2>4. QueuedOnce'
    <3> SUFFICES ASSUME NEW f \in ToSet(events), f.type = "movedFrom"
                 PROVE  /\ f \notin ToSet(monitor') \cup Cached'
                        /\ syncMap'[f.path] # NoValue => f \notin ToSet(syncMap'[f.path])
      BY <1>1, <2>1 DEF QueuedOnce
    <3>1. f \notin ToSet(monitor) /\ f \notin Cached /\ (syncMap[f.path] # NoValue => f \notin ToSet(syncMap[f.path]))
      BY <1>1 DEF QueuedOnce
    <3>2. ToSet(monitor') = {}
      BY <2>1 DEF ToSet
    <3> QED BY <1>2, <2>3, <3>1, <3>2
  <2>5. LoadedOnce'
    BY <2>1 DEF LoadedOnce
  <2>6. StoredOnce'
    <3> SUFFICES ASSUME NEW p \in Paths, Unvisited(p)', Last(syncMap'[p]).type = "movedFrom"
                 PROVE  /\ \A i \in DOMAIN syncMap'[p] : syncMap'[p][i] = Last(syncMap'[p]) => i = Len(syncMap'[p])
                        /\ Last(syncMap'[p]) \notin Cached'
      BY DEF StoredOnce
    <3>1. CASE p = q
      BY <1>1, <1>2, <2>1, <2>3, <3>1 DEF LoadedOnce
    <3>2. CASE p # q
      <4>1. syncMap'[p] = syncMap[p] /\ Unvisited(p)
        BY <1>2, <2>3, <3>2 DEF Unvisited
      <4> QED BY <1>1, <1>2, <4>1 DEF StoredOnce
    <3> QED BY <3>1, <3>2
  <2> QED BY <2>4, <2>5, <2>6, OncePartsNext
<1> QED BY <1>4, <1>5, <1>6

LEMMA VisitOnce ==
    ASSUME PipelineTypeOK, PipelineTypeOK', PlacesInv, CookiesInv, OnceInv, NEW p \in Paths, DispatchVisits(p),
           UNCHANGED storageVars
    PROVE  OnceInv'
<1>1. PlacesTyped /\ WaitingFacts /\ QueuedOnce /\ LoadedOnce /\ StoredOnce
  BY PlacesAreTyped, WaitingIs, OnceParts
<1>2. events' = events /\ monitor' = monitor /\ syncMap' = syncMap /\ p \in Stored /\ syncMap[p] # NoValue
  BY DEF DispatchVisits, Visit, PipelineTypeOK, Stored
<1>3. Cached' \subseteq Cached \cup ToSet(syncMap[p])
  BY VisitDrains
<1>4. \A e \in ToSet(syncMap[p]) : e.path = p
  BY <1>2, ListTyped
<1>5. QueuedOnce'
  <2> SUFFICES ASSUME NEW f \in ToSet(events), f.type = "movedFrom" PROVE f \notin Cached'
    BY <1>1, <1>2 DEF QueuedOnce
  <2> QED BY <1>1, <1>2, <1>3, <1>4 DEF QueuedOnce
<1>6. LoadedOnce'
  BY <1>1, <1>2, <1>3, <1>4 DEF LoadedOnce
<1>7. StoredOnce'
  <2> SUFFICES ASSUME NEW q \in Paths, Unvisited(q)', Last(syncMap[q]).type = "movedFrom"
               PROVE  /\ \A i \in DOMAIN syncMap[q] : syncMap[q][i] = Last(syncMap[q]) => i = Len(syncMap[q])
                      /\ Last(syncMap[q]) \notin Cached'
    BY <1>2 DEF StoredOnce
  <2>1. q # p /\ Unvisited(q)
    BY VisitDrains
  <2>2. Last(syncMap[q]).path = q
    <3>1. q \in Stored
      BY <2>1 DEF Unvisited, Stored
    <3> QED BY <3>1, ListTyped
  <2> QED BY <1>1, <1>3, <1>4, <2>1, <2>2 DEF StoredOnce
<1> QED BY <1>5, <1>6, <1>7, OncePartsNext

LEMMA ResetOnce ==
    ASSUME PipelineTypeOK, OnceInv, DispatchResets
    PROVE  OnceInv'
<1>1. WaitingFacts /\ QueuedOnce /\ LoadedOnce /\ PlacesTyped
  BY WaitingIs, OnceParts, PlacesAreTyped
<1>2. /\ events' = events /\ monitor' = monitor /\ syncMap' = EmptyMap
      /\ Cached' = Cached
  BY DEF DispatchResets, ResetMap, Cached
<1>3. \A p \in Paths : syncMap'[p] = NoValue
  BY <1>2 DEF EmptyMap
<1>4. \A f \in ToSet(events) \cup ToSet(monitor) : f.path \in Paths
  BY <1>1, EventTyped DEF WaitingFacts
<1>5. QueuedOnce'
  BY <1>1, <1>2, <1>3, <1>4 DEF QueuedOnce
<1>6. monitor # <<>> => Last(monitor) \in ToSet(monitor)
  BY <1>1, InSeq DEF PlacesTyped
<1>7. LoadedOnce'
  BY <1>1, <1>2, <1>3, <1>4, <1>6 DEF LoadedOnce
<1>8. StoredOnce'
  BY <1>3 DEF StoredOnce, Unvisited
<1> QED BY <1>5, <1>7, <1>8, OncePartsNext

\* While the watcher is open, no goroutine of it ends.
LEMMA NoneEnds ==
    ASSUME BatchInv, closing = "open", WatcherSteps
    PROVE  /\ ~MonitorEnds /\ ~DispatchEnds
           /\ \/ MonitorSkips \/ MonitorLoads \/ MonitorStores
              \/ DispatchBegins \/ DispatchSends \/ DispatchResets
              \/ \E p \in Paths : DispatchVisits(p)
              \/ TimerSteps
<1>1. ~MonitorEnds
  BY DEF MonitorEnds
<1>2. ~DispatchEnds
  BY DEF DispatchEnds, BatchInv
<1> QED BY <1>1, <1>2 DEF WatcherSteps, MonitorSteps, DispatchSteps

LEMMA WatcherDrains ==
    ASSUME PipelineTypeOK, PipelineTypeOK', PlacesInv, CookiesInv, BatchInv, closing = "open",
           WatcherSteps, UNCHANGED storageVars
    PROVE  /\ Drains
           /\ (\A p \in Paths : ~DispatchVisits(p)) =>
                \A p \in Paths : Good(p)' /\ Undelivered(p) => Undelivered(p)'
<1>1. CASE MonitorSkips \/ MonitorLoads \/ MonitorStores
  BY <1>1, MonitorDrains
<1>2. nameless' = nameless /\ replaced' = replaced
  BY DEF storageVars
<1>3. CASE DispatchBegins
  <2>1. visited' = visited
    BY <1>3 DEF DispatchBegins, PlacesInv
  <2>2. UNCHANGED <<events, monitor, syncMap, missed, raced, moveCaches, incomplete>>
    BY <1>3 DEF DispatchBegins, ReceiveFlush
  <2>3. Cached' = Cached
    BY <2>2 DEF Cached
  <2> QED BY <1>2, <2>1, <2>2, <2>3, CachesDrain
<1>4. CASE DispatchSends
  <2>1. UNCHANGED <<events, monitor, syncMap, visited, missed, raced, moveCaches, incomplete>>
    BY <1>4 DEF DispatchSends
  <2>2. Cached' = Cached
    BY <2>1 DEF Cached
  <2> QED BY <1>2, <2>1, <2>2, CachesDrain
<1>5. CASE DispatchResets
  BY <1>5, ResetDrains
<1>6. ASSUME NEW p \in Paths, DispatchVisits(p) PROVE Drains
  BY <1>6, VisitDrains
<1>7. CASE BatchTimerFires
  <2>1. UNCHANGED <<events, monitor, syncMap, visited, missed, raced, moveCaches, incomplete>>
    BY <1>7 DEF BatchTimerFires, TimerFires, watcherVars
  <2>2. Cached' = Cached
    BY <2>1 DEF Cached
  <2> QED BY <1>2, <2>1, <2>2, CachesDrain
<1>8. CASE TimerSteps /\ ~BatchTimerFires
  BY <1>8, TimersDrain DEF TimerSteps
<1> QED BY <1>1, <1>3, <1>4, <1>5, <1>6, <1>7, <1>8, NoneEnds

\* The timers take from the caches what they hand on.
LEMMA TimersCached ==
    ASSUME PipelineTypeOK, PipelineTypeOK', TimerSteps, UNCHANGED storageVars
    PROVE  Cached' \subseteq Cached /\ UNCHANGED <<events, monitor, syncMap, visited>>
<1>1. CASE BatchTimerFires
  <2>1. UNCHANGED <<events, monitor, syncMap, visited, moveCaches, incomplete>>
    BY <1>1 DEF BatchTimerFires, TimerFires, watcherVars
  <2> QED BY <2>1 DEF Cached
<1>2. CASE TimerSteps /\ ~BatchTimerFires
  <2>1. UNCHANGED <<events, monitor, syncMap, visited>>
    BY <1>2 DEF TimerSteps, MoveTimerFires, IncompleteSends, IncompleteForgets, batchVars
  <2> QED BY <1>2, <2>1, TimersDrain DEF TimerSteps
<1> QED BY <1>1, <1>2

LEMMA WatcherQueues ==
    ASSUME TypeInv, TypeInv', QueuesInv, BatchInv, closing = "open", WatcherSteps, UNCHANGED storageVars
    PROVE  QueuesInv'
<1> USE DEF TypeInv, QueuesInv
<1>1. Drains
  BY WatcherDrains
<1>2. CookiesInv'
  BY <1>1, CookiesDrain DEF Drains, storageVars
<1>3. RacesInv'
  BY <1>1, RacesDrain DEF storageVars
<1>4. PlacesInv'
  BY NoneEnds, MonitorPlaces, DispatchPlaces, TimersPlaces
<1>5. OnceInv'
  <2>1. CASE MonitorSkips \/ MonitorLoads \/ MonitorStores
    BY <2>1, MonitorOnce
  <2>2. CASE DispatchBegins \/ DispatchSends
    <3>1. UNCHANGED <<events, monitor, syncMap, moveCaches, incomplete>> /\ visited' = visited
      BY <2>2 DEF DispatchBegins, ReceiveFlush, DispatchSends, PlacesInv
    <3>2. Cached' = Cached /\ \A p \in Paths : Unvisited(p)' <=> Unvisited(p)
      BY <3>1 DEF Cached, Unvisited
    <3> QED BY <3>1, <3>2, OnceKept
  <2>3. CASE DispatchResets
    BY <2>3, ResetOnce
  <2>4. ASSUME NEW p \in Paths, DispatchVisits(p) PROVE OnceInv'
    BY <2>4, VisitOnce
  <2>5. CASE TimerSteps
    <3>1. Cached' \subseteq Cached /\ UNCHANGED <<events, monitor, syncMap, visited>>
      BY <2>5, TimersCached
    <3>2. \A p \in Paths : Unvisited(p)' <=> Unvisited(p)
      BY <3>1 DEF Unvisited
    <3> QED BY <3>1, <3>2, OnceKept
  <2> QED BY <2>1, <2>2, <2>3, <2>4, <2>5, NoneEnds
<1> QED BY <1>2, <1>3, <1>4, <1>5

-----------------------------------------------------------------------------
(***************************************************************************)
(* The pipeline keeps FilesInv.                                            *)
(***************************************************************************)
StillReported == \A p \in Paths, o \in Objects :
    Good(p) /\ disk[p] = o /\ ~Undelivered(p) => Reported(p, o) \/ Settled(p, o)
StillRemoved == \A p \in Paths, o \in Objects :
    /\ Good(p) /\ disk[p] = Absent /\ o \notin strayed /\ ~Undelivered(p)
    /\ Slot(p, o) \/ (mappings[o] = p /\ ~Creating(o))
    => Removed(p, o)

LEMMA OwnersKept ==
    ASSUME OwnerInv, UNCHANGED storageVars, \A p \in Paths : Good(p)' => Good(p)
    PROVE  OwnerInv'
BY DEF OwnerInv, Writing, Mapped, storageVars, Good

LEMMA FilesDrain ==
    ASSUME FilesInv, TypeInv, Drains, UNCHANGED storageVars, StillReported', StillRemoved'
    PROVE  FilesInv'
<1>1. OwnerInv'
  BY OwnersKept DEF FilesInv, Drains
<1>2. CopiesInv'
  BY DEF FilesInv, CopiesInv, Holds, storageVars
<1>3. UNCHANGED <<disk, strayed, update, mappings, client, owner>>
  BY DEF storageVars
<1>4. ASSUME NEW p \in Paths, NEW o \in Objects PROVE Held(p, o)' /\ Gone(p, o)'
  <2>1. Held(p, o) /\ Gone(p, o)
    BY DEF FilesInv
  <2>2. Good(p)' => Good(p)
    BY DEF Drains
  <2>3. \A e \in Waiting' : Good(p)' /\ Newest(p, e)' => e \in Waiting /\ Newest(p, e)
    BY DEF Drains
  <2>4. \A c : RenameTakes(c, p, o) => RenameTakes(c, p, o)'
    BY <1>3 DEF RenameTakes, Drains
  <2>5. \A e : Removes(e, p, o) => Removes(e, p, o)'
    BY <2>4 DEF Removes
  <2>6. Held(p, o)'
    BY <1>3, <2>1, <2>2, <2>3 DEF Held, StillReported
  <2>7. Gone(p, o)'
    BY <1>3, <2>1, <2>2, <2>3, <2>5 DEF Gone, StillRemoved, Slot, Creating
  <2> QED BY <2>6, <2>7
<1> QED BY <1>1, <1>2, <1>4 DEF FilesInv

\* A step that neither delivers an event nor sends an update.
LEMMA FilesStay ==
    ASSUME FilesInv, TypeInv, Drains, UNCHANGED storageVars, UNCHANGED <<outbox, updates>>,
           \A p \in Paths : Good(p)' /\ Undelivered(p) => Undelivered(p)',
           \A type, p : SendsHalf(type, p) => SendsHalf(type, p)',
           \A type, p : \A c \in Cookies : CachedHalf(type, p, c) => CachedHalf(type, p, c)' \/ SendsHalf(type, p)'
    PROVE  FilesInv'
<1>1. UNCHANGED <<disk, strayed, update, mappings, client, owner, toScan, view, unheard>>
  BY DEF storageVars
<1>2. \A p, o : Slot(p, o)' <=> Slot(p, o)
  BY <1>1 DEF Slot
<1>3. ASSUME NEW p \in Paths, NEW o \in Objects, Good(p)', disk[p] = o, ~Undelivered(p)'
      PROVE  (Reported(p, o) \/ Settled(p, o))'
  <2>1. Reported(p, o) \/ Settled(p, o)
    BY <1>3 DEF FilesInv, Held, Drains
  <2>2. CASE Reported(p, o)
    BY <1>2, <2>2 DEF Reported
  <2>3. CASE Settled(p, o)
    BY <1>1, <1>2, <2>3 DEF Settled, Known
  <2> QED BY <2>1, <2>2, <2>3
<1>4. ASSUME NEW p \in Paths, NEW o \in Objects, Good(p)', disk[p] = Absent, o \notin strayed, ~Undelivered(p)',
             Slot(p, o) \/ (mappings[o] = p /\ ~Creating(o))
      PROVE  Removed(p, o)'
  <2>1. Removed(p, o)
    BY <1>4 DEF FilesInv, Gone, Drains
  <2>2. \A c : RenameTakes(c, p, o) => RenameTakes(c, p, o)'
    BY <1>1 DEF RenameTakes, Drains
  <2>3. \A u : Takes(u, p, o) => Takes(u, p, o)'
    BY <1>1 DEF Takes
  <2> QED BY <1>1, <2>1, <2>2, <2>3 DEF Removed
<1>5. StillReported'
  BY <1>1, <1>3 DEF StillReported
<1>6. StillRemoved'
  BY <1>1, <1>2, <1>4 DEF StillRemoved, Creating
<1> QED BY <1>5, <1>6, FilesDrain

\* The steps that FilesStay is about.
LEMMA MonitorFiles ==
    ASSUME FilesInv, TypeInv, TypeInv', PlacesInv, CookiesInv, BatchInv, closing = "open", WatcherSteps,
           UNCHANGED storageVars, UNCHANGED <<outbox, updates, moveCaches, incomplete>>,
           \A p \in Paths : ~DispatchVisits(p)
    PROVE  FilesInv'
<1>1. Drains /\ \A p \in Paths : Good(p)' /\ Undelivered(p) => Undelivered(p)'
  BY WatcherDrains DEF TypeInv
<1>2. /\ \A type, p : SendsHalf(type, p) => SendsHalf(type, p)'
      /\ \A type, p : \A c \in Cookies : CachedHalf(type, p, c) => CachedHalf(type, p, c)'
  BY DEF SendsHalf, CachedHalf
<1> QED BY <1>1, <1>2, FilesStay

LEMMA MoveTimerFiles ==
    ASSUME FilesInv, TypeInv, TypeInv', PlacesInv, CookiesInv, BatchInv, closing = "open",
           UNCHANGED storageVars, NEW c \in Cookies, MoveTimerFires(c)
    PROVE  FilesInv'
<1>1. /\ moveCaches' = [moveCaches EXCEPT ![c].armed = FALSE] /\ moveCaches[c].armed
      /\ incomplete' = Append(incomplete, [event |-> moveCaches[c].event, step |-> "send"])
      /\ outbox' = outbox /\ updates' = updates
  BY DEF MoveTimerFires
<1>2. WatcherSteps /\ \A p \in Paths : ~DispatchVisits(p)
  <2>1. WatcherSteps
    BY DEF WatcherSteps, TimerSteps
  <2>2. \A p \in Paths : ~DispatchVisits(p)
    BY DEF MoveTimerFires, DispatchVisits, Visit, batchVars
  <2> QED BY <2>1, <2>2
<1>3. Drains /\ \A p \in Paths : Good(p)' /\ Undelivered(p) => Undelivered(p)'
  BY <1>2, WatcherDrains DEF TypeInv
<1> DEFINE half == [event |-> moveCaches[c].event, step |-> "send"]
<1>4. /\ \A i \in DOMAIN incomplete : i \in DOMAIN incomplete' /\ incomplete'[i] = incomplete[i]
      /\ Len(incomplete) + 1 \in DOMAIN incomplete' /\ incomplete'[Len(incomplete) + 1] = half
  <2>1. incomplete \in Seq(Incompletes) /\ half \in Incompletes
    BY <1>1 DEF TypeInv, PipelineTypeOK, Incompletes
  <2>2. Len(incomplete) \in Nat /\ DOMAIN incomplete = 1..Len(incomplete)
    BY <2>1
  <2> HIDE DEF half
  <2>3. /\ DOMAIN incomplete' = 1..(Len(incomplete) + 1)
        /\ \A i \in 1..Len(incomplete) : incomplete'[i] = incomplete[i]
        /\ incomplete'[Len(incomplete) + 1] = half
    BY <1>1, <2>1, AppendOf DEF half
  <2> QED BY <2>2, <2>3
<1>5. \A type, p : SendsHalf(type, p) => SendsHalf(type, p)'
  BY <1>4 DEF SendsHalf
<1>6. ASSUME NEW type, NEW p, NEW d \in Cookies, CachedHalf(type, p, d)
      PROVE  CachedHalf(type, p, d)' \/ SendsHalf(type, p)'
  <2>1. CASE d = c
    BY <1>4, <1>6, <2>1 DEF SendsHalf, CachedHalf
  <2>2. CASE d # c
    <3>1. moveCaches'[d] = moveCaches[d]
      BY <1>1, <2>2 DEF TypeInv, PipelineTypeOK
    <3> QED BY <1>6, <3>1 DEF CachedHalf
  <2> QED BY <2>1, <2>2
<1> QED BY <1>1, <1>3, <1>5, <1>6, FilesStay

LEMMA ForgetsFiles ==
    ASSUME FilesInv, TypeInv, TypeInv', PlacesInv, CookiesInv, BatchInv, closing = "open",
           UNCHANGED storageVars, NEW n \in DOMAIN incomplete, IncompleteForgets(n)
    PROVE  FilesInv'
<1> DEFINE c == incomplete[n].event.cookie
           orphan == IF moveCaches[c].armed
                     THEN <<[event |-> moveCaches[c].event, step |-> "send"]>> ELSE <<>>
           rest == RemoveAt(incomplete, n)
<1>1. /\ moveCaches' = [moveCaches EXCEPT ![c] = NoCache] /\ incomplete[n].step = "forget"
      /\ incomplete' = rest \o orphan
      /\ outbox' = outbox /\ updates' = updates
  BY DEF IncompleteForgets
<1>2. WatcherSteps /\ \A p \in Paths : ~DispatchVisits(p)
  <2>1. WatcherSteps
    BY DEF WatcherSteps, TimerSteps
  <2>2. \A p \in Paths : ~DispatchVisits(p)
    BY DEF IncompleteForgets, DispatchVisits, Visit, batchVars
  <2> QED BY <2>1, <2>2
<1>3. Drains /\ \A p \in Paths : Good(p)' /\ Undelivered(p) => Undelivered(p)'
  BY <1>2, WatcherDrains DEF TypeInv
<1>4. incomplete \in Seq(Incompletes) /\ moveCaches \in [Cookies -> Caches]
  BY DEF TypeInv, PipelineTypeOK
<1>5. c \in Cookies
  <2>1. incomplete[n] \in Incompletes
    BY <1>4
  <2>2. incomplete[n].event \in Halves
    BY <2>1 DEF Incompletes
  <2> QED BY <2>2, EventTyped DEF Halves
<1>6. orphan \in Seq(Incompletes)
  <2>1. moveCaches[c].armed => [event |-> moveCaches[c].event, step |-> "send"] \in Incompletes
    BY <1>5 DEF TypeInv, PipelineTypeOK, Incompletes
  <2> HIDE DEF c
  <2> QED BY <2>1
<1>7. /\ rest \in Seq(Incompletes) /\ Len(rest) = Len(incomplete) - 1
      /\ \A i \in 1..(Len(incomplete) - 1) : rest[i] = IF i < n THEN incomplete[i] ELSE incomplete[i + 1]
  BY <1>4, RemoveTyped
<1> HIDE DEF c, orphan, rest
<1>8. /\ \A i \in DOMAIN rest : i \in DOMAIN incomplete' /\ incomplete'[i] = rest[i]
      /\ moveCaches[c].armed => /\ Len(rest) + 1 \in DOMAIN incomplete'
                                /\ incomplete'[Len(rest) + 1] = [event |-> moveCaches[c].event, step |-> "send"]
  <2>0. /\ DOMAIN (rest \o orphan) = 1..(Len(rest) + Len(orphan))
        /\ \A i \in 1..Len(rest) : (rest \o orphan)[i] = rest[i]
        /\ \A i \in 1..Len(orphan) : (rest \o orphan)[Len(rest) + i] = orphan[i]
    <3>1. rest \in Seq(Incompletes)
      BY <1>7
    <3> QED BY ONLY <1>6, <3>1, ConcatOf
  <2>1. /\ DOMAIN incomplete' = 1..(Len(rest) + Len(orphan))
        /\ \A i \in 1..Len(rest) : incomplete'[i] = rest[i]
        /\ \A i \in 1..Len(orphan) : incomplete'[Len(rest) + i] = orphan[i]
    BY <1>1, <2>0
  <2>2. Len(rest) \in Nat /\ DOMAIN rest = 1..Len(rest) /\ Len(orphan) \in Nat
    BY <1>6, <1>7
  <2>3. moveCaches[c].armed => Len(orphan) = 1 /\ orphan[1] = [event |-> moveCaches[c].event, step |-> "send"]
    BY DEF orphan
  <2> QED BY <2>1, <2>2, <2>3
<1>9. ASSUME NEW i \in DOMAIN incomplete, i # n
      PROVE  \E j \in DOMAIN rest : rest[j] = incomplete[i]
  <2>1. /\ DOMAIN incomplete = 1..Len(incomplete) /\ Len(incomplete) \in Nat
        /\ DOMAIN rest = 1..(Len(incomplete) - 1)
    BY <1>4, <1>7
  <2>2. CASE i < n
    <3>1. i \in DOMAIN rest /\ rest[i] = incomplete[i]
      BY <1>7, <2>1, <2>2
    <3> QED BY <3>1
  <2>3. CASE i > n
    <3>1. i - 1 \in DOMAIN rest /\ ~(i - 1 < n) /\ (i - 1) + 1 = i
      BY <2>1, <2>3
    <3>2. rest[i - 1] = incomplete[i]
      BY <1>7, <2>1, <3>1
    <3> QED BY <3>1, <3>2
  <2> QED BY <1>9, <2>1, <2>2, <2>3
<1>10. \A type, p : SendsHalf(type, p) => SendsHalf(type, p)'
  BY <1>1, <1>8, <1>9 DEF SendsHalf
<1>11. ASSUME NEW type, NEW p, NEW d \in Cookies, CachedHalf(type, p, d)
       PROVE  CachedHalf(type, p, d)' \/ SendsHalf(type, p)'
  <2>1. CASE d = c
    BY <1>8, <1>11, <2>1 DEF SendsHalf, CachedHalf
  <2>2. CASE d # c
    <3>1. moveCaches'[d] = moveCaches[d]
      BY <1>1, <1>4, <2>2
    <3> QED BY <1>11, <3>1 DEF CachedHalf
  <2> QED BY <2>1, <2>2
<1> QED BY <1>1, <1>3, <1>10, <1>11, FilesStay

\* What an update that is appended, or taken, does to what is reported.
LEMMA AppendReports ==
    ASSUME NEW s \in Seq(Update), NEW u \in Update, NEW p
    PROVE  /\ u.path = p /\ u.event # "delete" => EndsPresent(Append(s, u), p)
           /\ u.path # p \/ u.event # "delete" =>
                /\ EndsPresent(s, p) => EndsPresent(Append(s, u), p)
                /\ NoDelete(s, p) => NoDelete(Append(s, u), p)
<1> DEFINE t == Append(s, u)
<1>1. /\ Len(s) \in Nat /\ DOMAIN s = 1..Len(s) /\ DOMAIN t = 1..(Len(s) + 1)
      /\ \A i \in 1..Len(s) : t[i] = s[i]
      /\ t[Len(s) + 1] = u
  BY AppendOf, InSeq
<1> HIDE DEF t
<1>2. \A i \in DOMAIN t : (i \in DOMAIN s /\ t[i] = s[i]) \/ (i = Len(s) + 1 /\ t[i] = u)
  BY <1>1
<1>3. \A i \in DOMAIN s : i \in DOMAIN t /\ ~(i >= Len(s) + 1)
  BY <1>1
<1>4. Len(s) + 1 \in DOMAIN t
  BY <1>1
<1>5. u.path = p /\ u.event # "delete" => EndsPresent(t, p)
  BY <1>1, <1>2, <1>3, <1>4 DEF EndsPresent
<1>6. ASSUME u.path # p \/ u.event # "delete", EndsPresent(s, p) PROVE EndsPresent(t, p)
  <2>1. PICK k \in DOMAIN s : /\ s[k].path = p
                              /\ \A j \in DOMAIN s : j >= k /\ s[j].path = p => s[j].event # "delete"
    BY <1>6 DEF EndsPresent
  <2>2. k \in DOMAIN t /\ t[k].path = p
    BY <1>1, <1>3, <2>1
  <2>3. \A j \in DOMAIN t : j >= k /\ t[j].path = p => t[j].event # "delete"
    BY <1>2, <1>6, <2>1
  <2> QED BY <2>2, <2>3 DEF EndsPresent
<1>7. ASSUME u.path # p \/ u.event # "delete", NoDelete(s, p) PROVE NoDelete(t, p)
  BY <1>2, <1>7 DEF NoDelete
<1> QED BY <1>5, <1>6, <1>7 DEF t

LEMMA TailReports ==
    ASSUME NEW s \in Seq(Update), s # <<>>, NEW p
    PROVE  /\ NoDelete(s, p) => /\ NoDelete(Tail(s), p)
                                /\ Head(s).path # p \/ Head(s).event # "delete"
           /\ EndsPresent(s, p) =>
                \/ EndsPresent(Tail(s), p)
                \/ NoDelete(Tail(s), p) /\ Head(s).path = p /\ Head(s).event # "delete"
<1> DEFINE t == Tail(s)
<1>1. /\ Len(s) \in Nat /\ Len(s) > 0 /\ DOMAIN s = 1..Len(s) /\ DOMAIN t = 1..(Len(s) - 1)
      /\ \A i \in 1..(Len(s) - 1) : t[i] = s[i + 1]
      /\ Head(s) = s[1]
  BY TailOf, InSeq
<1> HIDE DEF t
<1>2. \A i \in DOMAIN t : i + 1 \in DOMAIN s /\ t[i] = s[i + 1]
  BY <1>1
<1>3. NoDelete(s, p) => NoDelete(t, p) /\ (Head(s).path # p \/ Head(s).event # "delete")
  BY <1>1, <1>2 DEF NoDelete
<1>4. ASSUME EndsPresent(s, p)
      PROVE  EndsPresent(t, p) \/ (NoDelete(t, p) /\ Head(s).path = p /\ Head(s).event # "delete")
  <2>1. PICK k \in DOMAIN s : /\ s[k].path = p
                              /\ \A j \in DOMAIN s : j >= k /\ s[j].path = p => s[j].event # "delete"
    BY <1>4 DEF EndsPresent
  <2>2. CASE k = 1
    <3>1. \A j \in DOMAIN s : j >= k
      BY <1>1, <2>2
    <3>2. NoDelete(t, p)
      BY <1>2, <2>1, <3>1 DEF NoDelete
    <3> QED BY <1>1, <2>1, <2>2, <3>1, <3>2
  <2>3. CASE k # 1
    <3>1. k - 1 \in DOMAIN t /\ (k - 1) + 1 = k
      BY <1>1, <2>3
    <3>2. \A j \in DOMAIN t : j >= k - 1 => j + 1 >= k
      BY <1>1
    <3>3. t[k - 1].path = p
      BY <1>2, <2>1, <3>1
    <3>4. \A j \in DOMAIN t : j >= k - 1 /\ t[j].path = p => t[j].event # "delete"
      BY <1>2, <2>1, <3>2
    <3> QED BY <3>1, <3>3, <3>4 DEF EndsPresent
  <2> QED BY <2>2, <2>3
<1> QED BY <1>3, <1>4 DEF t

\* The dispatcher hands on an update.
LEMMA SendsFiles ==
    ASSUME FilesInv, TypeInv, TypeInv', PlacesInv, CookiesInv, BatchInv, closing = "open", panicked' = "no",
           UNCHANGED storageVars, DispatchSends
    PROVE  FilesInv'
<1> DEFINE u == Head(outbox)
<1>1. /\ outbox # <<>> /\ outbox' = Tail(outbox) /\ updates' = Append(updates, u)
      /\ moveCaches' = moveCaches /\ incomplete' = incomplete
  BY DEF DispatchSends, sendUpdate
<1>2. outbox \in Seq(Update) /\ updates \in Seq(Update)
  BY DEF TypeInv, PipelineTypeOK
<1>3. u \in Update
  BY <1>1, <1>2
<1>4. WatcherSteps /\ \A p \in Paths : ~DispatchVisits(p)
  BY <1>1 DEF WatcherSteps, DispatchSteps, DispatchVisits
<1>5. Drains /\ \A p \in Paths : Good(p)' /\ Undelivered(p) => Undelivered(p)'
  BY <1>4, WatcherDrains DEF TypeInv
<1>6. UNCHANGED <<disk, strayed, update, mappings, client, owner, toScan, view, unheard>>
  BY DEF storageVars
<1>7. /\ \A p, o : Slot(p, o)' <=> Slot(p, o)
      /\ \A type, p : SendsHalf(type, p)' <=> SendsHalf(type, p)
      /\ \A type, p, c : CachedHalf(type, p, c)' <=> CachedHalf(type, p, c)
  BY <1>1, <1>6 DEF Slot, SendsHalf, CachedHalf
<1>8. ASSUME NEW p
      PROVE  /\ NoDelete(outbox, p) => NoDelete(outbox', p) /\ (u.path # p \/ u.event # "delete")
             /\ EndsPresent(outbox, p) =>
                    \/ EndsPresent(outbox', p)
                    \/ NoDelete(outbox', p) /\ u.path = p /\ u.event # "delete"
             /\ u.path = p /\ u.event # "delete" => EndsPresent(updates', p)
             /\ u.path # p \/ u.event # "delete" => (EndsPresent(updates, p) => EndsPresent(updates', p))
             /\ u.path # p \/ u.event # "delete" => (NoDelete(updates, p) => NoDelete(updates', p))
  BY <1>1, <1>2, <1>3, TailReports, AppendReports
<1> HIDE DEF u
<1>9. ASSUME NEW p \in Paths, NEW o \in Objects, Good(p)', disk[p] = o, ~Undelivered(p)'
      PROVE  (Reported(p, o) \/ Settled(p, o))'
  <2>1. Reported(p, o) \/ Settled(p, o)
    BY <1>5, <1>9 DEF FilesInv, Held, Drains
  <2>2. CASE Reported(p, o)
    BY <1>7, <1>8, <2>2 DEF Reported
  <2>3. CASE Settled(p, o)
    BY <1>6, <1>7, <1>8, <2>3 DEF Settled, Known
  <2> QED BY <2>1, <2>2, <2>3
<1>10. ASSUME NEW p \in Paths, NEW o \in Objects, Good(p)', disk[p] = Absent, o \notin strayed, ~Undelivered(p)',
              Slot(p, o) \/ (mappings[o] = p /\ ~Creating(o))
       PROVE  Removed(p, o)'
  <2>1. Removed(p, o)
    BY <1>5, <1>10 DEF FilesInv, Gone, Drains
  <2>2. \A c : RenameTakes(c, p, o) => RenameTakes(c, p, o)'
    BY <1>5, <1>6 DEF RenameTakes, Drains
  <2>3. \A v : Takes(v, p, o) => Takes(v, p, o)'
    BY <1>6 DEF Takes
  <2>4. ToSet(outbox') \cup ToSet(updates') = ToSet(outbox) \cup ToSet(updates)
    <3>1. ToSet(outbox) = ToSet(outbox') \cup {u}
      BY <1>1, <1>2, TailOf DEF u
    <3>2. ToSet(updates') = ToSet(updates) \cup {u}
      BY <1>1, <1>2, <1>3, AppendOf
    <3> QED BY <3>1, <3>2
  <2> QED BY <1>6, <1>7, <2>1, <2>2, <2>3, <2>4 DEF Removed
<1>11. StillReported'
  BY <1>6, <1>9 DEF StillReported
<1>12. StillRemoved'
  BY <1>6, <1>7, <1>10 DEF StillRemoved, Creating
<1> QED BY <1>5, <1>11, <1>12, FilesDrain

\* The goroutine of a timer sends its update.
LEMMA HalfFiles ==
    ASSUME FilesInv, TypeInv, TypeInv', PlacesInv, CookiesInv, RacesInv, BatchInv, closing = "open",
           panicked' = "no", UNCHANGED storageVars, NEW n \in DOMAIN incomplete, IncompleteSends(n)
    PROVE  FilesInv'
<1> DEFINE half == incomplete[n].event
           u == FileUpdate(IF half.type = "movedFrom" THEN "delete" ELSE "modify", half.path)
<1>1. /\ incomplete[n].step = "send" /\ updates' = Append(updates, u) /\ outbox' = outbox
      /\ moveCaches' = moveCaches /\ incomplete' = [incomplete EXCEPT ![n].step = "forget"]
  BY DEF IncompleteSends, sendUpdate
<1>2. outbox \in Seq(Update) /\ updates \in Seq(Update) /\ incomplete \in Seq(Incompletes)
  BY DEF TypeInv, PipelineTypeOK
<1>3. half \in Halves /\ half \in Cached /\ half \in Waiting
  <2>1. PlacesTyped /\ WaitingFacts
    BY PlacesAreTyped, WaitingIs DEF TypeInv
  <2>2. incomplete[n] \in Incompletes
    BY <1>2
  <2> QED BY <2>1, <2>2 DEF Incompletes, WaitingFacts
<1>4. /\ half.path \in Paths /\ half.type \in {"movedFrom", "movedTo"} /\ u \in Update /\ u.path = half.path
      /\ u.event = IF half.type = "movedFrom" THEN "delete" ELSE "modify"
  <2>1. half \in Events
    BY <1>3 DEF Halves
  <2>2. half.path \in Paths /\ half.type \in {"movedFrom", "movedTo"}
    BY <1>3, <2>1, EventTyped
  <2> HIDE DEF half
  <2> QED BY <2>2 DEF FileUpdate, Update, FileEvents
<1>5. WatcherSteps /\ \A p \in Paths : ~DispatchVisits(p)
  <2>1. WatcherSteps
    BY DEF WatcherSteps, TimerSteps
  <2>2. \A p \in Paths : ~DispatchVisits(p)
    BY <1>1, <1>2 DEF IncompleteSends, DispatchVisits, Incompletes
  <2> QED BY <2>1, <2>2
<1>6. Drains /\ \A p \in Paths : Good(p)' /\ Undelivered(p) => Undelivered(p)'
  BY <1>5, WatcherDrains DEF TypeInv
<1>7. UNCHANGED <<disk, strayed, update, mappings, client, owner, toScan, view, unheard>>
  BY DEF storageVars
<1>8. /\ \A p, o : Slot(p, o)' <=> Slot(p, o)
      /\ \A type, p, c : CachedHalf(type, p, c)' <=> CachedHalf(type, p, c)
  BY <1>1, <1>7 DEF Slot, CachedHalf
<1>9. \A p : /\ u.path = p /\ u.event # "delete" => EndsPresent(updates', p)
             /\ u.path # p \/ u.event # "delete" => (EndsPresent(updates, p) => EndsPresent(updates', p))
             /\ u.path # p \/ u.event # "delete" => (NoDelete(updates, p) => NoDelete(updates', p))
  BY <1>1, <1>2, <1>4, AppendReports
<1>10. \A type, p : SendsHalf(type, p) => SendsHalf(type, p)' \/ (half.type = type /\ half.path = p)
  BY <1>1, <1>2 DEF SendsHalf
<1> HIDE DEF half, u
<1>11. ASSUME NEW p \in Paths, NEW o \in Objects, Good(p)', disk[p] = o, ~Undelivered(p)'
       PROVE  (Reported(p, o) \/ Settled(p, o))'
  <2>1. Good(p) /\ (Reported(p, o) \/ Settled(p, o))
    BY <1>6, <1>11 DEF FilesInv, Held, Drains
  <2>2. u.path # p \/ u.event # "delete"
    <3>1. CASE half.type = "movedFrom" /\ half.path = p
      <4>1. disk[p] \in {Absent, Torn}
        BY <1>3, <2>1, <3>1 DEF RacesInv
      <4> QED BY <1>11, <4>1, WatchStorageAssumption
    <3>2. CASE half.type # "movedFrom"
      BY <1>4, <3>2
    <3> QED BY <1>4, <3>1, <3>2
  <2>3. CASE Reported(p, o)
    <3>1. CASE EndsPresent(outbox, p)
      BY <1>1, <3>1 DEF Reported
    <3>2. CASE half.path = p
      <4>1. EndsPresent(updates', p)
        BY <1>4, <1>9, <2>2, <3>2
      <4> QED BY <1>1, <2>3, <4>1 DEF Reported
    <3>3. CASE half.path # p
      BY <1>1, <1>8, <1>9, <1>10, <2>2, <2>3, <3>3 DEF Reported
    <3> QED BY <3>1, <3>2, <3>3
  <2>4. CASE Settled(p, o)
    BY <1>1, <1>7, <1>8, <1>9, <2>2, <2>4 DEF Settled, Known
  <2> QED BY <2>1, <2>3, <2>4
<1>12. ASSUME NEW p \in Paths, NEW o \in Objects, Good(p)', disk[p] = Absent, o \notin strayed, ~Undelivered(p)',
              Slot(p, o) \/ (mappings[o] = p /\ ~Creating(o))
       PROVE  Removed(p, o)'
  <2>1. Removed(p, o)
    BY <1>6, <1>12 DEF FilesInv, Gone, Drains
  <2>2. \A c : RenameTakes(c, p, o) => RenameTakes(c, p, o)'
    BY <1>6, <1>7 DEF RenameTakes, Drains
  <2>3. \A v : Takes(v, p, o) => Takes(v, p, o)'
    BY <1>7 DEF Takes
  <2>4. ToSet(updates') = ToSet(updates) \cup {u}
    BY <1>1, <1>2, <1>4, AppendOf
  <2>5. CASE SendsHalf("movedFrom", p)
    <3>1. SendsHalf("movedFrom", p)' \/ (half.type = "movedFrom" /\ half.path = p)
      BY <1>10, <2>5
    <3>2. half.type = "movedFrom" /\ half.path = p => Takes(u, p, o)
      BY <1>4 DEF Takes
    <3> QED BY <2>3, <2>4, <3>1, <3>2 DEF Removed
  <2>6. CASE ~SendsHalf("movedFrom", p)
    BY <1>1, <1>7, <1>8, <2>1, <2>2, <2>3, <2>4, <2>6 DEF Removed
  <2> QED BY <2>5, <2>6
<1>13. StillReported'
  BY <1>7, <1>11 DEF StillReported
<1>14. StillRemoved'
  BY <1>7, <1>8, <1>12 DEF StillRemoved, Creating
<1> QED BY <1>6, <1>13, <1>14, FilesDrain

\* Range hands over the events of a file: what becomes of them is in the outbox, or waits.
LEMMA VisitedReported ==
    ASSUME FilesInv, TypeInv, TypeInv', PlacesInv, CookiesInv, RacesInv, UNCHANGED storageVars,
           NEW p \in Paths, DispatchVisits(p), NEW o \in Objects, Good(p)', disk[p] = o, ~Undelivered(p)'
    PROVE  Reported(p, o)'
<1> DEFINE L == syncMap[p]
<1>0. PICK e : e = Last(L)
  OBVIOUS
<1>1. /\ Drains /\ Unvisited(p) /\ ~Queued(p) /\ ~Loaded(p) /\ ~CancelsDelete(L)
  BY VisitDrains DEF TypeInv, Undelivered
<1>2. p \in Stored /\ outbox' \in Seq(Update)
      /\ \A i \in DOMAIN outbox' : outbox'[i].event = "delete" =>
            outbox'[i].path = p /\ \E d \in ToSet(L) : d.type = "delete"
  BY VisitMakes DEF TypeInv
<1>3. /\ ToSet(L) \subseteq Waiting /\ \A d \in ToSet(L) : d \in Events /\ d.path = p
      /\ e \in ToSet(L)
  BY <1>0, <1>2, ListTyped DEF TypeInv
<1>4. LastAdds(p, L, e)
  BY <1>0, <1>1, VisitLast DEF TypeInv
<1> HIDE DEF L
<1>5. Newest(p, e)
  BY <1>0, <1>1 DEF Newest, L
<1>6. Good(p) /\ e \in Waiting
  BY <1>1, <1>3 DEF Drains
<1>7. e.type \in {"closeWrite", "movedTo"}
  BY <1>5, <1>6 DEF FilesInv, Held
<1>8. ASSUME NEW type \in {"modify", "move"}, NEW out \in Seq(Update), outbox' = Append(out, FileUpdate(type, p))
      PROVE  EndsPresent(outbox', p)
  <2>1. FileUpdate(type, p) \in Update /\ FileUpdate(type, p).path = p /\ FileUpdate(type, p).event # "delete"
    BY DEF FileUpdate, Update, FileEvents
  <2> QED BY <1>8, <2>1, AppendReports
<1>9. CASE e.type = "closeWrite"
  BY <1>4, <1>8, <1>9 DEF LastAdds, Reported
<1>10. CASE e.type = "movedTo"
  <2>1. CASE \E out \in Seq(Update) : outbox' = Append(out, FileUpdate("move", p))
    BY <1>8, <2>1 DEF Reported
  <2>2. CASE e.cookie \in Cookies /\ moveCaches'[e.cookie] = [event |-> e, armed |-> TRUE]
    <3>1. CachedHalf("movedTo", p, e.cookie)'
      BY <1>3, <1>10, <2>2 DEF CachedHalf
    <3>2. ~ \E d \in ToSet(L) : d.type = "delete"
      BY <1>3, <1>5, <1>6, <1>10 DEF RacesInv
    <3>3. NoDelete(outbox', p)
      BY <1>2, <3>2 DEF NoDelete
    <3> QED BY <2>2, <3>1, <3>3 DEF Reported
  <2> QED BY <1>4, <1>10, <2>1, <2>2 DEF LastAdds
<1> QED BY <1>7, <1>9, <1>10

LEMMA VisitedRemoved ==
    ASSUME FilesInv, TypeInv, TypeInv', PlacesInv, CookiesInv, OnceInv, UNCHANGED storageVars,
           NEW p \in Paths, DispatchVisits(p), NEW o \in Objects, Good(p)', disk[p] = Absent, o \notin strayed,
           ~Undelivered(p)', Slot(p, o) \/ (mappings[o] = p /\ ~Creating(o))
    PROVE  Removed(p, o)'
<1> DEFINE L == syncMap[p]
<1>0. PICK e : e = Last(L)
  OBVIOUS
<1>1. /\ Drains /\ Unvisited(p) /\ ~Queued(p) /\ ~Loaded(p) /\ ~CancelsDelete(L)
  BY VisitDrains DEF TypeInv, Undelivered
<1>2. p \in Stored
  BY VisitMakes DEF TypeInv
<1>3. /\ ToSet(L) \subseteq Waiting /\ \A d \in ToSet(L) : d \in Events /\ d.path = p
      /\ e \in ToSet(L) /\ Len(L) \in Nat /\ \A i \in DOMAIN L : L[i] \in ToSet(L)
      /\ L \in Seq(Events)
  BY <1>0, <1>2, ListTyped DEF TypeInv
<1>4. LastAdds(p, L, e)
  BY <1>0, <1>1, VisitLast DEF TypeInv
<1>5. e.type = "movedFrom" => e \notin Cached /\ \A i \in DOMAIN L : L[i] = e => i = Len(L)
  BY <1>0, <1>1 DEF OnceInv
<1> HIDE DEF L
<1>6. Newest(p, e)
  BY <1>0, <1>1 DEF Newest, L
<1>7. Good(p) /\ e \in Waiting /\ e.path = p /\ e \in Events
  BY <1>1, <1>3 DEF Drains
<1>8. Removes(e, p, o)
  BY <1>6, <1>7 DEF FilesInv, Gone
<1>9. owner' = owner
  BY DEF storageVars
<1>10. CASE e.type = "delete"
  <2>1. FileUpdate("delete", p) \in ToSet(outbox')
    BY <1>4, <1>10 DEF LastAdds
  <2>2. Takes(FileUpdate("delete", p), p, o)'
    BY DEF Takes, FileUpdate
  <2> QED BY <2>1, <2>2 DEF Removed
<1>11. CASE e.type = "movedFrom" /\ RenameTakes(e.cookie, p, o)
  <2>1. RenameTakes(e.cookie, p, o)'
    BY <1>1, <1>9, <1>11 DEF RenameTakes, Drains
  <2>2. CASE e.cookie \in Cookies /\ moveCaches'[e.cookie] = [event |-> e, armed |-> TRUE]
    <3>1. CachedHalf("movedFrom", p, e.cookie)'
      BY <1>7, <1>11, <2>2 DEF CachedHalf
    <3> QED BY <2>1, <2>2, <3>1 DEF Removed
  <2>3. ASSUME NEW g \in Halves, g \in Cached \/ \E i \in 1..(Len(L) - 1) : g = L[i],
               g.cookie = e.cookie, FileUpdate("move", g.path) \in ToSet(outbox')
        PROVE  Removed(p, o)'
    <3>1. g \in Waiting /\ g # e
      <4>1. WaitingFacts
        BY WaitingIs DEF TypeInv
      <4>2. \A i \in 1..(Len(L) - 1) : i \in DOMAIN L /\ i # Len(L)
        BY <1>3
      <4> QED BY <1>3, <1>5, <1>11, <2>3, <4>1, <4>2 DEF WaitingFacts
    <3>2. g \in Events /\ g.type \in {"movedFrom", "movedTo"} /\ g.path \in Paths
      BY EventTyped DEF Halves
    <3>3. CASE g.type = "movedTo"
      <4>1. g.path # p /\ owner[g.path] = o
        BY <1>11, <2>3, <3>1, <3>3 DEF RenameTakes
      <4>2. Takes(FileUpdate("move", g.path), p, o)'
        BY <1>9, <3>2, <4>1 DEF Takes, FileUpdate
      <4> QED BY <2>3, <4>2 DEF Removed
    <3>4. CASE g.type = "movedFrom"
      <4>1. e \in Halves
        BY <1>7, <1>11, EventTyped
      <4>2. g.path = p
        BY <1>7, <1>11, <2>3, <3>1, <3>4, <4>1 DEF CookiesInv
      <4>3. g = e
        BY <1>7, <1>11, <2>3, <3>2, <3>4, <4>2 DEF Events, Event
      <4> QED BY <3>1, <4>3
    <3> QED BY <3>2, <3>3, <3>4
  <2> QED BY <1>4, <1>11, <2>2, <2>3 DEF LastAdds
<1> QED BY <1>8, <1>10, <1>11 DEF Removes

\* The other files: their halves of renames may meet what p has.
LEMMA VisitOthers ==
    ASSUME FilesInv, TypeInv, TypeInv', PlacesInv, CookiesInv, UNCHANGED storageVars,
           NEW p \in Paths, DispatchVisits(p), NEW r \in Paths \ {p}, NEW o \in Objects
    PROVE  /\ Reported(r, o) => Reported(r, o)'
           /\ Settled(r, o) => Settled(r, o)'
           /\ Removed(r, o) => Removed(r, o)'
<1>1. /\ Drains /\ updates' = updates /\ incomplete' = incomplete
  BY VisitDrains DEF TypeInv, DispatchVisits
<1>2. /\ p \in Stored /\ outbox = <<>> /\ outbox' \in Seq(Update)
      /\ \A i \in DOMAIN outbox' : outbox'[i].event = "delete" => outbox'[i].path = p
      /\ \A c \in Cookies : moveCaches[c].armed /\ moveCaches[c].event.path # p =>
            Kept(c, p, syncMap[p], [out |-> outbox', caches |-> moveCaches'])
  BY VisitMakes DEF TypeInv
<1>3. UNCHANGED <<disk, strayed, update, mappings, client, owner, toScan, view, unheard>>
  BY DEF storageVars
<1>4. /\ Slot(r, o)' <=> Slot(r, o)
      /\ \A q : Slot(q, o)' <=> Slot(q, o)
      /\ \A type : SendsHalf(type, r)' <=> SendsHalf(type, r)
  BY <1>1, <1>3 DEF Slot, SendsHalf
<1>5. NoDelete(outbox', r) /\ NoDelete(outbox, r) /\ ~EndsPresent(outbox, r)
  BY <1>2 DEF NoDelete, EndsPresent
<1>6. ToSet(syncMap[p]) \subseteq Waiting /\ \A d \in ToSet(syncMap[p]) : d.path = p /\ d \in Events
  BY <1>2, ListTyped DEF TypeInv
<1>7. ASSUME NEW c \in Cookies, NEW type, CachedHalf(type, r, c)
      PROVE  \/ CachedHalf(type, r, c)'
             \/ \E e \in ToSet(syncMap[p]) \cap Halves :
                    /\ e.cookie = c /\ e.type # type
                    /\ FileUpdate("move", IF e.type = "movedTo" THEN p ELSE r) \in ToSet(outbox')
  <2>1. Kept(c, p, syncMap[p], [out |-> outbox', caches |-> moveCaches']) /\ moveCaches[c].event.type = type
        /\ moveCaches[c].event.path = r
    BY <1>2, <1>7 DEF CachedHalf
  <2>2. CASE moveCaches'[c] = moveCaches[c]
    BY <1>7, <2>2 DEF CachedHalf
  <2> QED BY <2>1, <2>2 DEF Kept
<1>8. ASSUME NEW c \in Cookies, CachedHalf("movedTo", r, c)
      PROVE  CachedHalf("movedTo", r, c)' \/ EndsPresent(outbox', r)
  <2>1. ASSUME NEW e \in ToSet(syncMap[p]) \cap Halves, e.type # "movedTo",
               FileUpdate("move", IF e.type = "movedTo" THEN p ELSE r) \in ToSet(outbox')
        PROVE  EndsPresent(outbox', r)
    <3>1. PICK k \in DOMAIN outbox' : outbox'[k] = FileUpdate("move", r)
      BY <2>1 DEF ToSet
    <3>2. outbox'[k].path = r
      BY <3>1 DEF FileUpdate
    <3> QED BY <1>5, <3>2 DEF EndsPresent, NoDelete
  <2> QED BY <1>7, <1>8, <2>1
<1>9. ASSUME NEW c \in Cookies, CachedHalf("movedFrom", r, c), RenameTakes(c, r, o)
      PROVE  \/ CachedHalf("movedFrom", r, c)' /\ RenameTakes(c, r, o)'
             \/ \E u \in ToSet(outbox') : Takes(u, r, o)'
  <2>1. RenameTakes(c, r, o)'
    BY <1>1, <1>3, <1>9 DEF RenameTakes, Drains
  <2>2. ASSUME NEW e \in ToSet(syncMap[p]) \cap Halves, e.cookie = c, e.type # "movedFrom",
               FileUpdate("move", IF e.type = "movedTo" THEN p ELSE r) \in ToSet(outbox')
        PROVE  \E u \in ToSet(outbox') : Takes(u, r, o)'
    <3>1. e.type = "movedTo" /\ e.path = p /\ e \in Waiting
      <4>1. e \in Events /\ e.path = p /\ e \in Waiting
        BY <1>6
      <4> QED BY <2>2, <4>1, EventTyped
    <3>2. owner[p] = o
      BY <1>9, <2>2, <3>1 DEF RenameTakes
    <3>3. Takes(FileUpdate("move", p), r, o)'
      BY <1>3, <3>2 DEF Takes, FileUpdate
    <3> QED BY <2>2, <3>1, <3>3
  <2> QED BY <1>7, <1>9, <2>1, <2>2
<1>10. Reported(r, o) => Reported(r, o)'
  BY <1>1, <1>4, <1>5, <1>8 DEF Reported
<1>11. Settled(r, o) => Settled(r, o)'
  BY <1>1, <1>3, <1>4, <1>5 DEF Settled, Known
<1>12. ASSUME Removed(r, o) PROVE Removed(r, o)'
  <2>1. ToSet(outbox) = {}
    BY <1>2 DEF ToSet
  <2>2. CASE \E u \in ToSet(updates) : Takes(u, r, o)
    <3>1. \E u \in ToSet(updates') : Takes(u, r, o)'
      BY <1>1, <1>3, <2>2 DEF Takes
    <3> QED BY <3>1 DEF Removed
  <2>3. CASE \E c \in Cookies : CachedHalf("movedFrom", r, c) /\ RenameTakes(c, r, o)
    BY <1>9, <2>3 DEF Removed
  <2>4. CASE SendsHalf("movedFrom", r)
    BY <1>4, <2>4 DEF Removed
  <2>5. CASE \/ update.event = "delete" /\ update.path = r
             \/ update.event = "move" /\ update.path # r /\ update.content = o
    BY <1>3, <2>5 DEF Removed
  <2> QED BY <1>12, <2>1, <2>2, <2>3, <2>4, <2>5 DEF Removed
<1> QED BY <1>10, <1>11, <1>12

LEMMA VisitFiles ==
    ASSUME FilesInv, TypeInv, TypeInv', QueuesInv, UNCHANGED storageVars, NEW p \in Paths, DispatchVisits(p)
    PROVE  FilesInv'
<1>1. /\ Drains
      /\ \A q \in Paths \ {p} : Undelivered(q)' <=> Undelivered(q)
  BY VisitDrains DEF TypeInv, QueuesInv, Undelivered
<1>2. UNCHANGED <<disk, strayed, update, mappings, client, owner, toScan, view, unheard>>
  BY DEF storageVars
<1>3. StillReported'
  <2> SUFFICES ASSUME NEW q \in Paths, NEW o \in Objects, Good(q)', disk[q] = o, ~Undelivered(q)'
               PROVE  (Reported(q, o) \/ Settled(q, o))'
    BY <1>2 DEF StillReported
  <2>1. CASE q = p
    BY <2>1, VisitedReported DEF QueuesInv
  <2>2. CASE q # p
    <3>1. Reported(q, o) \/ Settled(q, o)
      BY <1>1, <2>2 DEF FilesInv, Held, Drains
    <3> QED BY <2>2, <3>1, VisitOthers DEF QueuesInv
  <2> QED BY <2>1, <2>2
<1>4. StillRemoved'
  <2> SUFFICES ASSUME NEW q \in Paths, NEW o \in Objects, Good(q)', disk[q] = Absent, o \notin strayed,
                      ~Undelivered(q)', Slot(q, o) \/ (mappings[o] = q /\ ~Creating(o))
               PROVE  Removed(q, o)'
    BY <1>2 DEF StillRemoved, Slot, Creating
  <2>1. CASE q = p
    BY <2>1, VisitedRemoved DEF QueuesInv
  <2>2. CASE q # p
    <3>1. Removed(q, o)
      BY <1>1, <2>2 DEF FilesInv, Gone, Drains
    <3> QED BY <2>2, <3>1, VisitOthers DEF QueuesInv
  <2> QED BY <2>1, <2>2
<1> QED BY <1>1, <1>3, <1>4, FilesDrain

LEMMA WatcherFiles ==
    ASSUME FilesInv, TypeInv, TypeInv', QueuesInv, BatchInv, closing = "open", panicked' = "no",
           WatcherSteps, UNCHANGED storageVars
    PROVE  FilesInv'
<1> USE DEF QueuesInv
<1>1. CASE MonitorSkips \/ MonitorLoads \/ MonitorStores
  <2>1. /\ UNCHANGED <<outbox, updates, moveCaches, incomplete>>
        /\ \A p \in Paths : ~DispatchVisits(p)
    <3>1. UNCHANGED <<outbox, updates, moveCaches, incomplete>>
      BY <1>1 DEF MonitorSkips, MonitorLoads, MonitorStores
    <3>2. toVisit' = toVisit
      BY <1>1 DEF MonitorSkips, MonitorLoads, MonitorStores, Store, batchVars
    <3> QED BY <3>1, <3>2 DEF DispatchVisits, Visit
  <2> QED BY <2>1, MonitorFiles
<1>2. CASE DispatchBegins \/ DispatchResets
  <2>1. /\ UNCHANGED <<outbox, updates, moveCaches, incomplete>>
        /\ \A p \in Paths : ~DispatchVisits(p)
    BY <1>2 DEF DispatchBegins, DispatchResets, DispatchVisits
  <2> QED BY <2>1, MonitorFiles
<1>3. CASE DispatchSends
  BY <1>3, SendsFiles
<1>4. ASSUME NEW p \in Paths, DispatchVisits(p) PROVE FilesInv'
  BY <1>4, VisitFiles
<1>5. CASE BatchTimerFires
  <2>1. /\ UNCHANGED <<outbox, updates, moveCaches, incomplete>>
        /\ \A p \in Paths : ~DispatchVisits(p)
    BY <1>5 DEF BatchTimerFires, TimerFires, watcherVars, DispatchVisits, Visit
  <2> QED BY <2>1, MonitorFiles
<1>6. ASSUME NEW c \in Cookies, MoveTimerFires(c) PROVE FilesInv'
  BY <1>6, MoveTimerFiles
<1>7. ASSUME NEW n \in DOMAIN incomplete, IncompleteSends(n) \/ IncompleteForgets(n) PROVE FilesInv'
  BY <1>7, HalfFiles, ForgetsFiles
<1> QED BY <1>1, <1>2, <1>3, <1>4, <1>5, <1>6, <1>7, NoneEnds DEF TimerSteps

-----------------------------------------------------------------------------
(***************************************************************************)
(* An event comes in: it is the newest of its file.                        *)
(***************************************************************************)
Notified(new) ==
    /\ Waiting' \subseteq Waiting \cup ToSet(new)
    /\ \A p \in Paths : (\A e \in ToSet(new) : e.path # p) =>
            /\ Undelivered(p)' <=> Undelivered(p)
            /\ \A e : Newest(p, e)' <=> Newest(p, e)
    /\ \A e \in ToSet(new) : Good(e.path)' =>
            /\ Undelivered(e.path)' /\ \A f : Newest(e.path, f)' => f = e
            /\ \A f \in Waiting : f.path = e.path =>
                    f.type # "movedFrom" /\ ~(f.type = "delete" /\ e.type = "movedTo")
    /\ \A p \in Paths : Good(p)' => Good(p)

LEMMA NotifyMakes ==
    ASSUME PipelineTypeOK, PipelineTypeOK', closing = "open", NEW new \in Seq(Events), Notify(new),
           UNCHANGED <<monitor, syncMap, visited, moveCaches, incomplete, nameless>>,
           replaced \subseteq replaced',
           \A i, j \in DOMAIN new : new[i].path = new[j].path => i = j
    PROVE  Notified(new)
<1>1. /\ WaitingFacts /\ WaitingFacts' /\ events \in Seq(Events)
      /\ Cached' = Cached /\ Stored' = Stored
  BY WaitingIs, WaitingIsNext DEF Cached, Stored, PipelineTypeOK
<1>2. /\ DOMAIN new = 1..Len(new) /\ Len(new) \in Nat /\ ToSet(new) = {new[i] : i \in DOMAIN new}
      /\ DOMAIN events = 1..Len(events) /\ Len(events) \in Nat
      /\ \A e \in ToSet(new) : e.path \in Paths
  <2>1. ToSet(new) \subseteq Events
    BY InSeq
  <2> QED BY <1>1, <2>1, InSeq, EventTyped
<1>3. /\ \A p : Loaded(p)' <=> Loaded(p)
      /\ \A p : Unvisited(p)' <=> Unvisited(p)
  BY DEF Loaded, Unvisited
<1>4. /\ missed \subseteq missed' /\ raced \subseteq raced'
      /\ \A e \in ToSet(new) : Races(e) => e.path \in raced'
  BY DEF Notify
<1>5. \A p \in Paths : Good(p)' => Good(p)
  BY <1>4 DEF Good
<1>6. ASSUME NEW e \in ToSet(new), Good(e.path)', NEW f \in Waiting, f.path = e.path
      PROVE  f.type # "movedFrom" /\ ~(f.type = "delete" /\ e.type = "movedTo")
  <2>1. ~Races(e)
    BY <1>4, <1>6 DEF Good
  <2> QED BY <1>6, <2>1 DEF Races, Waiting
<1>7. PICK sent \in Seq(Events) :
          /\ events' = events \o sent
          /\ ToSet(sent) \subseteq ToSet(new)
          /\ \A e \in ToSet(new) : e \in ToSet(sent) \/ e.path \in missed'
          /\ sent = new \/ DOMAIN sent \subseteq {1}
  BY NotifySends
<1>8. /\ DOMAIN sent = 1..Len(sent) /\ Len(sent) \in Nat /\ ToSet(sent) = {sent[i] : i \in DOMAIN sent}
      /\ \A i, j \in DOMAIN sent : sent[i].path = sent[j].path => i = j
  <2>1. /\ DOMAIN sent = 1..Len(sent) /\ Len(sent) \in Nat
        /\ ToSet(sent) = {sent[i] : i \in DOMAIN sent}
    BY InSeq
  <2> QED BY <1>7, <2>1
<1>9. /\ DOMAIN events' = 1..(Len(events) + Len(sent))
      /\ \A i \in 1..Len(events) : events'[i] = events[i]
      /\ \A i \in 1..Len(sent) : events'[Len(events) + i] = sent[i]
      /\ \A i \in DOMAIN events' : i \in 1..Len(events) \/ \E j \in 1..Len(sent) : i = Len(events) + j
      /\ ToSet(events') = ToSet(events) \cup ToSet(sent)
  <2> DEFINE t == events \o sent
  <2>1. /\ DOMAIN t = 1..(Len(events) + Len(sent))
        /\ \A i \in 1..Len(events) : t[i] = events[i]
        /\ \A i \in 1..Len(sent) : t[Len(events) + i] = sent[i]
        /\ \A i \in DOMAIN t : i \in 1..Len(events) \/ \E j \in 1..Len(sent) : i = Len(events) + j
        /\ ToSet(t) = ToSet(events) \cup ToSet(sent)
    <3>1. events \in Seq(Events) /\ sent \in Seq(Events)
      BY <1>1
    <3> QED BY ONLY <3>1, ConcatOf
  <2> QED BY <1>7, <2>1
<1>10. /\ \A i \in 1..Len(events) : i \in DOMAIN events'
       /\ \A i \in 1..Len(sent) : Len(events) + i \in DOMAIN events' /\ ~(Len(events) + i <= Len(events))
       /\ \A i \in 1..Len(events) : i <= Len(events)
  BY <1>2, <1>8, <1>9
<1>11. Waiting' \subseteq Waiting \cup ToSet(new)
  BY <1>1, <1>7, <1>9 DEF WaitingFacts
<1>12. ASSUME NEW p \in Paths, \A e \in ToSet(new) : e.path # p
       PROVE  /\ Undelivered(p)' <=> Undelivered(p)
              /\ \A e : Newest(p, e)' <=> Newest(p, e)
  <2>1. ASSUME NEW i \in DOMAIN events', events'[i].path = p
        PROVE  i \in 1..Len(events) /\ events'[i] = events[i]
    <3>1. \A j \in 1..Len(sent) : sent[j] \in ToSet(new)
      BY <1>7, <1>8
    <3>2. \A j \in 1..Len(sent) : events'[Len(events) + j].path # p
      BY <1>9, <1>12, <3>1
    <3> QED BY <1>9, <2>1, <3>2
  <2>2. Queued(p)' <=> Queued(p)
    BY <1>2, <1>8, <1>9, <1>10, <2>1 DEF Queued
  <2>3. \A e : NewestIn(events, p, e)' <=> NewestIn(events, p, e)
    <3>1. \A e : NewestIn(events', p, e) <=> NewestIn(events, p, e)
      BY <1>2, <1>8, <1>9, <1>10, <2>1 DEF NewestIn
    <3> QED BY <3>1
  <2> QED BY <1>3, <2>2, <2>3 DEF Undelivered, Newest
<1>13. ASSUME NEW e \in ToSet(new), Good(e.path)'
       PROVE  Undelivered(e.path)' /\ \A f : Newest(e.path, f)' => f = e
  <2>1. PICK k \in 1..Len(sent) : sent[k] = e
    <3>1. e \in ToSet(sent)
      BY <1>7, <1>13 DEF Good
    <3> QED BY <1>8, <3>1
  <2>2. Len(events) + k \in DOMAIN events' /\ events'[Len(events) + k] = e
    BY <1>9, <1>10, <2>1
  <2>3. Queued(e.path)'
    BY <2>2 DEF Queued
  <2>4. ASSUME NEW f, NewestIn(events', e.path, f) PROVE f = e
    <3>1. PICK i \in DOMAIN events' : /\ events'[i] = f /\ f.path = e.path
                                      /\ \A j \in DOMAIN events' : events'[j].path = e.path => j <= i
      BY <2>4 DEF NewestIn
    <3>2. Len(events) + k <= i
      BY <2>2, <3>1
    <3>3. i \notin 1..Len(events)
      BY <1>2, <2>1, <3>2
    <3>4. PICK j \in 1..Len(sent) : i = Len(events) + j
      BY <1>9, <3>1, <3>3
    <3>5. sent[j] = f /\ sent[j].path = sent[k].path
      BY <1>9, <2>1, <3>1, <3>4
    <3> QED BY <1>8, <2>1, <3>5
  <2> QED BY <2>3, <2>4 DEF Undelivered, Newest
<1> QED BY <1>5, <1>6, <1>11, <1>12, <1>13 DEF Notified

\* The cookie of a rename is fresh.
Fresh(new) ==
    /\ \A i, j \in DOMAIN new : new[i].path = new[j].path \/ new[i].type = new[j].type => i = j
    /\ \A e \in ToSet(new) : e \in Halves => e.cookie = ops + 1 /\ ops' = ops + 1

LEMMA NotifyPlaces ==
    ASSUME PlacesInv, UNCHANGED <<dispatcher, visited, syncMap, monitor, toVisit, moveCaches, toScan, update>>
    PROVE  PlacesInv'
BY PlacesKept DEF PlacesInv, CachesCookies

LEMMA NotifyQueues ==
    ASSUME TypeInv, TypeInv', QueuesInv, closing = "open", NEW new \in Seq(Events), Notify(new), Notified(new),
           Fresh(new), ops' \in {ops, ops + 1},
           UNCHANGED <<dispatcher, visited, syncMap, monitor, toVisit, moveCaches, toScan, update, incomplete>>,
           \A p \in Paths : disk'[p] \in Objects \cup Junk =>
                disk[p] \in Objects \cup Junk \/ \E e \in ToSet(new) : e.path = p,
           \A e \in ToSet(new) : e.type = "movedFrom" => disk'[e.path] = Absent
    PROVE  QueuesInv'
<1>1. PlacesInv'
  BY NotifyPlaces DEF QueuesInv
<1>2. /\ WaitingFacts /\ WaitingFacts' /\ events \in Seq(Events) /\ ops \in Nat
      /\ Cached' = Cached /\ Stored' = Stored
  BY WaitingIs, WaitingIsNext DEF TypeInv, PipelineTypeOK, FilesTypeOK, Cached, Stored
<1>3. /\ ToSet(new) = {new[i] : i \in DOMAIN new} /\ ToSet(new) \subseteq Events
      /\ DOMAIN new = 1..Len(new) /\ Len(new) \in Nat
      /\ \A e \in ToSet(new) : e.path \in Paths
  <2>1. ToSet(new) = {new[i] : i \in DOMAIN new} /\ ToSet(new) \subseteq Events
        /\ DOMAIN new = 1..Len(new) /\ Len(new) \in Nat
    BY InSeq
  <2> QED BY <2>1, EventTyped
<1>4. /\ \A e, f \in ToSet(new) : e.path = f.path \/ e.type = f.type => e = f
      /\ \A e \in ToSet(new) \cap Halves : e.cookie = ops + 1 /\ ops' = ops + 1
  BY <1>3 DEF Fresh
<1>5. \A e \in Waiting \cap Halves : e.cookie \in 1..ops /\ e.cookie # ops + 1
  BY <1>2 DEF QueuesInv, CookiesInv
<1>6. Waiting' \subseteq Waiting \cup ToSet(new)
  BY DEF Notified
<1>7. CookiesInv'
  <2>1. \A n \in 1..ops : n \in 1..ops'
    BY <1>2
  <2>2. ASSUME NEW e \in Waiting' \cap Halves PROVE e.cookie \in 1..ops'
    <3>1. CASE e \in Waiting
      BY <1>5, <2>1, <2>2, <3>1
    <3>2. CASE e \in ToSet(new)
      BY <1>2, <1>4, <2>2, <3>2
    <3> QED BY <1>6, <2>2, <3>1, <3>2
  <2>3. ASSUME NEW e \in Waiting' \cap Halves, NEW f \in Waiting' \cap Halves, e.cookie = f.cookie, e.type = f.type
        PROVE  e.path = f.path
    <3>1. (e \in Waiting /\ f \in Waiting) \/ (e \in ToSet(new) /\ f \in ToSet(new))
      BY <1>4, <1>5, <1>6, <2>3
    <3> QED BY <1>4, <2>3, <3>1 DEF QueuesInv, CookiesInv
  <2>4. CookiesInv' <=> \A e \in Waiting' \cap Halves :
            /\ e.cookie \in 1..ops'
            /\ \A f \in Waiting' \cap Halves : e.cookie = f.cookie /\ e.type = f.type => e.path = f.path
    BY DEF CookiesInv
  <2> QED BY <2>2, <2>3, <2>4
<1>8. RacesInv'
  <2> SUFFICES ASSUME NEW p \in Paths, Good(p)', NEW f \in Waiting', f.path = p
               PROVE  /\ f.type = "movedFrom" =>
                            disk'[p] \in {Absent, Torn} /\ \A e \in Waiting' : Newest(p, e)' => e = f
                      /\ f.type = "delete" => \A e \in Waiting' : Newest(p, e)' => e.type # "movedTo"
    BY DEF RacesInv
  <2>1. disk'[p] \in Contents \cup {Absent, Torn} /\ disk[p] \in Contents \cup {Absent, Torn}
        /\ {Absent, Torn} \cap Contents = {}
    BY WatchStorageAssumption DEF TypeInv, FilesTypeOK, Contents
  <2>2. CASE \A e \in ToSet(new) : e.path # p
    <3>1. f \in Waiting /\ Good(p) /\ \A e : Newest(p, e)' <=> Newest(p, e)
      BY <1>6, <2>2 DEF Notified
    <3>2. f.type = "movedFrom" => disk[p] \in {Absent, Torn}
      BY <3>1 DEF QueuesInv, RacesInv
    <3>3. f.type = "movedFrom" => disk'[p] \in {Absent, Torn}
      BY <2>1, <2>2, <3>2 DEF Contents
    <3>4. \A e \in Waiting' : Newest(p, e)' => e \in Waiting /\ Newest(p, e)
      <4>1. NewestFacts
        BY NewestWaits DEF TypeInv, QueuesInv
      <4> QED BY <3>1, <4>1 DEF NewestFacts
    <3> QED BY <3>1, <3>3, <3>4 DEF QueuesInv, RacesInv
  <2>3. ASSUME NEW e \in ToSet(new), e.path = p
        PROVE  /\ f.type = "movedFrom" =>
                     disk'[p] \in {Absent, Torn} /\ \A g \in Waiting' : Newest(p, g)' => g = f
               /\ f.type = "delete" => \A g \in Waiting' : Newest(p, g)' => g.type # "movedTo"
    <3>1. \A g : Newest(p, g)' => g = e
      <4>1. Good(e.path)'
        BY <2>3
      <4>2. \A g : Newest(e.path, g)' => g = e
        BY <4>1 DEF Notified
      <4> QED BY <2>3, <4>2
    <3>2. CASE f \in Waiting
      <4>1. f.type # "movedFrom" /\ ~(f.type = "delete" /\ e.type = "movedTo")
        BY <2>3, <3>2 DEF Notified
      <4> QED BY <3>1, <4>1
    <3>3. CASE f \in ToSet(new)
      <4>1. f = e
        BY <1>4, <2>3, <3>3
      <4> QED BY <3>1, <2>3, <4>1
    <3> QED BY <1>6, <3>2, <3>3
  <2> QED BY <2>2, <2>3
<1>9. QueuedOnce'
  <2>1. OnceInv /\ QueuedOnce
    BY OnceParts DEF QueuesInv
  <2>2. PICK sent \in Seq(Events) :
            /\ events' = events \o sent
            /\ ToSet(sent) \subseteq ToSet(new)
            /\ sent = new \/ DOMAIN sent \subseteq {1}
    BY NotifySends
  <2>3. /\ DOMAIN sent = 1..Len(sent) /\ Len(sent) \in Nat /\ ToSet(sent) = {sent[i] : i \in DOMAIN sent}
        /\ \A i, j \in DOMAIN sent : sent[i].path = sent[j].path => i = j
    <3>1. /\ DOMAIN sent = 1..Len(sent) /\ Len(sent) \in Nat
          /\ ToSet(sent) = {sent[i] : i \in DOMAIN sent}
      BY InSeq
    <3> QED BY <2>2, <3>1 DEF Fresh
  <2>4. /\ DOMAIN events = 1..Len(events) /\ Len(events) \in Nat
        /\ \A i \in 1..Len(events) : events'[i] = events[i]
        /\ \A i \in 1..Len(sent) : events'[Len(events) + i] = sent[i]
        /\ \A i \in DOMAIN events' : i \in 1..Len(events) \/ \E j \in 1..Len(sent) : i = Len(events) + j
        /\ ToSet(events') = ToSet(events) \cup ToSet(sent)
    <3> DEFINE t == events \o sent
    <3>1. /\ \A i \in 1..Len(events) : t[i] = events[i]
          /\ \A i \in 1..Len(sent) : t[Len(events) + i] = sent[i]
          /\ \A i \in DOMAIN t : i \in 1..Len(events) \/ \E j \in 1..Len(sent) : i = Len(events) + j
          /\ ToSet(t) = ToSet(events) \cup ToSet(sent)
      <4>1. events \in Seq(Events) /\ sent \in Seq(Events)
        BY <1>2
      <4> QED BY ONLY <4>1, ConcatOf
    <3> QED BY <1>2, <2>2, <3>1, InSeq
  <2>5. ToSet(events) = {events[i] : i \in 1..Len(events)} /\ ToSet(events) \subseteq Waiting
    BY <1>2, <2>4 DEF WaitingFacts, ToSet
  <2>6. ASSUME NEW f \in ToSet(new), f.type = "movedFrom"
        PROVE  f \notin Waiting
    <3>1. f \in Halves
      BY <1>3, <2>6, EventTyped
    <3> QED BY <1>4, <1>5, <3>1
  <2>7. ASSUME NEW i \in DOMAIN events', NEW j \in DOMAIN events', events'[i].type = "movedFrom",
               events'[i] = events'[j]
        PROVE  i = j
    <3>1. CASE i \in 1..Len(events) /\ j \in 1..Len(events)
      BY <2>1, <2>4, <2>7, <3>1 DEF QueuedOnce
    <3>2. ASSUME NEW k \in 1..Len(sent), NEW m \in 1..Len(sent), i = Len(events) + k, j = Len(events) + m
          PROVE  i = j
      <4>1. sent[k] = sent[m]
        BY <2>4, <2>7, <3>2
      <4> QED BY <2>3, <3>2, <4>1
    <3>3. ASSUME NEW k \in 1..Len(events), NEW m \in 1..Len(sent), events'[Len(events) + m] = events'[k],
                 events'[k].type = "movedFrom"
          PROVE  FALSE
      <4>1. events[k] = sent[m] /\ events[k] \in Waiting /\ sent[m] \in ToSet(new)
        BY <2>2, <2>3, <2>4, <2>5, <3>3
      <4> QED BY <2>4, <2>6, <3>3, <4>1
    <3> QED BY <2>4, <2>7, <3>1, <3>2, <3>3
  <2>8. ASSUME NEW f \in ToSet(events'), f.type = "movedFrom"
        PROVE  /\ f \notin ToSet(monitor) \cup Cached
               /\ syncMap[f.path] # NoValue => f \notin ToSet(syncMap[f.path])
    <3>1. CASE f \in ToSet(events)
      BY <2>1, <2>8, <3>1 DEF QueuedOnce
    <3>2. CASE f \in ToSet(new)
      <4>1. f \notin Waiting /\ f.path \in Paths
        BY <1>3, <2>6, <2>8, <3>2
      <4> QED BY <1>2, <4>1 DEF WaitingFacts, Stored
    <3> QED BY <2>2, <2>4, <2>8, <3>1, <3>2
  <2> QED BY <1>2, <2>7, <2>8 DEF QueuedOnce
<1>10. LoadedOnce' /\ StoredOnce'
  <2>1. OnceInv /\ LoadedOnce /\ StoredOnce
    BY OnceParts DEF QueuesInv
  <2> QED BY <1>2, <2>1 DEF LoadedOnce, StoredOnce, Unvisited
<1> QED BY <1>1, <1>7, <1>8, <1>9, <1>10, OncePartsNext DEF QueuesInv

-----------------------------------------------------------------------------
(***************************************************************************)
(* The watch storage keeps both.                                           *)
(***************************************************************************)
LEMMA StillDrains ==
    ASSUME PipelineTypeOK, PipelineTypeOK', UNCHANGED queues,
           UNCHANGED <<missed, raced>>, nameless \subseteq nameless', replaced \subseteq replaced'
    PROVE  /\ Drains /\ Waiting' = Waiting /\ Cached' = Cached
           /\ \A p \in Paths : (Undelivered(p)' <=> Undelivered(p)) /\ (Unvisited(p)' <=> Unvisited(p))
<1>1. /\ Waiting' = Waiting /\ Cached' = Cached
      /\ \A p \in Paths : /\ Undelivered(p)' <=> Undelivered(p)
                          /\ Unvisited(p)' <=> Unvisited(p)
                          /\ \A e : Newest(p, e)' <=> Newest(p, e)
  BY QueuesKept
<1>2. \A p \in Paths : Good(p)' => Good(p)
  BY DEF Good
<1> QED BY <1>1, <1>2 DEF Drains

LEMMA StillQueues ==
    ASSUME TypeInv, TypeInv', QueuesInv, UNCHANGED queues, UNCHANGED <<dispatcher, toVisit>>,
           UNCHANGED <<missed, raced>>, nameless \subseteq nameless', replaced \subseteq replaced',
           toScan' # {} => update' = NoUpdate, ops' \in {ops, ops + 1},
           \A p \in Paths : disk[p] \in {Absent, Torn} => disk'[p] \in {Absent, Torn}
    PROVE  QueuesInv'
<1>1. /\ Drains /\ Waiting' = Waiting /\ Cached' = Cached
      /\ \A p \in Paths : Unvisited(p)' <=> Unvisited(p)
  BY StillDrains DEF TypeInv
<1>2. PlacesInv'
  BY PlacesKept DEF QueuesInv, PlacesInv, CachesCookies, queues
<1>3. CookiesInv'
  BY <1>1, CookiesDrain DEF TypeInv, QueuesInv
<1>4. OnceInv'
  BY <1>1, OnceKept DEF QueuesInv, queues
<1>5. RacesInv'
  BY <1>1, RacesDrain DEF QueuesInv
<1> QED BY <1>2, <1>3, <1>4, <1>5 DEF QueuesInv

\* Nothing changes that FilesInv is about.
LEMMA FilesStill ==
    ASSUME FilesInv, UNCHANGED queues, UNCHANGED <<outbox, updates, missed, raced, nameless, replaced>>,
           UNCHANGED <<disk, mappings, toScan, update, client, outside, strayed, owner, view, unheard>>
    PROVE  FilesInv'
<1>1. moveCaches' = moveCaches /\ incomplete' = incomplete
  BY DEF queues
<1>2. /\ Waiting' = Waiting
      /\ \A p \in Paths : /\ Undelivered(p)' <=> Undelivered(p)
                          /\ \A e : Newest(p, e)' <=> Newest(p, e)
  BY QueuesKept
<1>3. /\ \A type, p : SendsHalf(type, p)' <=> SendsHalf(type, p)
      /\ \A type, p, c : CachedHalf(type, p, c)' <=> CachedHalf(type, p, c)
      /\ \A u, p, o : Takes(u, p, o)' <=> Takes(u, p, o)
      /\ \A p, o : Slot(p, o)' <=> Slot(p, o)
      /\ \A c, p, o : RenameTakes(c, p, o)' <=> RenameTakes(c, p, o)
      /\ \A p : Good(p)' <=> Good(p)
  BY <1>1, <1>2 DEF SendsHalf, CachedHalf, Takes, Slot, RenameTakes, Good
<1>4. \A p, o : /\ Reported(p, o)' <=> Reported(p, o)
                /\ Settled(p, o)' <=> Settled(p, o)
                /\ Removed(p, o)' <=> Removed(p, o)
                /\ \A e : Removes(e, p, o)' <=> Removes(e, p, o)
  BY <1>3 DEF Reported, Settled, Known, Removed, Removes
<1>5. OwnerInv'
  <2>1. OwnerInv /\ \A p : Mapped(p)' = Mapped(p)
    BY DEF FilesInv, Mapped
  <2> QED BY <1>3, <2>1 DEF OwnerInv, Writing
<1>6. CopiesInv'
  BY DEF FilesInv, CopiesInv, Holds
<1>7. ASSUME NEW p \in Paths, NEW o \in Objects PROVE Held(p, o)' /\ Gone(p, o)'
  <2>1. Held(p, o) /\ Gone(p, o)
    BY DEF FilesInv
  <2>2. Held(p, o)'
    BY <1>2, <1>3, <1>4, <2>1 DEF Held
  <2>3. Gone(p, o)'
    BY <1>2, <1>3, <1>4, <2>1 DEF Gone, Creating
  <2> QED BY <2>2, <2>3
<1> QED BY <1>5, <1>6, <1>7 DEF FilesInv

\* What the handling of an update has to leave.
LEMMA HandlesFiles ==
    ASSUME FilesInv, TypeInv, TypeInv', HandlesUpdate, nameless \subseteq nameless',
           \A p \in Paths : Good(p)' => Mapped(p)' \subseteq {owner[p]},
           \A p \in Paths, o \in Objects :
                /\ Good(p)' /\ disk[p] = o /\ Slot(p, o) => Known(p, o)'
                /\ Known(p, o) /\ Settled(p, o) => Known(p, o)'
                /\ mappings'[o] = p => mappings[o] = p \/ Slot(p, o)
                /\ Good(p)' /\ mappings'[o] = p =>
                        /\ ~(update.event = "delete" /\ update.path = p)
                        /\ ~(update.event = "move" /\ update.path # p /\ update.content = o)
    PROVE  FilesInv'
<1>1. /\ UNCHANGED <<outbox, updates, moveCaches, incomplete, missed, raced>> /\ UNCHANGED queues
      /\ UNCHANGED <<disk, toScan, client, outside, strayed, owner, replaced>>
      /\ update' = NoUpdate
  BY DEF HandlesUpdate, watcherVars, queues
<1>2. Drains /\ \A p \in Paths : Undelivered(p)' <=> Undelivered(p)
  BY <1>1, StillDrains DEF TypeInv
<1>3. /\ \A p, o : ~Slot(p, o)'
      /\ \A p : ~(update'.event = "delete" /\ update'.path = p)
  BY <1>1 DEF Slot, NoUpdate
<1>4. OwnerInv'
  <2>1. OwnerInv
    BY DEF FilesInv
  <2> QED BY <1>1, <2>1 DEF OwnerInv, Writing
<1>5. CopiesInv'
  BY <1>1 DEF FilesInv, CopiesInv, Holds
<1>6. /\ \A type, p : SendsHalf(type, p)' <=> SendsHalf(type, p)
      /\ \A type, p, c : CachedHalf(type, p, c)' <=> CachedHalf(type, p, c)
      /\ \A u, p, o : Takes(u, p, o)' <=> Takes(u, p, o)
  BY <1>1 DEF SendsHalf, CachedHalf, Takes
<1>7. ASSUME NEW p \in Paths, NEW o \in Objects PROVE Held(p, o)'
  <2> SUFFICES ASSUME Good(p)', disk[p] = o
               PROVE  /\ \A e \in Waiting' : Newest(p, e)' => e.type \in {"closeWrite", "movedTo"}
                      /\ ~Undelivered(p)' => Reported(p, o)' \/ Settled(p, o)'
    BY <1>1 DEF Held
  <2>1. Good(p) /\ Held(p, o)
    BY <1>2 DEF FilesInv, Drains
  <2>2. \A e \in Waiting' : Newest(p, e)' => e.type \in {"closeWrite", "movedTo"}
    BY <1>2, <2>1 DEF Held, Drains
  <2>3. ~Undelivered(p)' => Reported(p, o) \/ Settled(p, o)
    BY <1>2, <2>1 DEF Held
  <2>4. ASSUME Reported(p, o) PROVE Reported(p, o)' \/ Settled(p, o)'
    <3>1. CASE Slot(p, o) /\ NoDelete(outbox, p) /\ NoDelete(updates, p)
      <4>1. Known(p, o)'
        BY <3>1
      <4> QED BY <1>1, <1>3, <3>1, <4>1 DEF Settled
    <3> QED BY <1>1, <1>6, <2>4, <3>1 DEF Reported
  <2>5. ASSUME Settled(p, o) PROVE Reported(p, o)' \/ Settled(p, o)'
    <3>1. Known(p, o)' \/ p \in toScan
      BY <2>5 DEF Settled
    <3> QED BY <1>1, <1>3, <2>5, <3>1 DEF Settled
  <2> QED BY <2>2, <2>3, <2>4, <2>5
<1>8. ASSUME NEW p \in Paths, NEW o \in Objects PROVE Gone(p, o)'
  <2> SUFFICES ASSUME Good(p)', disk[p] = Absent, o \notin strayed, mappings'[o] = p, ~Creating(o)
               PROVE  /\ \A e \in Waiting' : Newest(p, e)' => Removes(e, p, o)'
                      /\ ~Undelivered(p)' => Removed(p, o)'
    BY <1>1, <1>3 DEF Gone, Creating
  <2>1. Good(p) /\ (Slot(p, o) \/ mappings[o] = p)
    BY <1>2 DEF Drains
  <2>2. \A c : RenameTakes(c, p, o) => RenameTakes(c, p, o)'
    BY <1>1, <1>2 DEF RenameTakes, Drains
  <2>3. /\ \A e \in Waiting : Newest(p, e) => Removes(e, p, o)
        /\ ~Undelivered(p) => Removed(p, o)
    BY <2>1 DEF FilesInv, Gone
  <2>4. \A e : Removes(e, p, o) => Removes(e, p, o)'
    BY <2>2 DEF Removes
  <2>5. \A e \in Waiting' : Newest(p, e)' => Removes(e, p, o)'
    BY <1>2, <2>1, <2>3, <2>4 DEF Drains
  <2>6. ASSUME Removed(p, o) PROVE Removed(p, o)'
    <3>1. /\ ~(update.event = "delete" /\ update.path = p)
          /\ ~(update.event = "move" /\ update.path # p /\ update.content = o)
      OBVIOUS
    <3> QED BY <1>1, <1>6, <2>2, <2>6, <3>1 DEF Removed
  <2> QED BY <1>2, <2>3, <2>5, <2>6
<1> QED BY <1>4, <1>5, <1>7, <1>8 DEF FilesInv

\* The key of an update that is not a deletion.
LEMMA HandledKey ==
    ASSUME FilesInv, TypeInv, update # NoUpdate, NEW p, p = update.path, NEW key, key = ObjectKeyFor(update.content),
           update.event # "delete"
    PROVE  /\ p \in Paths /\ key \in Keys
           /\ key # NilKey => key \in Objects /\ Slot(p, key)
           /\ key # NilKey /\ Good(p) => key = owner[p]
           /\ \A q : \A o \in Objects : Slot(q, o) <=> q = p /\ o = key
<1>1. /\ update \in [event : FileEvents, path : Paths, content : Contents \cup {Absent, Torn}]
      /\ NilKey \notin Objects
  BY WatchStorageAssumption DEF TypeInv, FilesTypeOK
<1>2. \/ key = NilKey /\ update.content \notin Objects
      \/ key = update.content /\ update.content \in Objects
  BY DEF ObjectKeyFor
<1>3. \A q, o : Slot(q, o) <=> q = p /\ o = update.content
  BY DEF Slot
<1>4. update.content \in Objects /\ Good(p) => update.content = owner[p]
  BY DEF FilesInv, OwnerInv
<1> QED BY <1>1, <1>2, <1>3, <1>4, KeyTyped

LEMMA DeleteFiles ==
    ASSUME FilesInv, TypeInv, TypeInv', HandleDelete, panicked' = "no"
    PROVE  FilesInv'
<1>1. /\ HandlesUpdate /\ update.event = "delete" /\ update # NoUpdate
      /\ missed' = missed /\ raced' = raced /\ replaced' = replaced
      /\ mappings \in [Keys -> Paths \cup {NoPath}] /\ Objects \subseteq Keys /\ NoPath \notin Paths
  BY WatchStorageAssumption DEF HandleDelete, HandlesUpdate, TypeInv, FilesTypeOK, Keys, watcherVars
<1>2. \A p, o : ~Slot(p, o)
  BY <1>1 DEF Slot
<1>3. /\ nameless' = nameless
      /\ \/ mappings' = mappings /\ Mapped(update.path) = {}
         \/ \E key \in Mapped(update.path) : mappings' = [mappings EXCEPT ![key] = NoPath]
  BY DEF HandleDelete, RemoveMapping
<1>4. \A k \in Keys, p \in Paths : mappings'[k] = p => mappings[k] = p
  <2>1. CASE mappings' = mappings
    BY <2>1
  <2>2. ASSUME NEW key \in Mapped(update.path), mappings' = [mappings EXCEPT ![key] = NoPath]
        PROVE  \A k \in Keys, p \in Paths : mappings'[k] = p => mappings[k] = p
    BY <1>1, <2>2 DEF Mapped
  <2> QED BY <1>3, <2>1, <2>2
<1>5. \A p \in Paths : (Good(p)' <=> Good(p)) /\ (Good(p) => Mapped(p) \subseteq {owner[p]})
  BY <1>1, <1>3 DEF FilesInv, OwnerInv, Good
<1>6. \A p \in Paths : Good(p)' => Mapped(p)' \subseteq {owner[p]}
  BY <1>4, <1>5 DEF Mapped
<1>7. ASSUME NEW p \in Paths, NEW o \in Objects, Known(p, o), Settled(p, o) PROVE Known(p, o)'
  <2>1. update.path # p
    BY <1>1, <1>7 DEF Settled
  <2>2. o \notin Mapped(update.path)
    BY <1>7, <2>1 DEF Mapped, Known
  <2>3. mappings'[o] = p
    BY <1>1, <1>3, <1>7, <2>2 DEF Known
  <2>4. \A x : x \in view \cup unheard /\ x \notin Mapped(update.path) => x \in view' \cup unheard'
    BY DEF HandleDelete, sendEvent
  <2> QED BY <1>7, <2>2, <2>3, <2>4 DEF Known
<1>8. ASSUME NEW p \in Paths, NEW o \in Objects, Good(p)', mappings'[o] = p PROVE update.path # p
  <2>1. SUFFICES ASSUME update.path = p PROVE FALSE
    OBVIOUS
  <2>2. o \in Mapped(p) /\ Mapped(p) \subseteq {owner[p]}
    BY <1>1, <1>4, <1>5, <1>8 DEF Mapped
  <2>3. PICK key \in Mapped(p) : mappings' = [mappings EXCEPT ![key] = NoPath]
    BY <1>3, <2>1, <2>2
  <2>4. key = o
    BY <2>2, <2>3
  <2> QED BY <1>1, <1>8, <2>3, <2>4
<1> QED BY <1>1, <1>2, <1>3, <1>4, <1>6, <1>7, <1>8, HandlesFiles

\* The mapping of the content, if there is one, is set, or it was set before.
LEMMA MapsFiles ==
    ASSUME FilesInv, TypeInv, TypeInv', HandlesUpdate, update.event # "delete",
           NEW key, key = ObjectKeyFor(update.content),
           \/ AddMapping(key, update.path)
           \/ /\ update.event # "move" /\ Mapped(update.path) # {}
              /\ UNCHANGED <<mappings, nameless>>,
           view' \cup unheard' = view \cup unheard \cup {key}
    PROVE  FilesInv'
<1>0. PICK p : p = update.path
  OBVIOUS
<1>1. /\ update # NoUpdate /\ missed' = missed /\ raced' = raced /\ replaced' = replaced
      /\ mappings \in [Keys -> Paths \cup {NoPath}] /\ Objects \subseteq Keys /\ NilKey \notin Objects
  BY WatchStorageAssumption DEF HandlesUpdate, TypeInv, FilesTypeOK, Keys, watcherVars
<1>2. /\ p \in Paths /\ key \in Keys
      /\ key # NilKey => key \in Objects /\ Slot(p, key)
      /\ key # NilKey /\ Good(p) => key = owner[p]
      /\ \A q : \A o \in Objects : Slot(q, o) <=> q = p /\ o = key
  BY <1>0, <1>1, HandledKey
<1>3. \/ /\ mappings' = [mappings EXCEPT ![key] = p]
         /\ nameless' = IF key = NilKey THEN nameless \cup {p} ELSE nameless
      \/ /\ update.event # "move" /\ Mapped(p) # {} /\ mappings' = mappings /\ nameless' = nameless
  BY <1>0 DEF AddMapping
<1>4. /\ nameless \subseteq nameless'
      /\ \A q \in Paths : Good(q)' => Good(q) /\ Mapped(q) \subseteq {owner[q]}
  BY <1>1, <1>3 DEF Good, FilesInv, OwnerInv
<1>5. ASSUME NEW q \in Paths, Good(q)' PROVE Mapped(q)' \subseteq {owner[q]}
  <2>1. CASE mappings' = mappings
    BY <1>4, <1>5, <2>1 DEF Mapped
  <2>2. CASE /\ mappings' = [mappings EXCEPT ![key] = p]
             /\ nameless' = IF key = NilKey THEN nameless \cup {p} ELSE nameless
    <3>1. \A k \in Keys : mappings'[k] = q => mappings[k] = q \/ (k = key /\ q = p)
      BY <1>1, <2>2
    <3>2. q = p => key # NilKey
      BY <1>5, <2>2 DEF Good
    <3> QED BY <1>2, <1>4, <1>5, <3>1, <3>2 DEF Mapped
  <2> QED BY <1>3, <2>1, <2>2
<1>6. ASSUME NEW q \in Paths, NEW o \in Objects, Good(q)', Slot(q, o) PROVE Known(q, o)'
  <2>1. q = p /\ o = key /\ o \in Keys /\ key # NilKey
    BY <1>1, <1>2, <1>6
  <2>2. CASE mappings' = [mappings EXCEPT ![key] = p]
    BY <1>1, <2>1, <2>2 DEF Known
  <2>3. CASE Mapped(p) # {} /\ mappings' = mappings
    <3>1. Good(p) /\ Mapped(p) \subseteq {owner[p]}
      BY <1>4, <1>6, <2>1
    <3>2. key \in Mapped(p)
      BY <1>2, <2>1, <2>3, <3>1
    <3> QED BY <2>1, <2>3, <3>2 DEF Mapped, Known
  <2> QED BY <1>3, <2>2, <2>3
<1>7. ASSUME NEW q \in Paths, NEW o \in Objects, Known(q, o), Settled(q, o) PROVE Known(q, o)'
  <2>1. Slot(p, o) => p = q
    BY <1>2, <1>7 DEF Settled
  <2> QED BY <1>1, <1>2, <1>3, <1>7, <2>1 DEF Known
<1>8. ASSUME NEW q \in Paths, NEW o \in Objects, mappings'[o] = q PROVE mappings[o] = q \/ Slot(q, o)
  BY <1>1, <1>2, <1>3, <1>8
<1>9. ASSUME NEW q \in Paths, NEW o \in Objects, mappings'[o] = q, update.event = "move", p # q, update.content = o
      PROVE  FALSE
  <2>1. Slot(p, o)
    BY <1>0, <1>1, <1>9 DEF Slot
  <2>2. o = key
    BY <1>2, <2>1
  <2> QED BY <1>1, <1>2, <1>3, <1>9, <2>2
<1> QED BY <1>0, <1>4, <1>5, <1>6, <1>7, <1>8, <1>9, HandlesFiles

\* The first scan maps the file that holds an object.
LEMMA ScanFiles ==
    ASSUME FilesInv, TypeInv, TypeInv', PlacesInv, ScanFile
    PROVE  FilesInv'
<1>1. /\ UNCHANGED <<outbox, updates, moveCaches, incomplete, missed, raced>> /\ UNCHANGED queues
      /\ UNCHANGED <<disk, update, client, outside, strayed, owner, replaced>>
      /\ update = NoUpdate
      /\ mappings \in [Keys -> Paths \cup {NoPath}] /\ Objects \subseteq Keys /\ NilKey \notin Objects
      /\ toScan \subseteq Paths /\ Absent \notin Objects
  BY WatchStorageAssumption DEF ScanFile, batchVars, watcherVars, queues, PlacesInv, TypeInv, FilesTypeOK, Keys
<1>2. PICK p0 \in Paths :
        /\ toScan' = toScan \ {p0}
        /\ \/ /\ Parses(disk[p0]) /\ mappings' = [mappings EXCEPT ![ObjectKeyFor(disk[p0])] = p0]
              /\ nameless' = IF ObjectKeyFor(disk[p0]) = NilKey THEN nameless \cup {p0} ELSE nameless
           \/ ~Parses(disk[p0]) /\ mappings' = mappings /\ nameless' = nameless
        /\ view \cup unheard \subseteq view' \cup unheard'
        /\ Parses(disk[p0]) => ObjectKeyFor(disk[p0]) \in view' \cup unheard'
  BY <1>1 DEF ScanFile, AddMapping, sendEvent
<1>3. PICK key \in Keys : key = ObjectKeyFor(disk[p0])
  BY KeyTyped
<1>4. /\ key # NilKey => key = disk[p0] /\ key \in Objects /\ key = owner[p0]
      /\ disk[p0] \in Objects => key = disk[p0] /\ Parses(disk[p0])
      /\ nameless \subseteq nameless'
  BY <1>2, <1>3 DEF ObjectKeyFor, FilesInv, OwnerInv, Parses
<1>5. Drains /\ \A p \in Paths : Undelivered(p)' <=> Undelivered(p)
  BY <1>1, <1>4, StillDrains DEF TypeInv
<1>6. \A k \in Keys : \/ mappings'[k] = mappings[k]
                      \/ k = key /\ mappings'[k] = p0 /\ (key = NilKey => p0 \in nameless')
  BY <1>1, <1>2, <1>3
<1>7. \A p \in Paths : Good(p)' => Mapped(p)' \subseteq {owner[p]}
  <2>1. SUFFICES ASSUME NEW p \in Paths, Good(p)', NEW k \in Keys, mappings'[k] = p PROVE k = owner[p]
    BY DEF Mapped
  <2>2. Mapped(p) \subseteq {owner[p]}
    BY <1>5, <2>1 DEF FilesInv, OwnerInv, Drains
  <2>3. p \notin nameless'
    BY <2>1 DEF Good
  <2> QED BY <1>4, <1>6, <2>1, <2>2, <2>3 DEF Mapped
<1>8. OwnerInv'
  <2>1. OwnerInv
    BY DEF FilesInv
  <2> QED BY <1>1, <1>5, <1>7, <2>1 DEF OwnerInv, Writing
<1>9. CopiesInv'
  BY <1>1 DEF FilesInv, CopiesInv, Holds
<1>10. /\ \A type, p : SendsHalf(type, p)' <=> SendsHalf(type, p)
       /\ \A type, p, c : CachedHalf(type, p, c)' <=> CachedHalf(type, p, c)
       /\ \A u, p, o : Takes(u, p, o)' <=> Takes(u, p, o)
       /\ \A p, o : Slot(p, o)' <=> Slot(p, o)
  BY <1>1 DEF SendsHalf, CachedHalf, Takes, Slot
<1>11. ASSUME NEW p \in Paths, NEW o \in Objects PROVE Held(p, o)'
  <2> SUFFICES ASSUME Good(p)', disk[p] = o
               PROVE  /\ \A e \in Waiting' : Newest(p, e)' => e.type \in {"closeWrite", "movedTo"}
                      /\ ~Undelivered(p)' => Reported(p, o)' \/ Settled(p, o)'
    BY <1>1 DEF Held
  <2>1. Good(p) /\ Held(p, o)
    BY <1>5 DEF FilesInv, Drains
  <2>2. \A e \in Waiting' : Newest(p, e)' => e.type \in {"closeWrite", "movedTo"}
    BY <1>5, <2>1 DEF Held, Drains
  <2>3. ~Undelivered(p)' => Reported(p, o) \/ Settled(p, o)
    BY <1>5, <2>1 DEF Held
  <2>4. Reported(p, o) => Reported(p, o)'
    BY <1>1, <1>10 DEF Reported
  <2>5. ASSUME Settled(p, o) PROVE Settled(p, o)'
    <3>1. disk[p0] = o => p0 = p
      BY <2>1 DEF FilesInv, CopiesInv, Holds, Good
    <3>2. Known(p, o)' \/ p \in toScan'
      <4>1. Known(p, o) \/ p \in toScan
        BY <2>5 DEF Settled
      <4>2. CASE p = p0
        BY <1>1, <1>2, <1>3, <1>4, <4>2 DEF Known
      <4>3. CASE p # p0
        BY <1>1, <1>2, <1>4, <1>6, <3>1, <4>1, <4>3 DEF Known
      <4> QED BY <4>2, <4>3
    <3> QED BY <1>1, <1>10, <2>5, <3>2 DEF Settled
  <2> QED BY <2>2, <2>3, <2>4, <2>5
<1>12. ASSUME NEW p \in Paths, NEW o \in Objects PROVE Gone(p, o)'
  <2> SUFFICES ASSUME Good(p)', disk[p] = Absent, o \notin strayed, Slot(p, o)' \/ (mappings'[o] = p /\ ~Creating(o))
               PROVE  /\ \A e \in Waiting' : Newest(p, e)' => Removes(e, p, o)'
                      /\ ~Undelivered(p)' => Removed(p, o)'
    BY <1>1 DEF Gone, Creating
  <2>1. Good(p) /\ (Slot(p, o) \/ (mappings[o] = p /\ ~Creating(o)))
    <3>1. mappings'[o] = p => mappings[o] = p
      BY <1>1, <1>4, <1>6
    <3> QED BY <1>5, <1>10, <3>1 DEF Drains
  <2>2. \A c : RenameTakes(c, p, o) => RenameTakes(c, p, o)'
    BY <1>1, <1>5 DEF RenameTakes, Drains
  <2>3. /\ \A e \in Waiting : Newest(p, e) => Removes(e, p, o)
        /\ ~Undelivered(p) => Removed(p, o)
    BY <2>1 DEF FilesInv, Gone
  <2>4. \A e : Removes(e, p, o) => Removes(e, p, o)'
    BY <2>2 DEF Removes
  <2>5. \A e \in Waiting' : Newest(p, e)' => Removes(e, p, o)'
    BY <1>5, <2>1, <2>3, <2>4 DEF Drains
  <2>6. Removed(p, o) => Removed(p, o)'
    BY <1>1, <1>10, <2>2 DEF Removed
  <2> QED BY <1>5, <2>3, <2>5, <2>6
<1> QED BY <1>8, <1>9, <1>11, <1>12 DEF FilesInv

\* An update is received, and the file is read.
LEMMA ReceiveFiles ==
    ASSUME FilesInv, TypeInv, TypeInv', PlacesInv, ReceiveUpdate
    PROVE  FilesInv'
<1>1. /\ UNCHANGED <<outbox, moveCaches, incomplete, missed, raced, nameless>> /\ UNCHANGED queues
      /\ UNCHANGED <<disk, mappings, toScan, client, outside, owner, replaced, view, unheard>>
      /\ update = NoUpdate /\ updates # <<>> /\ updates' = Tail(updates)
      /\ updates \in Seq(Update)
  BY DEF ReceiveUpdate, batchVars, queues, TypeInv, PipelineTypeOK
<1>2. PICK u : u = Head(updates)
  OBVIOUS
<1>3. /\ u \in Update /\ u.path \in Paths
      /\ ToSet(updates) = ToSet(updates') \cup {u}
      /\ \A p : /\ NoDelete(updates, p) => NoDelete(updates', p) /\ (u.path # p \/ u.event # "delete")
                /\ EndsPresent(updates, p) =>
                        \/ EndsPresent(updates', p)
                        \/ NoDelete(updates', p) /\ u.path = p /\ u.event # "delete"
  <2>1. u \in Update /\ ToSet(updates) = ToSet(updates') \cup {u}
    BY <1>1, <1>2, TailOf
  <2>2. u.path \in Paths
    BY <2>1 DEF Update
  <2>3. \A p : /\ NoDelete(updates, p) => NoDelete(updates', p) /\ (u.path # p \/ u.event # "delete")
               /\ EndsPresent(updates, p) =>
                        \/ EndsPresent(updates', p)
                        \/ NoDelete(updates', p) /\ u.path = p /\ u.event # "delete"
    BY <1>1, <1>2, TailReports
  <2> QED BY <2>1, <2>2, <2>3
<1>4. /\ \/ /\ u.event = "delete" \/ Parses(disk[u.path])
            /\ update' = [event |-> u.event, path |-> u.path, content |-> disk[u.path]]
         \/ u.event # "delete" /\ ~Parses(disk[u.path]) /\ update' = NoUpdate
      /\ strayed \subseteq strayed'
      /\ u.event = "move" /\ disk[u.path] \notin Objects /\ owner[u.path] \in Objects => owner[u.path] \in strayed'
  BY <1>2 DEF ReceiveUpdate
<1>5. /\ NoUpdate.event = "none" /\ \A p, o : ~Slot(p, o)
      /\ \A event, p, x : LET v == [event |-> event, path |-> p, content |-> x]
                          IN  v.event = event /\ v.path = p /\ v.content = x
  BY <1>1 DEF Slot, NoUpdate
<1>6. \A p, o : Slot(p, o)' => u.event # "delete" /\ p = u.path /\ o = disk[p]
  BY <1>4, <1>5 DEF Slot
<1>7. Drains /\ \A p \in Paths : Undelivered(p)' <=> Undelivered(p)
  BY <1>1, StillDrains DEF TypeInv
<1>8. OwnerInv'
  <2>1. OwnerInv
    BY DEF FilesInv
  <2>2. update' # NoUpdate /\ update'.content \in Objects => update'.content = owner[update'.path]
    BY <1>3, <1>4, <1>5, <2>1 DEF OwnerInv
  <2>3. \A p \in Paths : (Good(p)' <=> Good(p)) /\ Mapped(p)' = Mapped(p)
    BY <1>1 DEF Good, Mapped
  <2> QED BY <1>1, <2>1, <2>2, <2>3 DEF OwnerInv, Writing
<1>9. CopiesInv'
  BY <1>1 DEF FilesInv, CopiesInv, Holds
<1>10. /\ \A type, p : SendsHalf(type, p)' <=> SendsHalf(type, p)
       /\ \A type, p, c : CachedHalf(type, p, c)' <=> CachedHalf(type, p, c)
       /\ \A v, p, o : Takes(v, p, o)' <=> Takes(v, p, o)
  BY <1>1 DEF SendsHalf, CachedHalf, Takes
<1>11. ASSUME NEW p \in Paths, NEW o \in Objects PROVE Held(p, o)'
  <2> SUFFICES ASSUME Good(p)', disk[p] = o
               PROVE  /\ \A e \in Waiting' : Newest(p, e)' => e.type \in {"closeWrite", "movedTo"}
                      /\ ~Undelivered(p)' => Reported(p, o)' \/ Settled(p, o)'
    BY <1>1 DEF Held
  <2>1. Good(p) /\ Held(p, o)
    BY <1>7 DEF FilesInv, Drains
  <2>2. \A e \in Waiting' : Newest(p, e)' => e.type \in {"closeWrite", "movedTo"}
    BY <1>7, <2>1 DEF Held, Drains
  <2>3. ~Undelivered(p)' => Reported(p, o) \/ Settled(p, o)
    BY <1>7, <2>1 DEF Held
  <2>4. ASSUME Reported(p, o) PROVE Reported(p, o)'
    <3>1. u.path = p /\ u.event # "delete" => Slot(p, o)'
      <4>1. Parses(o)
        BY DEF Parses
      <4> QED BY <1>4, <1>5, <4>1 DEF Slot, NoUpdate
    <3> QED BY <1>1, <1>3, <1>5, <1>10, <2>4, <3>1 DEF Reported
  <2>5. ASSUME Settled(p, o) PROVE Settled(p, o)'
    <3>1. \A q \in Paths \ {p} : ~Slot(q, o)'
      <4>1. ASSUME NEW q \in Paths \ {p}, disk[q] = o PROVE FALSE
        BY <2>1, <4>1 DEF FilesInv, CopiesInv, Holds, Good
      <4> QED BY <1>6, <4>1
    <3>2. ~(update'.event = "delete" /\ update'.path = p)
      BY <1>3, <1>4, <1>5, <2>5 DEF Settled
    <3> QED BY <1>1, <1>3, <2>5, <3>1, <3>2 DEF Settled, Known
  <2> QED BY <2>2, <2>3, <2>4, <2>5
<1>12. ASSUME NEW p \in Paths, NEW o \in Objects PROVE Gone(p, o)'
  <2> SUFFICES ASSUME Good(p)', disk[p] = Absent, o \notin strayed', Slot(p, o)' \/ (mappings[o] = p /\ ~Creating(o))
               PROVE  /\ \A e \in Waiting' : Newest(p, e)' => Removes(e, p, o)'
                      /\ ~Undelivered(p)' => Removed(p, o)'
    BY <1>1 DEF Gone, Creating
  <2>1. Good(p) /\ mappings[o] = p /\ ~Creating(o) /\ o \notin strayed
    BY <1>4, <1>6, <1>7, WatchStorageAssumption DEF Drains
  <2>2. \A c : RenameTakes(c, p, o) => RenameTakes(c, p, o)'
    BY <1>1, <1>7 DEF RenameTakes, Drains
  <2>3. /\ \A e \in Waiting : Newest(p, e) => Removes(e, p, o)
        /\ ~Undelivered(p) => Removed(p, o)
    BY <2>1 DEF FilesInv, Gone
  <2>4. \A e : Removes(e, p, o) => Removes(e, p, o)'
    BY <2>2 DEF Removes
  <2>5. \A e \in Waiting' : Newest(p, e)' => Removes(e, p, o)'
    BY <1>7, <2>1, <2>3, <2>4 DEF Drains
  <2>6. ASSUME Removed(p, o) PROVE Removed(p, o)'
    <3>1. CASE Takes(u, p, o)
      <4>1. CASE u.path = p
        BY <1>4, <1>5, <3>1, <4>1 DEF Takes, Removed
      <4>2. CASE u.path # p
        <5>1. u.event = "move" /\ owner[u.path] = o
          BY <3>1, <4>2 DEF Takes
        <5>2. disk[u.path] = o
          BY <1>3, <1>4, <5>1 DEF FilesInv, OwnerInv
        <5> QED BY <1>4, <1>5, <4>2, <5>1, <5>2 DEF Parses, Removed
      <4> QED BY <4>1, <4>2
    <3>2. CASE \E v \in ToSet(outbox) \cup ToSet(updates') : Takes(v, p, o)
      BY <1>1, <1>10, <3>2 DEF Removed
    <3>3. CASE (\E c \in Cookies : CachedHalf("movedFrom", p, c) /\ RenameTakes(c, p, o)) \/ SendsHalf("movedFrom", p)
      BY <1>10, <2>2, <3>3 DEF Removed
    <3>4. update.event # "delete" /\ update.event # "move"
      BY <1>1, <1>5
    <3> QED BY <1>3, <2>6, <3>1, <3>2, <3>3, <3>4 DEF Removed
  <2> QED BY <1>7, <2>3, <2>5, <2>6
<1> QED BY <1>8, <1>9, <1>11, <1>12 DEF FilesInv

LEMMA StorageKeeps ==
    ASSUME TypeInv, TypeInv', QueuesInv, FilesInv, StorageSteps \/ SetUpdateStream, panicked' = "no"
    PROVE  QueuesInv' /\ FilesInv'
<1>1. /\ UNCHANGED queues /\ UNCHANGED <<dispatcher, toVisit, missed, raced, replaced, ops, disk>>
      /\ nameless \subseteq nameless'
      /\ toScan' # {} => update' = NoUpdate
  <2>1. CASE ScanFile
    BY <2>1 DEF ScanFile, AddMapping, batchVars, watcherVars, queues, QueuesInv, PlacesInv
  <2>2. CASE ReceiveUpdate
    BY <2>2 DEF ReceiveUpdate, batchVars, queues
  <2>3. CASE HandleDelete \/ HandleMove \/ HandleModify
    BY <2>3 DEF HandleDelete, HandleMove, HandleModify, HandlesUpdate, AddMapping, RemoveMapping,
                watcherVars, queues
  <2>4. CASE SetUpdateStream
    BY <2>4 DEF SetUpdateStream, batchVars, watcherVars, queues, QueuesInv, PlacesInv
  <2> QED BY <2>1, <2>2, <2>3, <2>4 DEF StorageSteps
<1>2. QueuesInv'
  BY <1>1, StillQueues
<1>3. FilesInv'
  <2>1. CASE ScanFile
    BY <2>1, ScanFiles DEF QueuesInv
  <2>2. CASE ReceiveUpdate
    BY <2>2, ReceiveFiles DEF QueuesInv
  <2>3. CASE HandleDelete
    BY <2>3, DeleteFiles
  <2>4. CASE HandleMove
    BY <2>4, MapsFiles DEF HandleMove
  <2>5. CASE HandleModify
    BY <2>5, MapsFiles DEF HandleModify, sendEvent
  <2>6. CASE SetUpdateStream
    <3>1. /\ UNCHANGED <<outbox, updates, nameless, update, mappings, toScan,
                         client, outside, strayed, owner, view, unheard>>
      BY <2>6 DEF SetUpdateStream, watcherVars
    <3> QED BY <1>1, <3>1, FilesStill
  <2> QED BY <2>1, <2>2, <2>3, <2>4, <2>5, <2>6 DEF StorageSteps
<1> QED BY <1>2, <1>3

-----------------------------------------------------------------------------
(***************************************************************************)
(* The client and other processes: what a step leaves of the other files.  *)
(***************************************************************************)
Untouched(p) ==
    /\ disk'[p] = disk[p]
    /\ Undelivered(p)' <=> Undelivered(p)
    /\ \A e : Newest(p, e)' <=> Newest(p, e)

\* No file loses its object while an event of it is on its way, without the object
\* being counted as strayed, and a rename has a new cookie.
Apart ==
    /\ UNCHANGED <<outbox, updates, moveCaches, incomplete, update, toScan>>
    /\ strayed \subseteq strayed'
    /\ \A p \in Paths : Good(p)' => Good(p)
    /\ \A f \in Waiting' : f.type = "movedTo" /\ f \notin Waiting => f.cookie \notin 1..ops
    /\ \A q \in Paths, o \in Objects : owner[q] = o /\ o \notin strayed' /\ Busy(q) => owner'[q] = o

LEMMA TakesKept ==
    ASSUME TypeInv, QueuesInv, Apart, NEW p \in Paths, NEW o \in Objects, o \notin strayed'
    PROVE  /\ \A c \in 1..ops : RenameTakes(c, p, o) => RenameTakes(c, p, o)'
           /\ \A u \in ToSet(outbox) \cup ToSet(updates) : Takes(u, p, o) => Takes(u, p, o)'
           /\ \A e \in Waiting : Removes(e, p, o) => Removes(e, p, o)'
           /\ Removed(p, o) => Removed(p, o)'
<1>1. WaitingFacts /\ PlacesTyped
  BY WaitingIs, PlacesAreTyped DEF TypeInv
<1>2. ASSUME NEW c \in 1..ops, RenameTakes(c, p, o), NEW f \in Waiting', f.type = "movedTo", f.cookie = c
      PROVE  f.path # p /\ owner'[f.path] = o
  <2>1. f \in Waiting
    BY <1>2 DEF Apart
  <2>2. f.path # p /\ owner[f.path] = o
    BY <1>2, <2>1 DEF RenameTakes
  <2>3. Busy(f.path) /\ f.path \in Paths
    <3>1. f \in Events
      BY <1>1, <2>1 DEF WaitingFacts
    <3> QED BY <2>1, <3>1, EventTyped DEF Busy, Waiting
  <2> QED BY <2>2, <2>3 DEF Apart
<1>3. \A c \in 1..ops : RenameTakes(c, p, o) => RenameTakes(c, p, o)'
  <2>1. ASSUME NEW c \in 1..ops, RenameTakes(c, p, o) PROVE RenameTakes(c, p, o)'
    <3>1. RenameTakes(c, p, o)' <=>
            \A f \in Waiting' : f.type = "movedTo" /\ f.cookie = c => f.path # p /\ owner'[f.path] = o
      BY DEF RenameTakes
    <3> QED BY <1>2, <2>1, <3>1
  <2> QED BY <2>1
<1>4. ASSUME NEW u \in ToSet(outbox) \cup ToSet(updates), Takes(u, p, o) PROVE Takes(u, p, o)'
  <2>1. u.path # p => owner'[u.path] = o
    BY <1>4 DEF Takes, Busy, Apart
  <2> QED BY <1>4, <2>1 DEF Takes
<1>5. ASSUME NEW e \in Waiting, Removes(e, p, o) PROVE Removes(e, p, o)'
  <2>1. CASE e.type = "movedFrom" /\ RenameTakes(e.cookie, p, o)
    <3>1. e \in Halves
      <4>1. e \in Events
        BY <1>1 DEF WaitingFacts
      <4> QED BY <2>1, <4>1, EventTyped
    <3>2. e.cookie \in 1..ops
      BY <3>1 DEF QueuesInv, CookiesInv
    <3> QED BY <1>3, <2>1, <3>2 DEF Removes
  <2> QED BY <1>5, <2>1 DEF Removes
<1>6. ASSUME Removed(p, o) PROVE Removed(p, o)'
  <2>1. CASE \E u \in ToSet(outbox) \cup ToSet(updates) : Takes(u, p, o)
    <3>1. \E u \in ToSet(outbox) \cup ToSet(updates) : Takes(u, p, o)'
      BY <1>4, <2>1
    <3> QED BY <3>1 DEF Removed, Apart
  <2>2. ASSUME NEW c \in Cookies, CachedHalf("movedFrom", p, c), RenameTakes(c, p, o) PROVE Removed(p, o)'
    <3>1. c \in 1..ops
      <4>1. moveCaches[c] # NoCache
        BY <2>2 DEF CachedHalf, NoCache
      <4>2. moveCaches[c].event \in Waiting \cap Halves /\ moveCaches[c].event.cookie = c
        BY <1>1, <4>1 DEF WaitingFacts, QueuesInv, PlacesInv
      <4> QED BY <4>2 DEF QueuesInv, CookiesInv
    <3>2. RenameTakes(c, p, o)'
      BY <1>3, <2>2, <3>1
    <3>3. CachedHalf("movedFrom", p, c)'
      BY <2>2 DEF CachedHalf, Apart
    <3> QED BY <3>2, <3>3 DEF Removed
  <2>3. CASE \/ update.event = "delete" /\ update.path = p
             \/ update.event = "move" /\ update.path # p /\ update.content = o
             \/ SendsHalf("movedFrom", p)
    BY <2>3 DEF Removed, SendsHalf, Apart
  <2> QED BY <1>6, <2>1, <2>2, <2>3 DEF Removed
<1> QED BY <1>3, <1>4, <1>5, <1>6

LEMMA FileKept ==
    ASSUME FilesInv, TypeInv, TypeInv', QueuesInv, QueuesInv', Apart,
           NEW p \in Paths, NEW o \in Objects, Untouched(p),
           disk[p] = o /\ Known(p, o) => Known(p, o)',
           disk[p] = Absent /\ mappings'[o] = p /\ ~Creating(o)' => mappings[o] = p /\ ~Creating(o)
    PROVE  Held(p, o)' /\ Gone(p, o)'
<1>1. Held(p, o) /\ Gone(p, o)
  BY DEF FilesInv
<1>2. /\ Good(p)' => Good(p)
      /\ UNCHANGED <<outbox, updates, moveCaches, incomplete, update, toScan>>
  BY DEF Apart
<1>3. /\ \A type : SendsHalf(type, p)' <=> SendsHalf(type, p)
      /\ \A type, c : CachedHalf(type, p, c)' <=> CachedHalf(type, p, c)
      /\ \A q : Slot(q, o)' <=> Slot(q, o)
  BY <1>2 DEF SendsHalf, CachedHalf, Slot
<1>4. NewestFacts /\ NewestFacts'
  BY NewestWaits, NewestWaitsNext DEF TypeInv, QueuesInv
<1>5. \A e : Newest(p, e)' => e \in Waiting /\ Newest(p, e)
  BY <1>4 DEF NewestFacts, Untouched
<1>6. Held(p, o)'
  <2>1. Reported(p, o) => Reported(p, o)'
    BY <1>2, <1>3 DEF Reported
  <2>2. disk[p] = o /\ Settled(p, o) => Settled(p, o)'
    BY <1>2, <1>3 DEF Settled
  <2>3. disk'[p] = disk[p] /\ (Undelivered(p)' <=> Undelivered(p))
    BY DEF Untouched
  <2> QED BY <1>1, <1>2, <1>5, <2>1, <2>2, <2>3 DEF Held
<1>7. Gone(p, o)'
  <2> SUFFICES ASSUME Good(p)', disk[p] = Absent, o \notin strayed',
                      Slot(p, o)' \/ (mappings'[o] = p /\ ~Creating(o)')
               PROVE  /\ \A e \in Waiting' : Newest(p, e)' => Removes(e, p, o)'
                      /\ ~Undelivered(p)' => Removed(p, o)'
    BY DEF Gone, Untouched
  <2>1. /\ \A e \in Waiting : Newest(p, e) => Removes(e, p, o)
        /\ ~Undelivered(p) => Removed(p, o)
    BY <1>1, <1>2, <1>3 DEF Gone, Apart
  <2>2. /\ \A e \in Waiting : Removes(e, p, o) => Removes(e, p, o)'
        /\ Removed(p, o) => Removed(p, o)'
    BY TakesKept
  <2> QED BY <1>5, <2>1, <2>2 DEF Untouched
<1> QED BY <1>6, <1>7

-----------------------------------------------------------------------------
\* Who writes which file, and what cannot be confused.
WriterFacts ==
    /\ Absent \notin Contents /\ Torn \notin Contents /\ Absent # Torn /\ Objects \subseteq Contents
    /\ NoPath \notin Paths
    /\ \/ outside = NotWriting /\ outside.path = NoPath /\ outside.content = Absent
       \/ outside # NotWriting /\ outside.path \in Paths /\ outside.content \in Contents
    /\ client.op = "write" => client.key \in Objects /\ client.path \in Paths
    /\ client.op \in {"create", "update", "delete"} => client.key \in Objects
    /\ client = Idle => client.op = "idle"
    /\ \A p \in Paths : disk[p] \in Contents \cup {Absent, Torn}
    /\ \A k \in Keys : mappings[k] \in Paths \cup {NoPath}
    /\ \A p \in Paths : owner[p] \in Objects \cup {Absent}

LEMMA WritersAre == TypeInv => WriterFacts
<1> SUFFICES ASSUME TypeInv PROVE WriterFacts
  OBVIOUS
<1>1. /\ Absent \notin Contents /\ Torn \notin Contents /\ Absent # Torn /\ Objects \subseteq Contents
      /\ NoPath \notin Paths
  BY WatchStorageAssumption DEF Contents
<1>2. \/ outside = NotWriting /\ outside.path = NoPath /\ outside.content = Absent
      \/ outside # NotWriting /\ outside.path \in Paths /\ outside.content \in Contents
  BY <1>1 DEF TypeInv, FilesTypeOK, NotWriting
<1>3. /\ client.op = "write" => client.key \in Objects /\ client.path \in Paths
      /\ client.op \in {"create", "update", "delete"} => client.key \in Objects
      /\ client = Idle => client.op = "idle"
  BY DEF TypeInv, FilesTypeOK, Idle
<1> QED BY <1>1, <1>2, <1>3 DEF TypeInv, FilesTypeOK, WriterFacts

\* p is given to an object.
OwnerTo(p, o) ==
    /\ owner' = [owner EXCEPT ![p] = o]
    /\ Early(o, p) => p \in replaced'
    /\ strayed \cup Ousted(o, p) \subseteq strayed'
OwnersStay ==
    \A q \in Paths, o \in Objects : owner[q] = o /\ o \notin strayed' /\ Busy(q) => owner'[q] = o
OwnersMatch ==
    /\ \A p \in Paths : Good(p) => Mapped(p) \subseteq {owner[p]}
    /\ update # NoUpdate /\ Good(update.path) /\ update.content \in Objects
            => update.content = owner[update.path]

LEMMA OwnersStayGiven ==
    ASSUME TypeInv, NEW p \in Paths, NEW o \in Objects, OwnerTo(p, o)
    PROVE  OwnersStay
<1> SUFFICES ASSUME NEW q \in Paths, NEW x \in Objects, owner[q] = x, x \notin strayed', Busy(q)
             PROVE  owner'[q] = x
  BY DEF OwnersStay
<1>1. WriterFacts /\ owner' = [owner EXCEPT ![p] = o] /\ owner \in [Paths -> Objects \cup {Absent}]
  BY WritersAre DEF OwnerTo, TypeInv, FilesTypeOK
<1>2. CASE q # p
  BY <1>1, <1>2
<1>3. CASE q = p /\ x # o
  <2>1. x # Absent
    BY <1>1 DEF WriterFacts
  <2>2. Early(o, p)
    BY <1>3, <2>1 DEF Early
  <2> QED BY <1>3, <2>2 DEF OwnerTo, Ousted
<1> QED BY <1>1, <1>2, <1>3

LEMMA OwnersMatchGiven ==
    ASSUME TypeInv, OwnersMatch, NEW p \in Paths, NEW o \in Objects, OwnerTo(p, o), update' = update,
           \A q \in Paths : Good(q)' => Good(q),
           \A q \in Paths : Mapped(q)' \subseteq Mapped(q) \cup (IF q = p THEN {o} ELSE {})
    PROVE  OwnersMatch'
<1>1. /\ WriterFacts /\ owner' = [owner EXCEPT ![p] = o] /\ owner \in [Paths -> Objects \cup {Absent}]
      /\ update # NoUpdate => update.path \in Paths
  BY WritersAre DEF OwnerTo, TypeInv, FilesTypeOK
<1>2. Absent \notin Keys
  BY WatchStorageAssumption DEF Keys
<1>3. ASSUME Good(p)'
      PROVE  /\ Mapped(p) \subseteq {o}
             /\ update # NoUpdate /\ update.path = p /\ update.content \in Objects => update.content = o
  <2>1. Good(p) /\ ~Early(o, p)
    BY <1>3 DEF Good, OwnerTo
  <2>2. /\ Mapped(p) \subseteq {owner[p]} /\ Mapped(p) \subseteq Keys
        /\ update # NoUpdate /\ update.path = p /\ update.content \in Objects => update.content = owner[p]
    BY <2>1 DEF OwnersMatch, Mapped
  <2>3. CASE owner[p] \in {o, Absent}
    BY <1>1, <1>2, <2>2, <2>3 DEF WriterFacts
  <2>4. CASE ~Busy(p) /\ Mapped(p) \ {o} = {}
    BY <2>4 DEF Busy
  <2> QED BY <2>1, <2>3, <2>4 DEF Early
<1>4. ASSUME NEW q \in Paths, Good(q)'
      PROVE  Mapped(q)' \subseteq {owner'[q]}
  <2>1. CASE q = p
    <3>1. Good(p)'
      BY <1>4, <2>1
    <3>2. Mapped(p)' \subseteq {owner'[p]}
      BY <1>1, <1>3, <3>1
    <3> QED BY <2>1, <3>2
  <2>2. CASE q # p
    BY <1>1, <1>4, <2>2 DEF OwnersMatch
  <2> QED BY <2>1, <2>2
<1>5. ASSUME update # NoUpdate, Good(update.path)', update.content \in Objects
      PROVE  update.content = owner'[update.path]
  <2>1. CASE update.path = p
    <3>1. Good(p)'
      BY <1>5, <2>1 DEF Good
    <3> QED BY <1>1, <1>3, <1>5, <2>1, <3>1
  <2>2. CASE update.path # p
    BY <1>1, <1>5, <2>2 DEF OwnersMatch
  <2> QED BY <2>1, <2>2
<1> QED BY <1>4, <1>5 DEF OwnersMatch

LEMMA OwnersMatchKept ==
    ASSUME TypeInv, OwnersMatch, UNCHANGED <<owner, update>>,
           \A q \in Paths : Good(q)' => Good(q),
           \A q \in Paths : Mapped(q)' \subseteq Mapped(q)
    PROVE  OwnersMatch'
<1>1. update # NoUpdate => update.path \in Paths
  BY DEF TypeInv, FilesTypeOK
<1> QED BY <1>1 DEF OwnersMatch

LEMMA CopiesLater ==
    ASSUME CopiesInv, replaced \subseteq replaced',
           \A p, q \in Paths, o \in Objects :
                p # q /\ Holds(p, o)' /\ Holds(q, o)' =>
                    (Holds(p, o) /\ Holds(q, o)) \/ (p \in replaced' /\ q \in replaced')
    PROVE  CopiesInv'
BY DEF CopiesInv

FileOwners ==
    /\ \A p \in Paths : disk[p] \in Objects => owner[p] = disk[p]
    /\ \A p \in Paths : disk[p] = Torn <=> outside.path = p \/ Writing(p)
    /\ client.op = "write" => outside.path # client.path
    /\ outside.content \in Objects => owner[outside.path] = outside.content
    /\ client.op = "write" => owner[client.path] = client.key

LEMMA OwnerParts == OwnerInv <=> FileOwners /\ OwnersMatch
BY DEF OwnerInv, FileOwners, OwnersMatch

LEMMA OwnerPartsNext == OwnerInv' <=> FileOwners' /\ OwnersMatch'
BY OwnerParts, PTL

\* A step that leaves the queues alone.
LEMMA StillApart ==
    ASSUME TypeInv, TypeInv', QueuesInv, OwnersStay, UNCHANGED queues,
           UNCHANGED <<outbox, updates, update, toScan, missed, raced>>,
           nameless \subseteq nameless', replaced \subseteq replaced', strayed \subseteq strayed'
    PROVE  /\ Apart
           /\ \A p \in Paths : disk'[p] = disk[p] => Untouched(p)
<1>1. /\ Waiting' = Waiting
      /\ \A p \in Paths : /\ Undelivered(p)' <=> Undelivered(p)
                          /\ \A e : Newest(p, e)' <=> Newest(p, e)
  BY QueuesKept
<1>2. \A p \in Paths : Good(p)' => Good(p)
  BY DEF Good
<1> QED BY <1>1, <1>2 DEF Apart, OwnersStay, Untouched, queues

\* A step that has one or two events come in.
LEMMA NotifyApart ==
    ASSUME TypeInv, QueuesInv, OwnersStay, NEW new \in Seq(Events), Notified(new), Fresh(new),
           UNCHANGED <<outbox, updates, moveCaches, incomplete, update, toScan>>, strayed \subseteq strayed'
    PROVE  /\ Apart
           /\ \A p \in Paths : disk'[p] = disk[p] /\ (\A e \in ToSet(new) : e.path # p) => Untouched(p)
<1>1. Waiting' \subseteq Waiting \cup ToSet(new) /\ \A p \in Paths : Good(p)' => Good(p)
  BY DEF Notified
<1>2. ASSUME NEW f \in Waiting', f.type = "movedTo", f \notin Waiting
      PROVE  f.cookie \notin 1..ops
  <2>1. f \in ToSet(new) /\ f \in Events
    BY <1>1, <1>2, InSeq
  <2>2. f.cookie = ops + 1 /\ ops \in Nat
    BY <1>2, <2>1, EventTyped DEF Fresh, TypeInv, FilesTypeOK
  <2> QED BY <2>2
<1>3. ASSUME NEW p \in Paths, disk'[p] = disk[p], \A e \in ToSet(new) : e.path # p
      PROVE  Untouched(p)
  BY <1>3 DEF Notified, Untouched
<1> QED BY <1>1, <1>2, <1>3 DEF Apart, OwnersStay

\* The file that an event is about.
LEMMA ArrivesFile ==
    ASSUME TypeInv', NEW new \in Seq(Events), Notified(new), NEW e \in ToSet(new), NEW p \in Paths, e.path = p,
           NEW o \in Objects, disk'[p] = Absent \/ e.type \in {"closeWrite", "movedTo"},
           disk'[p] # Absent \/ e.type = "delete"
    PROVE  Held(p, o)' /\ Gone(p, o)'
<1>1. Good(p)' => Undelivered(p)' /\ \A f : Newest(p, f)' => f = e
  <2>1. Good(e.path)' => Undelivered(e.path)' /\ \A f : Newest(e.path, f)' => f = e
    BY DEF Notified
  <2>2. /\ Good(e.path)' <=> Good(p)'
        /\ Undelivered(e.path)' <=> Undelivered(p)'
    BY DEF Good, Undelivered, Queued, Loaded, Unvisited
  <2> QED BY <2>1, <2>2
<1>2. Absent # o
  BY WatchStorageAssumption
<1>3. Held(p, o)'
  BY <1>1, <1>2 DEF Held
<1>4. Gone(p, o)'
  BY <1>1, <1>2 DEF Gone, Removes
<1> QED BY <1>3, <1>4

\* A file that is neither there nor gone.
LEMMA TornFile ==
    ASSUME NEW p \in Paths, NEW o \in Objects, disk'[p] = Torn
    PROVE  Held(p, o)' /\ Gone(p, o)'
BY WatchStorageAssumption DEF Held, Gone

LEMMA EachFile ==
    ASSUME FilesInv, TypeInv, TypeInv', QueuesInv, QueuesInv', Apart, OwnerInv', CopiesInv',
           \A p \in Paths, o \in Objects :
             \/ Held(p, o)' /\ Gone(p, o)'
             \/ /\ Untouched(p)
                /\ disk[p] = o /\ Known(p, o) => Known(p, o)'
                /\ disk[p] = Absent /\ mappings'[o] = p /\ ~Creating(o)' => mappings[o] = p /\ ~Creating(o)
    PROVE  FilesInv'
<1>1. ASSUME NEW p \in Paths, NEW o \in Objects PROVE Held(p, o)' /\ Gone(p, o)'
  BY FileKept
<1> QED BY <1>1 DEF FilesInv

-----------------------------------------------------------------------------
(***************************************************************************)
(* The client.                                                             *)
(***************************************************************************)
LEMMA CallsKeep ==
    ASSUME TypeInv, TypeInv', QueuesInv, FilesInv, ClientCalls
    PROVE  QueuesInv' /\ FilesInv'
<1>1. /\ WriterFacts /\ OwnerInv /\ CopiesInv /\ FileOwners /\ OwnersMatch
      /\ client = Idle /\ client.op = "idle" /\ ops' = ops + 1
      /\ UNCHANGED <<disk, outside, update, toScan, outbox, updates, missed, raced, dispatcher, toVisit>>
      /\ UNCHANGED <<view, unheard>> /\ UNCHANGED queues
  BY WritersAre, OwnerParts DEF FilesInv, ClientCalls, queues, batchVars, WriterFacts
<1>2. PICK o \in Objects : ClientUpdate(o) \/ ClientDelete(o) \/ \E p \in Paths : ClientCreate(o, p)
  BY DEF ClientCalls
<1>3. client'.op # "write" /\ client.op # "write"
  BY <1>1, <1>2 DEF ClientUpdate, ClientDelete, ClientCreate
<1>4. /\ \A p, x : Holds(p, x)' <=> Holds(p, x)
      /\ \A p : Writing(p)' <=> Writing(p)
  BY <1>1, <1>3 DEF Holds, Writing
<1>5. CASE ClientUpdate(o) \/ ClientDelete(o)
  <2>1. UNCHANGED <<mappings, nameless, owner, replaced, strayed>> /\ client'.op # "create" /\ client.op # "create"
    BY <1>1, <1>5 DEF ClientUpdate, ClientDelete
  <2>2. QueuesInv'
    BY <1>1, <2>1, StillQueues DEF QueuesInv, PlacesInv
  <2>3. \A q \in Paths : (Good(q)' => Good(q)) /\ Mapped(q)' = Mapped(q)
    BY <1>1, <2>1 DEF Good, Mapped
  <2>4. OwnerInv'
    <3>1. OwnersMatch'
      BY <1>1, <2>1, <2>3, OwnersMatchKept
    <3>2. FileOwners'
      BY <1>1, <1>3, <1>4, <2>1 DEF FileOwners
    <3> QED BY <3>1, <3>2, OwnerPartsNext
  <2>5. CopiesInv'
    BY <1>1, <1>4, <2>1 DEF CopiesInv
  <2>6. Apart /\ \A p \in Paths : Untouched(p)
    <3>1. OwnersStay
      BY <2>1 DEF OwnersStay
    <3> QED BY <1>1, <2>1, <3>1, StillApart
  <2>7. \A x : ~Creating(x)' /\ ~Creating(x)
    BY <2>1 DEF Creating
  <2>8. \A p, x : Known(p, x)' <=> Known(p, x)
    BY <1>1, <2>1 DEF Known
  <2> QED BY <2>1, <2>2, <2>4, <2>5, <2>6, <2>7, <2>8, EachFile
<1>6. ASSUME NEW p \in Paths, ClientCreate(o, p)
      PROVE  QueuesInv' /\ FilesInv'
  <2>1. /\ mappings[o] = NoPath /\ disk[p] = Absent /\ AddMapping(o, p) /\ Gives(o, p)
        /\ client' = [op |-> "create", key |-> o]
    BY <1>6 DEF ClientCreate
  <2>2. OwnerTo(p, o) /\ nameless' = nameless /\ replaced \subseteq replaced' /\ strayed \subseteq strayed'
    BY <2>1, WatchStorageAssumption DEF OwnerTo, Gives, AddMapping
  <2>3. /\ \A x \in Keys : mappings'[x] = IF x = o THEN p ELSE mappings[x]
        /\ Objects \subseteq Keys
    BY <2>1 DEF AddMapping, TypeInv, FilesTypeOK, Keys
  <2>4. QueuesInv'
    BY <1>1, <2>2, StillQueues DEF QueuesInv, PlacesInv
  <2>5. OwnerInv'
    <3>1. \A q \in Paths : (Good(q)' => Good(q)) /\ Mapped(q)' \subseteq Mapped(q) \cup (IF q = p THEN {o} ELSE {})
      <4>1. \A q \in Paths : Good(q)' => Good(q)
        BY <1>1, <2>2 DEF Good
      <4>2. \A q \in Paths : Mapped(q)' \subseteq Mapped(q) \cup (IF q = p THEN {o} ELSE {})
        BY <2>3 DEF Mapped
      <4> QED BY <4>1, <4>2
    <3>2. OwnersMatch'
      BY <1>1, <2>2, <3>1, OwnersMatchGiven
    <3>3. FileOwners'
      <4>1. \A q \in Paths : owner'[q] = IF q = p THEN o ELSE owner[q]
        BY <2>2 DEF OwnerTo, TypeInv, FilesTypeOK
      <4>2. outside.path # p
        BY <1>1, <2>1 DEF FileOwners, WriterFacts
      <4> QED BY <1>1, <1>3, <1>4, <2>1, <4>1, <4>2 DEF FileOwners, WriterFacts
    <3> QED BY <3>2, <3>3, OwnerPartsNext
  <2>6. CopiesInv'
    BY <1>1, <1>4, <2>2 DEF CopiesInv
  <2>7. Apart /\ \A q \in Paths : Untouched(q)
    <3>1. OwnersStay
      BY <2>2, OwnersStayGiven
    <3> QED BY <1>1, <2>2, <3>1, StillApart
  <2>8. ASSUME NEW q \in Paths, NEW x \in Objects
        PROVE  /\ Known(q, x) => Known(q, x)'
               /\ mappings'[x] = q /\ ~Creating(x)' => mappings[x] = q /\ ~Creating(x)
    <3>1. CASE x = o
      BY <1>1, <2>1, <3>1 DEF Creating, WriterFacts, Known
    <3>2. CASE x # o
      BY <1>1, <2>3, <3>2 DEF Creating, Known
    <3> QED BY <3>1, <3>2
  <2> QED BY <2>4, <2>5, <2>6, <2>7, <2>8, EachFile
<1> QED BY <1>2, <1>5, <1>6

LEMMA FailsKeep ==
    ASSUME TypeInv, TypeInv', QueuesInv, FilesInv, ClientFails
    PROVE  QueuesInv' /\ FilesInv'
<1>1. /\ WriterFacts /\ OwnerInv /\ CopiesInv /\ FileOwners /\ OwnersMatch
      /\ client' = Idle /\ client'.op = "idle" /\ client.op # "write" /\ ops' = ops
      /\ UNCHANGED <<disk, mappings, outside, update, toScan, outbox, updates, missed, raced, dispatcher, toVisit>>
      /\ UNCHANGED <<nameless, replaced, strayed, owner, view, unheard>>
      /\ UNCHANGED queues
  BY WritersAre, OwnerParts DEF FilesInv, ClientFails, queues, batchVars, watcherVars, Idle
<1>2. /\ \A p, x : Holds(p, x)' <=> Holds(p, x)
      /\ \A p : Writing(p)' <=> Writing(p)
  BY <1>1 DEF Holds, Writing
<1>3. QueuesInv'
  BY <1>1, StillQueues DEF QueuesInv, PlacesInv
<1>4. \A q \in Paths : (Good(q)' => Good(q)) /\ Mapped(q)' = Mapped(q)
  BY <1>1 DEF Good, Mapped
<1>5. OwnerInv'
  <2>1. OwnersMatch'
    BY <1>1, <1>4, OwnersMatchKept
  <2>2. FileOwners'
    BY <1>1, <1>2 DEF FileOwners
  <2> QED BY <2>1, <2>2, OwnerPartsNext
<1>6. CopiesInv'
  BY <1>1, <1>2 DEF CopiesInv
<1>7. Apart /\ \A p \in Paths : Untouched(p)
  <2>1. OwnersStay
    BY <1>1 DEF OwnersStay
  <2> QED BY <1>1, <2>1, StillApart
<1>8. ASSUME NEW p \in Paths, NEW x \in Objects, disk[p] = Absent, mappings'[x] = p
      PROVE  ~Creating(x)
  <2>1. SUFFICES ASSUME Creating(x) PROVE FALSE
    OBVIOUS
  <2>2. client.op = "create" /\ client.key = x /\ mappings[x] = p /\ p # NoPath
    BY <1>1, <1>8, <2>1 DEF Creating, WriterFacts
  <2>3. Exists(x)
    BY <2>2 DEF ClientFails
  <2> QED BY <1>8, <2>2, <2>3 DEF Exists
<1>9. \A p, x : Known(p, x)' <=> Known(p, x)
  BY <1>1 DEF Known
<1> QED BY <1>1, <1>3, <1>5, <1>6, <1>7, <1>8, <1>9, EachFile

LEMMA OpensKeep ==
    ASSUME TypeInv, TypeInv', QueuesInv, FilesInv, ClientOpens
    PROVE  QueuesInv' /\ FilesInv'
<1>1. /\ WriterFacts /\ OwnerInv /\ CopiesInv /\ FileOwners /\ OwnersMatch
      /\ client.op \in {"create", "update"} /\ ops' = ops
      /\ UNCHANGED <<mappings, outside, update, toScan, outbox, updates, missed, raced, dispatcher, toVisit>>
      /\ UNCHANGED <<nameless, view, unheard>> /\ UNCHANGED queues
  BY WritersAre, OwnerParts DEF FilesInv, ClientOpens, queues, batchVars, watcherVars
<1>2. PICK o : o = client.key
  OBVIOUS
<1>3. PICK p : p = mappings[o]
  OBVIOUS
<1>4. o \in Objects /\ p \in Paths /\ p # NoPath
  BY <1>1, <1>2, <1>3 DEF ClientOpens, WriterFacts, Keys
<1>5. /\ disk[p] # Torn /\ disk' = [disk EXCEPT ![p] = Torn]
      /\ client' = [op |-> "write", key |-> o, path |-> p]
      /\ owner' = [owner EXCEPT ![p] = o]
      /\ strayed' = strayed \cup Ousted(o, p)
  BY <1>2, <1>3 DEF ClientOpens
<1> DEFINE copies == {q \in Paths \ {p} : o = IF outside.path = q THEN outside.content ELSE disk[q]}
<1>6. replaced' = replaced \cup copies \cup (IF Early(o, p) \/ copies # {} THEN {p} ELSE {})
  BY <1>2, <1>3 DEF ClientOpens
<1>7. /\ \A q \in Paths : disk'[q] = IF q = p THEN Torn ELSE disk[q]
      /\ \A q \in Paths : owner'[q] = IF q = p THEN o ELSE owner[q]
  BY <1>5 DEF TypeInv, FilesTypeOK
<1>8. OwnerTo(p, o) /\ replaced \subseteq replaced' /\ strayed \subseteq strayed'
  <2> HIDE DEF copies
  <2> QED BY <1>5, <1>6 DEF OwnerTo
<1>9. outside.path # p /\ \A q \in Paths : ~Writing(q)
  BY <1>1, <1>4, <1>5 DEF FileOwners, Writing
<1>10. QueuesInv'
  <2>1. toScan' # {} => update' = NoUpdate
    BY <1>1 DEF QueuesInv, PlacesInv
  <2>2. \A q \in Paths : disk[q] \in {Absent, Torn} => disk'[q] \in {Absent, Torn}
    BY <1>7
  <2> QED BY <1>1, <1>8, <2>1, <2>2, StillQueues
<1>11. OwnerInv'
  <2>1. \A q \in Paths : (Good(q)' => Good(q)) /\ Mapped(q)' = Mapped(q)
    BY <1>1, <1>8 DEF Good, Mapped
  <2>2. OwnersMatch'
    BY <1>1, <1>4, <1>8, <2>1, OwnersMatchGiven
  <2>3. \A q \in Paths : Writing(q)' <=> q = p
    BY <1>5 DEF Writing
  <2>4. \A q \in Paths : disk'[q] = Torn <=> outside'.path = q \/ Writing(q)'
    <3>1. ASSUME NEW q \in Paths, q # p PROVE disk'[q] = Torn <=> outside'.path = q \/ Writing(q)'
      BY <1>1, <1>7, <1>9, <2>3, <3>1 DEF FileOwners
    <3> QED BY <1>7, <2>3, <3>1
  <2>5. \A q \in Paths : disk'[q] \in Objects => owner'[q] = disk'[q]
    BY <1>1, <1>7 DEF FileOwners, WriterFacts
  <2>6. outside'.content \in Objects => owner'[outside'.path] = outside'.content
    BY <1>1, <1>7, <1>9 DEF FileOwners, WriterFacts
  <2>7. outside'.path # client'.path /\ owner'[client'.path] = client'.key
    BY <1>1, <1>4, <1>5, <1>7, <1>9
  <2>8. FileOwners'
    BY <2>4, <2>5, <2>6, <2>7 DEF FileOwners
  <2> QED BY <2>2, <2>8, OwnerPartsNext
<1>12. CopiesInv'
  <2>1. ASSUME NEW q \in Paths, NEW x \in Objects, q # p, Holds(q, x)'
        PROVE  Holds(q, x) /\ (x = o => q \in replaced' /\ p \in replaced')
    <3>1. disk[q] = x \/ (outside.path = q /\ outside.content = x)
      BY <1>1, <1>5, <1>7, <2>1 DEF Holds
    <3>2. disk[q] = x => outside.path # q
      BY <1>1 DEF FileOwners, WriterFacts
    <3>3. x = o => q \in copies
      BY <2>1, <3>1, <3>2
    <3> QED BY <1>6, <3>1, <3>3 DEF Holds
  <2>2. ASSUME NEW x \in Objects, Holds(p, x)' PROVE x = o
    BY <1>1, <1>4, <1>5, <1>7, <1>9, <2>2 DEF Holds, WriterFacts
  <2>3. \A q, r \in Paths, x \in Objects :
            q # r /\ Holds(q, x)' /\ Holds(r, x)' =>
                (Holds(q, x) /\ Holds(r, x)) \/ (q \in replaced' /\ r \in replaced')
    BY <2>1, <2>2
  <2> QED BY <1>1, <1>8, <2>3, CopiesLater
<1>13. Apart /\ \A q \in Paths : q # p => Untouched(q)
  <2>1. OwnersStay
    BY <1>4, <1>8, OwnersStayGiven
  <2> QED BY <1>1, <1>7, <1>8, <2>1, StillApart
<1>14. ASSUME NEW q \in Paths, NEW x \in Objects
       PROVE  \/ Held(q, x)' /\ Gone(q, x)'
              \/ /\ Untouched(q)
                 /\ disk[q] = x /\ Known(q, x) => Known(q, x)'
                 /\ disk[q] = Absent /\ mappings'[x] = q /\ ~Creating(x)' => mappings[x] = q /\ ~Creating(x)
  <2>1. CASE q = p
    BY <1>4, <1>7, <2>1, TornFile
  <2>2. CASE q # p
    <3>1. Creating(x) => mappings[x] = p
      BY <1>2, <1>3 DEF Creating
    <3> QED BY <1>1, <1>13, <2>2, <3>1 DEF Known
  <2> QED BY <2>1, <2>2
<1> QED BY <1>10, <1>11, <1>12, <1>13, <1>14, EachFile

-----------------------------------------------------------------------------
\* The lists of events that come in.
LEMMA OneComes ==
    ASSUME NEW e \in Events, e \in Halves => e.cookie = ops + 1 /\ ops' = ops + 1
    PROVE  /\ <<e>> \in Seq(Events) /\ ToSet(<<e>>) = {e}
           /\ \A i, j \in DOMAIN <<e>> : <<e>>[i].path = <<e>>[j].path => i = j
           /\ Fresh(<<e>>)
<1>1. <<e>> \in Seq(Events) /\ DOMAIN <<e>> = {1} /\ <<e>>[1] = e
  OBVIOUS
<1>2. ToSet(<<e>>) = {e}
  BY <1>1 DEF ToSet
<1> QED BY <1>1, <1>2 DEF Fresh

LEMMA TwoCome ==
    ASSUME NEW e \in Events, NEW f \in Events, e.path # f.path, e.type # f.type,
           e.cookie = ops + 1, f.cookie = ops + 1, ops' = ops + 1
    PROVE  /\ <<e, f>> \in Seq(Events) /\ ToSet(<<e, f>>) = {e, f}
           /\ \A i, j \in DOMAIN <<e, f>> : <<e, f>>[i].path = <<e, f>>[j].path => i = j
           /\ Fresh(<<e, f>>)
<1>1. <<e, f>> \in Seq(Events) /\ DOMAIN <<e, f>> = {1, 2} /\ <<e, f>>[1] = e /\ <<e, f>>[2] = f
  OBVIOUS
<1>2. ToSet(<<e, f>>) = {e, f}
  BY <1>1 DEF ToSet
<1> QED BY <1>1, <1>2 DEF Fresh

OneEventOf(type, p) == [type |-> type, path |-> p, cookie |-> NoCookie]

LEMMA EventIs ==
    ASSUME NEW p \in Paths, NEW type \in {"delete", "closeWrite"}
    PROVE  /\ OneEventOf(type, p) \in Events \ Halves
           /\ OneEventOf(type, p).type = type /\ OneEventOf(type, p).path = p
BY FileWatcherAssumption DEF OneEventOf, Events, Event, convertEvent, Halves

\* What a step that has events come in leaves to show, where the files and their owners
\* are concerned.
LEMMA NotifyKeeps ==
    ASSUME TypeInv, TypeInv', QueuesInv, FilesInv, closing = "open", NEW new \in Seq(Events), Notify(new),
           Fresh(new), \A i, j \in DOMAIN new : new[i].path = new[j].path => i = j,
           OwnersStay, ops' \in {ops, ops + 1},
           UNCHANGED <<dispatcher, visited, syncMap, monitor, toVisit, moveCaches, toScan, update, incomplete,
                       outbox, updates, nameless>>,
           replaced \subseteq replaced', strayed \subseteq strayed',
           \A p \in Paths : (\A e \in ToSet(new) : e.path # p) => disk'[p] = disk[p],
           \A e \in ToSet(new) : e.type = "movedFrom" => disk'[e.path] = Absent
    PROVE  /\ QueuesInv' /\ Notified(new) /\ Apart
           /\ \A p \in Paths : (\A e \in ToSet(new) : e.path # p) => Untouched(p)
           /\ \A p \in Paths : Good(p)' => Good(p)
<1>1. Notified(new)
  BY NotifyMakes DEF TypeInv
<1>2. Apart /\ \A p \in Paths : (\A e \in ToSet(new) : e.path # p) => Untouched(p)
  BY <1>1, NotifyApart
<1>3. \A p \in Paths : disk'[p] \in Objects \cup Junk =>
            disk[p] \in Objects \cup Junk \/ \E e \in ToSet(new) : e.path = p
  OBVIOUS
<1>4. QueuesInv'
  BY <1>1, <1>3, NotifyQueues
<1> QED BY <1>1, <1>2, <1>4 DEF Notified

LEMMA WritesKeep ==
    ASSUME TypeInv, TypeInv', QueuesInv, FilesInv, closing = "open", ClientWrites
    PROVE  QueuesInv' /\ FilesInv'
<1>1. /\ WriterFacts /\ OwnerInv /\ CopiesInv /\ FileOwners /\ OwnersMatch
      /\ client.op = "write" /\ client' = Idle /\ client'.op = "idle"
      /\ UNCHANGED <<dispatcher, visited, syncMap, monitor, toVisit, moveCaches, toScan, update, incomplete,
                     outbox, updates, nameless>>
      /\ UNCHANGED <<mappings, outside, ops, replaced, strayed, owner>>
      /\ view \cup unheard \subseteq view' \cup unheard'
  BY WritersAre, OwnerParts DEF FilesInv, ClientWrites, batchVars, Idle
<1>2. PICK p : p = client.path
  OBVIOUS
<1>3. PICK o : o = client.key
  OBVIOUS
<1>4. PICK e : e = OneEventOf("closeWrite", p)
  OBVIOUS
<1>5. /\ p \in Paths /\ o \in Objects /\ owner[p] = o /\ outside.path # p
      /\ e \in Events \ Halves /\ e.type = "closeWrite" /\ e.path = p
  BY <1>1, <1>2, <1>3, <1>4, EventIs DEF WriterFacts, FileOwners
<1>6. Notify(<<e>>) /\ \A q \in Paths : disk'[q] = IF q = p THEN o ELSE disk[q]
  BY <1>2, <1>3, <1>4 DEF ClientWrites, OneEventOf, TypeInv, FilesTypeOK
<1>7. OwnersStay
  BY <1>1 DEF OwnersStay
<1>8. /\ QueuesInv' /\ Notified(<<e>>) /\ Apart
      /\ \A q \in Paths : q # p => Untouched(q)
      /\ \A q \in Paths : Good(q)' => Good(q)
      /\ <<e>> \in Seq(Events) /\ ToSet(<<e>>) = {e}
  <2>1. /\ <<e>> \in Seq(Events) /\ ToSet(<<e>>) = {e} /\ Fresh(<<e>>)
        /\ \A i, j \in DOMAIN <<e>> : <<e>>[i].path = <<e>>[j].path => i = j
    BY <1>5, OneComes
  <2> QED BY <1>1, <1>5, <1>6, <1>7, <2>1, NotifyKeeps
<1>9. OwnerInv'
  <2>1. OwnersMatch'
    <3>1. \A q \in Paths : Mapped(q)' = Mapped(q)
      BY <1>1 DEF Mapped
    <3> QED BY <1>1, <1>8, <3>1, OwnersMatchKept
  <2>2. /\ \A q : ~Writing(q)'
        /\ \A q : Writing(q) <=> q = p
    BY <1>1, <1>2 DEF Writing
  <2>3. \A q \in Paths : disk'[q] = Torn <=> outside'.path = q
    <3>1. ASSUME NEW q \in Paths, q # p PROVE disk'[q] = Torn <=> outside'.path = q
      BY <1>1, <1>6, <2>2, <3>1 DEF FileOwners
    <3> QED BY <1>1, <1>5, <1>6, <3>1 DEF WriterFacts
  <2> QED BY <1>1, <1>5, <1>6, <2>1, <2>2, <2>3, OwnerPartsNext DEF FileOwners
<1>10. CopiesInv'
  <2>1. ASSUME NEW q \in Paths, NEW x \in Objects, Holds(q, x)' PROVE Holds(q, x)
    BY <1>1, <1>2, <1>3, <1>6, <2>1 DEF Holds
  <2> QED BY <1>1, <2>1, CopiesLater
<1>11. ASSUME NEW q \in Paths, NEW x \in Objects
       PROVE  \/ Held(q, x)' /\ Gone(q, x)'
              \/ /\ Untouched(q)
                 /\ disk[q] = x /\ Known(q, x) => Known(q, x)'
                 /\ disk[q] = Absent /\ mappings'[x] = q /\ ~Creating(x)' => mappings[x] = q /\ ~Creating(x)
  <2>1. CASE q = p
    <3>1. disk'[p] # Absent
      BY <1>1, <1>5, <1>6 DEF WriterFacts
    <3>2. Held(p, x)' /\ Gone(p, x)'
      BY <1>5, <1>8, <3>1, ArrivesFile
    <3> QED BY <2>1, <3>2
  <2>2. CASE q # p
    BY <1>1, <1>8, <2>2 DEF Creating, Known
  <2> QED BY <2>1, <2>2
<1> QED BY <1>8, <1>9, <1>10, <1>11, EachFile

LEMMA RemovesKeep ==
    ASSUME TypeInv, TypeInv', QueuesInv, FilesInv, closing = "open", ClientRemoves
    PROVE  QueuesInv' /\ FilesInv'
<1>1. /\ WriterFacts /\ OwnerInv /\ CopiesInv /\ FileOwners /\ OwnersMatch
      /\ client.op = "delete" /\ client' = Idle /\ client'.op = "idle"
      /\ UNCHANGED <<dispatcher, visited, syncMap, monitor, toVisit, moveCaches, toScan, update, incomplete,
                     outbox, updates, nameless>>
      /\ UNCHANGED <<outside, ops, replaced, strayed, owner, unheard>>
      /\ view' = view \ {client.key}
  BY WritersAre, OwnerParts DEF FilesInv, ClientRemoves, RemoveMapping, batchVars, Idle
<1>2. PICK o : o = client.key
  OBVIOUS
<1>3. PICK p : p = mappings[o]
  OBVIOUS
<1>4. o \in Objects /\ p \in Paths /\ p # NoPath /\ disk[p] # Torn
  BY <1>1, <1>2, <1>3 DEF ClientRemoves, WriterFacts, Keys
<1>5. /\ \A q \in Paths : disk'[q] = IF q = p THEN Absent ELSE disk[q]
      /\ \A x \in Keys : mappings'[x] = IF x = o THEN NoPath ELSE mappings[x]
  BY <1>2, <1>3 DEF ClientRemoves, RemoveMapping, TypeInv, FilesTypeOK
<1>6. OwnersStay
  BY <1>1 DEF OwnersStay
<1>7. /\ \A q : ~Writing(q)' /\ ~Writing(q)
      /\ \A x : ~Creating(x)' /\ ~Creating(x)
  BY <1>1 DEF Writing, Creating
<1>8. outside.path # p
  BY <1>1, <1>4 DEF FileOwners
<1>9. ASSUME \A q \in Paths : Good(q)' => Good(q)
      PROVE  OwnerInv'
  <2>1. OwnersMatch'
    <3>1. \A q \in Paths : Mapped(q)' \subseteq Mapped(q)
      BY <1>1, <1>5 DEF Mapped, WriterFacts
    <3> QED BY <1>1, <1>9, <3>1, OwnersMatchKept
  <2>2. \A q \in Paths : disk'[q] = Torn <=> outside'.path = q
    <3>1. ASSUME NEW q \in Paths, q # p PROVE disk'[q] = Torn <=> outside'.path = q
      BY <1>1, <1>5, <1>7, <3>1 DEF FileOwners
    <3> QED BY <1>1, <1>5, <1>8, <3>1 DEF WriterFacts
  <2>3. \A q \in Paths : disk'[q] \in Objects => owner'[q] = disk'[q]
    BY <1>1, <1>5 DEF FileOwners, WriterFacts
  <2>4. FileOwners'
    BY <1>1, <1>7, <2>2, <2>3 DEF FileOwners
  <2> QED BY <2>1, <2>4, OwnerPartsNext
<1>10. CopiesInv'
  <2>1. ASSUME NEW q \in Paths, NEW x \in Objects, Holds(q, x)' PROVE Holds(q, x)
    BY <1>1, <1>5, <2>1 DEF Holds, WriterFacts
  <2> QED BY <1>1, <2>1, CopiesLater
<1>11. ASSUME NEW q \in Paths, NEW x \in Objects
       PROVE  /\ disk[q] = x /\ Known(q, x) => Known(q, x)' \/ (q = p /\ disk[p] # Absent)
              /\ mappings'[x] = q => mappings[x] = q
  BY <1>1, <1>2, <1>3, <1>4, <1>5 DEF WriterFacts, Keys, Known
<1>12. CASE disk[p] = Absent
  <2>1. UNCHANGED <<events, missed, raced>>
    BY <1>2, <1>3, <1>12 DEF ClientRemoves
  <2>2. UNCHANGED queues /\ \A q \in Paths : disk'[q] = disk[q]
    BY <1>1, <1>5, <1>12, <2>1 DEF queues
  <2>3. Apart /\ \A q \in Paths : Untouched(q)
    BY <1>1, <1>6, <2>1, <2>2, StillApart
  <2>4. QueuesInv'
    <3>1. toScan' # {} => update' = NoUpdate
      BY <1>1 DEF QueuesInv, PlacesInv
    <3> QED BY <1>1, <2>1, <2>2, <3>1, StillQueues
  <2>5. OwnerInv'
    BY <1>9, <2>3 DEF Apart
  <2> QED BY <1>7, <1>10, <1>11, <1>12, <2>3, <2>4, <2>5, EachFile
<1>13. CASE disk[p] # Absent
  <2>1. PICK e : e = OneEventOf("delete", p)
    OBVIOUS
  <2>2. e \in Events \ Halves /\ e.type = "delete" /\ e.path = p
    BY <1>4, <2>1, EventIs
  <2>3. Notify(<<e>>)
    BY <1>2, <1>3, <1>13, <2>1 DEF ClientRemoves, OneEventOf
  <2>4. /\ QueuesInv' /\ Notified(<<e>>) /\ Apart
        /\ \A q \in Paths : q # p => Untouched(q)
        /\ \A q \in Paths : Good(q)' => Good(q)
        /\ <<e>> \in Seq(Events) /\ ToSet(<<e>>) = {e}
    <3>1. /\ <<e>> \in Seq(Events) /\ ToSet(<<e>>) = {e} /\ Fresh(<<e>>)
          /\ \A i, j \in DOMAIN <<e>> : <<e>>[i].path = <<e>>[j].path => i = j
      BY <2>2, OneComes
    <3> QED BY <1>1, <1>5, <1>6, <2>2, <2>3, <3>1, NotifyKeeps
  <2>5. OwnerInv'
    BY <1>9, <2>4
  <2>6. ASSUME NEW q \in Paths, NEW x \in Objects
        PROVE  \/ Held(q, x)' /\ Gone(q, x)'
               \/ /\ Untouched(q)
                  /\ disk[q] = x /\ Known(q, x) => Known(q, x)'
                  /\ disk[q] = Absent /\ mappings'[x] = q /\ ~Creating(x)' => mappings[x] = q /\ ~Creating(x)
    <3>1. CASE q = p
      <4>1. Held(p, x)' /\ Gone(p, x)'
        BY <1>4, <1>5, <2>2, <2>4, ArrivesFile
      <4> QED BY <3>1, <4>1
    <3>2. CASE q # p
      BY <1>7, <1>11, <2>4, <3>2
    <3> QED BY <3>1, <3>2
  <2> QED BY <1>10, <2>4, <2>5, <2>6, EachFile
<1> QED BY <1>12, <1>13

-----------------------------------------------------------------------------
(***************************************************************************)
(* Other processes.                                                        *)
(***************************************************************************)
OutsideKeeps ==
    UNCHANGED <<dispatcher, visited, syncMap, monitor, toVisit, moveCaches, toScan, update, incomplete,
                outbox, updates, nameless, closing, mappings, client, view, unheard>>

LEMMA OutsideIs ==
    ASSUME TypeInv, FilesInv, OutsideSteps
    PROVE  /\ OutsideKeeps /\ WriterFacts /\ FileOwners /\ OwnersMatch /\ CopiesInv
           /\ \/ OutsideWrites
              \/ /\ ops < MaxOps /\ ops' = ops + 1
                 /\ \E p \in Paths : \/ OutsideOpens(p) \/ OutsideDeletes(p) \/ OutsideMovesOut(p)
                                     \/ OutsideMovesIn(p) \/ \E q \in Paths : OutsideRenames(p, q)
BY WritersAre, OwnerParts DEF FilesInv, OutsideSteps, batchVars, OutsideKeeps

LEMMA GivenOwner ==
    ASSUME TypeInv, OwnersMatch, OutsideKeeps, NEW c, NEW p \in Paths, Gives(c, p),
           \A q \in Paths : Good(q)' => Good(q)
    PROVE  OwnersMatch'
<1>1. \A q \in Paths : Mapped(q)' = Mapped(q)
  BY DEF OutsideKeeps, Mapped
<1>2. CASE c \in Objects
  <2>1. OwnerTo(p, c)
    BY <1>2 DEF Gives, OwnerTo
  <2> QED BY <1>1, <1>2, <2>1, OwnersMatchGiven DEF OutsideKeeps
<1>3. CASE c \notin Objects
  BY <1>1, <1>3, OwnersMatchKept DEF OutsideKeeps, Gives
<1> QED BY <1>2, <1>3

LEMMA GivenStays ==
    ASSUME TypeInv, NEW c, NEW p \in Paths, Gives(c, p)
    PROVE  /\ OwnersStay /\ replaced \subseteq replaced' /\ strayed \subseteq strayed'
           /\ \A q \in Paths : owner'[q] = IF q = p /\ c \in Objects THEN c ELSE owner[q]
<1>1. owner \in [Paths -> Objects \cup {Absent}]
  BY DEF TypeInv, FilesTypeOK
<1>2. CASE c \in Objects
  <2>1. OwnerTo(p, c)
    BY <1>2 DEF Gives, OwnerTo
  <2> QED BY <1>1, <1>2, <2>1, OwnersStayGiven DEF Gives
<1>3. CASE c \notin Objects
  BY <1>3 DEF Gives, OwnersStay
<1> QED BY <1>2, <1>3

\* What another process puts into a file is not in a second one.
LEMMA NewIsAlone ==
    ASSUME TypeInv, NEW p \in Paths, NEW c \in NewContents(p), c \in Objects
    PROVE  disk[p] = c \/ \A q \in Paths : ~Holds(q, c)
<1>1. WriterFacts
  BY WritersAre
<1>2. CASE c \notin OnDisk
  BY <1>1, <1>2 DEF OnDisk, Holds
<1>3. disk[p] = c \/ c \notin OnDisk
  BY <1>1, WatchStorageAssumption DEF NewContents, Contents
<1> QED BY <1>2, <1>3

\* An event about one file.
LEMMA OneFileKeeps ==
    ASSUME TypeInv, TypeInv', QueuesInv, FilesInv, closing = "open", OutsideKeeps,
           NEW e \in Events, NEW p \in Paths, e.path = p, Notify(<<e>>),
           e \in Halves => e.cookie = ops + 1 /\ ops' = ops + 1, ops' \in {ops, ops + 1},
           OwnersStay, replaced \subseteq replaced', strayed \subseteq strayed',
           \A q \in Paths : q # p => disk'[q] = disk[q],
           disk'[p] = Absent \/ e.type \in {"closeWrite", "movedTo"},
           disk'[p] # Absent \/ e.type \in {"delete", "movedFrom"},
           (\A q \in Paths : Good(q)' => Good(q)) => OwnerInv', CopiesInv'
    PROVE  QueuesInv' /\ FilesInv'
<1>1. /\ <<e>> \in Seq(Events) /\ ToSet(<<e>>) = {e} /\ Fresh(<<e>>)
      /\ \A i, j \in DOMAIN <<e>> : <<e>>[i].path = <<e>>[j].path => i = j
  BY OneComes
<1>2. \A f \in ToSet(<<e>>) : f.type = "movedFrom" => disk'[f.path] = Absent
  BY <1>1
<1>3. /\ QueuesInv' /\ Notified(<<e>>) /\ Apart
      /\ \A q \in Paths : q # p => Untouched(q)
      /\ \A q \in Paths : Good(q)' => Good(q)
  BY <1>1, <1>2, NotifyKeeps DEF OutsideKeeps
<1>4. ASSUME e.type = "movedFrom", NEW x \in Objects PROVE Held(p, x)' /\ Gone(p, x)'
  <2>1. disk'[p] = Absent /\ Absent \notin Objects
    BY <1>4, WatchStorageAssumption
  <2>2. RenameTakes(e.cookie, p, x)'
    <3>1. e.cookie = ops + 1 /\ ops \in Nat
      BY <1>4, EventTyped DEF TypeInv, FilesTypeOK
    <3>2. ASSUME NEW f \in Waiting', f.type = "movedTo", f.cookie = e.cookie PROVE FALSE
      <4>1. f \in Waiting
        BY <1>1, <1>3, <1>4, <3>2 DEF Notified
      <4>2. f \in Halves
        BY <3>2, <4>1, WaitingIs, EventTyped DEF WaitingFacts, TypeInv
      <4>3. f.cookie \in 1..ops
        BY <4>1, <4>2 DEF QueuesInv, CookiesInv
      <4> QED BY <3>1, <3>2, <4>3
    <3> QED BY <3>2 DEF RenameTakes
  <2>3. Good(p)' => Undelivered(p)' /\ \A f : Newest(p, f)' => f = e
    <3>1. Good(e.path)' => Undelivered(e.path)' /\ \A f : Newest(e.path, f)' => f = e
      BY <1>1, <1>3 DEF Notified
    <3>2. (Good(e.path)' <=> Good(p)') /\ (Undelivered(e.path)' <=> Undelivered(p)')
      BY DEF Good, Undelivered, Queued, Loaded, Unvisited
    <3> QED BY <3>1, <3>2
  <2>4. Removes(e, p, x)'
    BY <1>4, <2>2 DEF Removes
  <2>5. Held(p, x)'
    BY <2>1 DEF Held
  <2>6. Gone(p, x)'
    BY <2>3, <2>4 DEF Gone
  <2> QED BY <2>5, <2>6
<1>5. ASSUME NEW q \in Paths, NEW x \in Objects
      PROVE  \/ Held(q, x)' /\ Gone(q, x)'
             \/ /\ Untouched(q)
                /\ disk[q] = x /\ Known(q, x) => Known(q, x)'
                /\ disk[q] = Absent /\ mappings'[x] = q /\ ~Creating(x)' => mappings[x] = q /\ ~Creating(x)
  <2>1. CASE q = p
    <3>1. Held(p, x)' /\ Gone(p, x)'
      BY <1>1, <1>3, <1>4, ArrivesFile
    <3> QED BY <2>1, <3>1
  <2>2. CASE q # p
    BY <1>3, <2>2 DEF Creating, OutsideKeeps, Known
  <2> QED BY <2>1, <2>2
<1> QED BY <1>3, <1>5, EachFile

-----------------------------------------------------------------------------
LEMMA OutsideOpensKeep ==
    ASSUME TypeInv, TypeInv', QueuesInv, FilesInv, OutsideKeeps, ops' = ops + 1,
           NEW p \in Paths, OutsideOpens(p)
    PROVE  QueuesInv' /\ FilesInv'
<1>1. WriterFacts /\ FileOwners /\ OwnersMatch /\ CopiesInv
  BY WritersAre, OwnerParts DEF FilesInv
<1>2. PICK c \in NewContents(p) : outside' = [path |-> p, content |-> c] /\ Gives(c, p)
  BY DEF OutsideOpens
<1>3. /\ outside = NotWriting /\ disk[p] # Torn
      /\ \A q \in Paths : disk'[q] = IF q = p THEN Torn ELSE disk[q]
      /\ UNCHANGED <<events, missed, raced>> /\ UNCHANGED queues
      /\ outside.path = NoPath /\ outside.content = Absent
  BY DEF OutsideOpens, OutsideKeeps, TypeInv, FilesTypeOK, queues, NotWriting
<1>4. /\ OwnersStay /\ replaced \subseteq replaced' /\ strayed \subseteq strayed'
      /\ \A q \in Paths : owner'[q] = IF q = p /\ c \in Objects THEN c ELSE owner[q]
  BY <1>2, GivenStays
<1>5. ~Writing(p) /\ (client.op = "write" => client.path # p) /\ \A q : Writing(q)' <=> Writing(q)
  BY <1>1, <1>3 DEF FileOwners, Writing, OutsideKeeps
<1>6. Apart /\ \A q \in Paths : q # p => Untouched(q)
  BY <1>3, <1>4, StillApart DEF OutsideKeeps
<1>7. QueuesInv'
  <2>1. toScan' # {} => update' = NoUpdate
    BY DEF QueuesInv, PlacesInv, OutsideKeeps
  <2> QED BY <1>3, <1>4, <2>1, StillQueues DEF OutsideKeeps
<1>8. OwnerInv'
  <2>1. OwnersMatch'
    BY <1>1, <1>2, <1>6, GivenOwner DEF Apart
  <2>2. \A q \in Paths : disk'[q] = Torn <=> outside'.path = q \/ Writing(q)'
    <3>1. ASSUME NEW q \in Paths, q # p PROVE disk'[q] = Torn <=> outside'.path = q \/ Writing(q)'
      BY <1>1, <1>2, <1>3, <1>5, <3>1 DEF FileOwners, WriterFacts
    <3> QED BY <1>2, <1>3, <3>1
  <2>3. \A q \in Paths : disk'[q] \in Objects => owner'[q] = disk'[q]
    BY <1>1, <1>3, <1>4 DEF FileOwners, WriterFacts
  <2>4. client'.op = "write" => outside'.path # client'.path /\ owner'[client'.path] = client'.key
    BY <1>1, <1>2, <1>4, <1>5 DEF FileOwners, WriterFacts, OutsideKeeps
  <2>5. outside'.content \in Objects => owner'[outside'.path] = outside'.content
    BY <1>2, <1>4
  <2>6. FileOwners'
    BY <2>2, <2>3, <2>4, <2>5 DEF FileOwners
  <2> QED BY <2>1, <2>6, OwnerPartsNext
<1>9. CopiesInv'
  <2>1. ASSUME NEW q \in Paths, NEW x \in Objects, Holds(q, x)'
        PROVE  Holds(q, x) \/ (q = p /\ x = c)
    BY <1>1, <1>2, <1>3, <2>1 DEF Holds, OutsideKeeps, WriterFacts
  <2>2. c \in Objects => Holds(p, c) \/ \A q \in Paths : ~Holds(q, c)
    BY NewIsAlone DEF Holds
  <2>3. \A q, r \in Paths, x \in Objects :
            q # r /\ Holds(q, x)' /\ Holds(r, x)' =>
                (Holds(q, x) /\ Holds(r, x)) \/ (q \in replaced' /\ r \in replaced')
    BY <2>1, <2>2
  <2> QED BY <1>1, <1>4, <2>3, CopiesLater
<1>10. ASSUME NEW q \in Paths, NEW x \in Objects
       PROVE  \/ Held(q, x)' /\ Gone(q, x)'
              \/ /\ Untouched(q)
                 /\ disk[q] = x /\ Known(q, x) => Known(q, x)'
                 /\ disk[q] = Absent /\ mappings'[x] = q /\ ~Creating(x)' => mappings[x] = q /\ ~Creating(x)
  <2>1. CASE q = p
    BY <1>3, <2>1, TornFile
  <2>2. CASE q # p
    BY <1>6, <2>2 DEF Creating, OutsideKeeps, Known
  <2> QED BY <2>1, <2>2
<1> QED BY <1>6, <1>7, <1>8, <1>9, <1>10, EachFile

\* A file that is not being written to is taken away.
LEMMA TakenAway ==
    ASSUME TypeInv, FilesInv, OutsideKeeps, NEW p \in Paths, disk[p] \in Contents,
           \A q \in Paths : disk'[q] = IF q = p THEN Absent ELSE disk[q],
           UNCHANGED <<outside, owner, replaced, strayed>>
    PROVE  ((\A q \in Paths : Good(q)' => Good(q)) => OwnerInv') /\ CopiesInv' /\ OwnersStay
<1>1. WriterFacts /\ FileOwners /\ OwnersMatch /\ CopiesInv
  BY WritersAre, OwnerParts DEF FilesInv
<1>2. /\ \A q : Writing(q)' <=> Writing(q)
      /\ ~Writing(p) /\ outside.path # p
  BY <1>1 DEF Writing, OutsideKeeps, FileOwners, WriterFacts
<1>3. ASSUME \A q \in Paths : Good(q)' => Good(q) PROVE OwnerInv'
  <2>1. OwnersMatch'
    <3>1. \A q \in Paths : Mapped(q)' = Mapped(q)
      BY DEF Mapped, OutsideKeeps
    <3> QED BY <1>1, <1>3, <3>1, OwnersMatchKept DEF OutsideKeeps
  <2>2. \A q \in Paths : disk'[q] = Torn <=> outside'.path = q \/ Writing(q)'
    <3>1. ASSUME NEW q \in Paths, q # p PROVE disk'[q] = Torn <=> outside'.path = q \/ Writing(q)'
      BY <1>1, <1>2, <3>1 DEF FileOwners
    <3> QED BY <1>1, <1>2, <3>1 DEF WriterFacts
  <2>3. \A q \in Paths : disk'[q] \in Objects => owner'[q] = disk'[q]
    BY <1>1 DEF FileOwners, WriterFacts
  <2>4. FileOwners'
    BY <1>1, <2>2, <2>3 DEF FileOwners, OutsideKeeps
  <2> QED BY <2>1, <2>4, OwnerPartsNext
<1>4. CopiesInv'
  <2>1. ASSUME NEW q \in Paths, NEW x \in Objects, Holds(q, x)' PROVE Holds(q, x)
    BY <1>1, <2>1 DEF Holds, WriterFacts, OutsideKeeps
  <2> QED BY <1>1, <2>1, CopiesLater
<1>5. OwnersStay
  BY DEF OwnersStay
<1> QED BY <1>3, <1>4, <1>5

LEMMA OutsideDeletesKeep ==
    ASSUME TypeInv, TypeInv', QueuesInv, FilesInv, closing = "open", OutsideKeeps, ops' = ops + 1,
           NEW p \in Paths, OutsideDeletes(p)
    PROVE  QueuesInv' /\ FilesInv'
<1>1. /\ \A q \in Paths : disk'[q] = IF q = p THEN Absent ELSE disk[q]
      /\ disk[p] \in Contents /\ UNCHANGED <<outside, owner, replaced, strayed>>
  BY DEF OutsideDeletes, TypeInv, FilesTypeOK
<1>2. ((\A q \in Paths : Good(q)' => Good(q)) => OwnerInv') /\ CopiesInv' /\ OwnersStay
  BY <1>1, TakenAway
<1>3. PICK e : e = OneEventOf("delete", p)
  OBVIOUS
<1>4. e \in Events \ Halves /\ e.type = "delete" /\ e.path = p /\ Notify(<<e>>)
  BY <1>3, EventIs DEF OutsideDeletes, OneEventOf
<1> QED BY <1>1, <1>2, <1>4, OneFileKeeps

LEMMA HalfIs ==
    ASSUME FilesTypeOK, ops < MaxOps, NEW p \in Paths, NEW type \in {"movedFrom", "movedTo"},
           NEW e, e = [type |-> type, path |-> p, cookie |-> ops + 1]
    PROVE  e \in Events /\ e.type = type /\ e.path = p /\ e.cookie = ops + 1
BY OneHalf

LEMMA OutsideMovesOutKeep ==
    ASSUME TypeInv, TypeInv', QueuesInv, FilesInv, closing = "open", OutsideKeeps, ops < MaxOps, ops' = ops + 1,
           NEW p \in Paths, OutsideMovesOut(p)
    PROVE  QueuesInv' /\ FilesInv'
<1>1. /\ \A q \in Paths : disk'[q] = IF q = p THEN Absent ELSE disk[q]
      /\ disk[p] \in Contents /\ UNCHANGED <<outside, owner, replaced, strayed>>
  BY DEF OutsideMovesOut, TypeInv, FilesTypeOK
<1>2. ((\A q \in Paths : Good(q)' => Good(q)) => OwnerInv') /\ CopiesInv' /\ OwnersStay
  BY <1>1, TakenAway
<1>3. PICK e : e = [type |-> "movedFrom", path |-> p, cookie |-> ops + 1]
  OBVIOUS
<1>4. e \in Events /\ e.type = "movedFrom" /\ e.path = p /\ e.cookie = ops + 1 /\ Notify(<<e>>)
  BY <1>3, HalfIs DEF OutsideMovesOut, TypeInv
<1> QED BY <1>1, <1>2, <1>4, OneFileKeeps

LEMMA OutsideMovesInKeep ==
    ASSUME TypeInv, TypeInv', QueuesInv, FilesInv, closing = "open", OutsideKeeps, ops < MaxOps, ops' = ops + 1,
           NEW p \in Paths, OutsideMovesIn(p)
    PROVE  QueuesInv' /\ FilesInv'
<1>1. WriterFacts /\ FileOwners /\ OwnersMatch /\ CopiesInv
  BY WritersAre, OwnerParts DEF FilesInv
<1>2. PICK c \in NewContents(p) : disk' = [disk EXCEPT ![p] = c] /\ Gives(c, p)
  BY DEF OutsideMovesIn
<1>3. /\ disk[p] # Torn /\ c \in Contents /\ UNCHANGED outside
      /\ \A q \in Paths : disk'[q] = IF q = p THEN c ELSE disk[q]
  BY <1>2 DEF OutsideMovesIn, TypeInv, FilesTypeOK, NewContents, Contents
<1>4. /\ OwnersStay /\ replaced \subseteq replaced' /\ strayed \subseteq strayed'
      /\ \A q \in Paths : owner'[q] = IF q = p /\ c \in Objects THEN c ELSE owner[q]
  BY <1>2, GivenStays
<1>5. /\ ~Writing(p) /\ outside.path # p /\ (client.op = "write" => client.path # p)
      /\ \A q : Writing(q)' <=> Writing(q)
  BY <1>1, <1>3 DEF FileOwners, Writing, OutsideKeeps
<1>6. PICK e : e = [type |-> "movedTo", path |-> p, cookie |-> ops + 1]
  OBVIOUS
<1>7. e \in Events /\ e.type = "movedTo" /\ e.path = p /\ e.cookie = ops + 1 /\ Notify(<<e>>)
  BY <1>6, HalfIs DEF OutsideMovesIn, TypeInv
<1>8. ASSUME \A q \in Paths : Good(q)' => Good(q) PROVE OwnerInv'
  <2>1. OwnersMatch'
    BY <1>1, <1>2, <1>8, GivenOwner
  <2>2. \A q \in Paths : disk'[q] = Torn <=> outside'.path = q \/ Writing(q)'
    <3>1. ASSUME NEW q \in Paths, q # p PROVE disk'[q] = Torn <=> outside'.path = q \/ Writing(q)'
      BY <1>1, <1>3, <1>5, <3>1 DEF FileOwners
    <3> QED BY <1>1, <1>3, <1>5, <3>1 DEF WriterFacts
  <2>3. \A q \in Paths : disk'[q] \in Objects => owner'[q] = disk'[q]
    BY <1>1, <1>3, <1>4 DEF FileOwners
  <2>4. client'.op = "write" => outside'.path # client'.path /\ owner'[client'.path] = client'.key
    BY <1>1, <1>3, <1>4, <1>5 DEF FileOwners, WriterFacts, OutsideKeeps
  <2>5. outside'.content \in Objects => owner'[outside'.path] = outside'.content
    BY <1>1, <1>3, <1>4, <1>5 DEF FileOwners, WriterFacts
  <2>6. FileOwners'
    BY <2>2, <2>3, <2>4, <2>5 DEF FileOwners
  <2> QED BY <2>1, <2>6, OwnerPartsNext
<1>9. CopiesInv'
  <2>1. ASSUME NEW q \in Paths, NEW x \in Objects, Holds(q, x)'
        PROVE  Holds(q, x) \/ (q = p /\ x = c)
    BY <1>3, <2>1 DEF Holds, OutsideKeeps
  <2>2. c \in Objects => Holds(p, c) \/ \A q \in Paths : ~Holds(q, c)
    BY NewIsAlone DEF Holds
  <2>3. \A q, r \in Paths, x \in Objects :
            q # r /\ Holds(q, x)' /\ Holds(r, x)' =>
                (Holds(q, x) /\ Holds(r, x)) \/ (q \in replaced' /\ r \in replaced')
    BY <2>1, <2>2
  <2> QED BY <1>1, <1>4, <2>3, CopiesLater
<1>10. disk'[p] # Absent /\ \A q \in Paths : q # p => disk'[q] = disk[q]
  BY <1>1, <1>3 DEF WriterFacts
<1> QED BY <1>4, <1>7, <1>8, <1>9, <1>10, OneFileKeeps

LEMMA OutsideWritesKeep ==
    ASSUME TypeInv, TypeInv', QueuesInv, FilesInv, closing = "open", OutsideKeeps, OutsideWrites
    PROVE  QueuesInv' /\ FilesInv'
<1>1. WriterFacts /\ FileOwners /\ OwnersMatch /\ CopiesInv
  BY WritersAre, OwnerParts DEF FilesInv
<1>2. PICK p : p = outside.path
  OBVIOUS
<1>3. PICK c : c = outside.content
  OBVIOUS
<1>4. /\ p \in Paths /\ c \in Contents /\ outside' = NotWriting
      /\ UNCHANGED <<ops, owner, replaced, strayed>>
      /\ \A q \in Paths : disk'[q] = IF q = p THEN c ELSE disk[q]
      /\ outside'.path = NoPath /\ outside'.content = Absent
  BY <1>1, <1>2, <1>3 DEF OutsideWrites, WriterFacts, TypeInv, FilesTypeOK, NotWriting
<1>5. PICK e : e = OneEventOf("closeWrite", p)
  OBVIOUS
<1>6. e \in Events \ Halves /\ e.type = "closeWrite" /\ e.path = p /\ Notify(<<e>>)
  BY <1>2, <1>4, <1>5, EventIs DEF OutsideWrites, OneEventOf
<1>7. /\ ~Writing(p) /\ (client.op = "write" => client.path # p)
      /\ \A q : Writing(q)' <=> Writing(q)
  BY <1>1, <1>2 DEF FileOwners, Writing, OutsideKeeps
<1>8. ASSUME \A q \in Paths : Good(q)' => Good(q) PROVE OwnerInv'
  <2>1. OwnersMatch'
    <3>1. \A q \in Paths : Mapped(q)' = Mapped(q)
      BY DEF Mapped, OutsideKeeps
    <3> QED BY <1>1, <1>4, <1>8, <3>1, OwnersMatchKept DEF OutsideKeeps
  <2>2. \A q \in Paths : disk'[q] = Torn <=> outside'.path = q \/ Writing(q)'
    <3>1. ASSUME NEW q \in Paths, q # p PROVE disk'[q] = Torn <=> outside'.path = q \/ Writing(q)'
      BY <1>1, <1>2, <1>4, <1>7, <3>1 DEF FileOwners, WriterFacts
    <3> QED BY <1>1, <1>4, <1>7, <3>1 DEF WriterFacts
  <2>3. \A q \in Paths : disk'[q] \in Objects => owner'[q] = disk'[q]
    BY <1>1, <1>2, <1>3, <1>4 DEF FileOwners
  <2>4. client'.op = "write" => outside'.path # client'.path /\ owner'[client'.path] = client'.key
    BY <1>1, <1>4 DEF FileOwners, WriterFacts, OutsideKeeps
  <2>5. ~(outside'.content \in Objects)
    BY <1>1, <1>4 DEF WriterFacts
  <2>6. FileOwners'
    BY <2>2, <2>3, <2>4, <2>5 DEF FileOwners
  <2> QED BY <2>1, <2>6, OwnerPartsNext
<1>9. CopiesInv'
  <2>1. ASSUME NEW q \in Paths, NEW x \in Objects, Holds(q, x)' PROVE Holds(q, x)
    BY <1>1, <1>2, <1>3, <1>4, <2>1 DEF Holds, WriterFacts, OutsideKeeps
  <2> QED BY <1>1, <1>4, <2>1, CopiesLater
<1>10. disk'[p] # Absent /\ OwnersStay
  BY <1>1, <1>4 DEF WriterFacts, OwnersStay
<1> QED BY <1>4, <1>6, <1>8, <1>9, <1>10, OneFileKeeps

-----------------------------------------------------------------------------
LEMMA OutsideRenamesKeep ==
    ASSUME TypeInv, TypeInv', QueuesInv, FilesInv, closing = "open", OutsideKeeps, ops < MaxOps, ops' = ops + 1,
           NEW p \in Paths, NEW q \in Paths, OutsideRenames(p, q)
    PROVE  QueuesInv' /\ FilesInv'
<1>1. WriterFacts /\ FileOwners /\ OwnersMatch /\ CopiesInv
  BY WritersAre, OwnerParts DEF FilesInv
<1>2. PICK c : c = disk[p]
  OBVIOUS
<1>3. /\ c \in Contents /\ disk[q] = Absent /\ p # q /\ UNCHANGED outside
      /\ \A r \in Paths : disk'[r] = IF r = q THEN c ELSE IF r = p THEN Absent ELSE disk[r]
  <2>1. disk[p] \in Contents /\ disk[q] = Absent /\ UNCHANGED outside
        /\ disk' = [disk EXCEPT ![p] = Absent, ![q] = disk[p]]
    BY DEF OutsideRenames
  <2>2. disk \in [Paths -> Contents \cup {Absent, Torn}]
    BY DEF TypeInv, FilesTypeOK
  <2> QED BY <1>1, <1>2, <2>1, <2>2 DEF WriterFacts
<1>4. /\ OwnersStay /\ replaced \subseteq replaced' /\ strayed \subseteq strayed'
      /\ \A r \in Paths : owner'[r] = IF r = q /\ c \in Objects THEN c ELSE owner[r]
      /\ c \notin Objects => {owner[p]} \cap Objects \subseteq strayed'
  <2>1. CASE c \in Objects
    <3>1. Gives(c, q)
      BY <1>2, <2>1 DEF OutsideRenames
    <3> QED BY <2>1, <3>1, GivenStays
  <2>2. CASE c \notin Objects
    BY <1>2, <2>2 DEF OutsideRenames, OwnersStay
  <2> QED BY <2>1, <2>2
<1>5. /\ ~Writing(p) /\ ~Writing(q) /\ outside.path # p /\ outside.path # q
      /\ client.op = "write" => client.path # p /\ client.path # q
      /\ \A r : Writing(r)' <=> Writing(r)
  BY <1>1, <1>2, <1>3 DEF FileOwners, Writing, OutsideKeeps, WriterFacts
<1>6. PICK e : e = [type |-> "movedFrom", path |-> p, cookie |-> ops + 1]
  OBVIOUS
<1>7. PICK f : f = [type |-> "movedTo", path |-> q, cookie |-> ops + 1]
  OBVIOUS
<1>8. /\ e \in Events /\ e.type = "movedFrom" /\ e.path = p /\ e.cookie = ops + 1
      /\ f \in Events /\ f.type = "movedTo" /\ f.path = q /\ f.cookie = ops + 1
      /\ Notify(<<e, f>>)
  BY <1>6, <1>7, HalfIs DEF OutsideRenames, TypeInv
<1>9. /\ QueuesInv' /\ Notified(<<e, f>>) /\ Apart
      /\ \A r \in Paths : r \notin {p, q} => Untouched(r)
      /\ \A r \in Paths : Good(r)' => Good(r)
      /\ <<e, f>> \in Seq(Events) /\ ToSet(<<e, f>>) = {e, f}
  <2>1. /\ <<e, f>> \in Seq(Events) /\ ToSet(<<e, f>>) = {e, f} /\ Fresh(<<e, f>>)
        /\ \A i, j \in DOMAIN <<e, f>> : <<e, f>>[i].path = <<e, f>>[j].path => i = j
    BY <1>3, <1>8, TwoCome
  <2>2. \A g \in ToSet(<<e, f>>) : g.type = "movedFrom" => disk'[g.path] = Absent
    BY <1>3, <1>8, <2>1
  <2>3. \A r \in Paths : (\A g \in ToSet(<<e, f>>) : g.path # r) => disk'[r] = disk[r]
    BY <1>3, <1>8, <2>1
  <2>4. /\ QueuesInv' /\ Notified(<<e, f>>) /\ Apart
        /\ \A r \in Paths : (\A g \in ToSet(<<e, f>>) : g.path # r) => Untouched(r)
        /\ \A r \in Paths : Good(r)' => Good(r)
    <3> DEFINE new == <<e, f>>
    <3> HIDE DEF new
    <3>1. /\ new \in Seq(Events) /\ Fresh(new) /\ Notify(new)
          /\ \A i, j \in DOMAIN new : new[i].path = new[j].path => i = j
          /\ \A g \in ToSet(new) : g.type = "movedFrom" => disk'[g.path] = Absent
          /\ \A r \in Paths : (\A g \in ToSet(new) : g.path # r) => disk'[r] = disk[r]
      BY <1>8, <2>1, <2>2, <2>3 DEF new
    <3>2. /\ QueuesInv' /\ Notified(new) /\ Apart
          /\ \A r \in Paths : (\A g \in ToSet(new) : g.path # r) => Untouched(r)
          /\ \A r \in Paths : Good(r)' => Good(r)
      BY <1>4, <3>1, NotifyKeeps DEF OutsideKeeps
    <3> QED BY <3>2 DEF new
  <2> QED BY <1>8, <2>1, <2>4
<1>10. OwnerInv'
  <2>1. OwnersMatch'
    <3>1. CASE c \in Objects
      <4>1. Gives(c, q)
        BY <1>2, <3>1 DEF OutsideRenames
      <4> QED BY <1>1, <1>9, <4>1, GivenOwner
    <3>2. CASE c \notin Objects
      <4>1. \A r \in Paths : Mapped(r)' = Mapped(r)
        BY DEF Mapped, OutsideKeeps
      <4>2. owner' = owner
        BY <1>2, <3>2 DEF OutsideRenames
      <4> QED BY <1>1, <1>9, <4>1, <4>2, OwnersMatchKept DEF OutsideKeeps
    <3> QED BY <3>1, <3>2
  <2>2. \A r \in Paths : disk'[r] = Torn <=> outside'.path = r \/ Writing(r)'
    <3>1. ASSUME NEW r \in Paths, r \notin {p, q} PROVE disk'[r] = Torn <=> outside'.path = r \/ Writing(r)'
      BY <1>1, <1>3, <1>5, <3>1 DEF FileOwners
    <3>2. disk'[p] # Torn /\ disk'[q] # Torn
      BY <1>1, <1>3 DEF WriterFacts
    <3> QED BY <1>3, <1>5, <3>1, <3>2
  <2>3. \A r \in Paths : disk'[r] \in Objects => owner'[r] = disk'[r]
    BY <1>1, <1>3, <1>4 DEF FileOwners, WriterFacts
  <2>4. client'.op = "write" => outside'.path # client'.path /\ owner'[client'.path] = client'.key
    BY <1>1, <1>3, <1>4, <1>5 DEF FileOwners, WriterFacts, OutsideKeeps
  <2>5. outside'.content \in Objects => owner'[outside'.path] = outside'.content
    BY <1>1, <1>3, <1>4, <1>5 DEF FileOwners, WriterFacts
  <2>6. FileOwners'
    BY <2>2, <2>3, <2>4, <2>5 DEF FileOwners
  <2> QED BY <2>1, <2>6, OwnerPartsNext
<1>11. CopiesInv'
  <2>1. ASSUME NEW r \in Paths, NEW x \in Objects, Holds(r, x)', r # q
        PROVE  Holds(r, x) /\ r # p
    BY <1>1, <1>3, <1>5, <2>1 DEF Holds, OutsideKeeps, WriterFacts
  <2>2. ASSUME NEW x \in Objects, Holds(q, x)'
        PROVE  x = c /\ Holds(p, x)
    BY <1>2, <1>3, <1>5, <2>2 DEF Holds, OutsideKeeps
  <2>3. ASSUME NEW r \in Paths, NEW x \in Objects, r # q, Holds(r, x)', Holds(q, x)'
        PROVE  r \in replaced' /\ q \in replaced'
    <3>1. x = c /\ Holds(p, c) /\ Holds(r, c) /\ r # p
      BY <2>1, <2>2, <2>3
    <3>2. p \in replaced /\ r \in replaced
      BY <1>1, <2>3, <3>1 DEF CopiesInv
    <3>3. q \in replaced'
      BY <1>2, <2>3, <3>1, <3>2 DEF OutsideRenames, Gives
    <3> QED BY <1>4, <3>2, <3>3
  <2>4. \A r, s \in Paths, x \in Objects :
            r # s /\ Holds(r, x)' /\ Holds(s, x)' =>
                (Holds(r, x) /\ Holds(s, x)) \/ (r \in replaced' /\ s \in replaced')
    BY <2>1, <2>3
  <2> QED BY <1>1, <1>4, <2>4, CopiesLater
\* The object of the file that is taken away is in the other one, or has strayed.
<1>12. ASSUME NEW x \in Objects PROVE Held(p, x)' /\ Gone(p, x)'
  <2>1. Held(p, x)'
    BY <1>1, <1>3, <1>12 DEF Held, WriterFacts
  <2>2. Good(p)' => Undelivered(p)' /\ \A g : Newest(p, g)' => g = e
    <3>1. Good(e.path)' => Undelivered(e.path)' /\ \A g : Newest(e.path, g)' => g = e
      BY <1>9 DEF Notified
    <3>2. (Good(e.path)' <=> Good(p)') /\ (Undelivered(e.path)' <=> Undelivered(p)')
      BY <1>8 DEF Good, Undelivered, Queued, Loaded, Unvisited
    <3> QED BY <1>8, <3>1, <3>2
  <2>3. ASSUME Good(p)', x \notin strayed', Slot(p, x)' \/ mappings'[x] = p
        PROVE  RenameTakes(e.cookie, p, x)'
    <3>1. x = owner[p]
      <4>1. Good(p) /\ x \in Keys
        BY <1>9, <2>3 DEF Keys
      <4>2. CASE mappings'[x] = p
        BY <1>1, <4>1, <4>2 DEF OwnersMatch, Mapped, OutsideKeeps
      <4>3. CASE Slot(p, x)'
        <5>1. Slot(p, x)
          BY <4>3 DEF Slot, OutsideKeeps
        <5> QED BY <1>1, <4>1, <5>1 DEF OwnersMatch, Slot
      <4> QED BY <2>3, <4>2, <4>3
    <3>2. c \in Objects /\ owner'[q] = x
      <4>1. c \in Objects
        BY <1>4, <2>3, <3>1
      <4>2. c = x
        BY <1>1, <1>2, <3>1, <4>1 DEF FileOwners
      <4> QED BY <1>4, <4>1, <4>2
    <3>3. ASSUME NEW g \in Waiting', g.type = "movedTo", g.cookie = e.cookie
          PROVE  g = f
      <4>1. CASE g \in Waiting
        <5>1. g \in Halves
          BY <3>3, <4>1, WaitingIs, EventTyped DEF WaitingFacts, TypeInv
        <5>2. g.cookie \in 1..ops /\ ops \in Nat
          BY <4>1, <5>1 DEF QueuesInv, CookiesInv, TypeInv, FilesTypeOK
        <5> QED BY <1>8, <3>3, <5>2
      <4>2. CASE g \in {e, f}
        BY <1>8, <3>3, <4>2
      <4> QED BY <1>9, <4>1, <4>2 DEF Notified
    <3>4. \A g \in Waiting' : g.type = "movedTo" /\ g.cookie = e.cookie => g.path # p /\ owner'[g.path] = x
      BY <1>3, <1>8, <3>2, <3>3
    <3> QED BY <3>4 DEF RenameTakes
  <2>4. Gone(p, x)'
    BY <1>8, <2>2, <2>3 DEF Gone, Removes
  <2> QED BY <2>1, <2>4
<1>13. ASSUME NEW r \in Paths, NEW x \in Objects
       PROVE  \/ Held(r, x)' /\ Gone(r, x)'
              \/ /\ Untouched(r)
                 /\ disk[r] = x /\ Known(r, x) => Known(r, x)'
                 /\ disk[r] = Absent /\ mappings'[x] = r /\ ~Creating(x)' => mappings[x] = r /\ ~Creating(x)
  <2>1. CASE r = p
    BY <1>12, <2>1
  <2>2. CASE r = q
    <3>1. disk'[q] # Absent /\ f \in ToSet(<<e, f>>)
      BY <1>1, <1>3, <1>9 DEF WriterFacts
    <3>2. Held(q, x)' /\ Gone(q, x)'
      <4>1. /\ f \in ToSet(<<e, f>>) /\ f.path = q /\ f.type \in {"closeWrite", "movedTo"}
            /\ <<e, f>> \in Seq(Events) /\ Notified(<<e, f>>)
        BY <1>8, <1>9, <3>1
      <4> DEFINE new == <<e, f>>
      <4> HIDE DEF new
      <4>2. f \in ToSet(new) /\ new \in Seq(Events) /\ Notified(new)
        BY <4>1 DEF new
      <4> QED BY <3>1, <4>1, <4>2, ArrivesFile
    <3> QED BY <2>2, <3>2
  <2>3. CASE r \notin {p, q}
    BY <1>9, <2>3 DEF Creating, OutsideKeeps, Known
  <2> QED BY <2>1, <2>2, <2>3
<1> QED BY <1>9, <1>10, <1>11, <1>13, EachFile

-----------------------------------------------------------------------------
(***************************************************************************)
(* Every step keeps MapInv.                                                *)
(***************************************************************************)
LEMMA ClientKeeps ==
    ASSUME TypeInv, TypeInv', QueuesInv, FilesInv, closing = "open", ClientSteps
    PROVE  QueuesInv' /\ FilesInv'
BY CallsKeep, FailsKeep, OpensKeep, WritesKeep, RemovesKeep DEF ClientSteps

LEMMA OthersKeep ==
    ASSUME TypeInv, TypeInv', QueuesInv, FilesInv, closing = "open", OutsideSteps
    PROVE  QueuesInv' /\ FilesInv'
<1>1. /\ OutsideKeeps
      /\ \/ OutsideWrites
         \/ /\ ops < MaxOps /\ ops' = ops + 1
            /\ \E p \in Paths : \/ OutsideOpens(p) \/ OutsideDeletes(p) \/ OutsideMovesOut(p)
                                \/ OutsideMovesIn(p) \/ \E q \in Paths : OutsideRenames(p, q)
  BY OutsideIs
<1> QED BY <1>1, OutsideWritesKeep, OutsideOpensKeep, OutsideDeletesKeep, OutsideMovesOutKeep,
           OutsideMovesInKeep, OutsideRenamesKeep

LEMMA MapInit == Init => MapInv
<1> SUFFICES ASSUME Init PROVE MapInv
  OBVIOUS
<1>1. TypeInv /\ BatchInv
  BY TypeInit, BatchInitially
<1>2. /\ events = <<>> /\ monitor = <<>> /\ incomplete = <<>> /\ outbox = <<>> /\ updates = <<>>
      /\ \A p \in Paths : syncMap[p] = NoValue /\ visited[p] = NoValue
      /\ visited = EmptyMap /\ DOMAIN visited = Paths /\ toVisit = {} /\ Stored = {}
      /\ \A c \in Cookies : moveCaches[c] = NoCache
      /\ update = NoUpdate /\ client = Idle /\ outside = NotWriting
      /\ \A k \in Keys : mappings[k] = NoPath
  BY DEF Init, WatcherInit, BatchInit, EmptyMap, Stored
<1>3. WriterFacts
  BY <1>1, WritersAre
<1>4. Cached = {} /\ Waiting = {}
  <2>1. ToSet(events) = {} /\ ToSet(monitor) = {} /\ ToSet(incomplete) = {}
    BY <1>2 DEF ToSet
  <2>2. \A c \in Cookies : moveCaches[c].event = NoEvent
    BY <1>2 DEF NoCache
  <2> QED BY <1>2, <2>1, <2>2 DEF Cached, Waiting, Pending
<1>5. \A p \in Paths : ~Queued(p) /\ ~Loaded(p) /\ ~Unvisited(p)
  <2>1. ASSUME NEW p \in Paths PROVE ~Queued(p) /\ ~Loaded(p) /\ ~Unvisited(p)
    BY <1>2 DEF Queued, Loaded, Unvisited
  <2> QED BY <2>1
<1>6. QueuesInv
  <2>1. PlacesInv
    BY <1>2 DEF PlacesInv, Loaded
  <2>2. OnceInv
    <3>1. ToSet(events) = {}
      BY <1>2 DEF ToSet
    <3> QED BY <1>2, <1>5, <3>1 DEF OnceInv
  <2> QED BY <1>4, <2>1, <2>2 DEF QueuesInv, CookiesInv, RacesInv
<1>7. OwnerInv
  <2>1. \A p \in Paths : Mapped(p) = {}
    BY <1>2, <1>3 DEF Mapped, WriterFacts
  <2>2. \A p \in Paths : disk[p] # Torn /\ (disk[p] \in Objects => owner[p] = disk[p])
    BY <1>3 DEF Init, WriterFacts
  <2>3. client.op = "idle" /\ outside.path = NoPath /\ outside.content = Absent
    BY <1>2 DEF Idle, NotWriting
  <2> QED BY <1>2, <1>3, <2>1, <2>2, <2>3 DEF OwnerInv, Writing, WriterFacts
<1>8. CopiesInv
  <2>1. ASSUME NEW p \in Paths, NEW o \in Objects, Holds(p, o) PROVE disk[p] = o
    BY <1>2, <1>3, <2>1 DEF Holds, Idle, NotWriting, WriterFacts
  <2> QED BY <2>1 DEF Init, CopiesInv
<1>9. ASSUME NEW p \in Paths, NEW o \in Objects PROVE Held(p, o) /\ Gone(p, o)
  <2>1. \A q : ~Slot(q, o)
    BY <1>2 DEF Slot
  <2>2. disk[p] = o => Settled(p, o)
    BY <1>2, <1>3, <2>1 DEF Settled, NoDelete, NoUpdate, Init, WriterFacts
  <2>3. mappings[o] # p
    BY <1>2, <1>3 DEF WriterFacts, Keys
  <2> QED BY <1>4, <2>1, <2>2, <2>3 DEF Held, Gone
<1> QED BY <1>1, <1>6, <1>7, <1>8, <1>9 DEF MapInv, FilesInv

LEMMA StaysOpen ==
    ASSUME [Next]_vars, Open'
    PROVE  Open
<1>1. CASE Next
  <2>1. panicked = "no"
    BY <1>1 DEF Next
  <2>2. CASE WatcherSteps
    BY <2>1, <2>2 DEF Open, WatcherSteps, MonitorSteps, MonitorSkips, MonitorLoads, MonitorStores, MonitorEnds,
                 DispatchSteps, DispatchBegins, DispatchVisits, DispatchSends, DispatchResets, DispatchEnds,
                 TimerSteps, BatchTimerFires, MoveTimerFires, IncompleteSends, IncompleteForgets, watcherVars
  <2>3. CASE Close
    BY <2>3 DEF Open, Close, CloseSteps, CloseStops, CloseFlushes, CloseEvents, CloseReturns
  <2>4. CASE StorageSteps \/ SetUpdateStream
    BY <2>1, <2>4 DEF Open, StorageSteps, ScanFile, ReceiveUpdate, HandleDelete, HandleMove, HandleModify,
                 HandlesUpdate, SetUpdateStream, watcherVars
  <2>5. CASE ClientSteps \/ OutsideSteps
    BY <2>1, <2>5 DEF Open, ClientSteps, ClientCalls, ClientFails, ClientOpens, ClientWrites, ClientRemoves,
                 OutsideSteps, watcherVars
  <2> QED BY <1>1, <2>2, <2>3, <2>4, <2>5 DEF Next
<1>2. CASE UNCHANGED vars
  BY <1>2 DEF Open, vars, batchVars, watcherVars
<1> QED BY <1>1, <1>2

LEMMA MapNext ==
    ASSUME MapInv, [Next]_vars
    PROVE  MapInv'
<1>1. TypeInv /\ TypeInv' /\ BatchInv /\ BatchInv'
  BY TypeNext, BatchNext DEF MapInv
<1>2. ASSUME Open'
      PROVE  QueuesInv' /\ FilesInv'
  <2>1. Open /\ QueuesInv /\ FilesInv /\ closing = "open" /\ panicked' = "no"
    BY <1>2, StaysOpen DEF MapInv, Open
  <2>2. CASE UNCHANGED vars
    <3>1. /\ UNCHANGED queues /\ UNCHANGED <<outbox, updates, missed, raced, nameless, replaced>>
          /\ UNCHANGED <<disk, mappings, toScan, update, client, outside, strayed, owner, view, unheard>>
          /\ UNCHANGED <<dispatcher, toVisit, ops>>
      BY <2>2 DEF vars, batchVars, watcherVars, storageVars, queues
    <3>2. FilesInv'
      BY <2>1, <3>1, FilesStill
    <3>3. toScan' # {} => update' = NoUpdate
      BY <2>1, <3>1 DEF QueuesInv, PlacesInv
    <3> QED BY <1>1, <2>1, <3>1, <3>2, <3>3, StillQueues
  <2>3. CASE WatcherSteps /\ UNCHANGED storageVars
    BY <1>1, <2>1, <2>3, WatcherQueues, WatcherFiles
  <2>4. CASE Close
    <3>1. closing' # "open"
      BY <2>4 DEF Close, CloseSteps, CloseStops, CloseFlushes, CloseEvents, CloseReturns
    <3> QED BY <1>2, <3>1 DEF Open
  <2>5. CASE StorageSteps \/ SetUpdateStream
    BY <1>1, <2>1, <2>5, StorageKeeps
  <2>6. CASE ClientSteps
    BY <1>1, <2>1, <2>6, ClientKeeps
  <2>7. CASE OutsideSteps
    BY <1>1, <2>1, <2>7, OthersKeep
  <2> QED BY <2>2, <2>3, <2>4, <2>5, <2>6, <2>7 DEF Next
<1> QED BY <1>1, <1>2 DEF MapInv

\* What is left to do is nothing, once the pipeline is empty.
LEMMA QuietFile ==
    ASSUME MapInv, Quiet, NEW p \in Paths, Good(p), NEW o \in Objects
    PROVE  /\ disk[p] = o => Known(p, o)
           /\ mappings[o] = p /\ o \notin strayed => disk[p] \in {o} \cup Junk
           /\ mappings[o] = p => owner[p] = o
<1>1. TypeInv /\ OwnerInv /\ Held(p, o) /\ Gone(p, o)
  BY DEF MapInv, Open, Quiet, FilesInv
<1>2. WriterFacts
  BY <1>1, WritersAre
<1>3. /\ events = <<>> /\ monitor = <<>> /\ incomplete = <<>> /\ outbox = <<>> /\ updates = <<>>
      /\ syncMap[p] = NoValue /\ toScan = {} /\ update = NoUpdate
      /\ client.op = "idle" /\ outside.path = NoPath
      /\ \A c \in Cookies : ~moveCaches[c].armed
  BY DEF Quiet, Stored, Idle, NotWriting, NoCache
<1>4. ~Undelivered(p)
  BY <1>3 DEF Undelivered, Queued, Loaded, Unvisited
<1>5. ~Slot(p, o)
  BY <1>3 DEF Slot
<1>6. ~Reported(p, o)
  BY <1>3, <1>5 DEF Reported, EndsPresent, CachedHalf, SendsHalf
<1>7. ~Removed(p, o)
  <2>1. ToSet(outbox) = {} /\ ToSet(updates) = {}
    BY <1>3 DEF ToSet
  <2> QED BY <1>3, <2>1 DEF Removed, CachedHalf, SendsHalf, NoUpdate
<1>8. disk[p] = o => Known(p, o)
  BY <1>1, <1>3, <1>4, <1>6 DEF Held, Settled
<1>9. ASSUME mappings[o] = p, o \notin strayed
      PROVE  disk[p] \in {o} \cup Junk
  <2>1. disk[p] # Absent
    BY <1>1, <1>3, <1>4, <1>7, <1>9 DEF Gone, Creating
  <2>2. disk[p] # Torn
    BY <1>1, <1>2, <1>3 DEF OwnerInv, Writing, WriterFacts
  <2>3. disk[p] \in Objects => disk[p] = o
    BY <1>1, <1>9 DEF OwnerInv, Mapped, Keys
  <2> QED BY <1>2, <2>1, <2>2, <2>3 DEF WriterFacts, Contents
<1>10. mappings[o] = p => owner[p] = o
  BY <1>1 DEF OwnerInv, Mapped, Keys
<1> QED BY <1>8, <1>9, <1>10

LEMMA QuietIsMapped == MapInv => QuietMappings
<1> SUFFICES ASSUME MapInv, Quiet, NEW p \in Paths, Good(p), NEW o \in Objects
             PROVE  /\ disk[p] = o => mappings[o] = p
                    /\ mappings[o] = p /\ o \notin strayed => disk[p] \in {o} \cup Junk
  BY DEF QuietMappings, Good
<1> QED BY QuietFile DEF Known

\* Once every event has been handled, the mapping of an object is the file that holds
\* it, and a mapping leads to a file that holds its object or nothing that can be
\* identified: whatever the order of the events of the files, their batches, the timers
\* of the renames, the reads of the files and the writes of the client
\* (monitorFunc and dispatchFunc of filewatcher.go, monitorFunc of watch/storage.go).
THEOREM MappingsFollowFiles == Spec => []QuietMappings
<1>1. Init => MapInv
  BY MapInit
<1>2. MapInv /\ [Next]_vars => MapInv'
  BY MapNext
<1>3. MapInv => QuietMappings
  BY QuietIsMapped
<1> QED BY <1>1, <1>2, <1>3, PTL DEF Spec
-----------------------------------------------------------------------------
(***************************************************************************)
(* The reader of the events.  That every object in a file is known comes   *)
(* with MapInv, as Settled says that it was reported.  That no other is    *)
(* needs the converse: an object that is known has a mapping, and Gone     *)
(* says what becomes of that.                                              *)
(***************************************************************************)
NothingLost == missed \cup raced \cup nameless \cup replaced = {}
ViewInv == NothingLost => \A o \in Objects : o \in view \ unheard => mappings[o] # NoPath
ReaderInv == MapInv /\ (Open => ViewInv)

\* What is lost once is never forgotten.
LEMMA LostStays ==
    ASSUME [Next]_vars
    PROVE  /\ missed \subseteq missed' /\ raced \subseteq raced'
           /\ nameless \subseteq nameless' /\ replaced \subseteq replaced'
<1>1. CASE UNCHANGED vars
  BY <1>1 DEF vars, watcherVars, storageVars
<1>2. CASE WatcherSteps /\ UNCHANGED storageVars
  <2>1. missed \subseteq missed' /\ raced \subseteq raced'
    BY <1>2 DEF WatcherSteps, MonitorSteps, MonitorSkips, MonitorLoads, MonitorStores, MonitorEnds,
                DispatchSteps, DispatchBegins, DispatchVisits, DispatchSends, DispatchResets, DispatchEnds,
                TimerSteps, BatchTimerFires, MoveTimerFires, IncompleteSends, IncompleteForgets, watcherVars
  <2> QED BY <1>2, <2>1 DEF storageVars
<1>3. CASE Close /\ UNCHANGED storageVars
  BY <1>3 DEF Close, CloseSteps, CloseStops, CloseFlushes, CloseEvents, CloseReturns, storageVars
<1>4. CASE StorageSteps \/ SetUpdateStream
  BY <1>4 DEF StorageSteps, ScanFile, ReceiveUpdate, HandleDelete, HandleMove, HandleModify, HandlesUpdate,
              SetUpdateStream, AddMapping, RemoveMapping, watcherVars
<1>5. CASE ClientSteps
  <2>1. CASE ClientCalls
    BY <2>1 DEF ClientCalls, ClientUpdate, ClientDelete, ClientCreate, AddMapping, Gives
  <2>2. CASE ClientFails \/ ClientOpens
    BY <2>2 DEF ClientFails, ClientOpens, watcherVars
  <2>3. CASE ClientWrites \/ ClientRemoves
    BY <2>3 DEF ClientWrites, ClientRemoves, RemoveMapping, Notify
  <2> QED BY <1>5, <2>1, <2>2, <2>3 DEF ClientSteps
<1>6. CASE OutsideSteps
  <2>1. nameless' = nameless
    BY <1>6 DEF OutsideSteps
  <2>2. missed \subseteq missed' /\ raced \subseteq raced' /\ replaced \subseteq replaced'
    BY <1>6 DEF OutsideSteps, OutsideOpens, OutsideDeletes, OutsideRenames, OutsideMovesOut, OutsideMovesIn,
                OutsideWrites, Gives, Notify
  <2> QED BY <2>1, <2>2
<1> QED BY <1>1, <1>2, <1>3, <1>4, <1>5, <1>6 DEF Next

\* A step that takes no mapping away from an object that stays known.
LEMMA ViewStays ==
    ASSUME ViewInv, NothingLost' => NothingLost,
           NothingLost' => \A o \in Objects : o \in view' \ unheard' =>
                mappings'[o] # NoPath \/ (o \in view \ unheard /\ mappings'[o] = mappings[o])
    PROVE  ViewInv'
BY DEF ViewInv

LEMMA StorageView ==
    ASSUME TypeInv, FilesInv, ViewInv, NothingLost' => NothingLost, StorageSteps \/ SetUpdateStream, panicked' = "no"
    PROVE  ViewInv'
<1>1. mappings \in [Keys -> Paths \cup {NoPath}] /\ Objects \subseteq Keys /\ NoPath \notin Paths
  BY WatchStorageAssumption DEF TypeInv, FilesTypeOK, Keys
<1>2. CASE ScanFile
  <2>1. PICK p \in Paths, key \in Keys :
            \/ /\ mappings' = [mappings EXCEPT ![key] = p]
               /\ view' \ unheard' \subseteq (view \ unheard) \cup {key}
            \/ UNCHANGED <<mappings, view, unheard>>
    BY <1>2, KeyTyped DEF ScanFile, AddMapping, sendEvent, TypeInv, FilesTypeOK
  <2> QED BY <1>1, <2>1, ViewStays
<1>3. CASE ReceiveUpdate \/ SetUpdateStream
  BY <1>3, ViewStays DEF ReceiveUpdate, SetUpdateStream
<1>4. CASE HandleDelete
  <2>1. \/ UNCHANGED <<mappings, view, unheard>>
        \/ \E key \in Keys : /\ mappings' = [mappings EXCEPT ![key] = NoPath]
                             /\ view' \ unheard' \subseteq (view \ unheard) \ {key}
    BY <1>4 DEF HandleDelete, RemoveMapping, sendEvent, Mapped
  <2> QED BY <1>1, <2>1, ViewStays
<1>5. CASE HandleMove \/ HandleModify
  <2>1. PICK p, key : p = update.path /\ key = ObjectKeyFor(update.content)
    OBVIOUS
  <2>2. /\ HandlesUpdate /\ update # NoUpdate /\ update.event # "delete"
        /\ view' \ unheard' \subseteq (view \ unheard) \cup {key}
        /\ \/ mappings' = [mappings EXCEPT ![key] = p]
           \/ mappings' = mappings /\ Mapped(p) # {}
    BY <1>5, <2>1 DEF HandleMove, HandleModify, HandlesUpdate, AddMapping, sendEvent
  <2>3. p \in Paths /\ key \in Keys /\ (key # NilKey /\ Good(p) => key = owner[p])
    BY <2>1, <2>2, HandledKey
  <2>4. CASE mappings' = [mappings EXCEPT ![key] = p]
    BY <1>1, <2>2, <2>3, <2>4, ViewStays
  <2>5. CASE mappings' = mappings /\ Mapped(p) # {}
    <3>1. ASSUME NothingLost, key \in Objects PROVE mappings[key] # NoPath
      <4>1. Good(p) /\ key # NilKey
        BY <2>3, <3>1, WatchStorageAssumption DEF NothingLost, Good
      <4>2. key \in Mapped(p)
        BY <2>3, <2>5, <4>1 DEF FilesInv, OwnerInv
      <4> QED BY <1>1, <2>3, <4>2 DEF Mapped
    <3> QED BY <2>2, <2>5, <3>1, ViewStays
  <2> QED BY <2>2, <2>4, <2>5
<1> QED BY <1>2, <1>3, <1>4, <1>5 DEF StorageSteps

LEMMA ClientView ==
    ASSUME TypeInv, ViewInv, NothingLost' => NothingLost, ClientSteps
    PROVE  ViewInv'
<1>1. mappings \in [Keys -> Paths \cup {NoPath}] /\ Objects \subseteq Keys /\ NoPath \notin Paths /\ WriterFacts
  BY WatchStorageAssumption, WritersAre DEF TypeInv, FilesTypeOK, Keys
<1>2. CASE ClientCalls
  <2>1. UNCHANGED <<view, unheard>> /\
        (mappings' = mappings \/ \E o \in Objects, p \in Paths : mappings' = [mappings EXCEPT ![o] = p])
    BY <1>2 DEF ClientCalls, ClientUpdate, ClientDelete, ClientCreate, AddMapping
  <2> QED BY <1>1, <2>1, ViewStays
<1>3. CASE ClientFails \/ ClientOpens
  BY <1>3, ViewStays DEF ClientFails, ClientOpens
<1>4. CASE ClientWrites
  BY <1>4, ViewStays DEF ClientWrites
<1>5. CASE ClientRemoves
  <2>1. /\ mappings' = [mappings EXCEPT ![client.key] = NoPath]
        /\ view' = view \ {client.key} /\ unheard' = unheard
    BY <1>5 DEF ClientRemoves, RemoveMapping
  <2> QED BY <1>1, <2>1, ViewStays
<1> QED BY <1>2, <1>3, <1>4, <1>5 DEF ClientSteps

LEMMA ReaderNext ==
    ASSUME ReaderInv, [Next]_vars
    PROVE  ReaderInv'
<1>1. MapInv /\ MapInv'
  BY MapNext DEF ReaderInv
<1>2. ASSUME Open' PROVE ViewInv'
  <2>1. Open /\ ViewInv /\ TypeInv /\ FilesInv /\ panicked' = "no"
    BY <1>1, <1>2, StaysOpen DEF ReaderInv, MapInv, Open
  <2>2. NothingLost' => NothingLost
    BY LostStays DEF NothingLost
  <2>3. CASE UNCHANGED <<mappings, view, unheard>>
    BY <2>1, <2>2, <2>3, ViewStays
  <2>4. CASE StorageSteps \/ SetUpdateStream
    BY <2>1, <2>2, <2>4, StorageView
  <2>5. CASE ClientSteps
    BY <2>1, <2>2, <2>5, ClientView
  <2> QED BY <2>3, <2>4, <2>5 DEF Next, vars, storageVars, OutsideSteps
<1> QED BY <1>1, <1>2 DEF ReaderInv

LEMMA QuietIsKnown == ReaderInv => QuietReader
<1> SUFFICES ASSUME ReaderInv, Quiet, NEW o \in Objects \ unheard
             PROVE  /\ \A p \in Paths \ (missed \cup raced \cup nameless \cup replaced) : disk[p] = o => o \in view
                    /\ NothingLost /\ o \in view \ strayed =>
                          \E p \in Paths : disk[p] = o \/ (owner[p] = o /\ disk[p] \in Junk)
  BY DEF QuietReader, NothingLost
<1>1. MapInv /\ ViewInv /\ TypeInv
  BY DEF ReaderInv, MapInv, Open, Quiet
<1>2. ASSUME NEW p \in Paths, Good(p)
      PROVE  /\ disk[p] = o => Known(p, o)
             /\ mappings[o] = p /\ o \notin strayed => disk[p] \in {o} \cup Junk
             /\ mappings[o] = p => owner[p] = o
  BY <1>1, <1>2, QuietFile
<1>3. ASSUME NothingLost, o \in view \ strayed
      PROVE  \E p \in Paths : disk[p] = o \/ (owner[p] = o /\ disk[p] \in Junk)
  <2>1. mappings[o] \in Paths
    BY <1>1, <1>3 DEF ViewInv, TypeInv, FilesTypeOK, Keys
  <2>2. Good(mappings[o])
    BY <1>3, <2>1 DEF NothingLost, Good
  <2> QED BY <1>2, <1>3, <2>1, <2>2
<1> QED BY <1>2, <1>3 DEF Good, Known

\* Once every event has been handled, a reader of the events knows of every object in a
\* file whose events were not lost and, when no file's were, of no object that is gone:
\* whatever the order of the events of the files, their batches, the timers of the
\* renames, the reads of the files and the writes of the client (sendEvent and
\* monitorFunc of watch/storage.go).
THEOREM ReaderFollowsFiles == Spec => []QuietReader
<1>1. Init => ReaderInv
  BY MapInit DEF ReaderInv, ViewInv, Init
<1>2. ReaderInv /\ [Next]_vars => ReaderInv'
  BY ReaderNext
<1>3. ReaderInv => QuietReader
  BY QuietIsKnown
<1> QED BY <1>1, <1>2, <1>3, PTL DEF Spec
=============================================================================
