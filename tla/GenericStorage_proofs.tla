----------------------- MODULE GenericStorage_proofs -----------------------
(***************************************************************************)
(* Proofs about GenericStorage: it implements ObjectStore, and a List is   *)
(* stable where the identifiers are single directories.                    *)
(***************************************************************************)
EXTENDS GenericStorage, FiniteSetTheorems, FunctionTheorems, TLAPS

(***************************************************************************)
(* Parts of the refinement mapping, as functions of the files and of the   *)
(* calls, to state facts of a state and of the next one alike.             *)
(***************************************************************************)
Writers(cs, k) ==
  {c \in Clients : /\ cs[c] # NoCall /\ cs[c].key = k /\ cs[c].pc # "done"
                   /\ cs[c].op \in Writes}

ViewOf(f) == IF f.is \in {"empty", "torn"} THEN [is |-> "damaged", value |-> {}] ELSE f

ObjectOf(fs, cs, k) ==
  IF \E c \in Writers(cs, k) : ~cs[c].alone THEN [is |-> "unknown", value |-> {}]
  ELSE IF \E c \in Writers(cs, k) : cs[c].pc = "put"
  THEN File(cs[CHOOSE c \in Writers(cs, k) : cs[c].pc = "put"].content)
  ELSE ViewOf(fs[k])

AbstractCall(x) ==
  IF x = NoCall THEN NoCall
  ELSE [op |-> x.op, key |-> x.key, arg |-> x.arg, alone |-> x.alone,
        applied |-> x.alone /\ x.pc \in {"put", "rmdir"},
        status |-> x.status, value |-> x.value]

LEMMA WritersAre ==
  \A k : Writing(k) = Writers(calls, k) /\ Writing(k)' = Writers(calls', k)
BY DEF Writing, Running, Writers

LEMMA ObjectsAre ==
  /\ objects = [k \in Keys |-> ObjectOf(files, calls, k)]
  /\ objects' = [k \in Keys |-> ObjectOf(files', calls', k)]
<1>1. objects = [k \in Keys |-> ObjectOf(files, calls, k)]
  BY WritersAre DEF objects, ObjectOf, View, ViewOf
<1>2. objects' = [k \in Keys |-> ObjectOf(files', calls', k)]
  BY WritersAre DEF objects, ObjectOf, View, ViewOf
<1>3. QED
  BY <1>1, <1>2

LEMMA AbstractCallsAre ==
  /\ abstractCalls = [c \in Clients |-> AbstractCall(calls[c])]
  /\ abstractCalls' = [c \in Clients |-> AbstractCall(calls'[c])]
BY DEF abstractCalls, AbstractCall

-----------------------------------------------------------------------------
(***************************************************************************)
(* The invariant.  A call that is alone knows what it found on the disk,   *)
(* because no other one writes to its key.                                 *)
(***************************************************************************)
Sound(x) ==
  /\ x.pc = "done" <=> x.status # "running"
  /\ x.pc = "read" => x.op \in Reads \cup {"patch"}
  /\ x.pc \in {"stat", "open", "put"} => x.op \in {"create", "update", "patch"}
  /\ x.pc \in {"unlink", "rmdir"} => x.op = "delete"
  /\ x.pc = "open" => x.key \in Supported
  /\ x.op # "patch" /\ x.pc # "done" => x.content = x.arg

KnowsFile(x, f) ==
  /\ x.pc \in {"read", "unlink"} => x.key \in Supported /\ f.is # "absent"
  /\ x.pc \in {"stat", "open"} =>
       CASE x.op = "create" -> x.key \in Supported => f = Absent
         [] x.op = "update" -> x.key \in Supported /\ f.is # "absent"
         [] OTHER -> /\ x.key \in Supported /\ f.is = "whole"
                     /\ x.content = f.value \cup x.arg
  /\ x.pc = "put" => f = Empty /\ x.linked
  /\ x.pc = "rmdir" => f = Absent

Sole(cs, c) == cs[c].alone /\ cs[c].pc # "done" => Writers(cs, cs[c].key) \subseteq {c}

CallOK(fs, cs, c) ==
  cs[c] # NoCall =>
    /\ Sound(cs[c])
    /\ cs[c].alone => KnowsFile(cs[c], fs[cs[c].key])
    /\ Sole(cs, c)

StorageInv(fs, cs) ==
  /\ fs \in [Keys -> Files]
  /\ cs \in [Clients -> CallRecords \cup {NoCall}]
  /\ \A c \in Clients : CallOK(fs, cs, c)

-----------------------------------------------------------------------------
(***************************************************************************)
(* What the invariant says of the abstract object of a key.                *)
(***************************************************************************)
LEMMA SoleWriter ==
    ASSUME NEW fs, NEW cs, StorageInv(fs, cs), NEW k, NEW c \in Writers(cs, k), cs[c].alone
    PROVE  Writers(cs, k) = {c}
<1>1. c \in Clients /\ cs[c] # NoCall /\ cs[c].key = k /\ cs[c].pc # "done"
  BY DEF Writers
<1>2. Sole(cs, c)
  BY <1>1 DEF StorageInv, CallOK
<1>3. QED
  BY <1>1, <1>2 DEF Sole

LEMMA SoleObject ==
    ASSUME NEW fs, NEW cs, StorageInv(fs, cs), NEW k, NEW c \in Writers(cs, k), cs[c].alone
    PROVE  ObjectOf(fs, cs, k) = IF cs[c].pc = "put" THEN File(cs[c].content) ELSE ViewOf(fs[k])
<1>1. Writers(cs, k) = {c}
  BY SoleWriter
<1>2. CASE cs[c].pc = "put"
  <2>1. (CHOOSE d \in Writers(cs, k) : cs[d].pc = "put") = c
    BY <1>1, <1>2
  <2>2. QED
    BY <1>1, <1>2, <2>1 DEF ObjectOf
<1>3. CASE cs[c].pc # "put"
  BY <1>1, <1>3 DEF ObjectOf
<1>4. QED
  BY <1>2, <1>3

LEMMA QuietObject ==
    ASSUME NEW fs, NEW cs, NEW k, Writers(cs, k) = {}
    PROVE  ObjectOf(fs, cs, k) = ViewOf(fs[k])
BY DEF ObjectOf

LEMMA OverlappedObject ==
    ASSUME NEW fs, NEW cs, NEW k, NEW c \in Writers(cs, k), ~cs[c].alone
    PROVE  ObjectOf(fs, cs, k) = [is |-> "unknown", value |-> {}]
BY DEF ObjectOf

-----------------------------------------------------------------------------
(***************************************************************************)
(* A step of one call: what it may do, and what of the rest stays.         *)
(***************************************************************************)
\* A call of another client, which may have lost its file.
Stays(x, y) == y = x \/ (x \in CallRecords /\ ~x.alone /\ y = [x EXCEPT !.linked = FALSE])

StepOf(c) ==
  /\ calls[c] # NoCall /\ calls[c].pc # "done"
  /\ calls' \in [Clients -> CallRecords \cup {NoCall}] /\ calls'[c] # NoCall
  /\ calls'[c].op = calls[c].op /\ calls'[c].key = calls[c].key
  /\ calls'[c].pc # "done" => /\ calls'[c].alone = calls[c].alone
                              /\ calls'[c].arg = calls[c].arg
                              /\ calls'[c].status = calls[c].status
                              /\ calls'[c].value = calls[c].value
  /\ \A d \in Clients \ {c} : Stays(calls[d], calls'[d])
  /\ files' \in [Keys -> Files]
  /\ \A k \in Keys \ {calls[c].key} : files'[k] = files[k]
  /\ calls[c].op \in Reads => files' = files
  /\ Sound(calls'[c])
  /\ calls'[c].alone => KnowsFile(calls'[c], files'[calls[c].key])

LEMMA StaysSame ==
    ASSUME NEW x, NEW y, Stays(x, y), NoCall \notin CallRecords
    PROVE  /\ x = NoCall <=> y = NoCall
           /\ x # NoCall => /\ y.op = x.op /\ y.key = x.key /\ y.pc = x.pc /\ y.alone = x.alone
                            /\ y.content = x.content /\ y.arg = x.arg
                            /\ y.status = x.status /\ y.value = x.value
           /\ x # NoCall /\ x.alone => y = x
<1>1. CASE y = x
  BY <1>1
<1>2. CASE x \in CallRecords /\ ~x.alone /\ y = [x EXCEPT !.linked = FALSE]
  <2>1. y \in CallRecords
    BY <1>2 DEF CallRecords
  <2>2. QED
    BY <1>2, <2>1 DEF CallRecords
<1>3. QED
  BY <1>1, <1>2 DEF Stays

LEMMA NoCallIs == NoCall \notin CallRecords /\ NoCall \notin AbstractCallRecords
BY StorageAssumption

LEMMA StepWriters ==
    ASSUME StorageInv(files, calls), NEW c \in Clients, StepOf(c), NEW k
    PROVE  Writers(calls', k) = IF k = calls[c].key /\ calls'[c].pc = "done"
                                THEN Writers(calls, k) \ {c} ELSE Writers(calls, k)
<1>1. \A d \in Clients \ {c} : d \in Writers(calls', k) <=> d \in Writers(calls, k)
  BY StaysSame, NoCallIs DEF StepOf, Writers
<1>2. c \in Writers(calls', k) <=> c \in Writers(calls, k) /\ calls'[c].pc # "done"
  BY DEF StepOf, Writers
<1>3. c \in Writers(calls, k) => k = calls[c].key
  BY DEF Writers
<1>4. Writers(calls', k) \subseteq Clients /\ Writers(calls, k) \subseteq Clients
  BY DEF Writers
<1>5. QED
  BY <1>1, <1>2, <1>3, <1>4

LEMMA StepKeepsInv ==
    ASSUME StorageInv(files, calls), NEW c \in Clients, StepOf(c)
    PROVE  StorageInv(files', calls')
<1>1. ASSUME NEW d \in Clients, calls'[d] # NoCall
      PROVE  Sole(calls', d)
  <2> SUFFICES ASSUME calls'[d].alone, calls'[d].pc # "done"
               PROVE  Writers(calls', calls'[d].key) \subseteq {d}
    BY DEF Sole
  <2>1. calls[d] # NoCall /\ calls[d].alone /\ calls[d].pc # "done" /\ calls[d].key = calls'[d].key
    BY <1>1, StaysSame, NoCallIs DEF StepOf
  <2>2. Writers(calls, calls[d].key) \subseteq {d}
    BY <2>1 DEF StorageInv, CallOK, Sole
  <2>3. QED
    BY <2>1, <2>2, StepWriters
<1>2. CallOK(files', calls', c)
  BY <1>1 DEF StepOf, CallOK
<1>3. ASSUME NEW d \in Clients \ {c}
      PROVE  CallOK(files', calls', d)
  <2> SUFFICES ASSUME calls'[d] # NoCall
               PROVE  /\ Sound(calls'[d])
                      /\ calls'[d].alone => KnowsFile(calls'[d], files'[calls'[d].key])
    BY <1>1 DEF CallOK
  <2>1. Stays(calls[d], calls'[d]) /\ calls[d] # NoCall
    BY StaysSame, NoCallIs DEF StepOf
  <2>2. Sound(calls[d]) /\ (calls[d].alone => KnowsFile(calls[d], files[calls[d].key])) /\ Sole(calls, d)
    BY <2>1 DEF StorageInv, CallOK
  <2>3. Sound(calls'[d])
    BY <2>1, <2>2, StaysSame, NoCallIs DEF Sound
  <2>4. ASSUME calls'[d].alone
        PROVE  KnowsFile(calls'[d], files'[calls'[d].key])
    <3>1. calls'[d] = calls[d] /\ calls[d].alone
      BY <2>1, <2>4, StaysSame, NoCallIs
    <3>2. CASE calls[d].pc = "done"
      BY <3>1, <3>2 DEF KnowsFile
    <3>3. CASE calls[d].pc # "done"
      <4>1. c \notin Writers(calls, calls[d].key)
        BY <2>2, <3>1, <3>3 DEF Sole
      <4>2. calls[d].key # calls[c].key \/ calls[c].op \notin Writes
        BY <4>1 DEF Writers, StepOf
      <4>3. calls[c] \in CallRecords /\ calls[d] \in CallRecords
        BY <2>1 DEF StorageInv, StepOf
      <4>4. files'[calls[d].key] = files[calls[d].key]
        BY <4>2, <4>3 DEF StepOf, CallRecords
      <4>5. QED
        BY <2>2, <3>1, <4>4
    <3>4. QED
      BY <3>2, <3>3
  <2>5. QED
    BY <2>3, <2>4
<1>4. QED
  BY <1>2, <1>3 DEF StorageInv, StepOf

\* An object stays as it is when its file and the calls that write it do.
LEMMA SameObject ==
    ASSUME StorageInv(files, calls), StorageInv(files', calls'), NEW k,
           files'[k] = files[k], Writers(calls', k) = Writers(calls, k),
           \A d \in Writers(calls, k) : /\ calls'[d].alone = calls[d].alone
                                        /\ calls'[d].pc = calls[d].pc
                                        /\ calls'[d].content = calls[d].content
    PROVE  ObjectOf(files', calls', k) = ObjectOf(files, calls, k)
<1>1. CASE Writers(calls, k) = {}
  BY <1>1, QuietObject
<1>2. ASSUME NEW d \in Writers(calls, k), ~calls[d].alone
      PROVE  ObjectOf(files', calls', k) = ObjectOf(files, calls, k)
  <2>1. d \in Writers(calls', k) /\ ~calls'[d].alone
    BY <1>2
  <2>2. /\ ObjectOf(files, calls, k) = [is |-> "unknown", value |-> {}]
        /\ ObjectOf(files', calls', k) = [is |-> "unknown", value |-> {}]
    BY <1>2, <2>1, OverlappedObject
  <2>3. QED
    BY <2>2
<1>3. ASSUME NEW d \in Writers(calls, k), calls[d].alone
      PROVE  ObjectOf(files', calls', k) = ObjectOf(files, calls, k)
  <2>1. d \in Writers(calls', k) /\ calls'[d].alone
    BY <1>3
  <2>2. /\ ObjectOf(files, calls, k) =
             IF calls[d].pc = "put" THEN File(calls[d].content) ELSE ViewOf(files[k])
        /\ ObjectOf(files', calls', k) =
             IF calls'[d].pc = "put" THEN File(calls'[d].content) ELSE ViewOf(files'[k])
    BY <1>3, <2>1, SoleObject
  <2>3. QED
    BY <2>2
<1>4. QED
  BY <1>1, <1>2, <1>3

LEMMA StepObjects ==
    ASSUME StorageInv(files, calls), NEW c \in Clients, StepOf(c),
           NEW k \in Keys, k # calls[c].key
    PROVE  ObjectOf(files', calls', k) = ObjectOf(files, calls, k)
<1>1. Writers(calls', k) = Writers(calls, k) /\ files'[k] = files[k]
  BY StepWriters DEF StepOf
<1>2. \A d \in Writers(calls, k) : d \in Clients \ {c} /\ calls[d] # NoCall
  BY DEF Writers
<1>3. \A d \in Writers(calls, k) : calls'[d].alone = calls[d].alone /\ calls'[d].pc = calls[d].pc
                                   /\ calls'[d].content = calls[d].content
  BY <1>2, StaysSame, NoCallIs DEF StepOf
<1>4. QED
  BY <1>1, <1>3, SameObject, StepKeepsInv

\* What ObjectStore sees of the step: one call, and the object of its key.
LEMMA StepAbstract ==
    ASSUME StorageInv(files, calls), NEW c \in Clients, StepOf(c)
    PROVE  /\ abstractCalls' = [abstractCalls EXCEPT ![c] = AbstractCall(calls'[c])]
           /\ objects' = [objects EXCEPT ![calls[c].key] = ObjectOf(files', calls', calls[c].key)]
<1>1. ASSUME NEW d \in Clients \ {c}
      PROVE  AbstractCall(calls'[d]) = AbstractCall(calls[d])
  BY StaysSame, NoCallIs DEF StepOf, AbstractCall
<1>2. abstractCalls' = [abstractCalls EXCEPT ![c] = AbstractCall(calls'[c])]
  BY <1>1, AbstractCallsAre
<1>3. objects' = [objects EXCEPT ![calls[c].key] = ObjectOf(files', calls', calls[c].key)]
  BY ObjectsAre, StepObjects
<1>4. QED
  BY <1>2, <1>3

-----------------------------------------------------------------------------
(***************************************************************************)
(* The steps of ObjectStore that the ends of calls are.                    *)
(***************************************************************************)
Unknown == [is |-> "unknown", value |-> {}]
Damaged == [is |-> "damaged", value |-> {}]

Simulates == StorageInv(files', calls') /\ [Store!Next]_(Store!vars)

LEMMA AbstractFields ==
    ASSUME StorageInv(files, calls), NEW c \in Clients, calls[c] # NoCall
    PROVE  /\ calls[c] \in CallRecords
           /\ abstractCalls[c] \in AbstractCallRecords /\ abstractCalls[c] # NoCall
           /\ abstractCalls[c].op = calls[c].op /\ abstractCalls[c].key = calls[c].key
           /\ abstractCalls[c].arg = calls[c].arg /\ abstractCalls[c].alone = calls[c].alone
           /\ abstractCalls[c].applied = (calls[c].alone /\ calls[c].pc \in {"put", "rmdir"})
           /\ abstractCalls[c].status = calls[c].status
           /\ abstractCalls[c].value = calls[c].value
           /\ calls[c].status = "running" <=> calls[c].pc # "done"
<1>1. calls[c] \in CallRecords /\ Sound(calls[c])
  BY DEF StorageInv, CallOK
<1>2. abstractCalls[c] = AbstractCall(calls[c])
  BY AbstractCallsAre
<1>3. abstractCalls[c] \in AbstractCallRecords
  BY <1>1, <1>2 DEF AbstractCall, CallRecords, AbstractCallRecords
<1>4. QED
  BY <1>1, <1>2, <1>3, NoCallIs DEF AbstractCall, Sound

LEMMA StoreWriters ==
    ASSUME StorageInv(files, calls), NEW k
    PROVE  /\ Store!Writing(k) = Writers(calls, k)
           /\ Store!Overlapping(k) = {c \in Writers(calls, k) : ~calls[c].alone}
<1>1. ASSUME NEW c \in Clients
      PROVE  /\ c \in Store!Writing(k) <=> c \in Writers(calls, k)
             /\ c \in Writers(calls, k) => abstractCalls[c].alone = calls[c].alone
  <2>1. CASE calls[c] = NoCall
    BY <2>1, AbstractCallsAre DEF Store!Writing, Store!Running, Writers, AbstractCall
  <2>2. CASE calls[c] # NoCall
    BY <2>2, AbstractFields DEF Store!Writing, Store!Running, Store!Writes, Writers, Writes
  <2>3. QED
    BY <2>1, <2>2
<1>2. Store!Writing(k) \subseteq Clients /\ Writers(calls, k) \subseteq Clients
  BY DEF Store!Writing, Store!Running, Writers
<1>3. Store!Writing(k) = Writers(calls, k)
  BY <1>1, <1>2
<1>4. QED
  BY <1>1, <1>2, <1>3 DEF Store!Overlapping

\* A call that returns.
LEMMA ReturnStep ==
    ASSUME StorageInv(files, calls), NEW c \in Clients, calls[c] # NoCall, calls[c].pc # "done",
           NEW s \in Errors \cup {"ok"}, NEW v \in Values, Return(c, s, v),
           files' \in [Keys -> Files], \A k \in Keys \ {calls[c].key} : files'[k] = files[k],
           calls[c].op \in Reads => files' = files
    PROVE  StepOf(c) /\ Store!Returns(c, s, v) /\ calls'[c].pc = "done"
<1> DEFINE r == [op |-> calls[c].op, key |-> calls[c].key, arg |-> {}, content |-> {},
                 pc |-> "done", linked |-> FALSE, alone |-> TRUE, status |-> s, value |-> v]
<1>1. calls' = [calls EXCEPT ![c] = r]
  BY DEF Return
<1>2. calls[c] \in CallRecords /\ calls \in [Clients -> CallRecords \cup {NoCall}]
  BY DEF StorageInv
<1>3. r \in CallRecords
  BY <1>2 DEF CallRecords, Values, Errors
<1>4. calls' \in [Clients -> CallRecords \cup {NoCall}] /\ calls'[c] = r
  BY <1>1, <1>2, <1>3
<1>5. Sound(r) /\ KnowsFile(r, files'[calls[c].key])
  BY DEF Sound, KnowsFile, Errors
<1>6. \A d \in Clients \ {c} : Stays(calls[d], calls'[d])
  BY <1>1, <1>2 DEF Stays
<1>7. StepOf(c)
  <2>1. r # NoCall
    BY <1>3, NoCallIs
  <2>2. /\ r.op = calls[c].op /\ r.key = calls[c].key /\ r.pc = "done"
    OBVIOUS
  <2> HIDE DEF r
  <2>3. /\ calls'[c] # NoCall /\ calls'[c].op = calls[c].op /\ calls'[c].key = calls[c].key
        /\ calls'[c].pc = "done"
    BY <1>4, <2>1, <2>2
  <2>4. Sound(calls'[c]) /\ KnowsFile(calls'[c], files'[calls[c].key])
    BY <1>4, <1>5
  <2>5. QED
    BY <1>4, <1>6, <2>3, <2>4 DEF StepOf
<1>8. AbstractCall(r) = [op |-> calls[c].op, key |-> calls[c].key, arg |-> {}, alone |-> TRUE,
                         applied |-> FALSE, status |-> s, value |-> v]
  BY <1>3, NoCallIs DEF AbstractCall
<1>9. abstractCalls[c].op = calls[c].op /\ abstractCalls[c].key = calls[c].key
  BY AbstractFields
<1>10. Store!Returns(c, s, v)
  <2>1. abstractCalls' = [abstractCalls EXCEPT ![c] = AbstractCall(r)]
    BY <1>4, <1>7, StepAbstract
  <2>2. abstractCalls' = [abstractCalls EXCEPT ![c] =
          [op |-> abstractCalls[c].op, key |-> abstractCalls[c].key, arg |-> {}, alone |-> TRUE,
           applied |-> FALSE, status |-> s, value |-> v]]
    BY <1>8, <1>9, <2>1
  <2>3. QED
    BY <2>2 DEF Store!Returns
<1>11. QED
  BY <1>4, <1>7, <1>10

\* A call that goes on.
LEMMA GoStep ==
    ASSUME StorageInv(files, calls), NEW c \in Clients, calls[c] # NoCall, calls[c].pc # "done",
           NEW r \in CallRecords, calls' = [calls EXCEPT ![c] = r],
           r.op = calls[c].op, r.key = calls[c].key, r.arg = calls[c].arg,
           r.alone = calls[c].alone, r.status = calls[c].status, r.value = calls[c].value,
           Sound(r), r.alone => KnowsFile(r, files'[calls[c].key]),
           files' \in [Keys -> Files], \A k \in Keys \ {calls[c].key} : files'[k] = files[k],
           calls[c].op \in Reads => files' = files
    PROVE  StepOf(c) /\ calls'[c] = r
<1>1. calls \in [Clients -> CallRecords \cup {NoCall}]
  BY DEF StorageInv
<1>2. calls' \in [Clients -> CallRecords \cup {NoCall}] /\ calls'[c] = r
  BY <1>1
<1>3. \A d \in Clients \ {c} : Stays(calls[d], calls'[d])
  BY <1>1 DEF Stays
<1>4. QED
  BY <1>2, <1>3, NoCallIs DEF StepOf

LEMMA StepOfNext ==
    ASSUME NEW c \in Clients,
           \/ Store!Apply(c) \/ Store!Applied(c) \/ Store!Refuse(c) \/ Store!Answer(c)
           \/ Store!AnswerUnknown(c) \/ Store!Fail(c) \/ Store!Settle(c) \/ Store!Forget(c)
    PROVE  Store!Next
BY DEF Store!Next

\* A read changes no object.
LEMMA ReadKeepsObject ==
    ASSUME StorageInv(files, calls), NEW c \in Clients, StepOf(c), calls[c].op \in Reads,
           NEW k \in Keys
    PROVE  ObjectOf(files', calls', k) = ObjectOf(files, calls, k)
<1>1. files' = files /\ calls[c].op \notin Writes /\ Writers(calls', k) = Writers(calls, k)
  <2>1. c \notin Writers(calls, k)
    BY DEF Writers, Reads, Writes
  <2>2. Writers(calls', k) = Writers(calls, k)
    BY <2>1, StepWriters
  <2>3. QED
    BY <2>2 DEF StepOf, Reads, Writes
<1>2. \A d \in Writers(calls, k) : calls'[d].alone = calls[d].alone /\ calls'[d].pc = calls[d].pc
                                   /\ calls'[d].content = calls[d].content
  <2>1. \A d \in Writers(calls, k) : d \in Clients \ {c} /\ calls[d] # NoCall
    BY <1>1 DEF Writers
  <2>2. QED
    BY <2>1, StaysSame, NoCallIs DEF StepOf
<1>3. QED
  BY <1>1, <1>2, SameObject, StepKeepsInv

\* The step neither applies the call nor ends it.
LEMMA Stutters ==
    ASSUME StorageInv(files, calls), NEW c \in Clients, StepOf(c), calls'[c].pc # "done",
           calls[c].alone =>
             (calls'[c].pc \in {"put", "rmdir"} <=> calls[c].pc \in {"put", "rmdir"}),
           \/ calls[c].op \in Reads
           \/ ~calls[c].alone
           \/ calls'[c].pc # "put" /\ calls[c].pc # "put" /\ files' = files
    PROVE  Simulates
<1> DEFINE k == calls[c].key
<1>1. calls[c] \in CallRecords /\ k \in Keys
  BY DEF StorageInv, StepOf, CallRecords
<1>2. AbstractCall(calls'[c]) = AbstractCall(calls[c])
  BY DEF StepOf, AbstractCall
<1>3. Writers(calls', k) = Writers(calls, k)
  BY StepWriters
<1>4. ObjectOf(files', calls', k) = ObjectOf(files, calls, k)
  <2>1. CASE calls[c].op \notin Writes
    BY <1>1, <2>1, ReadKeepsObject DEF CallRecords, Reads, Writes
  <2>2. CASE calls[c].op \in Writes
    <3>1. c \in Writers(calls, k) /\ c \in Writers(calls', k) /\ calls'[c].alone = calls[c].alone
      BY <1>3, <2>2 DEF Writers, StepOf
    <3>2. CASE ~calls[c].alone
      BY <3>1, <3>2, OverlappedObject
    <3>3. CASE calls[c].alone
      <4>1. calls'[c].pc # "put" /\ calls[c].pc # "put" /\ files' = files
        BY <2>2, <3>3 DEF Reads, Writes
      <4>2. ObjectOf(files, calls, k) = ViewOf(files[k])
        BY <3>1, <3>3, <4>1, SoleObject
      <4>3. ObjectOf(files', calls', k) = ViewOf(files'[k])
        BY <3>1, <3>3, <4>1, SoleObject, StepKeepsInv
      <4>4. QED
        BY <4>1, <4>2, <4>3
    <3>4. QED
      BY <3>2, <3>3
  <2>3. QED
    BY <2>1, <2>2
<1>5. abstractCalls' = abstractCalls /\ objects' = objects
  <2>1. abstractCalls' = [abstractCalls EXCEPT ![c] = AbstractCall(calls'[c])]
        /\ objects' = [objects EXCEPT ![k] = ObjectOf(files', calls', k)]
    BY StepAbstract
  <2>2. abstractCalls[c] = AbstractCall(calls[c]) /\ objects[k] = ObjectOf(files, calls, k)
    BY <1>1, AbstractCallsAre, ObjectsAre
  <2>3. QED
    BY <1>2, <1>4, <2>1, <2>2, AbstractCallsAre, ObjectsAre
<1>6. QED
  BY <1>5, StepKeepsInv DEF Simulates, Store!vars

LEMMA FileIs ==
    ASSUME NEW f \in Files
    PROVE  /\ f.is \in {"whole", "torn", "absent", "empty"} /\ f.value \in Values
           /\ f = Absent <=> f.is = "absent"
           /\ f = Empty <=> f.is = "empty"
           /\ f.is = "whole" => f = File(f.value)
           /\ ViewOf(f) = Damaged <=> f.is \in {"empty", "torn"}
           /\ f.is \in {"whole", "absent"} => ViewOf(f) = f
BY DEF Files, File, Torn, Absent, Empty, Values, ViewOf, Damaged

\* What a file looks like is an object that ObjectStore knows.
LEMMA ViewIsObject == ASSUME NEW f \in Files PROVE ViewOf(f) \in Store!Objects
BY DEF Files, File, Torn, Absent, Empty, ViewOf, Values,
       Store!Objects, Store!Object, Store!Absent, Store!Damaged, Store!Values

\* The object of a key after a write of it has returned.
LEMMA EndObject ==
    ASSUME StorageInv(files, calls), NEW c \in Clients, StepOf(c), calls'[c].pc = "done",
           calls[c].op \in Writes
    PROVE  LET k == calls[c].key IN
           ObjectOf(files', calls', k) =
             IF calls[c].alone \/ Store!Overlapping(k) = {c} THEN ViewOf(files'[k]) ELSE Unknown
<1> DEFINE k == calls[c].key
<1>1. c \in Writers(calls, k) /\ Writers(calls', k) = Writers(calls, k) \ {c}
  BY StepWriters DEF Writers, StepOf
<1>2. CASE calls[c].alone
  BY <1>1, <1>2, SoleWriter, QuietObject
<1>3. CASE ~calls[c].alone
  <2>1. \A d \in Writers(calls, k) : ~calls[d].alone
    <3> SUFFICES ASSUME NEW d \in Writers(calls, k), calls[d].alone PROVE FALSE
      OBVIOUS
    <3>1. Writers(calls, k) = {d}
      BY SoleWriter
    <3>2. QED
      BY <1>1, <1>3, <3>1
  <2>2. Store!Overlapping(k) = Writers(calls, k)
    BY <2>1, StoreWriters
  <2>3. CASE Store!Overlapping(k) = {c}
    BY <1>1, <2>2, <2>3, QuietObject
  <2>4. CASE Store!Overlapping(k) # {c}
    <3>1. PICK d \in Writers(calls, k) : d # c
      BY <1>1, <2>2, <2>4
    <3>2. d \in Clients \ {c} /\ calls[d] # NoCall
      BY <3>1 DEF Writers
    <3>3. d \in Writers(calls', k) /\ ~calls'[d].alone
      BY <1>1, <2>1, <3>1, <3>2, StaysSame, NoCallIs DEF StepOf
    <3>4. QED
      BY <1>3, <2>4, <3>3, OverlappedObject DEF Unknown
  <2>5. QED
    BY <1>3, <2>3, <2>4
<1>4. QED
  BY <1>2, <1>3

\* A write that was not alone returns, whatever it did.
LEMMA SettleStep ==
    ASSUME StorageInv(files, calls), NEW c \in Clients, calls[c].op \in Writes, ~calls[c].alone,
           NEW s \in Errors \cup {"ok"}, StepOf(c), Store!Returns(c, s, {}), calls'[c].pc = "done"
    PROVE  Simulates
<1> DEFINE k == calls[c].key
<1>1. k \in Keys /\ calls[c] # NoCall /\ calls[c].pc # "done"
  BY DEF StorageInv, StepOf, CallRecords
<1>2. ViewOf(files'[k]) \in Store!Objects
  BY <1>1, ViewIsObject DEF StepOf
<1>3. objects' = [objects EXCEPT ![k] =
                    IF Store!Overlapping(k) = {c} THEN ViewOf(files'[k]) ELSE Unknown]
  BY StepAbstract, EndObject
<1>4. Store!Settle(c)
  <2>1. \E o \in Store!Objects :
          objects' = [objects EXCEPT ![abstractCalls[c].key] =
                        IF Store!Overlapping(abstractCalls[c].key) = {c} THEN o ELSE Store!Unknown]
    BY <1>1, <1>2, <1>3, AbstractFields DEF Store!Unknown, Unknown
  <2>2. /\ abstractCalls[c] # NoCall
        /\ abstractCalls[c].status = "running" /\ ~abstractCalls[c].alone
        /\ abstractCalls[c].op \in Store!Writes
    BY <1>1, AbstractFields DEF Store!Writes, Writes
  <2>3. \E t \in Store!Errors \cup {"ok"} : Store!Returns(c, t, {})
    BY DEF Store!Errors, Errors
  <2>4. QED
    BY <2>1, <2>2, <2>3 DEF Store!Settle
<1>5. QED
  BY <1>4, StepOfNext, StepKeepsInv DEF Simulates

\* A write that is alone fails.
LEMMA FailStep ==
    ASSUME StorageInv(files, calls), NEW c \in Clients, calls[c].op \in Writes, calls[c].alone,
           StepOf(c), Store!Returns(c, "failed", {}), calls'[c].pc = "done",
           ViewOf(files'[calls[c].key]) \in {ObjectOf(files, calls, calls[c].key), Damaged}
    PROVE  Simulates
<1> DEFINE k == calls[c].key
<1>1. k \in Keys /\ calls[c] # NoCall /\ calls[c].pc # "done"
  BY DEF StorageInv, StepOf, CallRecords
<1>2. objects' = [objects EXCEPT ![k] = ViewOf(files'[k])] /\ objects[k] = ObjectOf(files, calls, k)
  BY <1>1, StepAbstract, EndObject, ObjectsAre
<1>3. \E o \in {objects[k], Store!Damaged} : objects' = [objects EXCEPT ![k] = o]
  BY <1>2 DEF Damaged, Store!Damaged
<1>4. Store!Fail(c)
  BY <1>1, <1>3, AbstractFields DEF Store!Fail, Store!Writes, Writes
<1>5. QED
  BY <1>4, StepOfNext, StepKeepsInv DEF Simulates

\* A write that is alone is refused.
LEMMA RefuseStep ==
    ASSUME StorageInv(files, calls), NEW c \in Clients, calls[c].op \in Writes, calls[c].alone,
           NEW s, StepOf(c), Store!Returns(c, s, {}), calls'[c].pc = "done",
           calls[c].pc \notin {"put", "rmdir"}, files' = files,
           s \in Store!Refusals(calls[c].op, calls[c].key, ViewOf(files[calls[c].key]))
    PROVE  Simulates
<1> DEFINE k == calls[c].key
<1>1. k \in Keys /\ calls[c] # NoCall /\ calls[c].pc # "done" /\ c \in Writers(calls, k)
  BY DEF StorageInv, StepOf, CallRecords, Writers
<1>2. objects[k] = ViewOf(files[k])
  BY <1>1, SoleObject, ObjectsAre
<1>3. UNCHANGED objects
  <2>1. objects' = [objects EXCEPT ![k] = ViewOf(files'[k])]
    BY <1>1, StepAbstract, EndObject
  <2>2. QED
    BY <1>2, <2>1, ObjectsAre
<1>4. s \in Store!Refusals(abstractCalls[c].op, abstractCalls[c].key, objects[abstractCalls[c].key])
  BY <1>1, <1>2, AbstractFields
<1>5. Store!Refuse(c)
  BY <1>1, <1>3, <1>4, AbstractFields DEF Store!Refuse
<1>6. QED
  BY <1>5, StepOfNext, StepKeepsInv DEF Simulates

\* The end of a write before it has touched its file.
LEMMA WriteReturns ==
    ASSUME StorageInv(files, calls), NEW c \in Clients, calls[c] # NoCall,
           calls[c].pc \notin {"done", "put", "rmdir"}, calls[c].op \in Writes, files' = files,
           NEW s \in Errors, Return(c, s, {}),
           calls[c].alone => \/ s = "failed"
                             \/ s \in Store!Refusals(calls[c].op, calls[c].key,
                                                     ViewOf(files[calls[c].key]))
    PROVE  Simulates
<1>1. StepOf(c) /\ Store!Returns(c, s, {}) /\ calls'[c].pc = "done"
  BY ReturnStep DEF StorageInv, Values
<1>2. CASE ~calls[c].alone
  BY <1>1, <1>2, SettleStep
<1>3. CASE calls[c].alone /\ s = "failed"
  <2>1. ObjectOf(files, calls, calls[c].key) = ViewOf(files[calls[c].key])
    BY <1>3, SoleObject DEF Writers
  <2>2. QED
    BY <1>1, <1>3, <2>1, FailStep
<1>4. CASE calls[c].alone /\ s # "failed"
  BY <1>1, <1>4, RefuseStep
<1>5. QED
  BY <1>2, <1>3, <1>4

LEMMA ReturnedRead ==
    ASSUME StorageInv(files, calls), NEW c \in Clients, calls[c] # NoCall,
           calls[c].pc # "done", calls[c].op \in Reads, files' = files,
           NEW s \in Errors \cup {"ok"}, NEW v \in Values, Return(c, s, v)
    PROVE  StorageInv(files', calls') /\ Store!Returns(c, s, v) /\ UNCHANGED objects
<1>1. StepOf(c) /\ Store!Returns(c, s, v)
  BY ReturnStep DEF StorageInv
<1>2. \A k \in Keys : ObjectOf(files', calls', k) = ObjectOf(files, calls, k)
  BY <1>1, ReadKeepsObject
<1>3. UNCHANGED objects
  BY <1>2, ObjectsAre
<1>4. QED
  BY <1>1, <1>3, StepKeepsInv

\* What a reader may make of the abstract object, from what it finds on the disk.
LEMMA ObjectKinds ==
    ASSUME StorageInv(files, calls), NEW k \in Keys
    PROVE  \/ objects[k] = Unknown
           \/ objects[k] = ViewOf(files[k])
           \/ files[k] = Empty /\ Writers(calls, k) # {}
<1>1. objects[k] = ObjectOf(files, calls, k)
  BY ObjectsAre
<1>2. CASE Writers(calls, k) = {}
  BY <1>1, <1>2, QuietObject
<1>3. ASSUME NEW d \in Writers(calls, k), ~calls[d].alone
      PROVE  objects[k] = Unknown
  BY <1>1, <1>3, OverlappedObject DEF Unknown
<1>4. ASSUME NEW d \in Writers(calls, k), calls[d].alone
      PROVE  objects[k] = ViewOf(files[k]) \/ files[k] = Empty
  <2>1. d \in Clients /\ calls[d] # NoCall /\ calls[d].key = k
    BY DEF Writers
  <2>2. calls[d].pc = "put" => files[k] = Empty
    BY <1>4, <2>1 DEF StorageInv, CallOK, KnowsFile
  <2>3. QED
    BY <1>1, <1>4, <2>2, SoleObject
<1>5. QED
  BY <1>2, <1>3, <1>4

\* A read that is alone has found the object that is still there.
LEMMA AloneRead ==
    ASSUME StorageInv(files, calls), NEW c \in Clients, calls[c] # NoCall, calls[c].alone,
           calls[c].pc # "done", calls[c].op \in Reads
    PROVE  objects[calls[c].key] = ViewOf(files[calls[c].key])
<1>1. calls[c].key \in Keys /\ Sole(calls, c)
  BY DEF StorageInv, CallOK, CallRecords
<1>2. Writers(calls, calls[c].key) = {}
  BY <1>1 DEF Sole, Writers, Reads, Writes
<1>3. QED
  BY <1>1, <1>2, QuietObject, ObjectsAre

LEMMA ReadRefused ==
    ASSUME StorageInv(files, calls), NEW c \in Clients, calls[c] # NoCall,
           calls[c].pc \in {"exists", "read"}, calls[c].op \in Reads, files' = files,
           NEW s \in Errors, Return(c, s, {}),
           \/ s \in Store!Refusals(calls[c].op, calls[c].key, objects[calls[c].key])
           \/ s = "failed" /\ ~calls[c].alone
           \/ s = "notFound" /\ objects[calls[c].key] = Unknown
    PROVE  Simulates
<1>1. StorageInv(files', calls') /\ Store!Returns(c, s, {}) /\ UNCHANGED objects
  BY ReturnedRead DEF Values
<1>2. /\ abstractCalls[c] # NoCall /\ abstractCalls[c].status = "running"
      /\ ~abstractCalls[c].applied /\ abstractCalls[c].op \in Store!Reads
  BY AbstractFields DEF Store!Reads, Reads
<1>3. CASE s \in Store!Refusals(calls[c].op, calls[c].key, objects[calls[c].key])
  <2>1. Store!Refuse(c)
    BY <1>1, <1>2, <1>3, AbstractFields DEF Store!Refuse
  <2>2. QED
    BY <1>1, <2>1, StepOfNext DEF Simulates
<1>4. CASE s = "failed" /\ ~calls[c].alone
  <2>1. Store!Refuse(c)
    BY <1>1, <1>2, <1>4, AbstractFields DEF Store!Refuse
  <2>2. QED
    BY <1>1, <2>1, StepOfNext DEF Simulates
<1>5. CASE s = "notFound" /\ objects[calls[c].key] = Unknown
  <2>1. Store!AnswerUnknown(c)
    BY <1>1, <1>2, <1>5, AbstractFields DEF Store!AnswerUnknown, Store!Unknown, Unknown
  <2>2. QED
    BY <1>1, <2>1, StepOfNext DEF Simulates
<1>6. QED
  BY <1>3, <1>4, <1>5

-----------------------------------------------------------------------------
(***************************************************************************)
(* The actions, one by one.                                                *)
(***************************************************************************)
\* A step that only moves a call to another pc.
LEMMA MovesOn ==
    ASSUME StorageInv(files, calls), NEW c \in Clients, calls[c] # NoCall, files' = files,
           NEW pc \in {"read", "stat", "open", "unlink"}, GoTo(c, pc),
           calls[c].pc \notin {"done", "put", "rmdir"},
           Sound([calls[c] EXCEPT !.pc = pc]),
           calls[c].alone => KnowsFile([calls[c] EXCEPT !.pc = pc], files[calls[c].key])
    PROVE  Simulates
<1> DEFINE r == [calls[c] EXCEPT !.pc = pc]
<1>1. calls[c] \in CallRecords /\ files \in [Keys -> Files]
  BY DEF StorageInv
<1>2. /\ r \in CallRecords /\ r.pc = pc /\ r.op = calls[c].op /\ r.key = calls[c].key
      /\ r.arg = calls[c].arg /\ r.alone = calls[c].alone /\ r.status = calls[c].status
      /\ r.value = calls[c].value
  BY <1>1 DEF CallRecords
<1>3. calls' = [calls EXCEPT ![c] = r]
  BY DEF GoTo
<1> HIDE DEF r
<1>4. Sound(r) /\ (r.alone => KnowsFile(r, files[calls[c].key]))
  BY <1>2 DEF r
<1>5. StepOf(c) /\ calls'[c] = r
  BY <1>1, <1>2, <1>3, <1>4, GoStep
<1>6. QED
  BY <1>2, <1>5, Stutters

LEMMA CheckExistsSimulates ==
    ASSUME StorageInv(files, calls), NEW c \in Clients, CheckExists(c)
    PROVE  Simulates
<1> DEFINE k == calls[c].key
<1>1. /\ calls[c] # NoCall /\ calls[c].pc = "exists" /\ calls[c].op \in {"create", "update"}
      /\ files' = files
  BY DEF CheckExists, At, diskVars
<1>2. k \in Keys /\ files[k] \in Files /\ calls[c] \in CallRecords
  BY <1>1 DEF StorageInv, CallRecords
<1>3. CASE calls[c].op = "create" /\ Exists(k)
  <2>1. Return(c, "alreadyExists", {})
    BY <1>1, <1>3 DEF CheckExists
  <2>2. "alreadyExists" \in Store!Refusals(calls[c].op, k, ViewOf(files[k]))
    BY <1>2, <1>3 DEF Store!Refusals, Exists, ViewOf, Files, File, Torn, Absent, Empty,
                      Store!Absent, Store!Damaged
  <2>3. QED
    BY <1>1, <2>1, <2>2, WriteReturns DEF Errors, Writes
<1>4. CASE calls[c].op = "update" /\ ~Exists(k)
  <2>1. Return(c, "notFound", {})
    BY <1>1, <1>4 DEF CheckExists
  <2>2. "notFound" \in Store!Refusals(calls[c].op, k, ViewOf(files[k]))
    <3>1. k \notin Supported \/ files[k] = Absent
      BY <1>4 DEF Exists
    <3>2. ViewOf(Absent) = Store!Absent
      BY DEF ViewOf, Absent, Store!Absent
    <3>3. QED
      BY <1>4, <3>1, <3>2 DEF Store!Refusals, Store!Absent, Store!Damaged
  <2>3. QED
    BY <1>1, <2>1, <2>2, WriteReturns DEF Errors, Writes
<1>5. CASE \/ calls[c].op = "create" /\ ~Exists(k)
           \/ calls[c].op = "update" /\ Exists(k)
  <2>1. GoTo(c, "stat")
    BY <1>1, <1>5 DEF CheckExists, write
  <2>2. Sound(calls[c])
    BY <1>1 DEF StorageInv, CallOK
  <2>3. Sound([calls[c] EXCEPT !.pc = "stat"])
    BY <1>1, <1>2, <2>2 DEF Sound, CallRecords
  <2>4. KnowsFile([calls[c] EXCEPT !.pc = "stat"], files[k])
    <3> DEFINE r == [calls[c] EXCEPT !.pc = "stat"]
    <3>1. /\ r.pc = "stat" /\ r.op = calls[c].op /\ r.key = k
          /\ r.content = calls[c].content /\ r.arg = calls[c].arg
      BY <1>2 DEF CallRecords
    <3>2. r.content = r.arg
      BY <1>1, <2>2, <3>1 DEF Sound
    <3>3. \/ r.op = "create" /\ (k \in Supported => files[k] = Absent)
          \/ r.op = "update" /\ k \in Supported /\ files[k].is # "absent"
      BY <1>2, <1>5, <3>1, FileIs DEF Exists
    <3> HIDE DEF r
    <3>4. QED
      BY <3>1, <3>2, <3>3 DEF KnowsFile, r
  <2>5. QED
    BY <1>1, <2>1, <2>3, <2>4, MovesOn
<1>6. calls[c].op = "create" \/ calls[c].op = "update"
  BY <1>1
<1>7. QED
  BY <1>3, <1>4, <1>5, <1>6

\* A running call, its file and what the invariant says of them.
LEMMA Running1 ==
    ASSUME StorageInv(files, calls), NEW c \in Clients, NEW pc, At(c, pc), pc # "done"
    PROVE  /\ calls[c] # NoCall /\ calls[c].pc = pc /\ calls[c] \in CallRecords
           /\ calls[c].key \in Keys /\ files[calls[c].key] \in Files
           /\ Sound(calls[c])
           /\ calls[c].alone => KnowsFile(calls[c], files[calls[c].key])
           /\ calls[c].op \in Reads \cup Writes
           /\ calls[c].op \in Writes => c \in Writers(calls, calls[c].key)
BY DEF StorageInv, CallOK, At, CallRecords, Writers

\* What a call is after GoTo.
LEMMA GoToFields ==
    ASSUME NEW x \in CallRecords,
           NEW pc \in {"exists", "read", "stat", "open", "put", "unlink", "rmdir", "done"}
    PROVE  LET r == [x EXCEPT !.pc = pc] IN
           /\ r \in CallRecords /\ r.pc = pc /\ r.op = x.op /\ r.key = x.key /\ r.arg = x.arg
           /\ r.alone = x.alone /\ r.status = x.status /\ r.value = x.value
           /\ r.content = x.content /\ r.linked = x.linked
BY DEF CallRecords

LEMMA CheckFoundSimulates ==
    ASSUME StorageInv(files, calls), NEW c \in Clients, CheckFound(c)
    PROVE  Simulates
<1> DEFINE k == calls[c].key
           op == calls[c].op
<1>1. /\ calls[c] # NoCall /\ calls[c].pc = "exists" /\ op \notin {"create", "update"}
      /\ files' = files /\ calls[c] \in CallRecords /\ k \in Keys /\ files[k] \in Files
      /\ Sound(calls[c]) /\ op \in Reads \cup Writes
  BY Running1 DEF CheckFound, At, diskVars
<1>2. CASE k \notin Supported
  <2>1. Return(c, "failed", {})
    BY <1>2 DEF CheckFound
  <2>2. CASE op \in Writes
    BY <1>1, <2>1, <2>2, WriteReturns DEF Errors
  <2>3. CASE op \in Reads
    <3>1. "failed" \in Store!Refusals(op, k, objects[k])
      BY <1>2 DEF Store!Refusals
    <3>2. QED
      BY <1>1, <2>1, <2>3, <3>1, ReadRefused DEF Errors
  <2>4. QED
    BY <1>1, <2>2, <2>3
<1>3. CASE k \in Supported /\ ~Exists(k)
  <2>1. Return(c, "notFound", {}) /\ files[k] = Absent
    BY <1>3 DEF CheckFound, Exists
  <2>2. ViewOf(Absent) = Store!Absent /\ Store!Absent # Store!Damaged
    BY DEF ViewOf, Absent, Store!Absent, Store!Damaged
  <2>3. "notFound" \in Store!Refusals(op, k, Store!Absent)
    BY <1>1, <1>3, <2>2 DEF Store!Refusals
  <2>4. CASE op \in Writes
    BY <1>1, <2>1, <2>2, <2>3, <2>4, WriteReturns DEF Errors
  <2>5. CASE op \in Reads
    <3>1. objects[k] = Store!Absent \/ objects[k] = Unknown
      BY <1>1, <2>1, <2>2, ObjectKinds DEF Absent, Empty
    <3>2. QED
      BY <1>1, <2>1, <2>3, <2>5, <3>1, ReadRefused DEF Errors
  <2>6. QED
    BY <1>1, <2>4, <2>5
<1>4. CASE k \in Supported /\ Exists(k)
  <2>1. PICK pc \in {"unlink", "read"} : GoTo(c, pc) /\ (op = "delete" <=> pc = "unlink")
    BY <1>1, <1>4 DEF CheckFound
  <2>2. Sound([calls[c] EXCEPT !.pc = pc])
    BY <1>1, <2>1, GoToFields DEF Sound, Reads, Writes
  <2>3. files[k].is # "absent"
    BY <1>1, <1>4, FileIs DEF Exists
  <2>4. KnowsFile([calls[c] EXCEPT !.pc = pc], files[k])
    BY <1>1, <1>4, <2>1, <2>3, GoToFields DEF KnowsFile
  <2>5. QED
    BY <1>1, <2>1, <2>2, <2>4, MovesOn
<1>5. QED
  BY <1>2, <1>3, <1>4 DEF Exists

LEMMA GetSimulates ==
    ASSUME StorageInv(files, calls), NEW c \in Clients, Get(c)
    PROVE  Simulates
<1> DEFINE k == calls[c].key
           op == calls[c].op
<1>1. /\ calls[c] # NoCall /\ calls[c].pc = "read" /\ op \in Reads
      /\ files' = files /\ calls[c] \in CallRecords /\ k \in Keys /\ files[k] \in Files
      /\ calls[c].alone => KnowsFile(calls[c], files[k])
  BY Running1 DEF Get, At, diskVars
<1>2. CASE Return(c, "failed", {}) /\ files[k].is # "whole"
  <2>1. CASE calls[c].alone
    <3>1. objects[k] = ViewOf(files[k])
      BY <1>1, <2>1, AloneRead
    <3>2. files[k].is \in {"empty", "torn"} /\ k \in Supported
      BY <1>1, <1>2, <2>1, FileIs DEF KnowsFile
    <3>3. objects[k] = Store!Damaged /\ Store!Absent # Store!Damaged /\ op # "create"
      BY <1>1, <3>1, <3>2, FileIs DEF Damaged, Store!Damaged, Store!Absent, Reads
    <3>4. "failed" \in Store!Refusals(op, k, objects[k])
      BY <3>2, <3>3 DEF Store!Refusals
    <3>5. QED
      BY <1>1, <1>2, <3>4, ReadRefused DEF Errors
  <2>2. CASE ~calls[c].alone
    BY <1>1, <1>2, <2>2, ReadRefused DEF Errors
  <2>3. QED
    BY <2>1, <2>2
<1>3. ASSUME NEW v \in Values, Return(c, "ok", IF op = "get" THEN v ELSE {}),
             \/ files[k].is = "whole" /\ v = files[k].value
             \/ files[k].is = "torn"
      PROVE  Simulates
  <2> DEFINE w == IF op = "get" THEN v ELSE {}
  <2>1. w \in Values
    BY DEF Values
  <2>3. StorageInv(files', calls') /\ Store!Returns(c, "ok", w) /\ UNCHANGED objects
    BY <1>1, <1>3, <2>1, ReturnedRead DEF Errors
  <2>4. objects[k] \in {Store!Object(v), Store!Damaged, Store!Unknown}
    <3>1. files[k].is = "whole" => ViewOf(files[k]) = Store!Object(v)
      BY <1>1, <1>3, FileIs DEF Store!Object, File
    <3>2. files[k].is = "torn" => ViewOf(files[k]) = Store!Damaged
      BY <1>1, FileIs DEF Store!Damaged, Damaged
    <3>3. files[k] # Empty
      BY <1>1, <1>3, FileIs
    <3>4. QED
      BY <1>1, <1>3, <3>1, <3>2, <3>3, ObjectKinds DEF Store!Unknown, Unknown
  <2>5. /\ abstractCalls[c] # NoCall /\ abstractCalls[c].status = "running"
        /\ abstractCalls[c].op = op /\ abstractCalls[c].key = k
    BY <1>1, AbstractFields
  <2>6. Store!Answer(c)
    <3>1. v \in Store!Values
      BY DEF Values, Store!Values
    <3>2. QED
      BY <1>1, <2>3, <2>4, <2>5, <3>1 DEF Store!Answer, Store!Reads, Reads
  <2>7. QED
    BY <2>3, <2>6, StepOfNext DEF Simulates
<1>4. CASE op = "get"
  <2>1. CASE Decodes(k)
    <3>1. Return(c, "ok", files[k].value) /\ files[k].value \in Values
      BY <1>1, <1>4, <2>1, FileIs DEF Get
    <3>2. QED
      BY <1>3, <1>4, <2>1, <3>1 DEF Decodes
  <2>2. CASE ~Decodes(k)
    BY <1>2, <1>4, <2>2 DEF Get, Decodes
  <2>3. QED
    BY <2>1, <2>2
<1>5. CASE op # "get"
  <2>1. CASE DecodesMeta(k)
    <3>1. Return(c, "ok", {}) /\ files[k].value \in Values
      BY <1>1, <1>5, <2>1, FileIs DEF Get
    <3>2. QED
      BY <1>3, <1>5, <2>1, <3>1 DEF DecodesMeta
  <2>2. CASE ~DecodesMeta(k)
    BY <1>2, <1>5, <2>2 DEF Get, DecodesMeta
  <2>3. QED
    BY <2>1, <2>2
<1>6. QED
  BY <1>4, <1>5

LEMMA PatchSimulates ==
    ASSUME StorageInv(files, calls), NEW c \in Clients, Patch(c)
    PROVE  Simulates
<1> DEFINE k == calls[c].key
           r == [calls[c] EXCEPT !.pc = "stat", !.content = Apply(files[k].value, calls[c].arg)]
<1>1. /\ calls[c] # NoCall /\ calls[c].pc = "read" /\ calls[c].op = "patch"
      /\ files' = files /\ calls[c] \in CallRecords /\ k \in Keys /\ files[k] \in Files
      /\ Sound(calls[c]) /\ (calls[c].alone => KnowsFile(calls[c], files[k]))
  BY Running1 DEF Patch, At, diskVars
<1>2. CASE ~DecodesMeta(k)
  <2>1. Return(c, "failed", {})
    BY <1>2 DEF Patch
  <2>2. QED
    BY <1>1, <2>1, WriteReturns DEF Errors, Writes
<1>3. CASE DecodesMeta(k)
  <2>1. calls' = [calls EXCEPT ![c] = r]
    <3>1. calls \in [Clients -> CallRecords \cup {NoCall}]
      BY DEF StorageInv
    <3>2. QED
      BY <1>3, <3>1 DEF Patch
  <2>2. Apply(files[k].value, calls[c].arg) = files[k].value \cup calls[c].arg
    BY DEF Apply
  <2>3. files[k].value \cup calls[c].arg \in Values
    BY <1>1, FileIs DEF CallRecords, Values
  <2>4. /\ r \in CallRecords /\ r.pc = "stat" /\ r.op = "patch" /\ r.key = k
        /\ r.arg = calls[c].arg /\ r.alone = calls[c].alone /\ r.status = calls[c].status
        /\ r.value = calls[c].value /\ r.content = files[k].value \cup calls[c].arg
    BY <1>1, <2>2, <2>3 DEF CallRecords
  <2> HIDE DEF r
  <2>5. Sound(r)
    BY <1>1, <2>4 DEF Sound
  <2>6. r.alone => KnowsFile(r, files[k])
    BY <1>1, <1>3, <2>4 DEF KnowsFile, DecodesMeta
  <2>7. StepOf(c) /\ calls'[c] = r
    BY <1>1, <2>1, <2>4, <2>5, <2>6, GoStep DEF StorageInv
  <2>8. QED
    BY <1>1, <2>4, <2>7, Stutters
<1>4. QED
  BY <1>2, <1>3

LEMMA MkdirAllSimulates ==
    ASSUME StorageInv(files, calls), NEW c \in Clients, MkdirAll(c)
    PROVE  Simulates
<1> DEFINE k == calls[c].key
<1>1. /\ calls[c] # NoCall /\ calls[c].pc = "stat"
      /\ files' = files /\ calls[c] \in CallRecords /\ k \in Keys /\ files[k] \in Files
      /\ Sound(calls[c]) /\ (calls[c].alone => KnowsFile(calls[c], files[k]))
  BY Running1 DEF MkdirAll, At
<1>2. CASE k \notin Supported
  <2>1. Return(c, "failed", {})
    BY <1>2 DEF MkdirAll
  <2>2. calls[c].op \in Writes
    BY <1>1 DEF Sound, Writes
  <2>3. QED
    BY <1>1, <2>1, <2>2, WriteReturns DEF Errors
<1>3. CASE k \in Supported
  <2>1. GoTo(c, "open")
    BY <1>3 DEF MkdirAll
  <2>2. Sound([calls[c] EXCEPT !.pc = "open"])
    BY <1>1, <1>3, GoToFields DEF Sound
  <2>3. calls[c].alone => KnowsFile([calls[c] EXCEPT !.pc = "open"], files[k])
    BY <1>1, GoToFields DEF KnowsFile
  <2>4. QED
    BY <1>1, <2>1, <2>2, <2>3, MovesOn
<1>4. QED
  BY <1>2, <1>3

WithApplied(x, alone, a) ==
  [op |-> x.op, key |-> x.key, arg |-> x.arg, alone |-> alone, applied |-> a,
   status |-> x.status, value |-> x.value]

LEMMA SetApplied ==
    ASSUME NEW x, NEW alone, NEW a, NEW b
    PROVE  [WithApplied(x, alone, a) EXCEPT !.applied = b] = WithApplied(x, alone, b)
BY DEF WithApplied

\* The step in which a write that is alone takes effect.
LEMMA ApplyStep ==
    ASSUME StorageInv(files, calls), NEW c \in Clients, StepOf(c), calls[c].op \in Writes,
           calls[c].alone, calls[c].key \in Supported,
           calls[c].pc \notin {"put", "rmdir"}, calls'[c].pc \in {"put", "rmdir"},
           ObjectOf(files', calls', calls[c].key)
             \in Store!Effect(calls[c].op, ViewOf(files[calls[c].key]), calls[c].arg)
    PROVE  Simulates
<1> DEFINE k == calls[c].key
<1>1. calls[c] # NoCall /\ calls[c].pc # "done" /\ k \in Keys /\ c \in Writers(calls, k)
  BY DEF StorageInv, StepOf, CallRecords, Writers
<1>2. objects[k] = ViewOf(files[k])
  BY <1>1, SoleObject, ObjectsAre
<1>3. objects' = [objects EXCEPT ![k] = ObjectOf(files', calls', k)]
  BY StepAbstract
<1>4. abstractCalls' = [abstractCalls EXCEPT ![c].applied = TRUE]
  <2>1. abstractCalls[c] = AbstractCall(calls[c])
    BY AbstractCallsAre
  <2>2. AbstractCall(calls'[c]) = [AbstractCall(calls[c]) EXCEPT !.applied = TRUE]
    <3>1. PICK t, f : t = TRUE /\ f = FALSE
      OBVIOUS
    <3>2. PICK alone : alone = calls[c].alone
      OBVIOUS
    <3>3. AbstractCall(calls'[c]) = WithApplied(calls[c], alone, t)
      <4>1. /\ calls'[c] # NoCall /\ calls'[c].alone = calls[c].alone
            /\ calls'[c].op = calls[c].op /\ calls'[c].key = k /\ calls'[c].arg = calls[c].arg
            /\ calls'[c].status = calls[c].status /\ calls'[c].value = calls[c].value
        BY DEF StepOf
      <4>2. (calls'[c].alone /\ calls'[c].pc \in {"put", "rmdir"}) = t
        BY <3>1, <4>1
      <4>3. QED
        BY <3>2, <4>1, <4>2 DEF AbstractCall, WithApplied
    <3>4. AbstractCall(calls[c]) = WithApplied(calls[c], alone, f)
      <4>1. (calls[c].alone /\ calls[c].pc \in {"put", "rmdir"}) = f
        BY <3>1
      <4>2. QED
        BY <1>1, <3>2, <4>1 DEF AbstractCall, WithApplied
    <3>5. [WithApplied(calls[c], alone, f) EXCEPT !.applied = t] = WithApplied(calls[c], alone, t)
      BY SetApplied
    <3>6. QED
      BY <3>1, <3>3, <3>4, <3>5, Zenon
  <2>3. QED
    BY <2>1, <2>2, StepAbstract
<1>5. Store!Apply(c)
  <2>1. /\ abstractCalls[c] # NoCall /\ abstractCalls[c].status = "running"
        /\ abstractCalls[c].alone /\ ~abstractCalls[c].applied
        /\ abstractCalls[c].op = calls[c].op /\ abstractCalls[c].key = k
        /\ abstractCalls[c].arg = calls[c].arg
    BY <1>1, AbstractFields
  <2>2. abstractCalls[c].op \in Store!Writes
    BY <2>1 DEF Store!Writes, Writes
  <2>3. \E o \in Store!Effect(abstractCalls[c].op, objects[abstractCalls[c].key],
                              abstractCalls[c].arg) :
          objects' = [objects EXCEPT ![abstractCalls[c].key] = o]
    BY <1>2, <1>3, <2>1
  <2>4. QED
    BY <1>4, <2>1, <2>2, <2>3 DEF Store!Apply
<1>6. QED
  BY <1>5, StepOfNext, StepKeepsInv DEF Simulates

LEMMA OpenFileSimulates ==
    ASSUME StorageInv(files, calls), NEW c \in Clients, OpenFile(c)
    PROVE  Simulates
<1> DEFINE k == calls[c].key
           r == [calls[c] EXCEPT !.pc = "put", !.linked = TRUE]
<1>1. /\ calls[c] # NoCall /\ calls[c].pc = "open" /\ calls[c] \in CallRecords
      /\ k \in Keys /\ k \in Supported /\ files[k] \in Files
      /\ Sound(calls[c]) /\ (calls[c].alone => KnowsFile(calls[c], files[k]))
      /\ calls[c].op \in {"create", "update", "patch"}
  BY Running1 DEF OpenFile, At, Sound
<1>2. calls[c].op \in Writes /\ c \in Writers(calls, k)
  BY <1>1 DEF Writes, Writers
<1>3. CASE Identifier[k] \notin dirs
  <2>1. Return(c, "failed", {}) /\ files' = files
    BY <1>3 DEF OpenFile
  <2>2. QED
    BY <1>1, <1>2, <2>1, WriteReturns DEF Errors
<1>4. CASE Identifier[k] \in dirs
  <2>1. files' = [files EXCEPT ![k] = Empty] /\ Empty \in Files
    BY <1>4 DEF OpenFile, Files
  <2>2. calls' = [calls EXCEPT ![c] = r]
    <3>1. calls \in [Clients -> CallRecords \cup {NoCall}]
      BY DEF StorageInv
    <3>2. QED
      BY <1>4, <3>1 DEF OpenFile
  <2>3. /\ r \in CallRecords /\ r.pc = "put" /\ r.op = calls[c].op /\ r.key = k /\ r.linked
        /\ r.arg = calls[c].arg /\ r.alone = calls[c].alone /\ r.status = calls[c].status
        /\ r.value = calls[c].value /\ r.content = calls[c].content
    BY <1>1 DEF CallRecords
  <2> HIDE DEF r
  <2>4. files' \in [Keys -> Files] /\ files'[k] = Empty
        /\ \A l \in Keys \ {k} : files'[l] = files[l]
    BY <1>1, <2>1 DEF StorageInv
  <2>5. Sound(r) /\ KnowsFile(r, files'[k])
    BY <1>1, <2>3, <2>4 DEF Sound, KnowsFile
  <2>6. StepOf(c) /\ calls'[c] = r
    BY <1>1, <1>2, <2>2, <2>3, <2>4, <2>5, GoStep DEF Reads, Writes
  <2>7. CASE ~calls[c].alone
    BY <2>3, <2>6, <2>7, Stutters
  <2>8. CASE calls[c].alone
    <3>1. c \in Writers(calls', k) /\ calls'[c].alone
      BY <1>2, <2>3, <2>6, <2>8, StepWriters
    <3>2. ObjectOf(files', calls', k) = File(calls[c].content)
      BY <2>3, <2>6, <3>1, SoleObject, StepKeepsInv
    <3>3. File(calls[c].content) \in Store!Effect(calls[c].op, ViewOf(files[k]), calls[c].arg)
      <4>1. CASE calls[c].op = "create"
        <5>1. calls[c].content = calls[c].arg /\ ViewOf(files[k]) = Store!Absent
          BY <1>1, <2>8, <4>1, FileIs DEF Sound, KnowsFile, Absent, Store!Absent
        <5>2. QED
          BY <4>1, <5>1 DEF Store!Effect, Store!Object, File
      <4>2. CASE calls[c].op = "update"
        <5>1. calls[c].content = calls[c].arg /\ files[k].is # "absent"
          BY <1>1, <2>8, <4>2 DEF Sound, KnowsFile
        <5>2. ViewOf(files[k]) # Store!Absent
          BY <5>1 DEF ViewOf, Store!Absent
        <5>3. QED
          BY <4>2, <5>1, <5>2 DEF Store!Effect, Store!Object, File
      <4>3. CASE calls[c].op = "patch"
        <5>1. calls[c].content = files[k].value \cup calls[c].arg /\ files[k].is = "whole"
          BY <1>1, <2>8, <4>3 DEF KnowsFile
        <5>2. ViewOf(files[k]) = files[k]
          BY <5>1 DEF ViewOf
        <5>3. QED
          BY <4>3, <5>1, <5>2 DEF Store!Effect, Store!Object, File
      <4>4. QED
        BY <1>1, <4>1, <4>2, <4>3
    <3>4. QED
      BY <1>1, <1>2, <2>3, <2>6, <2>8, <3>2, <3>3, ApplyStep
  <2>9. QED
    BY <2>7, <2>8
<1>5. QED
  BY <1>3, <1>4

\* A write that is alone and has taken effect returns.
LEMMA AppliedStep ==
    ASSUME StorageInv(files, calls), NEW c \in Clients, StepOf(c), calls[c].op \in Writes,
           calls[c].alone, calls[c].pc \in {"put", "rmdir"},
           Store!Returns(c, "ok", {}), calls'[c].pc = "done",
           ViewOf(files'[calls[c].key]) = ObjectOf(files, calls, calls[c].key)
    PROVE  Simulates
<1> DEFINE k == calls[c].key
<1>1. calls[c] # NoCall /\ calls[c].pc # "done" /\ k \in Keys
  BY DEF StorageInv, StepOf, CallRecords
<1>2. UNCHANGED objects
  <2>1. objects' = [objects EXCEPT ![k] = ViewOf(files'[k])]
    BY <1>1, StepAbstract, EndObject
  <2>2. QED
    BY <2>1, ObjectsAre
<1>3. Store!Applied(c)
  BY <1>1, <1>2, AbstractFields DEF Store!Applied
<1>4. QED
  BY <1>3, StepOfNext, StepKeepsInv DEF Simulates

LEMMA PutContentSimulates ==
    ASSUME StorageInv(files, calls), NEW c \in Clients, PutContent(c)
    PROVE  Simulates
<1> DEFINE k == calls[c].key
           v == calls[c].content
<1>1. /\ calls[c] # NoCall /\ calls[c].pc = "put" /\ calls[c] \in CallRecords
      /\ k \in Keys /\ files[k] \in Files /\ v \in Values
      /\ Sound(calls[c]) /\ (calls[c].alone => KnowsFile(calls[c], files[k]))
      /\ Return(c, "ok", {})
  BY Running1 DEF PutContent, At, CallRecords
<1>2. calls[c].op \in Writes /\ c \in Writers(calls, k)
  BY <1>1 DEF Sound, Writes, Writers
<1>3. \/ files' = files /\ ~calls[c].linked
      \/ files' = [files EXCEPT ![k] = Torn(v)] /\ files[k].is \in {"torn", "whole"}
      \/ files' = [files EXCEPT ![k] = File(v)]
  BY DEF PutContent
<1>4. File(v) \in Files /\ Torn(v) \in Files
  BY <1>1 DEF Files
<1>5. files' \in [Keys -> Files] /\ \A l \in Keys \ {k} : files'[l] = files[l]
  BY <1>1, <1>3, <1>4 DEF StorageInv
<1>6. StepOf(c) /\ Store!Returns(c, "ok", {}) /\ calls'[c].pc = "done"
  BY <1>1, <1>2, <1>5, ReturnStep DEF Values, Reads, Writes
<1>7. CASE ~calls[c].alone
  BY <1>2, <1>6, <1>7, SettleStep
<1>8. CASE calls[c].alone
  <2>1. files[k] = Empty /\ calls[c].linked
    BY <1>1, <1>8 DEF KnowsFile
  <2>2. files'[k] = File(v)
    BY <1>1, <1>3, <2>1 DEF Empty, StorageInv
  <2>3. ViewOf(File(v)) = File(v)
    BY DEF ViewOf, File
  <2>4. ObjectOf(files, calls, k) = File(v)
    BY <1>1, <1>2, <1>8, SoleObject
  <2>5. QED
    BY <1>1, <1>2, <1>6, <1>8, <2>2, <2>3, <2>4, AppliedStep
<1>9. QED
  BY <1>7, <1>8

LEMMA PutFailsSimulates ==
    ASSUME StorageInv(files, calls), NEW c \in Clients, PutFails(c)
    PROVE  Simulates
<1> DEFINE k == calls[c].key
<1>1. /\ calls[c] # NoCall /\ calls[c].pc = "put" /\ files' = files
      /\ k \in Keys /\ files[k] \in Files /\ Return(c, "failed", {})
      /\ Sound(calls[c]) /\ (calls[c].alone => KnowsFile(calls[c], files[k]))
  BY Running1 DEF PutFails, At, diskVars
<1>2. calls[c].op \in Writes
  BY <1>1 DEF Sound, Writes
<1>3. StepOf(c) /\ Store!Returns(c, "failed", {}) /\ calls'[c].pc = "done"
  BY <1>1, ReturnStep DEF StorageInv, Values, Errors
<1>4. CASE ~calls[c].alone
  BY <1>2, <1>3, <1>4, SettleStep DEF Errors
<1>5. CASE calls[c].alone
  <2>1. ViewOf(files'[k]) = Damaged
    BY <1>1, <1>5, FileIs DEF KnowsFile
  <2>2. QED
    BY <1>2, <1>3, <1>5, <2>1, FailStep
<1>6. QED
  BY <1>4, <1>5

LEMMA UnlinkSimulates ==
    ASSUME StorageInv(files, calls), NEW c \in Clients, Unlink(c)
    PROVE  Simulates
<1> DEFINE k == calls[c].key
           r == [calls[c] EXCEPT !.pc = "rmdir"]
<1>1. /\ calls[c] # NoCall /\ calls[c].pc = "unlink" /\ calls[c] \in CallRecords
      /\ k \in Keys /\ files[k] \in Files /\ Sound(calls[c]) /\ calls[c].op = "delete"
      /\ calls[c].alone => KnowsFile(calls[c], files[k])
  BY Running1 DEF Unlink, At, Sound
<1>2. calls[c].op \in Writes /\ c \in Writers(calls, k)
  BY <1>1 DEF Writes, Writers
<1>3. files' \in [Keys -> Files] /\ files'[k] = Absent /\ \A l \in Keys \ {k} : files'[l] = files[l]
  <2>1. files' = [files EXCEPT ![k] = Absent]
    BY DEF Unlink
  <2>2. QED
    BY <1>1, <2>1 DEF StorageInv, Files
<1>4. /\ r \in CallRecords /\ r.pc = "rmdir" /\ r.op = "delete" /\ r.key = k
      /\ r.arg = calls[c].arg /\ r.alone = calls[c].alone /\ r.status = calls[c].status
      /\ r.value = calls[c].value /\ r.content = calls[c].content
  BY <1>1 DEF CallRecords
<1>5. calls' = [d \in Clients |-> IF d = c THEN r
                                  ELSE IF d \in Running(k) THEN [calls[d] EXCEPT !.linked = FALSE]
                                  ELSE calls[d]]
  BY DEF Unlink
<1> HIDE DEF r
<1>6. \A d \in Clients \ {c} : Stays(calls[d], calls'[d])
  <2> SUFFICES ASSUME NEW d \in Clients \ {c}, d \in Running(k)
               PROVE  Stays(calls[d], calls'[d])
    BY <1>5 DEF Stays
  <2>1. /\ calls[d] # NoCall /\ calls[d].key = k /\ calls[d].pc # "done"
        /\ calls[d] \in CallRecords /\ Sole(calls, d)
    BY DEF Running, StorageInv, CallOK
  <2>2. ~calls[d].alone
    BY <1>2, <2>1 DEF Sole
  <2>3. QED
    BY <1>5, <2>1, <2>2 DEF Stays
<1>7. calls' \in [Clients -> CallRecords \cup {NoCall}] /\ calls'[c] = r
  <2>1. \A d \in Clients \ {c} : calls[d] \in CallRecords =>
                                 [calls[d] EXCEPT !.linked = FALSE] \in CallRecords
    BY DEF CallRecords
  <2>2. \A d \in Running(k) : calls[d] \in CallRecords
    BY DEF Running, StorageInv
  <2>3. QED
    BY <1>4, <1>5, <2>1, <2>2 DEF StorageInv
<1>8. Sound(r) /\ KnowsFile(r, files'[k])
  BY <1>1, <1>3, <1>4 DEF Sound, KnowsFile
<1>9. StepOf(c)
  <2>1. calls'[c] # NoCall
    BY <1>4, <1>7, NoCallIs
  <2>2. calls[c].op \notin Reads
    BY <1>1 DEF Reads
  <2>3. QED
    BY <1>1, <1>3, <1>4, <1>6, <1>7, <1>8, <2>1, <2>2 DEF StepOf
<1>10. CASE ~calls[c].alone
  BY <1>4, <1>7, <1>9, <1>10, Stutters
<1>11. CASE calls[c].alone
  <2>1. c \in Writers(calls', k) /\ calls'[c].alone
    BY <1>2, <1>4, <1>7, <1>9, <1>11, StepWriters
  <2>2. ObjectOf(files', calls', k) = ViewOf(files'[k])
    BY <1>4, <1>7, <1>9, <2>1, SoleObject, StepKeepsInv
  <2>3. ViewOf(files'[k]) = Store!Absent
    BY <1>3 DEF ViewOf, Absent, Store!Absent
  <2>4. files[k].is # "absent" /\ k \in Supported
    BY <1>1, <1>11 DEF KnowsFile
  <2>5. ViewOf(files[k]) # Store!Absent
    BY <2>4 DEF ViewOf, Store!Absent
  <2>6. Store!Absent \in Store!Effect(calls[c].op, ViewOf(files[k]), calls[c].arg)
    BY <1>1, <2>5 DEF Store!Effect
  <2>7. QED
    BY <1>1, <1>2, <1>4, <1>7, <1>9, <1>11, <2>2, <2>3, <2>4, <2>6, ApplyStep
<1>12. QED
  BY <1>10, <1>11

LEMMA RemoveDirSimulates ==
    ASSUME StorageInv(files, calls), NEW c \in Clients, RemoveDir(c)
    PROVE  Simulates
<1> DEFINE k == calls[c].key
<1>1. /\ calls[c] # NoCall /\ calls[c].pc = "rmdir" /\ files' = files
      /\ k \in Keys /\ files[k] \in Files
      /\ Sound(calls[c]) /\ (calls[c].alone => KnowsFile(calls[c], files[k]))
  BY Running1 DEF RemoveDir, At
<1>2. calls[c].op \in Writes /\ c \in Writers(calls, k)
  BY <1>1 DEF Sound, Writes, Writers
<1>3. PICK s \in {"ok", "failed"} : Return(c, s, {}) /\ (files[k] = Absent => s = "ok")
  BY DEF RemoveDir
<1>4. StepOf(c) /\ Store!Returns(c, s, {}) /\ calls'[c].pc = "done"
  BY <1>1, <1>3, ReturnStep DEF StorageInv, Values, Errors
<1>5. CASE ~calls[c].alone
  BY <1>2, <1>3, <1>4, <1>5, SettleStep DEF Errors
<1>6. CASE calls[c].alone
  <2>1. s = "ok"
    BY <1>1, <1>3, <1>6 DEF KnowsFile
  <2>2. ViewOf(files'[k]) = ObjectOf(files, calls, k)
    BY <1>1, <1>2, <1>6, SoleObject
  <2>3. QED
    BY <1>1, <1>2, <1>4, <1>6, <2>1, <2>2, AppliedStep
<1>7. QED
  BY <1>5, <1>6

LEMMA SetAlone ==
    ASSUME NEW x, NEW a, NEW b, NEW no
    PROVE  [WithApplied(x, a, b) EXCEPT !.alone = no] = WithApplied(x, no, b)
BY DEF WithApplied

LEMMA ForgetSimulates ==
    ASSUME StorageInv(files, calls), NEW c \in Clients, Forget(c)
    PROVE  Simulates
<1>1. /\ calls[c] # NoCall /\ calls[c].pc = "done" /\ files' = files
      /\ calls' = [calls EXCEPT ![c] = NoCall] /\ calls \in [Clients -> CallRecords \cup {NoCall}]
  BY DEF Forget, At, diskVars, StorageInv
<1>2. calls'[c] = NoCall /\ \A d \in Clients \ {c} : calls'[d] = calls[d]
  BY <1>1
<1>3. \A k : Writers(calls', k) = Writers(calls, k)
  BY <1>1, <1>2 DEF Writers
<1>4. StorageInv(files', calls')
  <2>1. \A d \in Clients : CallOK(files', calls', d)
    BY <1>1, <1>2, <1>3 DEF StorageInv, CallOK, Sole
  <2>2. QED
    BY <1>1, <2>1 DEF StorageInv
<1>5. UNCHANGED objects
  <2>1. ASSUME NEW k \in Keys
        PROVE  ObjectOf(files', calls', k) = ObjectOf(files, calls, k)
    <3>1. \A d \in Writers(calls, k) : calls'[d] = calls[d]
      BY <1>1, <1>2 DEF Writers
    <3>2. QED
      BY <1>1, <1>3, <1>4, <3>1, SameObject
  <2>2. QED
    BY <2>1, ObjectsAre
<1>6. abstractCalls' = [abstractCalls EXCEPT ![c] = NoCall]
  <2>1. AbstractCall(NoCall) = NoCall
    BY DEF AbstractCall
  <2>2. QED
    BY <1>2, <2>1, AbstractCallsAre
<1>7. Store!Forget(c)
  BY <1>1, <1>5, <1>6, AbstractFields DEF Store!Forget
<1>8. QED
  BY <1>4, <1>7, StepOfNext DEF Simulates

\* A write that begins overlaps the calls of its key.
LEMMA CallSimulates ==
    ASSUME StorageInv(files, calls), NEW c \in Clients, NEW op \in Reads \cup Writes,
           NEW k \in Keys, NEW v \in Values, Call(c, op, k, v)
    PROVE  Simulates
<1> DEFINE Overlaps(d) == op \in Writes /\ d \in Running(k)
<1>1. PICK sole : sole = (Writing(k) = {})
  OBVIOUS
<1>2. PICK no : no = FALSE
  OBVIOUS
<1> DEFINE r == [op |-> op, key |-> k, arg |-> v, content |-> v, pc |-> "exists",
                 linked |-> no, alone |-> sole, status |-> "running", value |-> {}]
<1>3. /\ calls[c] = NoCall /\ files' = files
      /\ calls \in [Clients -> CallRecords \cup {NoCall}] /\ sole \in BOOLEAN
      /\ calls' = [d \in Clients |-> IF d = c THEN r
                                     ELSE IF Overlaps(d) THEN [calls[d] EXCEPT !.alone = no]
                                     ELSE calls[d]]
  BY <1>1, <1>2, Zenon DEF Call, diskVars, StorageInv
<1>4. r \in CallRecords /\ r # NoCall /\ r.op = op /\ r.key = k /\ r.arg = v /\ r.pc = "exists"
      /\ r.alone = sole /\ r.status = "running" /\ r.value = {} /\ r.content = v
  <2>1. r \in CallRecords
    BY <1>2, <1>3 DEF CallRecords, Values
  <2>2. QED
    BY <2>1, NoCallIs
<1> HIDE DEF r
<1>5. ASSUME NEW d \in Clients, Overlaps(d)
      PROVE  /\ [calls[d] EXCEPT !.alone = no] \in CallRecords
             /\ calls[d] \in CallRecords /\ calls[d] # NoCall
             /\ calls[d].key = k /\ calls[d].pc # "done"
  <2>1. calls[d] \in CallRecords /\ calls[d] # NoCall /\ calls[d].key = k /\ calls[d].pc # "done"
    BY <1>3, <1>5 DEF Running
  <2>2. [calls[d] EXCEPT !.alone = no] \in CallRecords
    BY <1>2, <2>1 DEF CallRecords
  <2>3. QED
    BY <2>1, <2>2
<1>6. ASSUME NEW d \in Clients \ {c}
      PROVE  /\ calls'[d] = NoCall <=> calls[d] = NoCall
             /\ ~Overlaps(d) => calls'[d] = calls[d]
             /\ calls[d] # NoCall =>
                  /\ calls'[d].op = calls[d].op /\ calls'[d].key = calls[d].key
                  /\ calls'[d].pc = calls[d].pc /\ calls'[d].content = calls[d].content
                  /\ calls'[d].arg = calls[d].arg /\ calls'[d].status = calls[d].status
                  /\ calls'[d].value = calls[d].value
             /\ Overlaps(d) => calls'[d].alone = no
             /\ calls'[d] \in CallRecords \cup {NoCall}
  <2>1. CASE ~Overlaps(d)
    BY <1>3, <2>1
  <2>2. CASE Overlaps(d)
    <3>1. calls'[d] = [calls[d] EXCEPT !.alone = no]
      BY <1>3, <2>2
    <3> HIDE DEF Overlaps
    <3>2. calls'[d] \in CallRecords /\ calls[d] \in CallRecords /\ calls[d] # NoCall
      BY <1>5, <2>2, <3>1
    <3>3. /\ calls'[d].op = calls[d].op /\ calls'[d].key = calls[d].key
          /\ calls'[d].pc = calls[d].pc /\ calls'[d].content = calls[d].content
          /\ calls'[d].arg = calls[d].arg /\ calls'[d].status = calls[d].status
          /\ calls'[d].value = calls[d].value /\ calls'[d].alone = no
      BY <3>1, <3>2 DEF CallRecords
    <3>4. QED
      BY <2>2, <3>2, <3>3, NoCallIs
  <2>3. QED
    BY <2>1, <2>2
<1>7. calls'[c] = r
  BY <1>3
<1>8. \A l : Writers(calls', l) = IF op \in Writes /\ l = k THEN Writers(calls, l) \cup {c}
                                  ELSE Writers(calls, l)
  <2> SUFFICES ASSUME NEW l
               PROVE  Writers(calls', l) = IF op \in Writes /\ l = k THEN Writers(calls, l) \cup {c}
                                           ELSE Writers(calls, l)
    OBVIOUS
  <2>1. \A d \in Clients \ {c} : d \in Writers(calls', l) <=> d \in Writers(calls, l)
    BY <1>6 DEF Writers
  <2>2. c \in Writers(calls', l) <=> op \in Writes /\ l = k
    BY <1>4, <1>7 DEF Writers
  <2>3. c \notin Writers(calls, l)
    BY <1>3 DEF Writers
  <2>4. Writers(calls', l) \subseteq Clients /\ Writers(calls, l) \subseteq Clients
    BY DEF Writers
  <2>5. QED
    BY <2>1, <2>2, <2>3, <2>4
<1>9. StorageInv(files', calls')
  <2>1. CallOK(files', calls', c)
    <3>1. Sound(r) /\ KnowsFile(r, files[k])
      BY <1>4 DEF Sound, KnowsFile
    <3>2. Sole(calls', c)
      <4>1. sole => Writers(calls, k) = {}
        BY <1>1, WritersAre
      <4>2. QED
        BY <1>4, <1>7, <1>8, <4>1 DEF Sole
    <3>3. QED
      BY <1>3, <1>4, <1>7, <3>1, <3>2 DEF CallOK
  <2>2. ASSUME NEW d \in Clients \ {c}
        PROVE  CallOK(files', calls', d)
    <3> SUFFICES ASSUME calls'[d] # NoCall PROVE CallOK(files', calls', d)
      BY DEF CallOK
    <3>1. calls[d] # NoCall /\ CallOK(files, calls, d)
      BY <1>6 DEF StorageInv
    <3>2. CASE Overlaps(d)
      <4>1. ~calls'[d].alone
        BY <1>2, <1>6, <3>2
      <4>2. Sound(calls'[d])
        BY <1>6, <3>1 DEF CallOK, Sound
      <4>3. QED
        BY <4>1, <4>2 DEF CallOK, Sole
    <3>3. CASE ~Overlaps(d)
      <4>1. calls'[d] = calls[d]
        BY <1>6, <3>3
      <4>2. Sole(calls', d)
        <5> SUFFICES ASSUME calls[d].alone, calls[d].pc # "done"
                     PROVE  Writers(calls', calls[d].key) \subseteq {d}
          BY <4>1 DEF Sole
        <5>1. Writers(calls, calls[d].key) \subseteq {d}
          BY <3>1 DEF CallOK, Sole
        <5>2. ~(op \in Writes /\ calls[d].key = k)
          BY <3>1, <3>3 DEF Running
        <5>3. QED
          BY <1>8, <5>1, <5>2
      <4>3. QED
        BY <1>3, <3>1, <4>1, <4>2 DEF CallOK
    <3>4. QED
      BY <3>2, <3>3
  <2>3. calls' \in [Clients -> CallRecords \cup {NoCall}]
    <3>1. \A d \in Clients : calls'[d] \in CallRecords \cup {NoCall}
      BY <1>4, <1>6, <1>7
    <3>2. QED
      BY <1>3, <3>1
  <2>4. QED
    BY <1>3, <2>1, <2>2, <2>3 DEF StorageInv
<1>10. ASSUME NEW l \in Keys, ~(op \in Writes /\ l = k)
       PROVE  ObjectOf(files', calls', l) = ObjectOf(files, calls, l)
  <2>1. \A d \in Writers(calls, l) : d \in Clients \ {c} /\ ~Overlaps(d)
    BY <1>3, <1>10 DEF Writers, Running
  <2>2. \A d \in Writers(calls, l) : calls'[d] = calls[d]
    BY <1>6, <2>1
  <2>3. QED
    BY <1>3, <1>8, <1>9, <1>10, <2>2, SameObject
<1>11. objects' = IF op \in Writes /\ Writing(k) # {} THEN [objects EXCEPT ![k] = Unknown]
                  ELSE objects
  <2>1. CASE op \notin Writes
    BY <1>10, <2>1, ObjectsAre
  <2>2. CASE op \in Writes /\ Writing(k) # {}
    <3>1. PICK d \in Writers(calls, k) : TRUE
      BY <2>2, WritersAre
    <3>2. d \in Clients \ {c} /\ Overlaps(d)
      BY <1>3, <2>2, <3>1 DEF Writers, Running
    <3>3. d \in Writers(calls', k) /\ ~calls'[d].alone
      BY <1>2, <1>6, <1>8, <3>1, <3>2
    <3>4. ObjectOf(files', calls', k) = Unknown
      BY <3>3, OverlappedObject DEF Unknown
    <3>5. QED
      BY <1>10, <2>2, <3>4, ObjectsAre
  <2>3. CASE op \in Writes /\ Writing(k) = {}
    <3>1. c \in Writers(calls', k) /\ calls'[c].alone
      BY <1>1, <1>4, <1>7, <1>8, <2>3
    <3>2. ObjectOf(files', calls', k) = ViewOf(files[k])
      BY <1>3, <1>4, <1>7, <1>9, <3>1, SoleObject
    <3>3. ObjectOf(files, calls, k) = ViewOf(files[k])
      BY <2>3, WritersAre, QuietObject
    <3>4. QED
      BY <1>10, <2>3, <3>2, <3>3, ObjectsAre
  <2>4. QED
    BY <2>1, <2>2, <2>3
<1>12. abstractCalls' = [d \in Clients |->
           IF d = c THEN [op |-> op, key |-> k, arg |-> v, alone |-> sole,
                          applied |-> no, status |-> "running", value |-> {}]
           ELSE IF op \in Store!Writes /\ d \in Store!Running(k)
           THEN [abstractCalls[d] EXCEPT !.alone = no, !.applied = no]
           ELSE abstractCalls[d]]
  <2>1. AbstractCall(calls'[c]) = [op |-> op, key |-> k, arg |-> v, alone |-> sole,
                                   applied |-> no, status |-> "running", value |-> {}]
    <3>1. (r.alone /\ r.pc \in {"put", "rmdir"}) = no
      BY <1>2, <1>4
    <3>2. QED
      BY <1>4, <1>7, <3>1 DEF AbstractCall
  <2>2. ASSUME NEW d \in Clients \ {c}
        PROVE  /\ Overlaps(d) <=> op \in Store!Writes /\ d \in Store!Running(k)
               /\ AbstractCall(calls'[d]) =
                    IF Overlaps(d) THEN [abstractCalls[d] EXCEPT !.alone = no, !.applied = no]
                    ELSE abstractCalls[d]
    <3>1. Overlaps(d) <=> op \in Store!Writes /\ d \in Store!Running(k)
      <4>1. CASE calls[d] = NoCall
        BY <4>1, AbstractCallsAre DEF AbstractCall, Running, Store!Running
      <4>2. CASE calls[d] # NoCall
        BY <4>2, AbstractFields DEF Running, Store!Running, Writes, Store!Writes
      <4>3. QED
        BY <4>1, <4>2
    <3>2. abstractCalls[d] = AbstractCall(calls[d])
      BY AbstractCallsAre
    <3>3. CASE ~Overlaps(d)
      BY <1>6, <3>1, <3>2, <3>3
    <3>4. CASE Overlaps(d)
      <4>1. calls[d] # NoCall
        BY <1>5, <3>4
      <4>2. PICK a, b : /\ a = calls[d].alone
                        /\ b = (calls[d].alone /\ calls[d].pc \in {"put", "rmdir"})
        OBVIOUS
      <4>3. abstractCalls[d] = WithApplied(calls[d], a, b)
        BY <3>2, <4>1, <4>2 DEF AbstractCall, WithApplied
      <4>4. AbstractCall(calls'[d]) = WithApplied(calls[d], no, no)
        <5>1. (calls'[d].alone /\ calls'[d].pc \in {"put", "rmdir"}) = no
          BY <1>2, <1>6, <3>4
        <5>2. QED
          BY <1>6, <3>4, <4>1, <5>1 DEF AbstractCall, WithApplied
      <4>5. [abstractCalls[d] EXCEPT !.alone = no, !.applied = no] = WithApplied(calls[d], no, no)
        <5>1. [WithApplied(calls[d], a, b) EXCEPT !.alone = no, !.applied = no] =
                WithApplied(calls[d], no, no)
          <6>1. [WithApplied(calls[d], a, b) EXCEPT !.alone = no] = WithApplied(calls[d], no, b)
            BY SetAlone
          <6>2. [WithApplied(calls[d], no, b) EXCEPT !.applied = no] =
                  WithApplied(calls[d], no, no)
            BY SetApplied
          <6>3. QED
            BY <6>1, <6>2
        <5>2. QED
          BY <4>3, <5>1, Zenon
      <4>6. QED
        BY <3>1, <3>4, <4>4, <4>5
    <3>5. QED
      BY <3>1, <3>3, <3>4
  <2>3. QED
    BY <2>1, <2>2, AbstractCallsAre
<1>13. Store!Begin(c, op, k, v)
  <2>1. sole = (Store!Writing(k) = {}) /\ Store!Writing(k) = Writing(k)
    BY <1>1, WritersAre, StoreWriters
  <2>2. abstractCalls' = [d \in Clients |->
           IF d = c THEN [op |-> op, key |-> k, arg |-> v, alone |-> Store!Writing(k) = {},
                          applied |-> FALSE, status |-> "running", value |-> {}]
           ELSE IF op \in Store!Writes /\ d \in Store!Running(k)
           THEN [abstractCalls[d] EXCEPT !.alone = FALSE, !.applied = FALSE]
           ELSE abstractCalls[d]]
    BY <1>2, <1>12, <2>1, Zenon
  <2>3. abstractCalls[c] = NoCall
    BY <1>3, AbstractCallsAre DEF AbstractCall
  <2>4. objects' = IF op \in Store!Writes /\ Store!Writing(k) # {}
                   THEN [objects EXCEPT ![k] = Store!Unknown] ELSE objects
    BY <1>11, <2>1 DEF Store!Unknown, Unknown, Store!Writes, Writes
  <2>5. QED
    BY <2>2, <2>3, <2>4 DEF Store!Begin
<1>14. Store!Next
  BY <1>13 DEF Store!Next, Store!Ops, Store!Reads, Store!Writes, Store!Values, Reads, Writes, Values
<1>15. QED
  BY <1>9, <1>14 DEF Simulates

LEMMA CrashSimulates ==
    ASSUME StorageInv(files, calls), Crash
    PROVE  Simulates
<1>1. files' = files /\ calls' = [c \in Clients |-> NoCall] /\ files \in [Keys -> Files]
  BY DEF Crash, diskVars, StorageInv
<1>2. StorageInv(files', calls')
  BY <1>1 DEF StorageInv, CallOK
<1>3. \A k : Writers(calls', k) = {}
  BY <1>1 DEF Writers
<1>4. objects' = [k \in Keys |-> ViewOf(files[k])]
  BY <1>1, <1>3, QuietObject, ObjectsAre
<1>5. objects' \in [Keys -> Store!Objects]
  BY <1>1, <1>4, ViewIsObject
<1>6. ASSUME NEW k \in Keys
      PROVE  /\ Store!Writing(k) = {} => objects'[k] = objects[k]
             /\ Store!Overlapping(k) = {} => objects'[k] \in {objects[k], Store!Damaged}
  <2>1. objects'[k] = ViewOf(files[k]) /\ objects[k] = ObjectOf(files, calls, k)
    BY <1>4, ObjectsAre
  <2>2. Store!Writing(k) = {} => objects'[k] = objects[k]
    BY <2>1, StoreWriters, QuietObject
  <2>3. ASSUME Store!Overlapping(k) = {}
        PROVE  objects'[k] \in {objects[k], Store!Damaged}
    <3>1. CASE Writers(calls, k) = {}
      BY <2>1, <3>1, QuietObject
    <3>2. ASSUME NEW d \in Writers(calls, k)
          PROVE  objects'[k] \in {objects[k], Store!Damaged}
      <4>1. calls[d].alone
        BY <2>3, StoreWriters
      <4>2. ObjectOf(files, calls, k) =
              IF calls[d].pc = "put" THEN File(calls[d].content) ELSE ViewOf(files[k])
        BY <4>1, SoleObject
      <4>3. calls[d].pc = "put" => files[k] = Empty
        BY <4>1 DEF Writers, StorageInv, CallOK, KnowsFile
      <4>4. ViewOf(Empty) = Store!Damaged
        BY DEF ViewOf, Empty, Store!Damaged
      <4>5. QED
        BY <2>1, <4>2, <4>3, <4>4
    <3>3. QED
      BY <3>1, <3>2
  <2>4. QED
    BY <2>2, <2>3
<1>7. abstractCalls' = [c \in Clients |-> NoCall]
  BY <1>1, AbstractCallsAre DEF AbstractCall
<1>8. Store!Crash
  BY <1>5, <1>6, <1>7 DEF Store!Crash
<1>9. QED
  BY <1>2, <1>8 DEF Simulates, Store!Next

-----------------------------------------------------------------------------
(***************************************************************************)
(* The storage implements ObjectStore.                                     *)
(***************************************************************************)
\* A walk reads the disk only.
LEMMA IdleSimulates ==
    ASSUME StorageInv(files, calls), UNCHANGED <<files, calls>>
    PROVE  Simulates
<1>1. StorageInv(files', calls')
  BY DEF StorageInv, CallOK, Sole, Writers
<1>2. UNCHANGED <<objects, abstractCalls>>
  BY ObjectsAre, AbstractCallsAre
<1>3. QED
  BY <1>1, <1>2 DEF Simulates, Store!vars

LEMMA StepSimulates == StorageInv(files, calls) /\ [Next]_vars => Simulates
<1> SUFFICES ASSUME StorageInv(files, calls), [Next]_vars
             PROVE  Simulates
  OBVIOUS
<1>1. ASSUME NEW c \in Clients, NEW op \in Reads \cup Writes, NEW k \in Keys, NEW v \in Values,
             Call(c, op, k, v)
      PROVE  Simulates
  BY <1>1, CallSimulates
<1>2. ASSUME NEW c \in Clients, ClientStep(c)
      PROVE  Simulates
  BY <1>2, CheckExistsSimulates, CheckFoundSimulates, GetSimulates, PatchSimulates,
     MkdirAllSimulates, OpenFileSimulates, PutContentSimulates, PutFailsSimulates,
     UnlinkSimulates, RemoveDirSimulates, ForgetSimulates DEF ClientStep
<1>3. ASSUME NEW w \in Walkers, WalkStep(w)
      PROVE  Simulates
  BY <1>3, IdleSimulates DEF WalkStep, ReadDir, WalkRead, WalkEnds, WalkExists, diskVars
<1>4. CASE Crash
  BY <1>4, CrashSimulates
<1>5. CASE UNCHANGED vars
  BY <1>5, IdleSimulates DEF vars, diskVars
<1>6. QED
  BY <1>1, <1>2, <1>3, <1>4, <1>5 DEF Next

LEMMA InitImplements == Init => StorageInv(files, calls) /\ Store!Init
<1> SUFFICES ASSUME Init PROVE StorageInv(files, calls) /\ Store!Init
  OBVIOUS
<1>1. StorageInv(files, calls)
  BY DEF Init, StorageInv, CallOK, Files
<1>2. \A k \in Keys : Writers(calls, k) = {}
  BY DEF Init, Writers
<1>3. objects = [k \in Keys |-> Store!Absent]
  <2>1. ViewOf(Absent) = Store!Absent
    BY DEF ViewOf, Absent, Store!Absent
  <2>2. QED
    BY <1>2, <2>1, QuietObject, ObjectsAre DEF Init
<1>4. abstractCalls = [c \in Clients |-> NoCall]
  BY AbstractCallsAre DEF Init, AbstractCall
<1>5. QED
  BY <1>1, <1>3, <1>4 DEF Store!Init

\* Without a lock and with steps of other calls and crashes between any two of its
\* accesses to the disk, the storage does what ObjectStore promises: for any number of
\* goroutines, keys and contents, a call that overlaps no write of its key is atomic,
\* and what overlapping writes, failures and crashes do is confined to their keys.
THEOREM StorageImplementsStore == Spec => ImplementsStore
<1>1. StorageInv(files, calls) /\ [Next]_vars => StorageInv(files, calls)'
  BY StepSimulates DEF Simulates
<1>2. StorageInv(files, calls) /\ [Next]_vars => [Store!Next]_(Store!vars)
  BY StepSimulates DEF Simulates
<1>3. QED
  BY <1>1, <1>2, InitImplements, PTL DEF Spec, ImplementsStore, Store!Spec

-----------------------------------------------------------------------------
(***************************************************************************)
(* Types, and the directories of the files.                                *)
(***************************************************************************)
AllDirs == UNION {Dirs(k) : k \in Supported}

WalkRecords ==
  [pc : {"idle", "next", "read", "failed"}, meta : BOOLEAN, todo : SUBSET AllDirs,
   at : SUBSET Keys, found : SUBSET Keys, stable : SUBSET Keys]

\* A file is in a directory, and a call that has opened one that is not removed
\* writes to it.
DiskInv ==
  /\ \A k \in Keys : files[k] # Absent => k \in Supported /\ Identifier[k] \in dirs
  /\ \A c \in Clients :
       calls[c] # NoCall /\ calls[c].pc = "put" /\ calls[c].linked =>
         files[calls[c].key] # Absent

TypeInv ==
  /\ StorageInv(files, calls)
  /\ dirs \subseteq AllDirs
  /\ walks \in [Walkers -> WalkRecords]
  /\ faults \in 0 .. MaxFaults
  /\ DiskInv

LEMMA FilesDiffer ==
    /\ \A v : File(v) # Absent /\ Torn(v) # Absent
    /\ Empty # Absent
BY DEF File, Torn, Empty, Absent

LEMMA TypeInit == Init => TypeInv
<1> SUFFICES ASSUME Init PROVE TypeInv
  OBVIOUS
<1>1. NoWalk \in WalkRecords
  BY DEF NoWalk, WalkRecords
<1>2. walks \in [Walkers -> WalkRecords] /\ dirs = {} /\ DiskInv
  BY <1>1 DEF Init, DiskInv
<1>3. faults \in 0 .. MaxFaults
  BY StorageAssumption DEF Init
<1>4. QED
  BY <1>2, <1>3, InitImplements DEF TypeInv

\* A step that leaves the files and the directories.
LEMMA DiskStays ==
    ASSUME TypeInv, UNCHANGED diskVars,
           \A d \in Clients :
             calls'[d] # NoCall /\ calls'[d].pc = "put" /\ calls'[d].linked =>
               calls[d] # NoCall /\ calls[d].pc = "put" /\ calls[d].linked
               /\ calls[d].key = calls'[d].key
    PROVE  DiskInv'
BY DEF TypeInv, DiskInv, diskVars

LEMMA DiskClient ==
    ASSUME TypeInv, NEW c \in Clients, ClientStep(c)
    PROVE  DiskInv' /\ dirs' \subseteq AllDirs
<1> DEFINE k == calls[c].key
<1>1. calls \in [Clients -> CallRecords \cup {NoCall}] /\ files \in [Keys -> Files]
  BY DEF TypeInv, StorageInv
<1>2. ASSUME NEW s, NEW v, Return(c, s, v), calls[c] \in CallRecords
      PROVE  /\ calls'[c].pc = "done"
             /\ \A d \in Clients \ {c} : calls'[d] = calls[d]
  BY <1>1, <1>2 DEF Return
<1>3. ASSUME NEW pc \in {"read", "stat", "open", "unlink"}, GoTo(c, pc), calls[c] \in CallRecords
      PROVE  /\ calls'[c].pc = pc
             /\ \A d \in Clients \ {c} : calls'[d] = calls[d]
  BY <1>1, <1>3, GoToFields DEF GoTo
<1>4. CASE CheckExists(c) \/ CheckFound(c) \/ Get(c)
  <2>1. calls[c] \in CallRecords /\ UNCHANGED diskVars
    BY <1>1, <1>4 DEF CheckExists, CheckFound, Get, At
  <2>2. \/ \E s, v : Return(c, s, v)
        \/ \E pc \in {"read", "stat", "open", "unlink"} : GoTo(c, pc)
    BY <1>4 DEF CheckExists, CheckFound, Get, write
  <2>3. calls'[c].pc # "put" /\ \A d \in Clients \ {c} : calls'[d] = calls[d]
    BY <1>2, <1>3, <2>1, <2>2
  <2>4. DiskInv'
    BY <2>1, <2>3, DiskStays
  <2>5. QED
    BY <2>1, <2>4 DEF TypeInv, diskVars
<1>5. CASE Patch(c)
  <2>1. calls[c] \in CallRecords /\ UNCHANGED diskVars
    BY <1>1, <1>5 DEF Patch, At
  <2>2. calls'[c].pc # "put" /\ \A d \in Clients \ {c} : calls'[d] = calls[d]
    <3>1. CASE DecodesMeta(k)
      BY <1>1, <1>5, <2>1, <3>1 DEF Patch, CallRecords
    <3>2. CASE ~DecodesMeta(k)
      BY <1>2, <1>5, <2>1, <3>2 DEF Patch
    <3>3. QED
      BY <3>1, <3>2
  <2>3. QED
    BY <2>1, <2>2, DiskStays DEF TypeInv, diskVars
<1>6. CASE MkdirAll(c)
  <2>1. calls[c] \in CallRecords /\ k \in Keys /\ UNCHANGED files
    BY <1>1, <1>6 DEF MkdirAll, At, CallRecords
  <2>2. dirs' = dirs \/ (k \in Supported /\ dirs' = dirs \cup Dirs(k))
    BY <1>6 DEF MkdirAll
  <2>3. calls'[c].pc # "put" /\ \A d \in Clients \ {c} : calls'[d] = calls[d]
    BY <1>2, <1>3, <1>6, <2>1 DEF MkdirAll
  <2>4. dirs \subseteq dirs' /\ dirs' \subseteq AllDirs
    BY <2>2 DEF AllDirs, TypeInv
  <2>5. DiskInv'
    BY <2>1, <2>3, <2>4 DEF TypeInv, DiskInv
  <2>6. QED
    BY <2>4, <2>5
<1>7. CASE OpenFile(c)
  <2>1. calls[c] \in CallRecords /\ k \in Keys /\ UNCHANGED dirs /\ calls[c].pc = "open"
    BY <1>1, <1>7 DEF OpenFile, At, CallRecords
  <2>2. k \in Supported
    BY <2>1, NoCallIs DEF TypeInv, StorageInv, CallOK, Sound
  <2>3. CASE Identifier[k] \notin dirs
    <3>1. Return(c, "failed", {}) /\ UNCHANGED diskVars
      BY <1>7, <2>1, <2>3 DEF OpenFile, diskVars
    <3>2. calls'[c].pc # "put" /\ \A d \in Clients \ {c} : calls'[d] = calls[d]
      BY <1>2, <2>1, <3>1
    <3>3. QED
      BY <3>1, <3>2, DiskStays DEF TypeInv, diskVars
  <2>4. CASE Identifier[k] \in dirs
    <3>1. files' = [files EXCEPT ![k] = Empty] /\ \A d \in Clients \ {c} : calls'[d] = calls[d]
      BY <1>1, <1>7, <2>4 DEF OpenFile
    <3>2. \A l \in Keys : files'[l] = IF l = k THEN Empty ELSE files[l]
      BY <1>1, <3>1
    <3>3. calls'[c].key = k
      BY <1>1, <1>7, <2>1, <2>4 DEF OpenFile, CallRecords
    <3>4. \A d \in Clients : calls[d] # NoCall => calls[d].key \in Keys
      BY <1>1 DEF CallRecords
    <3>5. \A l \in Keys : files'[l] # Absent => l \in Supported /\ Identifier[l] \in dirs'
      BY <2>1, <2>2, <2>4, <3>2 DEF TypeInv, DiskInv
    <3>6. ASSUME NEW d \in Clients, calls'[d] # NoCall, calls'[d].pc = "put", calls'[d].linked
          PROVE  files'[calls'[d].key] # Absent
      BY <2>1, <3>1, <3>2, <3>3, <3>4, <3>6, FilesDiffer DEF TypeInv, DiskInv
    <3>7. QED
      BY <2>1, <3>5, <3>6 DEF TypeInv, DiskInv
  <2>5. QED
    BY <2>3, <2>4
<1>8. CASE PutContent(c) \/ PutFails(c)
  <2>1. /\ calls[c] \in CallRecords /\ k \in Keys /\ UNCHANGED dirs
        /\ calls[c] # NoCall /\ calls[c].pc = "put"
    BY <1>1, <1>8, NoCallIs DEF PutContent, PutFails, At, CallRecords, diskVars
  <2>2. calls'[c].pc = "done" /\ \A d \in Clients \ {c} : calls'[d] = calls[d]
    BY <1>2, <1>8, <2>1 DEF PutContent, PutFails
  <2>3. \/ files' = files
        \/ \E f : f # Absent /\ files' = [files EXCEPT ![k] = f] /\ calls[c].linked
    BY <1>8, FilesDiffer DEF PutContent, PutFails, diskVars
  <2>4. \A l \in Keys : files'[l] # Absent <=> files[l] # Absent
    <3>1. calls[c].linked => files[k] # Absent
      BY <2>1 DEF TypeInv, DiskInv
    <3>2. QED
      BY <1>1, <2>1, <2>3, <3>1
  <2>5. \A d \in Clients : calls[d] # NoCall => calls[d].key \in Keys
    BY <1>1 DEF CallRecords
  <2>6. QED
    BY <2>1, <2>2, <2>4, <2>5 DEF TypeInv, DiskInv
<1>9. CASE Unlink(c)
  <2>1. calls[c] \in CallRecords /\ k \in Keys /\ UNCHANGED dirs /\ calls[c] # NoCall
    BY <1>1, <1>9 DEF Unlink, At, CallRecords
  <2>2. \A l \in Keys : files'[l] = IF l = k THEN Absent ELSE files[l]
    BY <1>1, <1>9 DEF Unlink
  <2>3. calls'[c].pc = "rmdir"
    BY <1>9, <2>1, GoToFields DEF Unlink
  <2>4. ASSUME NEW d \in Clients \ {c}, calls'[d] # NoCall, calls'[d].pc = "put", calls'[d].linked
        PROVE  files'[calls'[d].key] # Absent
    <3>1. calls'[d] = IF d \in Running(k) THEN [calls[d] EXCEPT !.linked = FALSE] ELSE calls[d]
      BY <1>9 DEF Unlink
    <3>2. d \notin Running(k)
      <4> SUFFICES ASSUME d \in Running(k) PROVE FALSE
        OBVIOUS
      <4>1. calls[d] \in CallRecords
        BY <1>1 DEF Running
      <4>2. ~[calls[d] EXCEPT !.linked = FALSE].linked
        BY <4>1 DEF CallRecords
      <4>3. QED
        BY <2>4, <3>1, <4>2
    <3>3. calls'[d] = calls[d] /\ calls[d].key # k /\ calls[d].key \in Keys
      BY <1>1, <2>4, <3>1, <3>2 DEF Running, CallRecords
    <3>4. QED
      BY <2>2, <2>4, <3>3 DEF TypeInv, DiskInv
  <2>5. QED
    BY <2>1, <2>2, <2>3, <2>4 DEF TypeInv, DiskInv
<1>10. CASE RemoveDir(c)
  <2>1. calls[c] \in CallRecords /\ k \in Keys /\ UNCHANGED files
    BY <1>1, <1>10 DEF RemoveDir, At, CallRecords
  <2>2. calls'[c].pc = "done" /\ \A d \in Clients \ {c} : calls'[d] = calls[d]
    BY <1>2, <1>10, <2>1 DEF RemoveDir
  <2>3. /\ dirs' \subseteq dirs
        /\ files[k] # Absent => dirs' = dirs
        /\ \A l \in Keys \ {k} : Identifier[l] \in dirs => Identifier[l] \in dirs'
    BY <1>10, <2>1, StorageAssumption DEF RemoveDir
  <2>4. QED
    BY <2>1, <2>2, <2>3 DEF TypeInv, DiskInv
<1>11. CASE Forget(c)
  <2>1. UNCHANGED diskVars /\ calls' = [calls EXCEPT ![c] = NoCall]
    BY <1>11 DEF Forget
  <2>2. calls'[c] = NoCall /\ \A d \in Clients \ {c} : calls'[d] = calls[d]
    BY <1>1, <2>1
  <2>3. QED
    BY <2>1, <2>2, DiskStays DEF TypeInv, diskVars
<1>12. QED
  BY <1>4, <1>5, <1>6, <1>7, <1>8, <1>9, <1>10, <1>11 DEF ClientStep

LEMMA DiskCall ==
    ASSUME TypeInv, NEW c \in Clients, NEW op \in Reads \cup Writes, NEW k \in Keys,
           NEW v \in Values, Call(c, op, k, v)
    PROVE  DiskInv'
<1>1. calls \in [Clients -> CallRecords \cup {NoCall}] /\ UNCHANGED diskVars
  BY DEF TypeInv, StorageInv, Call
<1>2. calls'[c].pc = "exists"
  BY DEF Call
<1>3. ASSUME NEW d \in Clients \ {c}
      PROVE  \/ calls'[d] = calls[d]
             \/ /\ calls[d] \in CallRecords /\ calls[d] # NoCall
                /\ calls'[d] = [calls[d] EXCEPT !.alone = FALSE]
  BY <1>1 DEF Call, Running
<1>4. ASSUME NEW d \in Clients, calls'[d] # NoCall, calls'[d].pc = "put", calls'[d].linked
      PROVE  /\ calls[d] # NoCall /\ calls[d].pc = "put" /\ calls[d].linked
             /\ calls[d].key = calls'[d].key
  BY <1>2, <1>3, <1>4 DEF CallRecords
<1>5. QED
  BY <1>1, <1>4, DiskStays

\* A walk's step moves one walk, whose keys and directories are such.
LEMMA WalkTypes ==
    ASSUME TypeInv, NEW w \in Walkers, WalkStep(w)
    PROVE  walks' \in [Walkers -> WalkRecords]
<1> DEFINE x == walks[w]
<1>1. walks \in [Walkers -> WalkRecords] /\ x \in WalkRecords
  BY DEF TypeInv
<1>2. NoWalk \in WalkRecords /\ Failed \in WalkRecords
  BY DEF NoWalk, Failed, WalkRecords
<1>3. ASSUME NEW meta \in BOOLEAN, ReadDir(w, meta)
      PROVE  walks' \in [Walkers -> WalkRecords]
  <2>1. Entries \subseteq AllDirs
    BY DEF Entries, TypeInv
  <2>2. [NoWalk EXCEPT !.pc = "next", !.meta = meta, !.todo = Entries,
                       !.stable = {k \in Keys : files[k] # Absent}] \in WalkRecords
    BY <2>1 DEF NoWalk, WalkRecords
  <2>3. QED
    BY <1>1, <1>2, <1>3, <2>2 DEF ReadDir
<1>4. CASE WalkRead(w)
  <2>1. [x EXCEPT !.pc = "next", !.found = @ \cup x.at, !.at = {}] \in WalkRecords
    BY <1>1 DEF WalkRecords
  <2>2. \/ walks' = [walks EXCEPT ![w] =
                        [x EXCEPT !.pc = "next", !.found = @ \cup x.at, !.at = {}]]
        \/ walks' = [walks EXCEPT ![w] = Failed]
    BY <1>1, <1>4 DEF WalkRead
  <2>3. QED
    BY <1>1, <1>2, <2>1, <2>2
<1>5. CASE WalkEnds(w)
  BY <1>1, <1>2, <1>5 DEF WalkEnds
<1>6. ASSUME NEW e \in x.todo, WalkExists(w, e)
      PROVE  walks' \in [Walkers -> WalkRecords]
  <2> DEFINE at == {k \in Keys : Identifier[k] = e /\ Exists(k)}
  <2>1. [x EXCEPT !.pc = IF at = {} THEN "next" ELSE "read",
                  !.todo = @ \ {e}, !.at = at] \in WalkRecords
    BY <1>1 DEF WalkRecords
  <2>2. walks' = [walks EXCEPT ![w] = [x EXCEPT !.pc = IF at = {} THEN "next" ELSE "read",
                                                !.todo = @ \ {e}, !.at = at]]
    BY <1>1, <1>6 DEF WalkExists
  <2> HIDE DEF at
  <2>3. QED
    BY <1>1, <2>1, <2>2
<1>7. QED
  BY <1>3, <1>4, <1>5, <1>6 DEF WalkStep

LEMMA TypeNext == TypeInv /\ [Next]_vars => TypeInv'
<1> SUFFICES ASSUME TypeInv, [Next]_vars PROVE TypeInv'
  OBVIOUS
<1>1. StorageInv(files', calls')
  BY StepSimulates DEF TypeInv, Simulates
<1>2. ASSUME NEW c \in Clients, NEW op \in Reads \cup Writes, NEW k \in Keys, NEW v \in Values,
             Call(c, op, k, v)
      PROVE  TypeInv'
  BY <1>1, <1>2, DiskCall DEF Call, TypeInv, diskVars
<1>3. ASSUME NEW c \in Clients, ClientStep(c)
      PROVE  TypeInv'
  <2>1. walks' \in [Walkers -> WalkRecords]
    <3>1. walks \in [Walkers -> WalkRecords]
      BY DEF TypeInv
    <3>2. CASE Unlink(c)
      <4>1. PICK k : walks' = [w \in Walkers |-> [walks[w] EXCEPT !.stable = @ \ {k}]]
        BY <3>2 DEF Unlink
      <4>2. \A w \in Walkers : [walks[w] EXCEPT !.stable = @ \ {k}] \in WalkRecords
        BY <3>1 DEF WalkRecords
      <4>3. QED
        BY <4>1, <4>2
    <3>3. CASE ~Unlink(c)
      <4>1. UNCHANGED walks
        BY <1>3, <3>3 DEF ClientStep, CheckExists, CheckFound, Get, Patch, MkdirAll, OpenFile,
                          PutContent, PutFails, RemoveDir, Forget
      <4>2. QED
        BY <3>1, <4>1
    <3>4. QED
      BY <3>2, <3>3
  <2>2. faults' \in 0 .. MaxFaults
    <3>1. CASE PutFails(c)
      BY <3>1, StorageAssumption DEF PutFails, TypeInv
    <3>2. CASE ~PutFails(c)
      BY <1>3, <3>2 DEF ClientStep, CheckExists, CheckFound, Get, Patch, MkdirAll, OpenFile,
                        PutContent, Unlink, RemoveDir, Forget, TypeInv
    <3>3. QED
      BY <3>1, <3>2
  <2>3. QED
    BY <1>1, <1>3, <2>1, <2>2, DiskClient DEF TypeInv
<1>4. ASSUME NEW w \in Walkers, WalkStep(w)
      PROVE  TypeInv'
  <2>1. UNCHANGED <<diskVars, calls, faults>>
    BY <1>4 DEF WalkStep, ReadDir, WalkRead, WalkEnds, WalkExists
  <2>2. QED
    BY <1>1, <1>4, <2>1, WalkTypes, DiskStays DEF TypeInv, diskVars
<1>5. CASE Crash
  <2>1. /\ UNCHANGED diskVars /\ \A c \in Clients : calls'[c] = NoCall
        /\ walks' = [w \in Walkers |-> NoWalk] /\ faults' \in 0 .. MaxFaults
    BY <1>5, StorageAssumption DEF Crash, TypeInv
  <2>2. NoWalk \in WalkRecords
    BY DEF NoWalk, WalkRecords
  <2>3. QED
    BY <1>1, <2>1, <2>2, DiskStays DEF TypeInv, diskVars
<1>6. CASE UNCHANGED vars
  BY <1>1, <1>6, DiskStays DEF vars, diskVars, TypeInv
<1>7. QED
  BY <1>2, <1>3, <1>4, <1>5, <1>6 DEF Next

LEMMA SpecTypes == Spec => []TypeInv
BY TypeInit, TypeNext, PTL DEF Spec

\* Every variable has its type, and every file a directory: what the deletion of one
\* object removes is never on the way to the file of another one.
THEOREM StorageTypeCorrect == Spec => []TypeOK
<1>1. TypeInv => TypeOK
  BY DEF TypeInv, StorageInv, DiskInv, WalkRecords, AllDirs, TypeOK
<1>2. QED
  BY <1>1, SpecTypes, PTL

-----------------------------------------------------------------------------
(***************************************************************************)
(* List, where an identifier is one directory.                             *)
(***************************************************************************)
\* A walk still has to come to the objects that have been there since it began, or
\* has found them.
WalkInv(x) ==
  /\ x.stable \subseteq {k \in Keys : files[k] # Absent}
  /\ x.pc \in {"next", "read"} =>
       \A k \in x.stable : \/ k \in x.found \/ Identifier[k] \in x.todo
                           \/ x.pc = "read" /\ k \in x.at

ListInv == TypeInv /\ \A w \in Walkers : WalkInv(walks[w])

LEMMA ListWalk ==
    ASSUME \A k \in Keys : Len(Identifier[k]) = 1,
           ListInv, NEW w \in Walkers, WalkStep(w)
    PROVE  \A u \in Walkers : WalkInv(walks[u])'
<1> DEFINE x == walks[w]
<1>1. walks \in [Walkers -> WalkRecords] /\ x \in WalkRecords /\ WalkInv(x) /\ DiskInv
  BY DEF ListInv, TypeInv
<1>2. UNCHANGED diskVars
  BY DEF WalkStep, ReadDir, WalkRead, WalkEnds, WalkExists
<1>3. \A u \in Walkers \ {w} : walks'[u] = walks[u]
  BY <1>1 DEF WalkStep, ReadDir, WalkRead, WalkEnds, WalkExists
<1>4. \A u \in Walkers \ {w} : WalkInv(walks[u])'
  BY <1>2, <1>3 DEF ListInv, WalkInv, diskVars
<1>5. WalkInv(NoWalk)' /\ WalkInv(Failed)'
  BY DEF WalkInv, NoWalk, Failed
<1>6. ASSUME NEW meta \in BOOLEAN, ReadDir(w, meta)
      PROVE  WalkInv(walks[w])'
  <2> DEFINE y == [NoWalk EXCEPT !.pc = "next", !.meta = meta, !.todo = Entries,
                                 !.stable = {k \in Keys : files[k] # Absent}]
  <2>1. y.pc = "next" /\ y.todo = Entries /\ y.stable = {k \in Keys : files[k] # Absent}
    BY DEF NoWalk
  <2>2. walks'[w] = y \/ walks'[w] = Failed
    BY <1>1, <1>6 DEF ReadDir
  <2> HIDE DEF y
  <2>3. \A k \in y.stable : Identifier[k] \in y.todo
    BY <1>1, <2>1 DEF DiskInv, Entries
  <2>4. QED
    BY <1>2, <1>5, <2>1, <2>2, <2>3 DEF WalkInv, diskVars
<1>7. ASSUME WalkRead(w)
      PROVE  WalkInv(walks[w])'
  <2> DEFINE y == [x EXCEPT !.pc = "next", !.found = @ \cup x.at, !.at = {}]
  <2>1. y.pc = "next" /\ y.found = x.found \cup x.at /\ y.todo = x.todo /\ y.stable = x.stable
    BY <1>1 DEF WalkRecords
  <2>2. (walks'[w] = y \/ walks'[w] = Failed) /\ x.pc = "read"
    <3>1. walks' = [walks EXCEPT ![w] = y] \/ walks' = [walks EXCEPT ![w] = Failed]
      BY <1>1, <1>7 DEF WalkRead
    <3> HIDE DEF y
    <3>2. QED
      BY <1>1, <1>7, <3>1 DEF WalkRead
  <2> HIDE DEF y
  <2>3. QED
    BY <1>1, <1>2, <1>5, <2>1, <2>2 DEF WalkInv, diskVars
<1>8. ASSUME WalkEnds(w)
      PROVE  WalkInv(walks[w])'
  BY <1>1, <1>5, <1>8 DEF WalkEnds
<1>9. ASSUME NEW e \in x.todo, WalkExists(w, e)
      PROVE  WalkInv(walks[w])'
  <2> DEFINE at == {k \in Keys : Identifier[k] = e /\ Exists(k)}
             pc == IF at = {} THEN "next" ELSE "read"
             y == [x EXCEPT !.pc = pc, !.todo = @ \ {e}, !.at = at]
  <2>1. walks'[w] = y /\ x.pc = "next"
    BY <1>1, <1>9 DEF WalkExists
  <2>2. /\ y.pc = pc /\ y.found = x.found /\ y.todo = x.todo \ {e} /\ y.stable = x.stable
        /\ y.at = at
    BY <1>1 DEF WalkRecords
  <2>3. \A k \in x.stable : Identifier[k] = e => k \in at /\ pc = "read"
    BY <1>1 DEF WalkInv, DiskInv, Exists
  <2> HIDE DEF y, at, pc
  <2>4. QED
    BY <1>1, <1>2, <2>1, <2>2, <2>3 DEF WalkInv, diskVars
<1>10. WalkInv(walks[w])'
  BY <1>6, <1>7, <1>8, <1>9 DEF WalkStep
<1>11. QED
  BY <1>4, <1>10

LEMMA ListClient ==
    ASSUME ListInv, NEW c \in Clients, ClientStep(c)
    PROVE  \A w \in Walkers : WalkInv(walks[w])'
<1> DEFINE k == calls[c].key
<1>1. walks \in [Walkers -> WalkRecords] /\ files \in [Keys -> Files] /\ DiskInv
      /\ calls \in [Clients -> CallRecords \cup {NoCall}]
  BY DEF ListInv, TypeInv, StorageInv
<1>2. CASE Unlink(c)
  <2>1. files' = [files EXCEPT ![k] = Absent]
        /\ walks' = [w \in Walkers |-> [walks[w] EXCEPT !.stable = @ \ {k}]]
    BY <1>2 DEF Unlink
  <2>2. ASSUME NEW w \in Walkers
        PROVE  WalkInv(walks[w])'
    <3>1. /\ walks'[w].stable = walks[w].stable \ {k} /\ walks'[w].pc = walks[w].pc
          /\ walks'[w].found = walks[w].found /\ walks'[w].todo = walks[w].todo
          /\ walks'[w].at = walks[w].at
      BY <1>1, <2>1 DEF WalkRecords
    <3>2. \A l \in Keys \ {k} : files'[l] = files[l]
      BY <1>1, <2>1
    <3>3. QED
      BY <3>1, <3>2 DEF ListInv, WalkInv
  <2>3. QED
    BY <2>2
<1>3. CASE ~Unlink(c)
  <2>1. UNCHANGED walks
    BY <1>3 DEF ClientStep, CheckExists, CheckFound, Get, Patch, MkdirAll, OpenFile,
                PutContent, PutFails, RemoveDir, Forget
  <2>2. \A l \in Keys : files[l] # Absent => files'[l] # Absent
    <3>1. CASE OpenFile(c) \/ PutContent(c)
      <4>1. \/ files' = files
            \/ \E f : f # Absent /\ files' = [files EXCEPT ![k] = f]
        BY <3>1, FilesDiffer DEF OpenFile, PutContent
      <4>2. QED
        BY <1>1, <4>1
    <3>2. CASE ~(OpenFile(c) \/ PutContent(c))
      BY <1>3, <3>2 DEF ClientStep, CheckExists, CheckFound, Get, Patch, MkdirAll, PutFails,
                        RemoveDir, Forget, diskVars
    <3>3. QED
      BY <3>1, <3>2
  <2>3. QED
    BY <2>1, <2>2 DEF ListInv, WalkInv
<1>4. QED
  BY <1>2, <1>3

LEMMA ListNext ==
    ASSUME \A k \in Keys : Len(Identifier[k]) = 1
    PROVE  ListInv /\ [Next]_vars => ListInv'
<1> SUFFICES ASSUME ListInv, [Next]_vars PROVE ListInv'
  OBVIOUS
<1>1. TypeInv'
  BY TypeNext DEF ListInv
<1>2. ASSUME NEW c \in Clients, NEW op \in Reads \cup Writes, NEW k \in Keys, NEW v \in Values,
             Call(c, op, k, v)
      PROVE  \A w \in Walkers : WalkInv(walks[w])'
  BY <1>2 DEF Call, diskVars, ListInv, WalkInv
<1>3. ASSUME NEW c \in Clients, ClientStep(c)
      PROVE  \A w \in Walkers : WalkInv(walks[w])'
  BY <1>3, ListClient
<1>4. ASSUME NEW w \in Walkers, WalkStep(w)
      PROVE  \A u \in Walkers : WalkInv(walks[u])'
  BY <1>4, ListWalk
<1>5. CASE Crash
  <2>1. WalkInv(NoWalk)'
    BY DEF WalkInv, NoWalk
  <2>2. \A w \in Walkers : walks'[w] = NoWalk
    BY <1>5 DEF Crash
  <2>3. QED
    BY <1>1, <2>1, <2>2 DEF ListInv, WalkInv
<1>6. CASE UNCHANGED vars
  <2>1. UNCHANGED <<files, walks>>
    BY <1>6 DEF vars, diskVars
  <2>2. QED
    BY <1>1, <2>1 DEF ListInv, WalkInv
<1>7. QED
  BY <1>1, <1>2, <1>3, <1>4, <1>5, <1>6 DEF Next, ListInv

LEMMA ListInit == Init => ListInv
BY TypeInit DEF ListInv, Init, WalkInv, NoWalk

\* What passes the filters of more objects is more.
LEMMA ListGrows ==
    ASSUME NEW fs, NEW objs, NEW more, objs \subseteq more
    PROVE  List(fs, objs) \subseteq List(fs, more)
BY DEF List, Passing

\* A List that succeeds misses no object that was there all the time, and a Find gives
\* no object when more than one matches, whatever other goroutines create, update and
\* delete meanwhile - if the identifiers are no paths of several directories.
THEOREM ListsAreStable ==
    ASSUME \A k \in Keys : Len(Identifier[k]) = 1, IsFiniteSet(Keys)
    PROVE  Spec => []ListsStable
<1>1. ListInv => ListsStable
  <2> SUFFICES ASSUME ListInv, NEW w \in Walkers, Listed(w)
               PROVE  /\ walks[w].stable \subseteq walks[w].found
                      /\ \A fs \in Filters :
                           LET stable == List(fs, walks[w].stable)
                               answer == Find(fs, walks[w].found)
                           IN ~ListFails(fs, walks[w].found) =>
                                /\ stable # {} => answer \in {"ok", "ambiguous"}
                                /\ Cardinality(stable) > 1 => answer = "ambiguous"
    BY DEF ListsStable
  <2>1. walks[w].stable \subseteq walks[w].found /\ walks[w].found \subseteq Keys
    BY DEF Listed, ListInv, TypeInv, WalkRecords, WalkInv
  <2>2. ASSUME NEW fs \in Filters, ~ListFails(fs, walks[w].found)
        PROVE  /\ List(fs, walks[w].stable) # {} => Find(fs, walks[w].found) \in {"ok", "ambiguous"}
               /\ Cardinality(List(fs, walks[w].stable)) > 1 =>
                    Find(fs, walks[w].found) = "ambiguous"
    <3> DEFINE stable == List(fs, walks[w].stable)
               found == List(fs, walks[w].found)
    <3>1. stable \subseteq found
      BY <2>1, ListGrows
    <3>2. found \subseteq Keys
      BY <2>1 DEF List, Passing
    <3>3. /\ IsFiniteSet(found) /\ IsFiniteSet(stable) /\ Cardinality(stable) <= Cardinality(found)
          /\ Cardinality(found) \in Nat /\ Cardinality(stable) \in Nat
      BY <3>1, <3>2, FS_Subset, FS_CardinalityType
    <3>4. Cardinality(stable) > 1 => found # {} /\ Cardinality(found) # 1
      BY <3>3, FS_EmptySet
    <3>5. Find(fs, walks[w].found) =
            CASE found = {} -> "notFound"
              [] Cardinality(found) = 1 -> "ok"
              [] OTHER -> "ambiguous"
      BY <2>2 DEF Find
    <3> HIDE DEF stable, found
    <3>6. Cardinality(found) = 1 => found # {}
      BY FS_EmptySet
    <3>7. found # {} => Find(fs, walks[w].found) \in {"ok", "ambiguous"}
      BY <3>5, <3>6
    <3>8. found # {} /\ Cardinality(found) # 1 => Find(fs, walks[w].found) = "ambiguous"
      BY <3>5
    <3>9. QED
      BY <3>1, <3>4, <3>7, <3>8 DEF stable
  <2>3. QED
    BY <2>1, <2>2
<1>2. ListInv /\ [Next]_vars => ListInv'
  BY ListNext
<1>3. QED
  BY <1>1, <1>2, ListInit, PTL DEF Spec

-----------------------------------------------------------------------------
(***************************************************************************)
(* Count.                                                                  *)
(***************************************************************************)
\* A call that has made the directory of k and not yet the file, or has removed the
\* file and not yet the directory.
Leads(c, k) == calls[c] # NoCall /\ calls[c].key = k /\ calls[c].pc \in {"open", "rmdir"}

\* An identifier is a single directory.
OneDirectory == \A k \in Keys : \E name : Identifier[k] = <<name>>

LEMMA DirectoryParts ==
    ASSUME OneDirectory, NEW k \in Keys
    PROVE  /\ Len(Identifier[k]) = 1 /\ IsPrefix(Identifier[k], Identifier[k])
           /\ \A d \in Dirs(k) : d \in {Identifier[k], <<>>}
<1>1. PICK name : Identifier[k] = <<name>>
  BY DEF OneDirectory
<1>2. Len(<<name>>) = 1 /\ <<name>> \in Seq({name})
  OBVIOUS
<1>3. IsPrefix(<<name>>, <<name>>)
  BY <1>2 DEF IsPrefix
<1>4. ASSUME NEW n \in 0 .. Len(<<name>>) - 1 PROVE SubSeq(<<name>>, 1, n) = <<>>
  <2>1. n = 0
    BY <1>2
  <2> QED BY <1>2, <2>1
<1>5. \A d \in Dirs(k) : d \in {Identifier[k], <<>>}
  BY <1>1, <1>4 DEF Dirs
<1> QED BY <1>1, <1>2, <1>3, <1>5

\* Until something fails, the directory of a key has its file, or a call is at it.
DirInv ==
  faults = 0 =>
    \A k \in Keys : Identifier[k] \in dirs =>
      files[k] # Absent \/ \E c \in Clients : Leads(c, k)

\* The calls that are at a directory stay there but the one that takes the step.
LEMMA OthersLead ==
    ASSUME NEW c \in Clients, \A d \in Clients \ {c} : calls'[d] = calls[d], NEW k
    PROVE  \A d \in Clients \ {c} : Leads(d, k) => Leads(d, k)'
BY DEF Leads

\* A call that has come to a directory.
LEMMA PlaceLeads ==
    ASSUME NEW c \in Clients, calls[c] \in CallRecords, NEW pc \in {"open", "rmdir"},
           calls'[c] = [calls[c] EXCEPT !.pc = pc], NEW k, k = calls[c].key
    PROVE  Leads(c, k)'
<1> DEFINE r == [calls[c] EXCEPT !.pc = pc]
<1>1. r \in CallRecords /\ r.pc = pc /\ r.key = calls[c].key
  BY DEF CallRecords
<1> HIDE DEF r
<1>2. calls'[c] = r
  BY DEF r
<1> QED BY <1>1, <1>2, NoCallIs DEF Leads

LEMMA DirClient ==
    ASSUME OneDirectory, TypeInv, DirInv, NEW c \in Clients, ClientStep(c)
    PROVE  DirInv'
<1> SUFFICES ASSUME faults' = 0, NEW l \in Keys, Identifier[l] \in dirs'
             PROVE  files'[l] # Absent \/ \E d \in Clients : Leads(d, l)'
  BY DEF DirInv
<1> DEFINE k == calls[c].key
           Goal == files'[l] # Absent \/ \E d \in Clients : Leads(d, l)'
<1>1. calls \in [Clients -> CallRecords \cup {NoCall}] /\ files \in [Keys -> Files]
  BY DEF TypeInv, StorageInv
<1>2. ~PutFails(c) /\ faults = 0
  <2>1. faults \in Nat
    BY StorageAssumption DEF TypeInv
  <2>2. PutFails(c) => faults' = faults + 1
    BY DEF PutFails
  <2>3. ~PutFails(c) => faults' = faults
    BY DEF ClientStep, CheckExists, CheckFound, Get, Patch, MkdirAll, OpenFile, PutContent,
           Unlink, RemoveDir, Forget
  <2> QED BY <2>1, <2>2, <2>3
<1>3. Identifier[l] \in dirs => files[l] # Absent \/ \E d \in Clients : Leads(d, l)
  BY <1>2 DEF DirInv
<1>4. ASSUME NEW s, NEW v, Return(c, s, v) PROVE \A d \in Clients \ {c} : calls'[d] = calls[d]
  BY <1>1, <1>4 DEF Return
<1>5. ASSUME NEW pc, GoTo(c, pc) PROVE \A d \in Clients \ {c} : calls'[d] = calls[d]
  BY <1>1, <1>5 DEF GoTo
\* A step of a call that was at no directory, and leaves the file and the directory.
<1>6. ASSUME Identifier[l] \in dirs, files[l] # Absent => files'[l] # Absent, ~Leads(c, l),
             \A d \in Clients \ {c} : calls'[d] = calls[d]
      PROVE  Goal
  BY <1>3, <1>6, OthersLead
<1>7. CASE CheckExists(c) \/ CheckFound(c) \/ Get(c) \/ Patch(c) \/ Forget(c)
  <2>1. UNCHANGED diskVars /\ ~Leads(c, l)
    BY <1>7 DEF CheckExists, CheckFound, Get, Patch, Forget, At, Leads
  <2>2. \A d \in Clients \ {c} : calls'[d] = calls[d]
    <3>1. CASE Patch(c) \/ Forget(c)
      BY <1>1, <1>4, <3>1 DEF Patch, Forget
    <3>2. CASE ~(Patch(c) \/ Forget(c))
      BY <1>4, <1>5, <1>7, <3>2 DEF CheckExists, CheckFound, Get, write
    <3> QED BY <3>1, <3>2
  <2> QED BY <1>6, <2>1, <2>2 DEF diskVars
<1>8. CASE MkdirAll(c)
  <2>1. /\ calls[c] \in CallRecords /\ calls[c] # NoCall /\ k \in Keys /\ files' = files
        /\ ~Leads(c, l)
    BY <1>1, <1>8, NoCallIs DEF MkdirAll, At, CallRecords, Leads
  <2>2. \A d \in Clients \ {c} : calls'[d] = calls[d]
    BY <1>4, <1>5, <1>8 DEF MkdirAll
  <2>3. CASE Identifier[l] \in dirs
    BY <1>6, <2>1, <2>2, <2>3
  <2>4. CASE Identifier[l] \notin dirs
    <3>1. dirs' = dirs \cup Dirs(k) /\ GoTo(c, "open")
      BY <1>8, <2>4 DEF MkdirAll
    <3>2. l = k
      <4>1. Identifier[l] \in Dirs(k)
        BY <2>4, <3>1
      <4>2. Identifier[l] = Identifier[k]
        BY <2>1, <4>1, DirectoryParts, StorageAssumption
      <4> QED BY <2>1, <4>2, DirectoryParts, StorageAssumption
    <3>3. calls'[c] = [calls[c] EXCEPT !.pc = "open"]
      BY <1>1, <3>1 DEF GoTo
    <3>4. Leads(c, l)'
      BY <2>1, <3>2, <3>3, PlaceLeads
    <3> QED BY <3>4
  <2> QED BY <2>3, <2>4
<1>9. CASE OpenFile(c)
  <2>1. calls[c] \in CallRecords /\ k \in Keys /\ UNCHANGED dirs
    BY <1>1, <1>9 DEF OpenFile, At, CallRecords
  <2>2. CASE Identifier[k] \notin dirs
    <3>1. Return(c, "failed", {}) /\ files' = files /\ l # k
      BY <1>9, <2>1, <2>2 DEF OpenFile
    <3> QED BY <1>4, <1>6, <2>1, <3>1 DEF Leads
  <2>3. CASE Identifier[k] \in dirs
    <3>1. /\ files' = [files EXCEPT ![k] = Empty]
          /\ \A d \in Clients \ {c} : calls'[d] = calls[d]
      BY <1>1, <1>9, <2>3 DEF OpenFile
    <3>2. files'[k] # Absent /\ (l # k => files'[l] = files[l])
      BY <1>1, <2>1, <3>1, FilesDiffer
    <3> QED BY <1>6, <2>1, <3>1, <3>2 DEF Leads
  <2> QED BY <2>2, <2>3
<1>10. CASE PutContent(c)
  <2>1. /\ calls[c] \in CallRecords /\ k \in Keys /\ UNCHANGED dirs /\ ~Leads(c, l)
    BY <1>1, <1>10, NoCallIs DEF PutContent, At, CallRecords, Leads
  <2>2. files' = files \/ \E f : f # Absent /\ files' = [files EXCEPT ![k] = f]
    BY <1>10, FilesDiffer DEF PutContent
  <2>3. files[l] # Absent => files'[l] # Absent
    BY <1>1, <2>1, <2>2
  <2>4. \A d \in Clients \ {c} : calls'[d] = calls[d]
    BY <1>4, <1>10 DEF PutContent
  <2> QED BY <1>6, <2>1, <2>3, <2>4
<1>11. CASE Unlink(c)
  <2>1. calls[c] \in CallRecords /\ k \in Keys /\ UNCHANGED dirs /\ calls[c] # NoCall
    BY <1>1, <1>11 DEF Unlink, At, CallRecords
  <2>2. calls'[c] = [calls[c] EXCEPT !.pc = "rmdir"]
    BY <1>11 DEF Unlink
  <2>3. l = k => Leads(c, l)'
    BY <2>1, <2>2, PlaceLeads
  <2>4. ASSUME NEW d \in Clients \ {c}, Leads(d, l) PROVE Leads(d, l)'
    <3>1. calls[d] \in CallRecords /\ (calls'[d] = calls[d] \/ calls'[d] = [calls[d] EXCEPT !.linked = FALSE])
      BY <1>1, <1>11, <2>4 DEF Unlink, Leads
    <3>2. [calls[d] EXCEPT !.linked = FALSE] \in CallRecords
      BY <3>1 DEF CallRecords
    <3> QED BY <2>4, <3>1, <3>2, NoCallIs DEF Leads, CallRecords
  <2>5. l # k => files'[l] = files[l] /\ ~Leads(c, l)
    BY <1>1, <1>11 DEF Unlink, Leads
  <2> QED BY <1>3, <2>1, <2>3, <2>4, <2>5
<1>12. CASE RemoveDir(c)
  <2>1. calls[c] \in CallRecords /\ k \in Keys /\ UNCHANGED files
    BY <1>1, <1>12 DEF RemoveDir, At, CallRecords
  <2>2. dirs' \subseteq dirs /\ \A d \in Clients \ {c} : calls'[d] = calls[d]
    BY <1>4, <1>12 DEF RemoveDir
  <2>3. CASE files[k] # Absent
    BY <1>6, <2>1, <2>2, <2>3 DEF Leads
  <2>4. CASE files[k] = Absent
    <3>1. dirs' = {d \in dirs : ~IsPrefix(Identifier[k], d)}
      BY <1>12, <2>4 DEF RemoveDir
    <3>2. IsPrefix(Identifier[k], Identifier[k])
      BY <2>1, DirectoryParts
    <3>3. l # k
      BY <3>1, <3>2
    <3> QED BY <1>6, <2>1, <2>2, <3>3 DEF Leads
  <2> QED BY <2>3, <2>4
<1> QED BY <1>2, <1>7, <1>8, <1>9, <1>10, <1>11, <1>12 DEF ClientStep

LEMMA DirNext ==
    ASSUME OneDirectory
    PROVE  TypeInv /\ DirInv /\ [Next]_vars => DirInv'
<1> SUFFICES ASSUME TypeInv, DirInv, [Next]_vars PROVE DirInv'
  OBVIOUS
<1>1. ASSUME NEW c \in Clients, NEW op \in Reads \cup Writes, NEW k \in Keys, NEW v \in Values,
             Call(c, op, k, v)
      PROVE  DirInv'
  <2>1. calls \in [Clients -> CallRecords \cup {NoCall}] /\ UNCHANGED <<diskVars, faults>>
    BY <1>1 DEF TypeInv, StorageInv, Call
  <2>2. ASSUME NEW d \in Clients, NEW l, Leads(d, l) PROVE Leads(d, l)'
    <3>1. d # c /\ calls[d] \in CallRecords
      BY <1>1, <2>1, <2>2 DEF Call, Leads
    <3>2. calls'[d] = calls[d] \/ calls'[d] = [calls[d] EXCEPT !.alone = FALSE]
      BY <1>1, <3>1 DEF Call
    <3>3. [calls[d] EXCEPT !.alone = FALSE] \in CallRecords
      BY <3>1 DEF CallRecords
    <3> QED BY <2>2, <3>1, <3>2, <3>3, NoCallIs DEF Leads, CallRecords
  <2> QED BY <2>1, <2>2 DEF DirInv, diskVars
<1>2. ASSUME NEW c \in Clients, ClientStep(c) PROVE DirInv'
  BY <1>2, DirClient
<1>3. ASSUME UNCHANGED <<diskVars, calls, faults>> PROVE DirInv'
  BY <1>3 DEF DirInv, Leads, diskVars
<1>4. ASSUME NEW w \in Walkers, WalkStep(w) PROVE DirInv'
  BY <1>3, <1>4 DEF WalkStep, ReadDir, WalkRead, WalkEnds, WalkExists
<1>5. CASE Crash
  <2>1. faults \in Nat /\ faults' = faults + 1
    BY <1>5, StorageAssumption DEF Crash, TypeInv
  <2> QED BY <2>1 DEF DirInv
<1>6. CASE UNCHANGED vars
  BY <1>3, <1>6 DEF vars
<1> QED BY <1>1, <1>2, <1>4, <1>5, <1>6 DEF Next

\* The kind's own directory is made with the first object's, and no call removes it:
\* RemoveDir removes what is below an identifier.
KindInv == dirs # {} => <<>> \in dirs

LEMMA KindNext ==
    ASSUME OneDirectory
    PROVE  TypeInv /\ KindInv /\ [Next]_vars => KindInv'
<1> SUFFICES ASSUME TypeInv, KindInv, [Next]_vars PROVE KindInv'
  OBVIOUS
<1>1. ASSUME UNCHANGED dirs PROVE KindInv'
  BY <1>1 DEF KindInv
<1>2. ASSUME NEW c \in Clients, MkdirAll(c) PROVE KindInv'
  <2>1. calls[c].key \in Keys
    BY <1>2 DEF MkdirAll, At, TypeInv, StorageInv, CallRecords
  <2>2. <<>> \in Dirs(calls[c].key)
    <3>1. PICK name : Identifier[calls[c].key] = <<name>>
      BY <2>1 DEF OneDirectory
    <3>2. SubSeq(<<name>>, 1, 0) = <<>> /\ 0 \in 0 .. Len(<<name>>) - 1
      <4>1. Len(<<name>>) = 1 /\ <<name>> \in Seq({name})
        OBVIOUS
      <4> QED BY <4>1
    <3> QED BY <3>1, <3>2 DEF Dirs
  <2>3. dirs' = dirs \/ dirs' = dirs \cup Dirs(calls[c].key)
    BY <1>2 DEF MkdirAll
  <2> QED BY <1>1, <2>2, <2>3 DEF KindInv
<1>3. ASSUME NEW c \in Clients, RemoveDir(c) PROVE KindInv'
  <2> DEFINE k == calls[c].key
  <2>1. k \in Keys
    BY <1>3 DEF RemoveDir, At, TypeInv, StorageInv, CallRecords
  <2>2. ~IsPrefix(Identifier[k], <<>>)
    <3>1. Len(Identifier[k]) = 1 /\ Len(<<>>) = 0
      BY <2>1, DirectoryParts
    <3> QED BY <3>1 DEF IsPrefix
  <2>3. dirs' = dirs \/ dirs' = {d \in dirs : ~IsPrefix(Identifier[k], d)}
    BY <1>3 DEF RemoveDir
  <2> QED BY <1>1, <2>2, <2>3 DEF KindInv
<1>4. ASSUME NEW c \in Clients, ClientStep(c) PROVE KindInv'
  BY <1>1, <1>2, <1>3, <1>4
  DEF ClientStep, CheckExists, CheckFound, Get, Patch, OpenFile, PutContent, PutFails,
      Unlink, Forget, diskVars
<1>5. ASSUME NEW w \in Walkers, WalkStep(w) PROVE KindInv'
  BY <1>1, <1>5 DEF WalkStep, ReadDir, WalkRead, WalkEnds, WalkExists, diskVars
<1>6. CASE Crash \/ UNCHANGED vars
  BY <1>1, <1>6 DEF Crash, vars, diskVars
<1>7. ASSUME NEW c \in Clients, NEW op \in Reads \cup Writes, NEW k \in Keys, NEW v \in Values,
             Call(c, op, k, v)
      PROVE  KindInv'
  BY <1>1, <1>7 DEF Call, diskVars
<1> QED BY <1>4, <1>5, <1>6, <1>7 DEF Next

\* Count counts the objects, whatever calls have run before: where none writes and
\* nothing has failed, every object has one directory and every directory an object,
\* and the kind's own directory is there when an object is - if the identifiers are
\* no paths of several directories (Count, RemoveDir, MkdirAll).
THEOREM ObjectsCounted ==
    ASSUME OneDirectory, IsFiniteSet(Keys)
    PROVE  Spec => []CountsObjects
<1>1. TypeInv /\ DirInv /\ KindInv => CountsObjects
  <2> DEFINE there == {k \in Keys : files[k] # Absent}
  <2> SUFFICES ASSUME TypeInv, DirInv, KindInv, faults = 0, \A k \in Keys : Writing(k) = {}
               PROVE  Count.count = Cardinality(there) /\ (Count.error => there = {})
    BY DEF CountsObjects
  <2>1. ASSUME NEW e \in Entries PROVE \E k \in there : e = Identifier[k]
    <3>1. PICK k \in Supported : e \in Dirs(k)
      BY DEF Entries, TypeInv, AllDirs
    <3>2. k \in Keys /\ e = Identifier[k] /\ e \in dirs
      <4>1. k \in Keys /\ e \in dirs /\ Len(e) = 1
        BY StorageAssumption DEF Entries
      <4>2. Len(<<>>) = 0
        OBVIOUS
      <4> QED BY <3>1, <4>1, <4>2, DirectoryParts
    <3>3. ASSUME NEW c \in Clients, Leads(c, k) PROVE FALSE
      <4>1. Sound(calls[c]) /\ calls[c].key = k /\ calls[c].pc \in {"open", "rmdir"}
            /\ calls[c] # NoCall
        BY <3>3 DEF Leads, TypeInv, StorageInv, CallOK
      <4>2. c \in Writing(k)
        BY <4>1 DEF Sound, Writing, Running, Writes
      <4> QED BY <3>2, <4>2
    <3> QED BY <3>2, <3>3 DEF DirInv
  <2>2. ASSUME NEW k \in there PROVE Identifier[k] \in Entries
    BY DirectoryParts DEF Entries, TypeInv, DiskInv
  <2>3. \A k, l \in there : Identifier[k] = Identifier[l] => k = l
    BY DirectoryParts, StorageAssumption
  <2>4. IsFiniteSet(there)
    BY FS_Subset
  <2> DEFINE f == [k \in there |-> Identifier[k]]
  <2>5. f \in Bijection(there, Entries)
    <3>1. f \in [there -> Entries]
      BY <2>2
    <3>2. \A k, l \in there : f[k] = f[l] => k = l
      BY <2>3
    <3>3. \A e \in Entries : \E k \in there : f[k] = e
      BY <2>1
    <3> HIDE DEF there, f
    <3> QED BY <3>1, <3>2, <3>3, Fun_IsBij
  <2> HIDE DEF there, f
  <2>6. Cardinality(there) = Cardinality(Entries)
    <3>1. ExistsBijection(there, Entries)
      BY <2>5 DEF ExistsBijection
    <3> QED BY <2>4, <3>1, FS_Bijection
  <2>7. there # {} => <<>> \in dirs
    BY DEF there, TypeInv, DiskInv, KindInv
  <2> QED BY <2>6, <2>7 DEF Count, there
<1>2. Init => DirInv /\ KindInv
  BY DEF Init, DirInv, KindInv
<1> QED BY <1>1, <1>2, TypeInit, TypeNext, DirNext, KindNext, PTL DEF Spec
=============================================================================
