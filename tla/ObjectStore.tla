---------------------------- MODULE ObjectStore ----------------------------
(***************************************************************************)
(* What a Storage promises to its clients (the comments of ReadStorage     *)
(* and WriteStorage in pkg/storage/storage.go), as one object per key and  *)
(* one call per client.  A call that overlaps no write of its key is       *)
(* atomic: it takes effect in one step between its beginning and its end,  *)
(* and its result is that of the step.  The code has no lock, so that of   *)
(* writes of one key that overlap nothing is said while they last but that *)
(* they concern this key only; and a read that overlaps a write may fail.  *)
(***************************************************************************)
CONSTANTS
  Clients,    \* the goroutines that call the storage
  Keys,       \* ObjectKeys of one kind
  Supported,  \* those in the GroupVersion of the raw storage
  Fields,     \* an object's content is the set of its fields that are set
  NoCall      \* the client has not called

VARIABLES objects, calls

Values == SUBSET Fields

Object(v) == [is |-> "whole", value |-> v]
Absent == [is |-> "absent", value |-> {}]
Damaged == [is |-> "damaged", value |-> {}]  \* it may be unreadable
Unknown == [is |-> "unknown", value |-> {}]  \* writes of it overlap

Objects == {Object(v) : v \in Values} \cup {Absent, Damaged}

Reads == {"get", "getMeta"}
Writes == {"create", "update", "patch", "delete"}
Ops == Reads \cup Writes

Errors == {"notFound", "alreadyExists", "failed"}
Statuses == Errors \cup {"running", "ok"}

\* The calls of key k that have not returned, and the writes among them.
Running(k) ==
  {c \in Clients : calls[c] # NoCall /\ calls[c].key = k /\ calls[c].status = "running"}
Writing(k) == {c \in Running(k) : calls[c].op \in Writes}
Overlapping(k) == {c \in Writing(k) : ~calls[c].alone}

Init ==
  /\ objects = [k \in Keys |-> Absent]
  /\ calls = [c \in Clients |-> NoCall]

\* A write makes the calls of its key that are running overlapped, and is
\* overlapped itself if one of them is a write.
Begin(c, op, k, v) ==
  /\ calls[c] = NoCall
  /\ calls' = [d \in Clients |->
       IF d = c
       THEN [op |-> op, key |-> k, arg |-> v, alone |-> Writing(k) = {},
             applied |-> FALSE, status |-> "running", value |-> {}]
       ELSE IF op \in Writes /\ d \in Running(k)
       THEN [calls[d] EXCEPT !.alone = FALSE, !.applied = FALSE]
       ELSE calls[d]]
  /\ objects' = IF op \in Writes /\ Writing(k) # {}
                THEN [objects EXCEPT ![k] = Unknown]
                ELSE objects

\* What a write makes of the object it finds, where it is allowed.
Effect(op, o, v) ==
  CASE op = "create" /\ o = Absent -> {Object(v)}
    [] op = "update" /\ o # Absent -> {Object(v)}
    [] op = "patch" /\ o.is = "whole" -> {Object(o.value \cup v)}
    [] op = "delete" /\ o # Absent -> {Absent}
    [] OTHER -> {}

\* The one step in which a write that is alone changes the object.
Apply(c) ==
  /\ calls[c] # NoCall
  /\ calls[c].status = "running" /\ calls[c].alone /\ ~calls[c].applied
  /\ calls[c].op \in Writes /\ calls[c].key \in Supported
  /\ \E o \in Effect(calls[c].op, objects[calls[c].key], calls[c].arg) :
       objects' = [objects EXCEPT ![calls[c].key] = o]
  /\ calls' = [calls EXCEPT ![c].applied = TRUE]

\* The call returns.
Returns(c, s, v) ==
  calls' = [calls EXCEPT ![c] =
    [op |-> @.op, key |-> @.key, arg |-> {}, alone |-> TRUE, applied |-> FALSE,
     status |-> s, value |-> v]]

Applied(c) ==
  /\ calls[c] # NoCall
  /\ calls[c].status = "running" /\ calls[c].alone /\ calls[c].applied
  /\ Returns(c, "ok", {})
  /\ UNCHANGED objects

\* The errors of a call that finds o and changes nothing.
Refusals(op, k, o) ==
  IF k \notin Supported THEN {"notFound", "failed"} ELSE
  CASE o = Absent -> IF op = "create" THEN {} ELSE {"notFound"}
    [] o = Damaged -> IF op = "create" THEN {"alreadyExists"} ELSE {"failed"}
    [] OTHER -> IF op = "create" THEN {"alreadyExists"} ELSE {}

Refuse(c) ==
  /\ calls[c] # NoCall
  /\ calls[c].status = "running" /\ ~calls[c].applied
  /\ \/ calls[c].alone \/ calls[c].op \in Reads
  /\ \E s \in Refusals(calls[c].op, calls[c].key, objects[calls[c].key])
              \cup IF calls[c].alone THEN {} ELSE {"failed"} :
       Returns(c, s, {})
  /\ UNCHANGED objects

\* A read returns the object, and any where the object is damaged or unknown.
Answer(c) ==
  /\ calls[c] # NoCall
  /\ calls[c].status = "running" /\ calls[c].op \in Reads
  /\ \E v \in Values :
       /\ objects[calls[c].key] \in {Object(v), Damaged, Unknown}
       /\ Returns(c, "ok", IF calls[c].op = "get" THEN v ELSE {})
  /\ UNCHANGED objects

\* A read of an object whose writes overlap.
AnswerUnknown(c) ==
  /\ calls[c] # NoCall
  /\ calls[c].status = "running" /\ calls[c].op \in Reads
  /\ objects[calls[c].key] = Unknown
  /\ Returns(c, "notFound", {})
  /\ UNCHANGED objects

\* A write of the disk fails: the object may be damaged.
Fail(c) ==
  /\ calls[c] # NoCall
  /\ calls[c].status = "running" /\ calls[c].alone /\ calls[c].op \in Writes
  /\ \E o \in {objects[calls[c].key], Damaged} :
       objects' = [objects EXCEPT ![calls[c].key] = o]
  /\ Returns(c, "failed", {})

\* A write that was not alone returns; the last one leaves some object.
Settle(c) ==
  /\ calls[c] # NoCall
  /\ calls[c].status = "running" /\ ~calls[c].alone /\ calls[c].op \in Writes
  /\ \E s \in Errors \cup {"ok"} : Returns(c, s, {})
  /\ \E o \in Objects :
       objects' = [objects EXCEPT ![calls[c].key] =
                     IF Overlapping(calls[c].key) = {c} THEN o ELSE Unknown]

Forget(c) ==
  /\ calls[c] # NoCall /\ calls[c].status # "running"
  /\ calls' = [calls EXCEPT ![c] = NoCall]
  /\ UNCHANGED objects

\* The process ends and is started again: an object that was being written
\* may be damaged, and is any one where writes overlapped.
Crash ==
  /\ calls' = [c \in Clients |-> NoCall]
  /\ objects' \in [Keys -> Objects]
  /\ \A k \in Keys :
       /\ Writing(k) = {} => objects'[k] = objects[k]
       /\ Overlapping(k) = {} => objects'[k] \in {objects[k], Damaged}

Next ==
  \/ \E c \in Clients, op \in Ops, k \in Keys, v \in Values : Begin(c, op, k, v)
  \/ \E c \in Clients :
       \/ Apply(c) \/ Applied(c) \/ Refuse(c) \/ Answer(c) \/ AnswerUnknown(c)
       \/ Fail(c) \/ Settle(c) \/ Forget(c)
  \/ Crash

vars == <<objects, calls>>

Spec == Init /\ [][Next]_vars
=============================================================================
