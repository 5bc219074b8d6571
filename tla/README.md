# libgitops, specified and verified

libgitops reads and writes Kubernetes-style objects in manifest files, watches
such files, and runs transactions on a temporary clone of a Git repository.
This directory holds TLA+ models of that code, TLC configurations that check
them, and theorems checked by TLAPS.

Every definition is a translation of the source; PROJECT.json's `map` says
which lines. Paths below are relative to the repository (`src/` is its root).

## 1. The system and its parts

| component | source | state | operations | modelled |
|---|---|---|---|---|
| GitDirectory | pkg/gitdir/gitdir.go | the mutex, `repo`, `wt`, `lastCommit`, the commit channel, the context; on disk a clone with HEAD, branches, worktree | StartCheckoutLoop, checkoutLoop, clone, Pull, Suspend, Resume, CheckoutNewBranch, CheckoutMainBranch, Commit, Cleanup | all: GitRepo, GitDirectory, CheckoutLoop |
| GitStorage | pkg/storage/transaction/ | none of its own: it drives a GitDirectory, a Storage and the mappings of its raw storage | NewGitStorage, sync, syncLoop, computeMappings, Transaction | all: GitStorage |
| pull request provider | pkg/storage/transaction/pullrequest/github | none | CreatePullRequest | outcome only: GitStorage.TxPullRequest |
| generic raw storage | pkg/storage/rawstorage.go, key.go, pkg/util/fs.go | none in memory; directories and files | Read, Exists, Write, Delete, List, GetKey | all but formats and checksums: GenericStorage |
| mapped raw storage | pkg/storage/mappedrawstorage.go | `fileMappings` under a mutex that readers do not take; the files | Read, Exists, Write, Delete, List, GetKey, AddMapping, RemoveMapping, SetMappings | where GitStorage and the watcher use it |
| GenericStorage | pkg/storage/storage.go | none: what it does is a sequence of calls of the raw storage | Get, GetMeta, Create, Update, Patch, Delete, List, ListMeta, Find, Count | all: GenericStorage, and ObjectStore for what it promises |
| patcher, filters, identifiers | pkg/util/patch, pkg/filter, pkg/runtime | none | Apply, Filter, Identify | as GenericStorage calls them |
| BatchWriter | pkg/util/sync/batcher.go | a map, a timer, a flush channel | Load, Store, ProcessBatch, Close | all: BatchWriter |
| FileWatcher | pkg/util/watcher | the inotify channel, a batcher, `suspendEvent`, the global `moveCaches`, the update channel | monitorFunc, dispatchFunc, concatenateEvents, move, Suspend, Close | all: FileWatcher; the directory walk is in GitStorage |
| GenericWatchStorage | pkg/storage/watch | `events`, the raw storage's mappings | Create, Update, Patch, Delete, SetUpdateStream, Close, monitorFunc | all: WatchStorage |
| serializer | pkg/serializer: serializer, encode, decode, convertor, defaulter | the scheme, which all users share | Decode, DecodeAll, DecodeInto, Convert, ConvertToHub, Default, DefaultAll, NewDefaultedObject, Encode, EncodeForGroupVersion | all: Serializer |
| frame reader and writer | pkg/serializer: frame_reader, frame_writer, frame_utils | the framer's rest, `hasWritten` | ReadFrame, Write, Close | YAML framing: Frames |
| comment preservation | pkg/serializer/comments.go, objectmeta.go, comments/ | an annotation of each object | Decode and Encode with PreserveComments, GetCommentSource, SetCommentSource | all: Comments |
| logs, client, cache, sync storage, samples | pkg/logs, pkg/client, pkg/storage/cache, pkg/storage/sync, cmd | none, or commented out | | not modelled, see section 5 |

### How they interact

`NewGitStorage` starts a GitDirectory's checkout loop, walks the clone and
fills the mappings of a MappedRawStorage, then leaves `syncLoop` to do so again
for every commit that arrives on the directory's commit channel. The loop pulls
every `Interval`. `Transaction` pulls, takes the directory's mutex with
`Suspend`, creates a branch, calls the user's function - which works on the
clone's files through the Storage and the mappings - commits, pushes, maybe
opens a pull request, goes back to the main branch and releases the mutex. So
four kinds of goroutine (the loop, the syncer, the callers of Transaction, the
caller of Cleanup) and the other users of the remote share the clone, the
mutex, the channel and the mappings; the mutex protects the clone only, not the
mappings and not the syncer's reading of the worktree.

A GenericWatchStorage goes the other way: inotify events are batched by file,
combined and turned into object events, while writes of the storage itself
suspend "the next event" so as not to be told of them. Its goroutines are the
watcher's monitor and dispatcher, a timer for the batch and one for each half of
a rename, the storage's own monitor, and the caller; they share the batch's
map, `suspendEvent`, `moveCaches` and the mappings.

A GenericStorage sits on a raw storage and a Serializer and keeps nothing
itself. Create, Update, Patch, Delete and List are sequences of independent
looks at and changes of the disk, without a lock; any number of goroutines may
make them. The Serializer frames a stream into documents, decodes each with the
scheme, converts and defaults it, and encodes the other way; with comments
preserved, it keeps the document an object was decoded from in an annotation
of the object and merges that document's comments into the next encoding.

### What is hard about it

* **Interleaving.** The test of `d.wt` in StartCheckoutLoop, the walk of the
  worktree in sync and the mappings are used without the mutex. Pull releases
  the mutex before Suspend takes it again. Cleanup takes no mutex.
* **Timeouts.** `contextWithTimeout` returns the context's error even when the
  operation succeeded; a cancelled context makes Pull, clone and the push
  return nil.
* **Partial failure.** A transaction can fail before, in or after its function,
  in the commit, the push or the pull request; what it leaves behind is the next
  one's start.
* **Events.** What the watcher is told is late, batched, combined and read again
  from disk: by the time an update is handled the file may be something else. A
  timer that is stopped may have fired already.
* **Ordering and limits.** Commits travel through a bounded channel whose sender
  holds the mutex; reports come from the loop, from transactions' pulls and from
  their commits.
* **Calls without a lock.** Create looks first and writes later, ioutil.WriteFile
  truncates first and writes later, os.RemoveAll removes the file and then its
  directory, List reads the directory once and the files later: two calls of
  one key, a List among writes, or a crash can meet in any of these places.
* **Long sequences of legal calls.** Comments that go round through many
  encodings, TypeMeta that survives conversions and is trusted afterwards, a
  stream that goes on after an error in the middle of a document.

What makes each component correct, and the operator that says it:

* GitDirectory: one Git operation at a time (OneGitOperation, OneAtATime), the
  main branch checked out whenever the mutex is free (CloneOnMain,
  OnMainWhenFree), every commit pulled reported once and in order
  (PulledIsReported, ReportsOnce, ReportsGoForward), the remote followed in the
  end (FollowsRemote), the mutex never kept (MutexIsReleased).
* Transactions: isolation (FnSeesMainAndItself, CommitIsolation), nothing lost
  when nil is returned (CommitPublished), main never pushed (PushKeepsMain),
  every transaction ends (TransactionsEnd).
* Mappings: repaired by the next commit pulled, whatever a transaction did
  (PullHealsMappings), and right in the end (MappingsFollowRemote).
* The storage: calls that overlap no write of their key are atomic, and whatever
  is damaged is an object being written (ImplementsStore); a List has all that
  stays (ListsStable); nothing is left behind, and Count fails at most where
  there is nothing to count (CountsObjects).
* The serializer: all documents or none, and unknown objects for unknown kinds
  alone (DecodesAll), no field lost on the way through versions and defaults
  (FieldsKept), the version asked for (VersionAsked).
* Frames: they are the documents of the stream until the first error, of which an
  I/O error can cut the last (FramesAreDocuments), what is written is what is read
  (WrittenIsRead), every read ends (ReadsEnd).
* Comments: none is lost, also when encodings fail, but where lists change or a
  `break` forgets it (CommentsKept), and none is doubled (CommentsOnce).
* The watch pipeline: no batch is left without a flush (NoStrandedBatch), all
  events are handled in the end (PipelineDrains), and then the mappings and the
  reader of the events agree with the files (QuietMappings, QuietReader).

PROJECT.json `hazards` lists what can go wrong, line by line, with the property
that covers it or why none does.

## 2. The modules

| module | models | composition |
|---|---|---|
| GitRepo | commits, the remote, and the clone's branches, HEAD and worktree; what go-git's calls do to them (external) | data layer |
| GitDirectory | every method of gitDirectory | EXTENDS GitRepo; actions only, no Next |
| CheckoutLoop | starters + loop + a reader of the channel + Cleanup + the remote | EXTENDS GitDirectory, a specification |
| GitStorage | NewGitStorage/syncLoop + transactions + loop + Cleanup + the remote | EXTENDS GitDirectory, a specification |
| BatchWriter | every method of BatchWriter, and its timer | actions only |
| FileWatcher | monitorFunc, dispatchFunc, concatenateEvents, move, the timers, Suspend, Close | EXTENDS BatchWriter; actions only |
| WatchStorage | GenericWatchStorage, a client that writes, other processes that change files | EXTENDS FileWatcher, a specification |
| ObjectStore | what a Storage promises: one object per key, one call per client | the abstract specification |
| GenericStorage | GenericStorage over GenericRawStorage, every access to the disk a step, and the walkers of List | INSTANCEs ObjectStore with a refinement mapping |
| Serializer | decoder, encoder, converter and defaulter over a scheme | a specification |
| Frames | FrameWriter and FrameReader | a specification |
| Comments | a YAML file, decoded, changed and encoded with its comments | a specification |
| MCCheckoutLoop, MCGitStorage, MCWatchStorage, MCGenericStorage, MCSerializer, MCFrames, MCComments | the constants of the runs | each EXTENDS its specification |
| GitDirectory_proofs, CheckoutLoop_proofs | lemmas per operation of gitDirectory; the theorems of CheckoutLoop | |
| GitStorage_proofs | the theorems of GitStorage | |
| WatchStorage_proofs, Frames_proofs, GenericStorage_proofs, Serializer_proofs, Comments_proofs | the theorems of those modules | |

### Correspondence to the code

*GitDirectory.* `lock`, `repo`, `wt`, `lastCommit`, `commitChan` are the fields
of gitDirectory (`repo` and `wt` only say whether the pointer is set).
`op[g]` is the program counter of goroutine `g` inside an operation and `err[g]`
what its last operation returned; `hash[g]` is the local variable of Commit. An
operation is cut exactly where another goroutine can act: the wait for the
mutex, each network call, the send on the channel. So Pull is `Pull` (the call),
`PullLock`, `PullFetch` (PullContext with its deadline), and `HeadReports`,
`HeadFails` or `HeadPanics` (Head, the comparison with lastCommit, the send, the
deferred Unlock). `StartCheckoutLoop`, `CloneLock`, `Clone` and `SpawnLoop` cut
the start in the same way; `CreateCommit`, `Push`, `CommitReports` cut Commit.
`HandleError` is the switch that Pull, clone and Commit have in common. Without an
AuthMethod (`CanWrite` FALSE) clone panics in cloneURL (gitdir.go:221), so that Clone
is disabled: a read-only directory never gets a clone, and the error `readOnly` of
verifyWrite is not reached through StartCheckoutLoop. The runs have an AuthMethod,
the theorems hold for both.

*GitStorage.* `tx[t]` says which line of Transaction caller `t` has reached,
`result[t]` is what it returns. The user's function is any sequence of
FnAddMapping, FnOpenFile + FnWriteFile, and FnDelete, then FnReturns. A write is
two steps because ioutil.WriteFile truncates the file before it writes, and the
syncer reads without the mutex. `TxRestore` and `TxResume` are the deferred
calls. `sync` is the program counter of NewGitStorage and then of syncLoop;
`files` and `found` are the locals of computeMappings. `touched` and `unseen`
are history variables for the properties and guard nothing.

*BatchWriter and FileWatcher.* `syncMap` holds the list of events of each file.
`armed` is the timer, `flushes` counts the goroutines of fired timers that are
blocked in `flushCh <-`: Store's Stop cannot take those back. Range visits the
keys in any order and hands over what is stored when it does (Visit), then the
map is replaced (ResetMap). `monitor` is monitorFunc's list between Load and
Store; `dispatcher` and `outbox` are dispatchFunc's place in Range and the
updates it has still to send. `moveCaches[c]` is the half of rename `c` that
waits and whether its timer still can fire; `incomplete` are the goroutines of
those that have (send the update, then delete the cache entry). inotify's events
are dropped one by one when their channel is full (Sent): of a rename's two, either may
get the last place. The entry is
deleted by its cookie, whichever half is there by then: a half that comes in
between loses its entry, not its timer, which nothing can cancel any more.

*WatchStorage.* `toScan` is the first loop of monitorFunc, `update` what it
holds between reading the file and changing the mappings. `client` is a call of
Create, Update (or Patch) or Delete: the Suspend first, then what the embedded
storage does. History variables say what the code is known to lose, so
that the properties can say that it loses nothing else: `missed` (files with an
event that was skipped by Suspend, dropped at a full channel, stored between
Range and the reset, or the deletion of MODIFY + DELETE => NONE), `raced` (files
with a new event while a rename that concerns them was under way), `nameless`
(files mapped under the nil key), `unheard` (objects with a change that no
event was sent of: before SetUpdateStream, a move of an object that was never
reported, or a file that the client wrote after its mapping had been removed),
together with `strayed` (objects whose mapping a move may have left behind: the
file that was renamed held no object any more, the target of the move did not
when it was handled, or the file was given to another object before the move
of its former one was handled) and `replaced`. The latter are the files that
were given to another object while something of the former one (by `owner` the
last object that the file held or was mapped for) was still mapped or on its
way: the update is handled by a look at the path's mapping (storage.go:189),
although the comment above it speaks of the object's, so the new object is
reported as modified, not mapped, and a deletion that comes late takes its
mapping. A client's Update through such a mapping writes its object into a second
file, and a copy may be renamed. No other process puts an object into a file while
the client is creating or writing it elsewhere.

*ObjectStore and GenericStorage.* `calls[c].pc` is where client `c` is in its
call: `exists` (the first look at the disk), `read`, `stat` (that of
the raw Write, which also makes the directories), `open` (the file is created or
truncated), `put` (its content is written), `unlink` and `rmdir` (the two halves
of os.RemoveAll). `linked` says whether the file that the call has open is still
in the directory. A file is whole, empty, or torn: a shorter content written
over a longer one leaves the end of the longer one, which Get does not see (it
decodes the first frame) and GetMeta and Patch fail on. `walks[w]` is a List: the
entries still to do, those found. `alone` (no write of the key overlaps the call)
and `stable` (the keys that were there all the time) are history variables,
`faults` counts crashes and failed writes.

In ObjectStore a call begins, takes effect in one step if it is alone, and
returns. The mapping (`objects`, `abstractCalls`) gives an object its new content
at the truncation, when the call is bound to replace it, and makes it unknown
while writes of it overlap. ObjectStore is exact about what the code does not
promise: two Creates that overlap may both succeed, an Update or Patch that
overlaps a Delete may bring the object back, and a write that fails or is cut off
by a crash leaves an object that cannot be read - and makes a List of its
kind fail - until the next Update or Delete.

*Serializer.* A document is its GVK and the fields that are set, each by the
`author` or by `default`; an object adds its Go type, its TypeMeta (`meta`) and,
for lists, its items. The operators follow the calls: `decode` is `Parse`,
`Decoded` (the codec's defaulting and conversion), `HandleDecoded`; `Convert`
takes the scheme's functions for classic kinds and ConvertTo/ConvertFrom for
CRDs; `EncodeVersion` chooses the version, and a group without external versions is
an error (`NoVersion`). DecodesAll says what becomes of each document: with
ConvertToHub no list is taken apart (`Flat`), because converting the v1.List fails
before its items are looked at, and a kind has to be registered in an internal or
Hub version to be known (`NotKnown`). `listKnown` is the registration of
v1.List that a decoder makes in the shared scheme. `call` is a history variable:
the properties compare a call's result with what it was given. ConvertToHub
passes a nil GroupVersioner (convertor.go:65), which fails for CRDs and panics
for classic kinds; after a panic the specification stops.

*Frames.* A stream is a sequence of tokens (text, newline, dashes), each as long as the
smallest buffer, a document an interval of positions. `remaining` is what the
framer has scanned and not handed out, `frame` and `mult` are ReadFrame's locals,
and each action is one round of its loop: Overflow, ReadMore (short buffer),
ReturnFrame, SkipFrame (blank), EndOfFile, ReadFails. `readable` is how far the
stream can be read before an I/O error. bufio.Scanner hands out what it has when its
reader fails, and reports the error with the next call: so the part of a document
before an I/O error is a frame, returned with a nil error, and only then does a read
fail. FramesAreDocuments compares the frames with the documents of the whole
stream, not of what could be read of it, and lets the last frame alone be cut
there. `kept`, `frames` and `failed` are history variables. After an error reading
may go on: after a frame that is too large with the tail of its document, and after
the scanner's own limit with what it has in its buffer.

*Comments.* A document is its nodes by path, `notes` (comments by node and place)
and `top`, the comments collected at the beginning of the file with the field they
came from. yaml.v3 puts the comments above and below a field on its key's node, and
the one behind it on the value's - on the key's, if the value is a map or a list.
CopyComments is the recursive merge as sets of paths: `Walked` are the paths the
walker visits, `SameItems` the items of lists whose comments stay, `LostSlots` those
of fields that are gone. Of these rememberLostComments looks at each node's comment
behind the line first, and if there is one at no other (lost.go:69-74): above and
below a map or list with a comment behind its key they are lost (`HiddenSlots`),
while those of a scalar are on two nodes and are all kept.

An encoding is deleteAnnotation (noAnnotationWrapper takes the annotation off, into
`taken`), then one of EncodePreserving, EncodePlain, EncodeElsewhere and EncodeFails,
each of which ends with the deferred setAnnotation. EncodeFails is the codec, the walk
(always where a field has changed its kind, CopyFails) or the writing. `carried` (the
document the object was decoded from, moved as SetCommentSource does) and `authored`
(the comments the file should have) are history variables: if an encoding used up the
annotation, `carried` would still say what the next one owes. `Due` names
what is not owed: comments written since, those of items of lists that have changed,
and the hidden ones.

### Abstractions

* A key is one manifest file and the one object in it; a content is a model
  value, `Torn` while the file is truncated. Several objects in a file and the
  path of a file are not told apart.
* A commit is its tree, its parent, the set of its ancestors and its author.
* Branch switches and the worktree part of PullContext are one step each: the
  mutex excludes other writers. The syncer's walk is what can see the middle of
  one, and the model lets that walk fail (fault `walk`), or decode files one at a
  time with anything in between.
* A push whose deadline passes may or may not have reached the remote by then; it
  does not reach it later.
* An event is its type, file and rename cookie; directories and names without
  a valid extension are not there, except as places that files are renamed to and
  from. The raw storage is a mapped one; the reader of the events takes each at
  once, so sending one never blocks. Accesses to `suspendEvent`, `moveCaches` and
  the batch's map, which the code leaves without a lock, are one step each.
* A file that another process holds open for writing is not written by the client
  or deleted at the same time.
* The remote's HEAD is the configured branch. Other users of the remote only
  fast-forward the main branch.
* In GenericStorage the content type is JSON (Patch on YAML always fails, whatever
  the object is), an object is the set of its set fields, and one kind is
  modelled: kinds have directories of their own. Opening, writing and
  removing a file are one step each, as the system calls are.
* Frames: a line that begins with dashes has nothing behind them
  (FramesAssumption); documents a program writes have no separator in them.
* Serializer: documents name their apiVersion and kind (DecodeInto fills in missing
  ones from its object). The scheme's conversion functions keep the fields that both types
  have, and the internal type and the Hub have all fields of the others
  (SchemeAssumption). They do not fail, and Strict decoding knows no
  duplicate fields here.
* Comments: a comment's text is a model value and is in one place when the author
  writes it. Maps and lists are neither empty nor in flow style, whose comments
  yaml.v3 puts behind the value. The object is encoded by one goroutine at a time.
* Names, times, messages and the content of errors are left out; an error is
  one of the classes that callers tell apart.

## 3. The runs

`Faults` names what may go wrong in an instance: `deadline` (a network call's
timeout), `network` (its failure), `cancel` (a caller's context), `cleanup`,
`restore` (CheckoutMainBranch fails), `walk` (the directory walk fails).

| run | instance | what it shows |
|---|---|---|
| checkout_loop | two starters, the loop, three remote commits, channel of two, deadline, network, cleanup | a GitDirectory without transactions: exclusion, the clone's state, reports, liveness |
| transactions | two callers on branches of their own, one file with two contents, contexts cancelled at any time, merges at the remote | isolation, and the clone between transactions |
| storage_faults | one caller, functions that update, delete and create, all results, deadlines, cleanup, a remote commit that makes a push fail | a nil result means published; the mappings are repaired |
| storage_live | two callers on one branch name, channel of one | everything ends; the mappings follow the remote |
| watch | two files, two objects, two operations of the client or others, both queues shorter than the events of two renames | no batch is stranded; mappings and reader agree with the files when quiet |
| watch_live | one operation, files without object, Close | the pipeline drains |
| objects | two clients with any calls of one key, or two clients that write to two keys while a walker lists; one failed write or crash | the refinement of ObjectStore; lists and counts |
| frames | every stream of up to seven tokens, and all a writer makes of four documents; I/O errors anywhere | until the first error frames are documents, the last one alone cut by an I/O error; bounded buffers |
| comments | six shapes of an object, two comments, two edits by the author, encodings that fail | comments through any number of cycles |
| serializer | a classic kind with three external versions, a CRD, kinds with parts missing, a group without versions, lists; five sets of options | decoding, conversion, defaulting and encoding in any order |
| created_files, namespaced_list | the smallest instances in which the code departs from its docs | the findings of section 6 |

*Bounds.* `MaxRemoteCommits` bounds the commits of other users (counting the
first); three are enough for a report to be late, repeated and overtaken. Two
callers are enough for one transaction to see what another left, and both
orders of every pair of steps. One file with two contents and "absent" tells a
stale, a half-written, a deleted and a foreign content apart; a second key
appears only where a run is small enough. `ChanCap` is 1 or 2 so that the
channel fills; the code's 1024 fills in the same way, later. The loop's pulls
are not bounded: they change nothing once the remote is quiet.

In `watch`, `MaxOps` counts the operations of the client and of the others
together; with two of them every pair races through the pipeline, which is where
the losses named in section 2 were found. `EventCap` and `UpdateCap` are 4096 in
the code; 2 and 1 make events be dropped and senders block. The two files are
symmetric in `watch`, and so are the two objects; `watch_live` uses no symmetry.
Two objects are needed: with one, a path never changes hands, and the hazard of
`replaced` does not arise.

`objects` has two scenarios in one run (MCGenericStorage's `scenario`, chosen
initially): any calls of one key with all interleavings, where two clients are
enough because every damage is made by two writes or a write and a fault; and
writes to two keys with a walker, where a filter can pass one, both or
neither. The clients are symmetric. In `frames`, seven tokens are two
separators with documents around them longer than `MaxFrame` (4) and than the
scanner takes (`ScanLimit`, 6), and buffers start at one token so that they
double twice; `Room` lets a document be refused before and after its separator;
`MaxFrames` bounds the calls. In `comments`, the shapes have a nested field,
a list, an item that is a map, and a field that changes its kind; the comments are
symmetric. `serializer` uses a VIEW without the history variable `call` and the
last error: no action reads them, and every property is about single
steps. Its files have one document or two, lists inside.

*Deadlock* is not checked in the Git and watcher runs: a system whose transactions
are done, and whose loop has been cancelled, stops. Nor is it in `frames`
(a closed reader), `comments` and `serializer` (a panic ends the process). It is
checked in `storage_live`, `objects` and `namespaced_list`.

*Fairness.* A goroutine that can go on does (weak fairness on each goroutine's
steps: the Go scheduler, a timer that fires, a network call that ends by its
timeout). A goroutine waiting for the mutex gets it although others may take it
in between (strong fairness): sync.Mutex hands itself to a waiter that starved
for a millisecond. FollowsRemote also needs that Pull does not fail for ever
(strong fairness on a PullFetch that succeeds). A user's function returns in the
end, and, for TransactionsEnd, the syncer reads the channel. In WatchStorage each goroutine and the timers go on;
calls that have begun end. In Frames the loop of ReadFrame goes on (it runs in
the caller's goroutine). Nothing makes the
remote change or Cleanup happen.

*What a mutant is.* For each property PROJECT.json names a plausible bug in a
modelled definition (defined next to it, with the comment "Mutant:"), under
which TLC finds the property violated in the same run.

## 4. The theorems

The Git theorems are for every number of callers, keys, contents, branches, channel
capacities and faults the assumptions of GitRepo, GitDirectory and GitStorage
allow; the assumptions only say that model values are distinct, that the
starter is the syncer and that no transaction names the main branch.

* **TypeCorrect** (GitStorage_proofs): `Spec => []TypeOK`. TypeOK is not
  inductive: the commits that HEAD, the remote and the pending Commit calls point
  to must exist before one can say that a new commit's ancestors are commits.
  TypeInv adds PointersOK (HEAD's branch, the remote's main branch and a pushing
  call's hash are commits), TxTypeOK and SyncTypeOK. There is one lemma per
  operation of GitDirectory (GitDirectory_proofs) and one per step of a
  transaction and of the syncer.
* **MutualExclusion** (GitStorage_proofs): `Spec => []OneAtATime`. OneAtATime
  compares the mutex with what each goroutine does; OpInv says which operations a
  goroutine can be in at each line of Transaction and NewGitStorage (a caller
  between Suspend and Resume is never inside a Pull, the loop is never in
  clone), without which Suspend could find the mutex free while its caller works.
* **MainBranchRestored** (GitStorage_proofs): if `restore` is not among the
  faults, `Spec => []OnMainWhenFree`. The invariant is
  `TypeInv /\ OneAtATime /\ OpInv /\ HistoryInv /\ BranchInv /\ MainInv`.
  HistoryInv: the ancestors of a commit exist and their ancestors are ancestors
  (fast-forwards compose). BranchInv: the local main branch holds commits of
  the remote's. MainInv: what the clone looks like at each line while
  somebody works on it - still clean on main before CheckoutNewBranch and after
  CheckoutMainBranch, anything in between. Lemma Alone says that the worker is
  unique, so a step of another goroutine cannot disturb MainInv; RemoteMain that
  the remote's fast-forwards keep BranchInv.

* **BatchIsFlushed** (WatchStorage_proofs): `Spec => []NoStrandedBatch`, for
  every number of files, objects and operations and every capacity. BatchInv adds
  that the flush channel is closed only after Close has begun: a timer that fires
  on a closed channel flushes nothing.
* **WatchTypeCorrect** (WatchStorage_proofs): `Spec => []TypeOK`. TypeInv has a
  part for the pipeline and one for the storage and the files; it adds that the
  halves of renames carry cookies, that what Range visits is stored, and which
  operation each pending step belongs to. The work is in concatenateEvents:
  Combined combines a prefix in rounds and FoldLeft goes over the result, both
  recursive functions. RoundsExist and FoldsExist show that those functions
  exist, by the least number (LeastNatural) of steps for which they would not;
  ConcatenateSteps then unfolds the fold into one step per event.
* **MappingsFollowFiles** (WatchStorage_proofs): `Spec => []QuietMappings`, for
  every number of files, objects, renames and operations, every capacity, and
  everything the client and other processes may do. QuietMappings speaks of the
  end only; the inductive invariant MapInv says what is still to be done for each
  file on the way there, as long as the watcher is open and alive:
  * Held and Gone, for a file that holds an object and for a file that is gone
    and still mapped: the newest of its events that Range has not handed over
    reports the object, or takes its mapping away. If there is none, an update
    that does is in the outbox, in `updates` or in monitorFunc's hands, or a half
    of a rename waits for its other half or its timer, or it is done.
  * OwnerInv and CopiesInv: a file is mapped for the last object that it was
    given, and an object is in one file. This is what a path that gets a second
    object too early (`replaced`), and a move that leaves a mapping behind
    (`strayed`), would break.
  * QueuesInv, why the newest event decides: monitorFunc's list continues the one
    in the map (PlacesInv), the two halves of a rename, and nothing else, share a
    cookie (CookiesInv), a first half is delivered once (OnceInv), and a deletion
    that waits is not overtaken (RacesInv, by `raced`).

  Each of the invariants has one lemma per step of the pipeline, of the storage, of
  the client and of other processes. The hardest step is DispatchVisits, where
  concatenateEvents and the caches decide what becomes of a list: VisitLast says
  what its last event comes to, and VisitFiles and VisitOthers what that leaves of
  Held and Gone of the file and of the file that the other half of a rename is
  about. Where the invariant could not be closed the code does lose something: an
  object in two files, one of which is renamed, ends up mapped to the wrong one, so
  that such a file counts as `replaced`. TLC checked MapInv on the run's instance
  before.
* **ReaderFollowsFiles** (WatchStorage_proofs): `Spec => []QuietReader`, for the
  same constants. That an object in a file is known needs no history of its own:
  what MapInv calls done (Settled) includes that the object was reported, or is in
  `unheard`, and no step takes that away without an update that takes the mapping
  as well. The converse is ViewInv: unless the events of some file are lost, an
  object that is known has a mapping, and Gone says what becomes of that.
  HandleModify is where ViewInv could fail: it reports an object as modified,
  and maps nothing, when anything is mapped to its path (storage.go:189);
  OwnerInv says that then it is that object. The proof found two
  cases of `unheard` that two operations are too few to show: a client's Create
  that fails leaves its mapping behind, and the object that later appears by a
  rename is taken for one that was reported; and the mapping of a file may be
  removed while the client writes it.

Why the assumption of MainBranchRestored: the code discards
CheckoutMainBranch's error (git.go:95); with the fault the next Pull
fast-forwards whatever branch HEAD is on, and OnMainWhenFree fails.

* **FunctionsSeeMain, CommitsAreIsolated, MainNotPushed** (GitStorage_proofs),
  under the same assumption: `Spec => []FnSeesMainAndItself`,
  `Spec => []CommitIsolation`, `Spec => PushKeepsMain`. The invariant is
  `IInv /\ TreesWhole /\ GoneInv /\ PushStarted /\ FnInv /\ AllIsolated`, IInv that
  of MainBranchRestored. FnInv adds to what FnSeesMainAndItself says that a
  function has finished its writes before it returns, which is why no commit has
  a half-written file (TreesWhole); AllIsolated is CommitIsolation commit by
  commit. PushKeepsMain needs BranchInv at the moment of the push: the clone's
  main branch holds nothing that the remote's does not.
* **CommitsArePublished** (GitStorage_proofs): `Spec => []CommitPublished`, if
  neither `restore` nor `cancel` is among the faults (a cancelled context makes
  Commit return nil without a push). PublishedInv follows the call from its commit
  to its return: no commit before TxCommit; while it pushes, its branch is at its
  commit or the directory has been removed; once the push was accepted the remote's branch
  contains it, and BranchForward says that the remote's branches only go forward.
  NotPushing, from mutual exclusion, keeps the others' branch changes away.
* **MappingsHealed** (GitStorage_proofs): `Spec => []PullHealsMappings`, if neither
  `restore` nor `walk` is among the faults (a walk that fails loses the commit
  it was for, git.go:58; after a checkout that fails the worktree is not the main
  branch's). HealedInv is IsoInv, the invariant of CommitsAreIsolated, with three
  parts. DirtyInv: what a transaction has written is unseen from its write until
  its function's branch is left. StartInv: nothing is reported, and the syncer goes
  no further, before the clone. HealInv: while nothing is unseen, the worktree is
  the main branch's tree, and once the last report has been taken the mappings,
  or the files found so far with those that the walk still has to find, are that
  worktree's. The last part is why the walk may overlap a transaction: one that
  writes nothing leaves the worktree alone, one that writes makes it unseen, and a
  Pull that reports a new commit puts that in the channel before it gives the
  mutex back.
* **LoopTypeCorrect, GitOperationsExclude, CloneStaysOnMain, PullsAreReported,
  ReaderGoesForward, ReaderToldOnce** (CheckoutLoop_proofs): the safety properties of
  CheckoutLoop, for any number of starters, commits and faults and any capacity
  of the channel. LoopTypeInv adds HistoryInv. OneGitOperation is inductive by
  itself: every action is a MutexStep of one goroutine (it takes the mutex when it
  begins an operation, gives it back when it ends one). CleanInv says what
  CloneOnMain says whoever has the mutex. ChanInv: what the reader has, then what
  is in the channel, then lastCommit, is a line of commits each of which contains
  the one before, behind the clone's main branch; both properties of the
  reader follow from it, and with ReportInv PulledIsReported.
* **TypesAndBuffer, FramesCorrect** (Frames_proofs): `Spec => []TypeOK`, in which
  the bound of the buffer is, and `Spec => []FramesAreDocuments`, for every
  stream in which dashes are alone in their lines, every frame and scanner size
  and an I/O error anywhere. ReaderInv is TypeOK with WriterInv (a writer keeps
  dashes alone) and BlockInv (the frame being read is followed by what the framer
  has left). DocInv: the stream is cut between documents where the framer has
  come to (Between), every frame is a whole document of the stream or, the last
  one, what could be read of it (Whole), the frames cover all the text up to Done,
  in order, and the frame being read with the framer's rest is the next document.
  Nothing can be read behind the place of the I/O error (LimitIsRead), so a frame
  that ends there is followed by none.
* **WrittenFramesRead** (Frames_proofs): `Spec => []WrittenIsRead`. KeptInv: the
  documents written without an error are intervals of the stream that have no
  dashes and do not overlap, a separator follows each that is not the last, all
  text of the stream is in one of them, and nothing precedes the first. A write
  that fails leaves a separator without a document, which is why the theorem is
  about the sets of documents with text. With DocInv every frame meets exactly one
  of those intervals in its text.
* **StorageImplementsStore** (GenericStorage_proofs): `Spec => ImplementsStore`, the
  refinement of ObjectStore by GenericStorage, for any number of goroutines, keys,
  fields, failed writes and crashes. StorageInv says of each call that is alone
  what it knows of its file at each step: Sound (which steps belong to which
  operation), KnowsFile (between the look at the disk and the write the file is
  what the look has found, because nobody else writes it), Sole (a call that is
  alone is the only writer of its key). Each action has a lemma `...Simulates`: it
  is a step of ObjectStore - CheckExists a refusal or a stutter, OpenFile the
  step in which the write takes effect, PutContent the return - or one in which
  neither objects nor calls change.
* **StorageTypeCorrect, ListsAreStable** (GenericStorage_proofs):
  `Spec => []TypeOK`, in which every file has its directory although deletions
  remove directories (an identifier is never a prefix of another one,
  StorageAssumption), by TypeInv; and `Spec => []ListsStable` by WalkInv: an object
  that has been there since the walk began is found, is being read, or has its
  entry among those to do. The theorem assumes identifiers of one part: with
  namespace/name it is false (the finding namespaced_list). It also assumes
  finitely many keys, so that the found objects can be counted.

* **ObjectsCounted** (GenericStorage_proofs): `Spec => []CountsObjects`, if the
  keys are finitely many and identifiers are one name in the directory of their
  kind (OneDirectory; with namespaces Count counts the namespaces, since it
  counts the entries of one directory). DirInv: until a write fails or the process
  crashes, a directory of an object has its file, or a call is at that directory -
  one that has made it and will write, or has removed the file and will remove it.
  Without a call that writes, directories and objects are then in bijection. KindInv:
  the kind's own directory stays once it is there, so ReadDir fails only before
  the first object.
* **SerializerTypeCorrect** (Serializer_proofs): `Spec => []TypeOK`. SerInv: the
  file is a sequence of well-formed documents and the objects are well formed, the
  TypeMeta of each among the kinds of its Go type and its data among the fields of
  that type. There is one lemma per function of the call graph (what `decode`,
  `Convert`, `convertToHub`, `ToGroupVersion`, `EncodeOne` return, or that they
  fail) and one step lemma per call.
* **EveryDocumentDecoded, AuthoredFieldsKept, WrittenInVersion**
  (Serializer_proofs): the action properties DecodesAll, FieldsKept and
  VersionAsked, each from SerInv and those lemmas. DecodesAll has no exception: it
  says for every set of options which documents are taken apart, and that an object is
  Unknown if and only if decoders do not know its document's kind. It compares two
  flattenings: that of the objects, a list replaced by what its items decode to,
  and that of the documents, a list replaced by its items. Parts of equal lengths
  flatten to sequences of equal length with the parts' elements at equal places
  (FlattenSame, by the least length that would fail, as an induction theorem
  cannot be instantiated). The assumptions say what the serializer takes from the
  scheme's owner: a type is one kind, internal or external, and v1.List is not
  among them (KindsAssumption); a Hub or an internal type has the fields of its
  kind's other versions, and no kind has both (SchemeAssumption); files hold
  documents (InputAssumption). TLC evaluates them on the run's scheme. The last
  part of SchemeAssumption was found by the proof: ToGroupVersion leaves TypeMeta
  to Convert (convertor.go:223), which sets it for a CRD only; a Hub whose kind has
  an internal type as well would take the classic way there, and its document would
  be written without apiVersion and kind.
* **DueCommentsKept, CommentsInOnePlace** (Comments_proofs): `Spec => []CommentsKept`,
  `Spec => []CommentsOnce`, for any set of shapes that are trees, any number of
  comments and any number of cycles and failing encodings. The invariant of the first
  says that the document that the object carries, or that was taken off it for an
  encoding, is the one it was decoded from. Then copyFieldComments and
  rememberLostComments divide its comments (lemmas CopyKeeps, Missed): one is copied,
  when its node is there again, or remembered at the top, when it is not, or is of an
  item of a list that changed, or hidden by the `break`. OnceInv is CommentsOnce of
  the file and of the document in the annotation: what is remembered was not at the
  top already.
* **CommentsTypeCorrect** (Comments_proofs): `Spec => []TypeOK`. ShapeInv: every
  document is a tree whose comments are at its own nodes. The interesting case
  is SetCommentSource's move of a node with all that is under it: where nothing
  is at the new path, nothing is under it (PrefixesIn, by the shortest path that
  would be), so no two paths become one (RenameInjective) and every node keeps its
  comments.

Only model-checked: the liveness properties (the prover handles no fairness or
ENABLED): FollowsRemote, MutexIsReleased, TransactionsEnd, MappingsFollowRemote,
PipelineDrains, ReadsEnd. Every invariant and action property of a passing run
is proved.

## 5. Not modelled

* Credentials (gitdir/transport.go), the calls to GitHub but for whether they
  succeed, logging and flags: no state that the properties could relate.
* The cache and the sync storage are commented out in the repository; the client is
  a template (build tag `ignore`) that forwards each call.
* The sample applications, and the generated code.
* The directory and extension filter of the FileWatcher, and a Watch that fails.
* List and GetKey of the mapped storage read a Go map without the mutex; the only
  outcome of that race that differs from some interleaving is the runtime's abort.
  The same holds for `moveCaches` and the scheme.
* JSON framing (the library's), documents longer than bufio's limits
  but for ScanLimit, the layout of the output (Pretty), DecodeInto an object that has
  fields already, conversion functions that fail, Strict decoding's duplicate
  fields, Create and ApplyOnStruct of the patcher.
* Formats and checksums of files: they change no state.

## 6. Findings

Each is a run in which TLC finds what a doc or comment says to be false of what
the code does.

* **created_files** (gitdir.go:407): CommitOptions{All} stages known files
  only, so an object created in a transaction is not committed.
* **namespaced_list** (rawstorage.go:149): List takes the entries of the kind's
  directory for identifiers. Metav1NameIdentifier's are `namespace/name`, so the
  entries are namespaces, and List returns nothing.

Other departures the models contain, each at its hazard in PROJECT.json; the
properties above hold in spite of them, or exclude them by a named variable:

* Two concurrent StartCheckoutLoop calls both clone; the second fails on the
  non-empty directory and leaves `d.repo` nil with `d.wt` set, and the next Pull
  panics (gitdir.go:181).
* A push is not cancelled by Cleanup, and a push whose own context is cancelled makes
  Transaction return nil (gitdir.go:420, 432). CommitPublished fails in an
  instance with the fault `cancel`.
* A function can start before the syncer has rebuilt the mappings for the
  commit that its Pull brought (git.go:87).
* A path that gets another object while the former one is mapped or its events are
  on their way loses the new object's mapping or never gets it (storage.go:189):
  such files are in `replaced`.
* A file renamed out of the watched names and written anew within a batch is
  reported as modified, and by the rename's timer as deleted (filewatcher.go:276):
  such files are in `raced`.
* Two overlapping Creates may both succeed, an Update or Patch may bring back what
  was deleted meanwhile, and overlapping writes can leave a file that Get reads and
  GetMeta and Patch refuse, until an Update (storage.go:178).
* A crash between the truncation and the writing of a file leaves an empty
  one, and every List of the kind fails until it is written (rawstorage.go:126).
* Comments above and below a map or list that is removed are lost if there is one
  behind its key as well (lost.go:69-74), although the package was "adapted to not
  lose any comment from the old tree" (comments/comments.go:9-10). CommentsKept leaves out these slots (HiddenSlots).
* What was read of a document before an I/O error comes back as a frame with a nil
  error (frame_reader.go:106, 123): FramesAreDocuments lets the last frame be cut
  there, and no other.
* With ConvertToHub a v1.List is never taken apart (decode.go:161), although DecodeAll's
  doc says so without that condition (decode.go:233-237): DecodeAll fails, or with
  DecodeUnknown returns the whole list as one Unknown; and so it does with a kind that
  the scheme has, but without a Hub. DecodesAll says exactly this.
* A GitDirectory without an AuthMethod, which is meant to be read-only
  (gitdir.go:96), panics in its first clone (gitdir.go:221).
* Count and List fail for a kind that never had an object, because its directory does
  not exist (rawstorage.go:149): Count is specified with that error.
* A filter without a parameter makes Find fail only if an object reaches it.
* Patch fails on YAML files (patch.go).
* ConvertToHub passes a nil GroupVersioner (convertor.go:65): it fails for CRDs
  and panics for classic kinds.
