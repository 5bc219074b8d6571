------------------------------ MODULE GitStorage ------------------------------
(***************************************************************************)
(* GitStorage (pkg/storage/transaction/git.go): transactions over a        *)
(* GitDirectory.  Each caller runs one Transaction; its function works on  *)
(* the files of the clone through a Storage whose MappedRawStorage knows   *)
(* only the objects it has a mapping for.  A goroutine rebuilds the        *)
(* mappings from the files after every commit the channel reports, without *)
(* the mutex, so in the middle of anything else.                           *)
(***************************************************************************)
EXTENDS GitDirectory

CONSTANTS
    Syncer,     \* the goroutine of NewGitStorage, and of syncLoop afterwards
    BranchOf,   \* the branch of each caller's transaction (the stream name)
    FnOps,      \* what the transaction functions of this instance do
    FnResults,  \* and what they return
    HasProvider \* a PullRequestProvider was given

ASSUME GitStorageAssumption ==
    /\ Starters = {Syncer}
    /\ BranchOf \in [Callers -> Branches \ {Main}]
    /\ FnOps \subseteq {"update", "delete", "create"}
    /\ FnResults \subseteq {"abort", "invalid", "commit", "pullRequest"}
    /\ HasProvider \in BOOLEAN

VARIABLES
    tx,         \* where each Transaction call is
    result,     \* the error it returns
    wantsPR,    \* the transactions whose function returned a PullRequestResult
    prs,        \* the branches the provider was asked to merge
    touched,    \* history: the keys each function wrote
    mappings,   \* raw.fileMappings: the keys that are mapped to their file
    sync,       \* where NewGitStorage, then syncLoop, is
    files,      \* in computeMappings, the files still to decode
    found,      \* in computeMappings, m
    unseen      \* history: a function wrote and no Pull has reported a commit since

txVars == <<tx, result, wantsPR, prs, touched>>
syncVars == <<sync, files, found>>
vars == <<gitVars, dirVars, txVars, mappings, syncVars, unseen>>

Suspended == {"branch", "fn", "write", "commit", "committing", "pullRequest",
              "restore", "resume"}
TxStates == {"new", "pulling", "suspend", "done"} \cup Suspended
Results == Errors \cup {"aborted", "invalid", "noProvider", "provider"}
SyncStates == {"new", "starting", "firstWalk", "firstDecode", "receive", "walk",
               "decode", "failed"}

(***************************************************************************)
(* NewGitStorage, sync and syncLoop.                                       *)
(***************************************************************************)
NewGitStorage ==
    /\ sync = "new"
    /\ StartCheckoutLoop(Syncer)
    /\ sync' = "starting"
    /\ UNCHANGED <<txVars, mappings, files, found, unseen>>

Started ==
    /\ sync = "starting"
    /\ op[Syncer] = "idle"
    /\ sync' = IF err[Syncer] = "nil" THEN "firstWalk" ELSE "failed"
    /\ UNCHANGED <<gitVars, dirVars, txVars, mappings, files, found, unseen>>

\* Transactions are possible once NewGitStorage has returned the storage.
Serving == sync \in {"receive", "walk", "decode"}

Receive ==
    /\ sync = "receive"
    /\ commitChan # <<>>
    /\ commitChan' = Tail(commitChan)
    /\ sync' = "walk"
    /\ UNCHANGED <<gitVars, lock, repo, wt, lastCommit, cleanup, ctxDone, op, err, hash,
                   txVars, mappings, files, found, unseen>>

\* WalkDirectoryForFiles lists the files there are.
Walk ==
    /\ sync \in {"firstWalk", "walk"}
    /\ cleanup # "removed"
    /\ files' = Present(wtree)
    /\ found' = {}
    /\ sync' = IF sync = "walk" THEN "decode" ELSE "firstDecode"
    /\ UNCHANGED <<gitVars, dirVars, txVars, mappings, unseen>>

\* It fails when the directory is gone, or when an entry (of .git, too) vanishes
\* between being listed and looked at, because a Git operation works there.  The
\* commit has been taken from the channel all the same.
WalkFails ==
    /\ sync \in {"firstWalk", "walk"}
    /\ cleanup = "removed" \/ ("walk" \in Faults /\ lock # Free)
    /\ sync' = IF sync = "walk" THEN "receive" ELSE "failed"
    /\ UNCHANGED <<gitVars, dirVars, txVars, mappings, files, found, unseen>>

\* A file that is gone, or only half written, cannot be decoded and is skipped.
DecodeFile(k) ==
    /\ sync \in {"firstDecode", "decode"}
    /\ k \in files
    /\ files' = files \ {k}
    /\ found' = IF wtree[k] \in Versions THEN found \cup {k} ELSE found
    /\ UNCHANGED <<gitVars, dirVars, txVars, mappings, sync, unseen>>

\* Mutant: the mappings are added to the known ones.
SetMappings_Merges ==
    /\ sync \in {"firstDecode", "decode"}
    /\ files = {}
    /\ mappings' = mappings \cup found
    /\ sync' = "receive"
    /\ UNCHANGED <<gitVars, dirVars, txVars, files, found, unseen>>

SetMappings ==
    /\ sync \in {"firstDecode", "decode"}
    /\ files = {}
    /\ mappings' = found
    /\ sync' = "receive"
    /\ UNCHANGED <<gitVars, dirVars, txVars, files, found, unseen>>

SyncSteps ==
    NewGitStorage \/ Started \/ Receive \/ Walk \/ WalkFails
        \/ (\E k \in Keys : DecodeFile(k)) \/ SetMappings

(***************************************************************************)
(* Transaction, up to the call of its function.                            *)
(***************************************************************************)
Transaction(t) ==
    /\ tx[t] = "new"
    /\ Serving
    /\ Pull(t)
    /\ tx' = [tx EXCEPT ![t] = "pulling"]
    /\ UNCHANGED <<result, wantsPR, prs, touched, mappings, syncVars, unseen>>

Pulled(t) ==
    /\ tx[t] = "pulling"
    /\ op[t] = "idle"
    /\ tx' = [tx EXCEPT ![t] = IF err[t] = "nil" THEN "suspend" ELSE "done"]
    /\ result' = [result EXCEPT ![t] = err[t]]
    /\ UNCHANGED <<gitVars, dirVars, wantsPR, prs, touched, mappings, syncVars, unseen>>

TxSuspend(t) ==
    /\ tx[t] = "suspend"
    /\ Suspend(t)
    /\ tx' = [tx EXCEPT ![t] = "branch"]
    /\ UNCHANGED <<gitVars, repo, wt, lastCommit, commitChan, cleanup, ctxDone, op, err, hash,
                   result, wantsPR, prs, touched, mappings, syncVars, unseen>>

TxBranch(t) ==
    /\ tx[t] = "branch"
    /\ CheckoutNewBranch(t, BranchOf[t])
    /\ tx' = [tx EXCEPT ![t] = IF err'[t] = "nil" THEN "fn" ELSE "restore"]
    /\ result' = [result EXCEPT ![t] = err'[t]]
    /\ UNCHANGED <<wantsPR, prs, touched, mappings, syncVars, unseen>>

(***************************************************************************)
(* The function: any sequence of calls to the Storage.  A call that finds  *)
(* no mapping (ErrNotTracked), no file to update or a file to create       *)
(* returns an error and changes nothing.                                   *)
(***************************************************************************)
Writes(t, k) ==
    /\ touched' = [touched EXCEPT ![t] = @ \cup {k}]
    /\ unseen' = TRUE
    /\ UNCHANGED <<commits, remote, refs, head, dirVars, result, wantsPR, prs, syncVars>>

\* RawStorage().AddMapping, for an object that has no file yet.
FnAddMapping(t, k) ==
    /\ tx[t] = "fn"
    /\ "create" \in FnOps
    /\ wtree[k] = Absent
    /\ mappings' = mappings \cup {k}
    /\ UNCHANGED <<wtree, tx>>
    /\ Writes(t, k)

\* Update of an existing file and Create of a new one: ioutil.WriteFile opens and
\* truncates the file first.
FnOpenFile(t, k) ==
    /\ tx[t] = "fn"
    /\ k \in mappings
    /\ head # NoBranch
    /\ (IF wtree[k] = Absent THEN "create" ELSE "update") \in FnOps
    /\ wtree' = [wtree EXCEPT ![k] = Torn]
    /\ tx' = [tx EXCEPT ![t] = "write"]
    /\ UNCHANGED mappings
    /\ Writes(t, k)

FnWriteFile(t, v) ==
    /\ tx[t] = "write"
    /\ wtree' = [k \in Keys |-> IF wtree[k] = Torn THEN v ELSE wtree[k]]
    /\ tx' = [tx EXCEPT ![t] = "fn"]
    /\ UNCHANGED <<commits, remote, refs, head, dirVars, result, wantsPR, prs, touched,
                   mappings, syncVars, unseen>>

\* Delete removes the file, if it is there, and the mapping.
FnDelete(t, k) ==
    /\ tx[t] = "fn"
    /\ "delete" \in FnOps
    /\ k \in mappings
    /\ wtree' = [wtree EXCEPT ![k] = Absent]
    /\ mappings' = mappings \ {k}
    /\ UNCHANGED tx
    /\ Writes(t, k)

FnReturns(t, r) ==
    /\ tx[t] = "fn"
    /\ r \in FnResults
    /\ tx' = [tx EXCEPT ![t] = IF r \in {"abort", "invalid"} THEN "restore" ELSE "commit"]
    /\ result' = [result EXCEPT ![t] = CASE r = "abort" -> "aborted"
                                         [] r = "invalid" -> "invalid"
                                         [] OTHER -> @]
    /\ wantsPR' = IF r = "pullRequest" THEN wantsPR \cup {t} ELSE wantsPR
    /\ UNCHANGED <<gitVars, dirVars, prs, touched, mappings, syncVars, unseen>>

FnSteps(t) ==
    \/ \E k \in Keys : FnAddMapping(t, k) \/ FnOpenFile(t, k) \/ FnDelete(t, k)
    \/ \E v \in Versions : FnWriteFile(t, v)
    \/ \E r \in FnResults : FnReturns(t, r)

(***************************************************************************)
(* Transaction, after its function.                                        *)
(***************************************************************************)
TxCommit(t) ==
    /\ tx[t] = "commit"
    /\ CreateCommit(t)
    /\ tx' = [tx EXCEPT ![t] = "committing"]
    /\ UNCHANGED <<result, wantsPR, prs, touched, mappings, syncVars, unseen>>

TxCommitted(t) ==
    /\ tx[t] = "committing"
    /\ op[t] = "idle"
    /\ tx' = [tx EXCEPT ![t] = IF err[t] = "nil" /\ t \in wantsPR
                               THEN "pullRequest" ELSE "restore"]
    /\ result' = [result EXCEPT ![t] = err[t]]
    /\ UNCHANGED <<gitVars, dirVars, wantsPR, prs, touched, mappings, syncVars, unseen>>

\* The provider is an external service: it may refuse.
TxPullRequest(t) ==
    /\ tx[t] = "pullRequest"
    /\ prs' = IF HasProvider THEN prs \cup {BranchOf[t]} ELSE prs
    /\ \E e \in IF HasProvider THEN {"nil", "provider"} ELSE {"noProvider"} :
            result' = [result EXCEPT ![t] = e]
    /\ tx' = [tx EXCEPT ![t] = "restore"]
    /\ UNCHANGED <<gitVars, dirVars, wantsPR, touched, mappings, syncVars, unseen>>

\* Mutant: only a transaction that failed goes back to the main branch.
TxRestore_OnlyOnError(t) ==
    /\ tx[t] = "restore"
    /\ IF result[t] = "nil"
       THEN UNCHANGED <<gitVars, repo, wt, lastCommit, commitChan, cleanup, ctxDone, op, err, hash>>
       ELSE CheckoutMainBranch
    /\ tx' = [tx EXCEPT ![t] = "resume"]
    /\ UNCHANGED <<lock, result, wantsPR, prs, touched, mappings, syncVars, unseen>>

\* The deferred calls: back to the main branch, then Resume.
TxRestore(t) ==
    /\ tx[t] = "restore"
    /\ CheckoutMainBranch
    /\ tx' = [tx EXCEPT ![t] = "resume"]
    /\ UNCHANGED <<lock, result, wantsPR, prs, touched, mappings, syncVars, unseen>>

TxResume(t) ==
    /\ tx[t] = "resume"
    /\ Resume
    /\ tx' = [tx EXCEPT ![t] = "done"]
    /\ UNCHANGED <<gitVars, repo, wt, lastCommit, commitChan, cleanup, ctxDone, op, err, hash,
                   result, wantsPR, prs, touched, mappings, syncVars, unseen>>

TxSteps(t) ==
    \/ Transaction(t) \/ Pulled(t) \/ TxSuspend(t) \/ TxBranch(t) \/ FnSteps(t)
    \/ TxCommit(t) \/ TxCommitted(t) \/ TxPullRequest(t) \/ TxRestore(t) \/ TxResume(t)

(***************************************************************************)
(* The GitDirectory operations of the goroutines.                          *)
(***************************************************************************)
Reports == unseen' = (unseen /\ lastCommit' = lastCommit)

PullStep(g) ==
    /\ PullLock(g) \/ PullFetch(g) \/ HeadFails(g) \/ HeadReports(g)
    /\ Reports
    /\ UNCHANGED <<txVars, mappings, syncVars>>

CloneStep ==
    /\ CloneSteps(Syncer)
    /\ UNCHANGED <<txVars, mappings, syncVars, unseen>>

PushStep(t) ==
    /\ Push(t) \/ CommitReports(t)
    /\ UNCHANGED <<txVars, mappings, syncVars, unseen>>

LoopStep ==
    /\ LoopTick \/ LoopExits
    /\ UNCHANGED <<txVars, mappings, syncVars, unseen>>

Environment ==
    /\ \/ CleanupCancels \/ CleanupRemoves \/ RemoteChanges
       \/ \E t \in Callers : tx[t] # "done" /\ t \notin ctxDone /\ CancelContext(t)
    /\ UNCHANGED <<txVars, mappings, syncVars, unseen>>

Init ==
    /\ DirInit
    /\ tx = [t \in Callers |-> "new"]
    /\ result = [t \in Callers |-> "nil"]
    /\ wantsPR = {}
    /\ prs = {}
    /\ touched = [t \in Callers |-> {}]
    /\ mappings = {}
    /\ sync = "new"
    /\ files = {}
    /\ found = {}
    /\ unseen = FALSE

Next ==
    \/ SyncSteps \/ CloneStep \/ LoopStep \/ PullStep(Loop)
    \/ \E t \in Callers : TxSteps(t) \/ PullStep(t) \/ PushStep(t)
    \/ Environment

Spec == Init /\ [][Next]_vars

\* A goroutine that waits for the mutex gets it in the end (sync.Mutex hands it to
\* a starving waiter), and a function returns in the end.
Acquires(g) == PullStep(g) /\ op[g] = "pull"
WaitsOver(t) ==
    TxSuspend(t) \/ Acquires(t) \/ \E r \in FnResults : FnReturns(t, r)

\* Otherwise a goroutine that can go on does: the timer of the loop fires, and a
\* network call ends, by its timeout if need be.
Fairness ==
    /\ WF_vars(SyncSteps) /\ WF_vars(CloneStep) /\ WF_vars(LoopStep)
    /\ SF_vars(Acquires(Loop))
    /\ WF_vars(PullStep(Loop) /\ op[Loop] # "pull")
    /\ \A t \in Callers :
        /\ SF_vars(WaitsOver(t))
        /\ WF_vars((TxSteps(t) \/ PullStep(t) \/ PushStep(t)) /\ ~WaitsOver(t))

FairSpec == Spec /\ Fairness

-----------------------------------------------------------------------------
TypeOK ==
    /\ DirTypeOK
    /\ tx \in [Callers -> TxStates]
    /\ result \in [Callers -> Results]
    /\ wantsPR \subseteq Callers
    /\ prs \subseteq Branches
    /\ touched \in [Callers -> SUBSET Keys]
    /\ mappings \subseteq Keys
    /\ sync \in SyncStates
    /\ files \subseteq Keys
    /\ found \subseteq Keys
    /\ unseen \in BOOLEAN

\* One goroutine at a time works on the clone: those inside clone or Pull, and
\* the transactions between Suspend and Resume, are exactly the mutex's owner.
Working(g) ==
    \/ op[g] \in {"cloning", "fetch", "head"}
    \/ g \in Callers /\ tx[g] \in Suspended
OneAtATime == \A g \in Goroutines : Working(g) <=> lock = g

\* Between operations the clone is on the main branch ("Always switch back to the
\* main branch afterwards", git.go), its worktree is exactly the branch's tree, and
\* the branch holds commits of the remote's main branch only.
MainCheckedOut ==
    head = Main /\ wtree = TreeOf(refs[Main])
        /\ IsFastForward(refs[Main], remote[Main])
OnMainWhenFree ==
    lock = Free /\ wt /\ cleanup # "removed" => MainCheckedOut

\* A function sees the main branch and its own writes: nobody moves the branch or
\* the files under it, and nothing of another transaction is left in them.
FnSeesMainAndItself ==
    \A t \in Callers :
        tx[t] \in {"fn", "write", "commit"} /\ cleanup # "removed" =>
            /\ head = BranchOf[t]
            /\ refs[head] = refs[Main]
            /\ \A k \in Keys \ touched[t] : wtree[k] = TreeOf(refs[Main])[k]

\* The commit of a transaction sits on a commit of the main branch and changes
\* nothing but what its function wrote.
CommitIsolation ==
    \A c \in DOMAIN commits :
        LET t == commits[c].by
            base == commits[c].parent
        IN  t # Nobody =>
                /\ IsFastForward(base, remote[Main])
                /\ \A k \in Keys \ touched[t] : TreeOf(c)[k] = TreeOf(base)[k]

\* "It also automatically pushes the branch after the commit" (gitdir.go): a
\* Transaction that returns nil, or asks for a pull request, has its commit on its
\* branch at the remote.
CommitPublished ==
    \A t \in Callers :
        (hash[t] # NoCommit /\ (tx[t] = "pullRequest" \/ (tx[t] = "done" /\ result[t] = "nil"))) =>
            /\ remote[BranchOf[t]] # NoCommit
            /\ IsFastForward(hash[t], remote[BranchOf[t]])

\* A push sends every local branch, but moves the remote's main branch in no case.
PushKeepsMain == [][\A t \in Callers : Push(t) => remote'[Main] = remote[Main]]_vars

\* When no Git operation runs, every commit reported has been synced, and no
\* function has written since a Pull reported one, the mappings are the files:
\* whatever a transaction did to them is repaired by the next commit.
Quiet ==
    /\ lock = Free
    /\ sync = "receive"
    /\ commitChan = <<>>
    /\ lastCommit = refs[Main]
    /\ cleanup = "up"
PullHealsMappings == Quiet /\ ~unseen => mappings = Present(wtree)

\* "Commit creates a commit of all changes in the current worktree" (gitdir.go).
CommitsAllChanges ==
    [][\A t \in Callers :
        op[t] = "idle" /\ op'[t] = "push" => TreeOf(hash[t])' = wtree]_vars

\* A transaction that began ends: no one waits for the mutex or the channel for ever.
TransactionsEnd == \A t \in Callers : tx[t] = "pulling" ~> tx[t] = "done"

\* Once nobody pushes to the main branch any more, the storage comes to know the
\* objects of its last commit, unless functions wrote after the last report.
MappingsFollowRemote ==
    Serving ~> [](lock = Free /\ ~unseen => mappings = Present(TreeOf(remote[Main])))
=============================================================================
