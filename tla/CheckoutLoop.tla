----------------------------- MODULE CheckoutLoop -----------------------------
(***************************************************************************)
(* A GitDirectory used to read: goroutines start it, the checkout loop     *)
(* follows the main branch, a reader takes the commits from the channel,   *)
(* and Cleanup may come at any time.  No transactions (Callers does not    *)
(* act here).                                                              *)
(***************************************************************************)
EXTENDS GitDirectory

VARIABLE received   \* the commit the reader took last

loopVars == <<gitVars, dirVars, received>>

\* The reader of CommitChannel().
Receive ==
    /\ commitChan # <<>>
    /\ received' = Head(commitChan)
    /\ commitChan' = Tail(commitChan)
    /\ UNCHANGED <<gitVars, lock, repo, wt, lastCommit, cleanup, ctxDone, op, err, hash>>

LoopInit == DirInit /\ received = NoCommit

Operations ==
    \/ \E s \in Starters : StartCheckoutLoop(s) \/ CloneSteps(s)
    \/ LoopTick \/ PullSteps(Loop) \/ LoopExits
    \/ CleanupCancels \/ CleanupRemoves
    \/ RemoteChanges

LoopNext == (Operations /\ UNCHANGED received) \/ Receive

\* A goroutine that waits for the mutex gets it in the end, because sync.Mutex
\* hands it to a starving waiter.  Otherwise a goroutine that can go on does: the
\* timer of the loop fires, and a network call ends, by its timeout if need be.  The
\* remote does not fail for ever.
LoopFairness ==
    /\ \A s \in Starters :
        /\ SF_loopVars(CloneLock(s) /\ UNCHANGED received)
        /\ WF_loopVars(CloneSteps(s) /\ op[s] # "clone" /\ UNCHANGED received)
    /\ SF_loopVars(PullLock(Loop) /\ UNCHANGED received)
    /\ SF_loopVars(PullFetch(Loop) /\ op'[Loop] = "head" /\ UNCHANGED received)
    /\ WF_loopVars((LoopTick \/ PullSteps(Loop)) /\ op[Loop] # "pull" /\ UNCHANGED received)
    /\ WF_loopVars(Receive)

LoopSpec == LoopInit /\ [][LoopNext]_loopVars
FairLoopSpec == LoopSpec /\ LoopFairness

-----------------------------------------------------------------------------
LoopTypeOK == DirTypeOK /\ received \in 0..Len(commits)

\* The goroutines between a Lock and its Unlock are exactly the mutex's owner:
\* two Git operations never work on the clone at the same time.
InGitOperation(g) == op[g] \in {"cloning", "fetch", "head", "panicked"}
OneGitOperation ==
    \A g \in Starters \cup {Loop} : InGitOperation(g) <=> lock = g

\* Outside a Git operation, a started and not cleaned up directory has the main
\* branch checked out, at a commit of the remote's main branch, and nothing else.
CloneOnMain ==
    lock = Free /\ wt /\ cleanup # "removed" =>
        /\ head = Main
        /\ wtree = TreeOf(refs[Main])
        /\ IsFastForward(refs[Main], remote[Main])

\* A Pull that returned nil with its context alive has reported the commit it left
\* checked out: a user that waits on the channel misses none.
PulledIsReported ==
    lock = Free /\ cleanup = "up" /\ op[Loop] = "idle" /\ err[Loop] = "nil" /\ wt =>
        lastCommit = refs[Main]

\* The channel carries each commit once, and a commit after its ancestors: the
\* reader never goes back.
ReportsGoForward ==
    [][received' # received =>
        received = NoCommit \/ IsFastForward(received, received')]_loopVars
ReportsOnce == [][Receive => received' # received]_loopVars

\* The clone follows the remote: once started, and nobody pushing any more, the
\* reader is told the remote's commit and the worktree holds its files for good,
\* unless Cleanup comes or a second start took the repository away.
FollowsRemote ==
    wt ~> \/ [](received = remote[Main] /\ wtree = TreeOf(remote[Main]))
          \/ cleanup # "up" \/ ~repo

\* No operation keeps the mutex for ever, whatever fails, unless it panicked.
MutexIsReleased == []<>(lock = Free \/ ~repo)
=============================================================================
