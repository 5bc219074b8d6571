---------------------------- MODULE GitDirectory ----------------------------
(***************************************************************************)
(* gitDirectory (pkg/gitdir/gitdir.go): a temporary clone of the main      *)
(* branch that a background loop keeps up to date, and the write           *)
(* operations a transaction uses.  One mutex orders the Git operations;    *)
(* Pull and clone take it themselves, the write operations rely on their   *)
(* caller holding it between Suspend and Resume.                           *)
(*                                                                         *)
(* Every operation is cut where another goroutine can run in between: at   *)
(* the mutex, at each network call, and at the send on the commit channel. *)
(* op[g] says where goroutine g is inside an operation, err[g] is the      *)
(* error its last operation returned.                                      *)
(***************************************************************************)
EXTENDS GitRepo

CONSTANTS
    Starters,   \* the goroutines that call StartCheckoutLoop
    Loop,       \* the goroutine of checkoutLoop
    Free,       \* the owner of an unlocked mutex
    ChanCap,    \* the capacity of commitChan (1024 in the code)
    CanWrite,   \* an AuthMethod was given
    Faults      \* what may go wrong in this instance

Goroutines == Starters \cup {Loop} \cup Callers
FaultKinds == {"deadline", "network", "cancel", "cleanup", "restore", "walk"}

ASSUME GitDirectoryAssumption ==
    /\ Loop \notin Starters \cup Callers
    /\ Starters \cap Callers = {}
    /\ Free \notin Goroutines
    /\ ChanCap \in Nat \ {0}
    /\ CanWrite \in BOOLEAN
    /\ Faults \subseteq FaultKinds

VARIABLES
    lock,       \* d.lock: the goroutine that holds it, or Free
    repo,       \* d.repo # nil
    wt,         \* d.wt # nil
    lastCommit, \* d.lastCommit
    commitChan, \* d.commitChan
    cleanup,    \* how far Cleanup is
    ctxDone,    \* the callers whose context has been cancelled
    op,         \* where each goroutine is in a GitDirectory operation
    err,        \* what the last operation of each goroutine returned
    hash        \* the hash in the Commit call of each goroutine

dirVars == <<lock, repo, wt, lastCommit, commitChan, cleanup, ctxDone, op, err, hash>>

OpStates == {"off", "idle", "clone", "cloning", "pull", "fetch", "head", "push",
             "report", "spawn", "panicked"}
Errors == {"nil", "notStarted", "readOnly", "deadline", "failed"}
CleanupStates == {"up", "cancelled", "removed"}

(***************************************************************************)
(* Contexts.  A starter and the loop use d.ctx, a caller its own.          *)
(* contextWithTimeout returns the context's error even when the operation  *)
(* itself succeeded.                                                       *)
(***************************************************************************)
Cancelled(g) == IF g \in Callers THEN g \in ctxDone ELSE cleanup # "up"

ContextErrors(g) ==
    (IF Cancelled(g) THEN {"canceled"} ELSE {"none"})
        \cup (Faults \cap {"deadline"})

Return(g, e) == op' = [op EXCEPT ![g] = "idle"] /\ err' = [err EXCEPT ![g] = e]

\* A call that returned nil: StartCheckoutLoop still has to start the loop.
ReturnNil(g) ==
    /\ op' = [op EXCEPT ![g] = IF g \in Starters THEN "spawn" ELSE "idle"]
    /\ err' = [err EXCEPT ![g] = "nil"]

\* Mutant: a deadline, too, makes the call return nil.
HandleError_DeadlineReturnsNil(g, e, success, next) ==
    IF e = "none" /\ success THEN op' = [op EXCEPT ![g] = next] /\ UNCHANGED err
    ELSE IF e = "none" THEN Return(g, "failed") ELSE ReturnNil(g)

\* The switch on the error e of contextWithTimeout; next is where the operation
\* goes on after a success.  A cancelled context makes the call return nil.
HandleError(g, e, success, next) ==
    CASE e = "canceled" -> ReturnNil(g)
      [] e = "deadline" -> Return(g, "deadline")
      [] e = "none" /\ ~success -> Return(g, "failed")
      [] OTHER -> op' = [op EXCEPT ![g] = next] /\ UNCHANGED err

\* Mutant: no deferred Unlock; the mutex is only released after a success.
UnlockUnless_OnlyOnSuccess(g, next) == lock' = lock

\* The deferred Unlock of clone and Pull, on every way out of the call.
UnlockUnless(g, next) == lock' = IF op'[g] = next THEN lock ELSE Free

\* Mutant: the channel has no capacity limit.
observeCommit_NeverBlocks(c) ==
    lastCommit' = c /\ commitChan' = Append(commitChan, c)

\* Mutant: the newest commit is delivered first.
observeCommit_NewestFirst(c) ==
    /\ Len(commitChan) < ChanCap
    /\ lastCommit' = c
    /\ commitChan' = <<c>> \o commitChan

\* The send blocks while the channel is full.
observeCommit(c) ==
    /\ Len(commitChan) < ChanCap
    /\ lastCommit' = c
    /\ commitChan' = Append(commitChan, c)

(***************************************************************************)
(* StartCheckoutLoop and clone.                                            *)
(***************************************************************************)
\* The test of d.wt, without the mutex.
StartCheckoutLoop(s) ==
    /\ op[s] \in {"off", "idle"}
    /\ IF wt THEN Return(s, "nil")
             ELSE op' = [op EXCEPT ![s] = "clone"] /\ UNCHANGED err
    /\ UNCHANGED <<gitVars, lock, repo, wt, lastCommit, commitChan, cleanup, ctxDone, hash>>

CloneLock(s) ==
    /\ op[s] = "clone"
    /\ lock = Free
    /\ lock' = s
    /\ op' = [op EXCEPT ![s] = "cloning"]
    /\ UNCHANGED <<gitVars, repo, wt, lastCommit, commitChan, cleanup, ctxDone, err, hash>>

\* Mutant: NoCheckout.
ClonedDirectory_NoCheckout ==
    /\ refs' = [refs EXCEPT ![Main] = remote[Main]]
    /\ head' = Main
    /\ UNCHANGED <<commits, remote, wtree>>

\* What a clone that ran to its end leaves in the directory.
ClonedDirectory ==
    /\ refs' = [refs EXCEPT ![Main] = remote[Main]]
    /\ head' = Main
    /\ wtree' = TreeOf(remote[Main])
    /\ UNCHANGED <<commits, remote>>

\* PlainCloneContext, whose result replaces d.repo: nil when the directory holds
\* a repository already.  d.wt is only set after a success.  Without an AuthMethod
\* cloneURL dereferences nil: the process panics, and no call of clone goes on.
Clone(s) ==
    /\ op[s] = "cloning"
    /\ CanWrite
    /\ \E e \in ContextErrors(s), done \in BOOLEAN :
        /\ done => head = NoBranch /\ cleanup # "removed"
        /\ ~done /\ e = "none" => head # NoBranch \/ "network" \in Faults
        /\ IF done THEN ClonedDirectory ELSE UNCHANGED gitVars
        /\ repo' = (head = NoBranch)
        /\ HandleError(s, e, done, "head")
    /\ wt' = (wt \/ op'[s] = "head")
    /\ UnlockUnless(s, "head")
    /\ UNCHANGED <<lastCommit, commitChan, cleanup, ctxDone, hash>>

\* go d.checkoutLoop()
SpawnLoop(s) ==
    /\ op[s] = "spawn"
    /\ op' = [op EXCEPT ![s] = "idle", ![Loop] = IF @ = "off" THEN "idle" ELSE @]
    /\ UNCHANGED <<gitVars, lock, repo, wt, lastCommit, commitChan, cleanup, ctxDone, err, hash>>

(***************************************************************************)
(* Pull.                                                                   *)
(***************************************************************************)
Pull(g) ==
    /\ op[g] = "idle"
    /\ op' = [op EXCEPT ![g] = "pull"]
    /\ UNCHANGED <<gitVars, lock, repo, wt, lastCommit, commitChan, cleanup, ctxDone, err, hash>>

\* Mutant: Pull does not take the mutex.
PullLock_NoWait(g) ==
    /\ op[g] = "pull"
    /\ wt
    /\ op' = [op EXCEPT ![g] = "fetch"]
    /\ UNCHANGED <<gitVars, lock, repo, wt, lastCommit, commitChan, cleanup, ctxDone, err, hash>>

\* The mutex is taken, and released at once when verifyRead fails.
PullLock(g) ==
    /\ op[g] = "pull"
    /\ lock = Free
    /\ IF wt THEN /\ lock' = g
                  /\ op' = [op EXCEPT ![g] = "fetch"]
                  /\ UNCHANGED err
             ELSE Return(g, "notStarted") /\ UNCHANGED lock
    /\ UNCHANGED <<gitVars, repo, wt, lastCommit, commitChan, cleanup, ctxDone, hash>>

\* Mutant: NoErrAlreadyUpToDate makes Pull return at once.
PullFetch_UpToDateReturns(g) ==
    /\ op[g] = "fetch"
    /\ IF head # NoBranch /\ PullUpToDate
       THEN ReturnNil(g) /\ UNCHANGED gitVars
       ELSE \E e \in ContextErrors(g) :
                PullWorktree /\ HandleError(g, e, PullSucceeds, "head")
    /\ UnlockUnless(g, "head")
    /\ UNCHANGED <<repo, wt, lastCommit, commitChan, cleanup, ctxDone, hash>>

PullFetch(g) ==
    /\ op[g] = "fetch"
    /\ \E e \in ContextErrors(g), done \in BOOLEAN :
        /\ ~done /\ e = "none" => "network" \in Faults
        /\ IF done THEN PullWorktree ELSE UNCHANGED gitVars
        /\ HandleError(g, e, done /\ PullSucceeds, "head")
    /\ UnlockUnless(g, "head")
    /\ UNCHANGED <<repo, wt, lastCommit, commitChan, cleanup, ctxDone, hash>>

(***************************************************************************)
(* The end of clone and Pull: read HEAD, report it, unlock.                *)
(***************************************************************************)
\* d.repo.Head() dereferences a nil d.repo.
HeadPanics(g) ==
    /\ op[g] = "head"
    /\ ~repo
    /\ op' = [op EXCEPT ![g] = "panicked"]
    /\ UNCHANGED <<gitVars, lock, repo, wt, lastCommit, commitChan, cleanup, ctxDone, err, hash>>

\* The directory was removed in the meantime.
HeadFails(g) ==
    /\ op[g] = "head"
    /\ repo /\ head = NoBranch
    /\ Return(g, "failed")
    /\ lock' = Free
    /\ UNCHANGED <<gitVars, repo, wt, lastCommit, commitChan, cleanup, ctxDone, hash>>

\* Mutant: Pull does not compare HEAD with d.lastCommit.
HeadReports_Always(g) ==
    /\ op[g] = "head"
    /\ repo /\ head # NoBranch
    /\ observeCommit(refs[head])
    /\ ReturnNil(g)
    /\ lock' = Free
    /\ UNCHANGED <<gitVars, repo, wt, cleanup, ctxDone, hash>>

\* Mutant: only clone reports.
HeadReports_OnlyClone(g) ==
    /\ op[g] = "head"
    /\ repo /\ head # NoBranch
    /\ IF g \in Starters THEN observeCommit(refs[head])
                         ELSE UNCHANGED <<lastCommit, commitChan>>
    /\ ReturnNil(g)
    /\ lock' = Free
    /\ UNCHANGED <<gitVars, repo, wt, cleanup, ctxDone, hash>>

\* clone reports always, Pull only a HEAD other than d.lastCommit.
HeadReports(g) ==
    /\ op[g] = "head"
    /\ repo /\ head # NoBranch
    /\ IF g \in Starters \/ lastCommit # refs[head]
       THEN observeCommit(refs[head])
       ELSE UNCHANGED <<lastCommit, commitChan>>
    /\ ReturnNil(g)
    /\ lock' = Free
    /\ UNCHANGED <<gitVars, repo, wt, cleanup, ctxDone, hash>>

PullSteps(g) == PullLock(g) \/ PullFetch(g) \/ HeadPanics(g) \/ HeadFails(g) \/ HeadReports(g)
CloneSteps(s) ==
    CloneLock(s) \/ Clone(s) \/ HeadFails(s) \/ HeadReports(s) \/ SpawnLoop(s)

(***************************************************************************)
(* The checkout loop: a Pull every Interval until d.ctx is cancelled.      *)
(***************************************************************************)
\* Mutant: the loop ends at the first Pull that fails.
LoopTick_StopsOnError ==
    /\ cleanup = "up"
    /\ err[Loop] = "nil"
    /\ Pull(Loop)

LoopTick ==
    /\ cleanup = "up"
    /\ Pull(Loop)

LoopExits ==
    /\ op[Loop] = "idle"
    /\ cleanup # "up"
    /\ op' = [op EXCEPT ![Loop] = "off"]
    /\ UNCHANGED <<gitVars, lock, repo, wt, lastCommit, commitChan, cleanup, ctxDone, err, hash>>

(***************************************************************************)
(* Write operations.  The caller holds the mutex.                          *)
(***************************************************************************)
\* Mutant: Suspend does not wait for the mutex.
Suspend_NoWait(g) == lock' = g

Suspend(g) == lock = Free /\ lock' = g
\* Mutant: the mutex stays locked.
Resume_Missing == lock' = lock

Resume == lock' = Free

\* verifyWrite
WriteError == IF ~wt THEN "notStarted" ELSE IF ~CanWrite THEN "readOnly" ELSE "nil"

\* Mutant: the branch is created, but HEAD stays where it is.
CheckoutNewBranch_KeepsHead(g, b) ==
    LET creates == WriteError = "nil" /\ head # NoBranch /\ refs[b] = NoCommit
    IN  /\ refs' = IF creates THEN [refs EXCEPT ![b] = refs[head]] ELSE refs
        /\ err' = [err EXCEPT ![g] = IF creates THEN "nil" ELSE "failed"]
        /\ UNCHANGED <<commits, remote, head, wtree, lock, repo, wt, lastCommit,
                       commitChan, cleanup, ctxDone, op, hash>>

\* Checkout with Create: fails when the branch exists, and after the switch when
\* the worktree has unstaged changes.
CheckoutNewBranch(g, b) ==
    LET creates == WriteError = "nil" /\ head # NoBranch /\ refs[b] = NoCommit
    IN  /\ IF creates
           THEN /\ refs' = [refs EXCEPT ![b] = refs[head]]
                /\ head' = b
           ELSE UNCHANGED <<refs, head>>
        /\ err' = [err EXCEPT ![g] = IF WriteError # "nil" THEN WriteError
                                     ELSE IF creates /\ ~UnstagedChanges THEN "nil"
                                     ELSE "failed"]
        /\ UNCHANGED <<commits, remote, wtree, lock, repo, wt, lastCommit, commitChan,
                       cleanup, ctxDone, op, hash>>

\* Mutant: the checkout is not forced, so local changes survive it.
CheckoutMainBranch_Unforced ==
    /\ IF WriteError = "nil" /\ head # NoBranch
       THEN /\ head' = Main
            /\ wtree' = IF UnstagedChanges THEN wtree ELSE TreeOf(refs[Main])
       ELSE UNCHANGED <<head, wtree>>
    /\ UNCHANGED <<commits, remote, refs, repo, wt, lastCommit, commitChan,
                   cleanup, ctxDone, op, err, hash>>

\* Clean removes untracked files, the forced checkout resets the others.  The
\* caller ignores the error.
CheckoutMainBranch ==
    \E fails \in BOOLEAN :
        /\ fails => "restore" \in Faults
        /\ IF WriteError = "nil" /\ head # NoBranch /\ ~fails
           THEN head' = Main /\ wtree' = TreeOf(refs[Main])
           ELSE UNCHANGED <<head, wtree>>
        /\ UNCHANGED <<commits, remote, refs, repo, wt, lastCommit, commitChan,
                       cleanup, ctxDone, op, err, hash>>

\* Commit up to the push: nothing is committed when the status is clean.
CreateCommit(g) ==
    /\ op[g] = "idle"
    /\ IF WriteError = "nil" /\ head # NoBranch /\ ~StatusIsClean
       THEN /\ NewCommit(refs[head], AllTracked, g)
            /\ refs' = [refs EXCEPT ![head] = Len(commits) + 1]
            /\ hash' = [hash EXCEPT ![g] = Len(commits) + 1]
            /\ op' = [op EXCEPT ![g] = "push"]
            /\ UNCHANGED err
       ELSE /\ Return(g, IF WriteError # "nil" THEN WriteError
                         ELSE IF head = NoBranch THEN "failed" ELSE "nil")
            /\ UNCHANGED <<commits, refs, hash>>
    /\ UNCHANGED <<remote, head, wtree, lock, repo, wt, lastCommit, commitChan, cleanup, ctxDone>>

\* The push uses the context of the caller, and may have reached the remote even
\* when the context's error is returned.
Push(g) ==
    /\ op[g] = "push"
    /\ \E e \in ContextErrors(g), done \in BOOLEAN :
        /\ done => PushAccepted
        /\ ~done /\ e = "none" => ~PushAccepted \/ "network" \in Faults
        /\ remote' = IF done THEN PushedBranches ELSE remote
        /\ HandleError(g, e, done, "report")
    /\ UNCHANGED <<commits, refs, head, wtree, lock, repo, wt, lastCommit, commitChan,
                   cleanup, ctxDone, hash>>

CommitReports(g) ==
    /\ op[g] = "report"
    /\ observeCommit(hash[g])
    /\ Return(g, "nil")
    /\ UNCHANGED <<gitVars, lock, repo, wt, cleanup, ctxDone, hash>>

(***************************************************************************)
(* Cleanup does not take the mutex.                                        *)
(***************************************************************************)
CleanupCancels ==
    /\ "cleanup" \in Faults
    /\ cleanup = "up"
    /\ cleanup' = "cancelled"
    /\ UNCHANGED <<gitVars, lock, repo, wt, lastCommit, commitChan, ctxDone, op, err, hash>>

CleanupRemoves ==
    /\ cleanup = "cancelled"
    /\ cleanup' = "removed"
    /\ head' = NoBranch
    /\ refs' = [b \in Branches |-> NoCommit]
    /\ wtree' = EmptyTree
    /\ UNCHANGED <<commits, remote, lock, repo, wt, lastCommit, commitChan, ctxDone, op, err, hash>>

\* The caller cancels the context of its transaction.
CancelContext(g) ==
    /\ "cancel" \in Faults
    /\ ctxDone' = ctxDone \cup {g}
    /\ UNCHANGED <<gitVars, lock, repo, wt, lastCommit, commitChan, cleanup, op, err, hash>>

RemoteChanges ==
    /\ \/ \E k \in Keys, v \in Versions \cup {Absent} : RemoteCommit(k, v)
       \/ \E b \in Branches : RemoteMerge(b)
    /\ UNCHANGED dirVars

DirInit ==
    /\ GitInit
    /\ lock = Free
    /\ repo = FALSE
    /\ wt = FALSE
    /\ lastCommit = NoCommit
    /\ commitChan = <<>>
    /\ cleanup = "up"
    /\ ctxDone = {}
    /\ op = [g \in Goroutines |-> IF g \in Callers THEN "idle" ELSE "off"]
    /\ err = [g \in Goroutines |-> "nil"]
    /\ hash = [g \in Goroutines |-> NoCommit]

DirTypeOK ==
    /\ GitTypeOK
    /\ lock \in Goroutines \cup {Free}
    /\ repo \in BOOLEAN
    /\ wt \in BOOLEAN
    /\ lastCommit \in 0..Len(commits)
    /\ commitChan \in Seq(1..Len(commits))
    /\ Len(commitChan) <= ChanCap
    /\ cleanup \in CleanupStates
    /\ ctxDone \subseteq Callers
    /\ op \in [Goroutines -> OpStates]
    /\ err \in [Goroutines -> Errors]
    /\ hash \in [Goroutines -> 0..Len(commits)]
=============================================================================
