------------------------- MODULE CheckoutLoop_proofs -------------------------
(***************************************************************************)
(* Theorems about a GitDirectory without transactions, for any number of   *)
(* starters, keys and commits, any channel capacity and any faults.        *)
(***************************************************************************)
EXTENDS CheckoutLoop, GitDirectory_proofs

USE GitRepoAssumption, GitDirectoryAssumption

Users == Starters \cup {Loop}

LEMMA UsersAre == Users \subseteq Goroutines /\ Loop \in Users /\ Loop \notin Starters
  BY DEF Users, Goroutines

-----------------------------------------------------------------------------
(***************************************************************************)
(* Types and the history.                                                  *)
(***************************************************************************)
LoopTypeInv == DirInv /\ received \in 0..Len(commits) /\ HistoryInv

\* The commits stay, or somebody pushes one to the remote.
LEMMA LoopHistory ==
    ASSUME LoopTypeInv, [LoopNext]_loopVars
    PROVE  HistoryGrows /\ HistoryInv'
<1> commits \in Seq(Commit)
  BY DEF LoopTypeInv, DirInv, DirTypeOK, GitTypeOK
<1>1. CASE UNCHANGED commits
  BY <1>1 DEF LoopTypeInv, HistoryGrows, HistoryInv, Ancestors
<1>2. ASSUME NEW k \in Keys, NEW v \in Versions \cup {Absent}, RemoteCommit(k, v)
      PROVE  HistoryGrows /\ HistoryInv'
  <2> DEFINE tree == [TreeOf(remote[Main]) EXCEPT ![k] = v]
  <2>1. remote[Main] \in 1..Len(commits)
    BY DEF LoopTypeInv, DirInv, DirTypeOK, GitTypeOK, PointersOK, NoCommit
  <2>2. tree \in Files
    BY <2>1, TreeOfType DEF Files
  <2>3. NewCommit(remote[Main], tree, Nobody)
    BY <1>2 DEF RemoteCommit
  <2> HIDE DEF tree
  <2>4. QED
    BY <2>1, <2>2, <2>3, NewCommitHistory DEF LoopTypeInv
<1>3. CASE Operations
  BY <1>1, <1>2, <1>3 DEF Operations, StartCheckoutLoop, CloneSteps, CloneLock, Clone,
        ClonedDirectory, HeadFails, HeadReports, HeadPanics, SpawnLoop, LoopTick, Pull, PullSteps,
        PullLock, PullFetch, PullWorktree, LoopExits, CleanupCancels, CleanupRemoves,
        RemoteChanges, RemoteMerge, gitVars
<1>4. CASE Receive \/ UNCHANGED loopVars
  BY <1>1, <1>4 DEF Receive, loopVars, gitVars
<1>5. QED
  BY <1>3, <1>4 DEF LoopNext

LEMMA OperationsType == ASSUME LoopTypeInv, Operations PROVE DirInv'
<1> Loop \in Goroutines
  BY DEF Goroutines
<1>1. ASSUME NEW s \in Starters, StartCheckoutLoop(s) \/ CloneSteps(s) PROVE DirInv'
  <2>1. s \in Goroutines
    BY DEF Goroutines
  <2>2. QED
    BY <1>1, <2>1, StartCheckoutLoopInv, CloneLockInv, CloneInv, HeadFailsInv, HeadReportsInv,
       SpawnLoopInv DEF CloneSteps, LoopTypeInv
<1>2. CASE LoopTick \/ PullSteps(Loop) \/ LoopExits
  BY <1>2, PullInv, PullLockInv, PullFetchInv, HeadPanicsInv, HeadFailsInv, HeadReportsInv,
     LoopExitsInv DEF LoopTick, PullSteps, LoopTypeInv
<1>3. CASE CleanupCancels \/ CleanupRemoves \/ RemoteChanges
  BY <1>3, CleanupInv, RemoteChangesInv DEF LoopTypeInv
<1>4. QED
  BY <1>1, <1>2, <1>3 DEF Operations

LEMMA ReceiveType ==
    ASSUME LoopTypeInv, Receive
    PROVE  DirInv' /\ received' \in 0..Len(commits)
<1>1. commitChan \in Seq(1..Len(commits)) /\ commitChan # <<>> /\ Len(commitChan) <= ChanCap
  BY DEF Receive, LoopTypeInv, DirInv, DirTypeOK
<1>2. /\ Tail(commitChan) \in Seq(1..Len(commits))
      /\ Len(Tail(commitChan)) = Len(commitChan) - 1
      /\ Head(commitChan) \in 1..Len(commits)
      /\ Len(commitChan) \in Nat
  BY <1>1
<1>3. Len(Tail(commitChan)) <= ChanCap
  BY <1>1, <1>2
<1>4. QED
  BY <1>2, <1>3 DEF Receive, LoopTypeInv, DirInv, DirTypeOK, GitTypeOK, PointersOK, gitVars

LEMMA LoopTypeNext ==
    ASSUME LoopTypeInv, [LoopNext]_loopVars
    PROVE  LoopTypeInv'
<1>1. HistoryGrows /\ HistoryInv'
  BY LoopHistory
<1>2. CASE Operations /\ UNCHANGED received
  <2>1. received \in 0..Len(commits')
    BY <1>1 DEF LoopTypeInv, HistoryGrows
  <2>2. QED
    BY <1>1, <1>2, <2>1, OperationsType DEF LoopTypeInv
<1>3. CASE Receive
  BY <1>1, <1>3, ReceiveType DEF LoopTypeInv, Receive, gitVars
<1>4. CASE UNCHANGED loopVars
  BY <1>1, <1>4 DEF loopVars, gitVars, dirVars, LoopTypeInv, DirInv, DirTypeOK, GitTypeOK, PointersOK
<1>5. QED
  BY <1>2, <1>3, <1>4 DEF LoopNext

LEMMA LoopTypeInit == LoopInit => LoopTypeInv
<1> SUFFICES ASSUME LoopInit PROVE LoopTypeInv
  OBVIOUS
<1>1. DirInv
  BY DirInitInv DEF LoopInit
<1>2. PICK tree \in Tree :
        commits = <<[tree |-> tree, parent |-> NoCommit, anc |-> {1}, by |-> Nobody]>>
  BY DEF LoopInit, DirInit, GitInit
<1>3. Len(commits) = 1 /\ commits[1].anc = {1}
  BY <1>2
<1>4. HistoryInv
  BY <1>3 DEF HistoryInv, Ancestors
<1>5. received \in 0..Len(commits)
  BY <1>3 DEF LoopInit, NoCommit
<1>6. QED
  BY <1>1, <1>4, <1>5 DEF LoopTypeInv

\* Every variable of a GitDirectory and its reader has its type, for any instance.
THEOREM LoopTypeCorrect == LoopSpec => []LoopTypeOK
<1>1. LoopTypeInv => LoopTypeOK
  BY DEF LoopTypeInv, DirInv, LoopTypeOK
<1>2. QED
  BY <1>1, LoopTypeInit, LoopTypeNext, PTL DEF LoopSpec

-----------------------------------------------------------------------------
(***************************************************************************)
(* The mutex.                                                              *)
(***************************************************************************)
\* A step of goroutine g that takes the mutex when it begins a Git operation and
\* gives it back when it leaves one.
MutexStep(g) ==
    /\ \A h \in Users \ {g} : op'[h] = op[h] \/ (~InGitOperation(h) /\ ~InGitOperation(h)')
    /\ \/ InGitOperation(g) /\ InGitOperation(g)' /\ lock' = lock
       \/ InGitOperation(g) /\ ~InGitOperation(g)' /\ lock' = Free
       \/ ~InGitOperation(g) /\ InGitOperation(g)' /\ lock = Free /\ lock' = g
       \/ ~InGitOperation(g) /\ ~InGitOperation(g)' /\ lock' = lock

LEMMA MutexStepKeeps ==
    ASSUME OneGitOperation, NEW g \in Users, MutexStep(g)
    PROVE  OneGitOperation'
<1>1. \A h \in Users : InGitOperation(h) <=> lock = h
  BY DEF OneGitOperation, Users
<1>2. \A h \in Users \ {g} : InGitOperation(h)' <=> InGitOperation(h)
  BY DEF MutexStep, InGitOperation
<1>3. \A h \in Users : h # Free
  BY UsersAre
<1>4. \A h \in Users : InGitOperation(h)' <=> lock' = h
  BY <1>1, <1>2, <1>3 DEF MutexStep
<1>5. QED
  BY <1>4 DEF OneGitOperation, Users

LEMMA CloneStepsMutex ==
    ASSUME LoopTypeInv, NEW s \in Starters, StartCheckoutLoop(s) \/ CloneSteps(s)
    PROVE  MutexStep(s)
<1> op \in [Goroutines -> OpStates] /\ s \in Users /\ s # Loop /\ Users \subseteq Goroutines
  BY UsersAre DEF LoopTypeInv, DirInv, DirTypeOK, Users
<1>1. CASE StartCheckoutLoop(s) \/ CloneLock(s)
  BY <1>1 DEF StartCheckoutLoop, CloneLock, Return, MutexStep, InGitOperation
<1>2. CASE Clone(s)
  <2>1. /\ op[s] = "cloning"
        /\ op'[s] \in {"head", "idle", "spawn"}
        /\ \A h \in Users \ {s} : op'[h] = op[h]
    BY <1>2 DEF Clone, HandleError, Return, ReturnNil
  <2>2. QED
    BY <1>2, <2>1 DEF Clone, UnlockUnless, MutexStep, InGitOperation
<1>3. CASE HeadFails(s) \/ HeadReports(s)
  BY <1>3 DEF HeadFails, HeadReports, Return, ReturnNil, MutexStep, InGitOperation
<1>4. CASE SpawnLoop(s)
  <2>1. /\ op[s] = "spawn" /\ op'[s] = "idle"
        /\ op'[Loop] = op[Loop] \/ (op[Loop] = "off" /\ op'[Loop] = "idle")
        /\ \A h \in Users \ {s, Loop} : op'[h] = op[h]
        /\ lock' = lock
    BY <1>4, UsersAre DEF SpawnLoop
  <2>2. QED
    BY <2>1 DEF MutexStep, InGitOperation
<1>5. QED
  BY <1>1, <1>2, <1>3, <1>4 DEF CloneSteps

LEMMA LoopStepsMutex ==
    ASSUME LoopTypeInv, LoopTick \/ PullSteps(Loop) \/ LoopExits
    PROVE  MutexStep(Loop)
<1> op \in [Goroutines -> OpStates] /\ Loop \in Users /\ Users \subseteq Goroutines
  BY UsersAre DEF LoopTypeInv, DirInv, DirTypeOK
<1>1. CASE LoopTick \/ LoopExits \/ PullLock(Loop)
  BY <1>1 DEF LoopTick, Pull, LoopExits, PullLock, Return, MutexStep, InGitOperation
<1>2. CASE PullFetch(Loop)
  <2>1. /\ op[Loop] = "fetch"
        /\ op'[Loop] \in {"head", "idle", "spawn"}
        /\ \A h \in Users \ {Loop} : op'[h] = op[h]
    BY <1>2 DEF PullFetch, HandleError, Return, ReturnNil
  <2>2. QED
    BY <1>2, <2>1 DEF PullFetch, UnlockUnless, MutexStep, InGitOperation
<1>3. CASE HeadPanics(Loop) \/ HeadFails(Loop) \/ HeadReports(Loop)
  BY <1>3 DEF HeadPanics, HeadFails, HeadReports, Return, ReturnNil, MutexStep, InGitOperation
<1>4. QED
  BY <1>1, <1>2, <1>3 DEF PullSteps

LEMMA MutexNext ==
    ASSUME LoopTypeInv, OneGitOperation, [LoopNext]_loopVars
    PROVE  OneGitOperation'
<1>1. ASSUME UNCHANGED <<lock, op>> PROVE OneGitOperation'
  BY <1>1 DEF OneGitOperation, InGitOperation
<1>2. CASE Operations
  <2>1. ASSUME NEW s \in Starters, StartCheckoutLoop(s) \/ CloneSteps(s) PROVE OneGitOperation'
    BY <2>1, CloneStepsMutex, MutexStepKeeps DEF Users
  <2>2. CASE LoopTick \/ PullSteps(Loop) \/ LoopExits
    BY <2>2, LoopStepsMutex, MutexStepKeeps, UsersAre
  <2>3. CASE CleanupCancels \/ CleanupRemoves \/ RemoteChanges
    BY <1>1, <2>3 DEF CleanupCancels, CleanupRemoves, RemoteChanges, dirVars
  <2>4. QED
    BY <1>2, <2>1, <2>2, <2>3 DEF Operations
<1>3. CASE Receive \/ UNCHANGED loopVars
  BY <1>1, <1>3 DEF Receive, loopVars, dirVars
<1>4. QED
  BY <1>2, <1>3 DEF LoopNext

LEMMA MutexInit == LoopInit => OneGitOperation
  BY UsersAre DEF LoopInit, DirInit, OneGitOperation, InGitOperation, Users, Goroutines

\* The clones of several starters and the pulls of the loop exclude each other,
\* on every way out of a call, and a call that panics keeps the mutex (gitdir.go:
\* the Lock and the deferred Unlock of clone and Pull).
THEOREM GitOperationsExclude == LoopSpec => []OneGitOperation
<1>1. LoopTypeInv /\ OneGitOperation /\ [LoopNext]_loopVars => LoopTypeInv' /\ OneGitOperation'
  BY LoopTypeNext, MutexNext
<1>2. QED
  BY <1>1, LoopTypeInit, MutexInit, PTL DEF LoopSpec

-----------------------------------------------------------------------------
(***************************************************************************)
(* The clone.  Without transactions HEAD never leaves the main branch, and *)
(* every step that moves the branch moves the files with it.               *)
(***************************************************************************)
CleanInv ==
    /\ head # NoBranch =>
        /\ head = Main
        /\ wtree = TreeOf(refs[Main])
        /\ IsFastForward(refs[Main], remote[Main])
    /\ cleanup = "removed" => head = NoBranch
    /\ wt => head # NoBranch \/ cleanup = "removed"

\* The steps that leave the clone and the remote alone.
LEMMA CleanKept ==
    ASSUME LoopTypeInv, CleanInv, UNCHANGED <<gitVars, wt, cleanup>>
    PROVE  CleanInv'
  BY DEF CleanInv, gitVars, TreeOf, IsFastForward, Ancestors

LEMMA CleanReset ==
    ASSUME DirInv, NEW old \in 1..Len(commits), NEW new \in 1..Len(commits), wtree = TreeOf(old)
    PROVE  ResetTree(old, new) = TreeOf(new)
<1>1. TreeOf(old) \in Files /\ TreeOf(new) \in Files
  BY TreeOfType DEF DirInv, DirTypeOK, GitTypeOK
<1>2. \A k \in Keys : ResetTree(old, new)[k] = TreeOf(new)[k]
  BY DEF ResetTree
<1>3. ResetTree(old, new) \in [Keys -> Versions \cup {Absent, Torn}]
  BY <1>1 DEF ResetTree, Files
<1>4. QED
  BY <1>1, <1>2, <1>3 DEF Files

LEMMA CleanClone ==
    ASSUME LoopTypeInv, CleanInv, NEW s \in Starters, Clone(s)
    PROVE  CleanInv'
<1>1. PICK e \in ContextErrors(s), done \in BOOLEAN :
        /\ done => head = NoBranch /\ cleanup # "removed"
        /\ IF done THEN ClonedDirectory ELSE UNCHANGED gitVars
        /\ HandleError(s, e, done, "head")
  BY DEF Clone
<1>2. UNCHANGED cleanup /\ (wt' => wt \/ op'[s] = "head")
  BY DEF Clone
<1>3. CASE done
  <2>1. /\ refs'[Main] = remote[Main] /\ head' = Main /\ wtree' = TreeOf(remote[Main])
        /\ UNCHANGED <<commits, remote>>
    BY <1>1, <1>3 DEF ClonedDirectory, LoopTypeInv, DirInv, DirTypeOK, GitTypeOK
  <2>2. remote[Main] \in Ancestors(remote[Main])
    BY DEF LoopTypeInv, DirInv, DirTypeOK, GitTypeOK, PointersOK, NoCommit, HistoryInv
  <2>3. QED
    BY <1>1, <1>2, <1>3, <2>1, <2>2 DEF CleanInv, IsFastForward, TreeOf, Ancestors
<1>4. CASE ~done
  <2>1. s \in Goroutines /\ op \in [Goroutines -> OpStates]
    BY DEF Goroutines, LoopTypeInv, DirInv, DirTypeOK
  <2>2. op'[s] # "head"
    BY <1>1, <1>4, <2>1 DEF ContextErrors, HandleError, Return, ReturnNil
  <2>3. UNCHANGED <<gitVars, wt, cleanup>>
    BY <1>1, <1>2, <1>4, <2>2 DEF Clone, LoopTypeInv, DirInv, DirTypeOK
  <2>4. QED
    BY <2>3, CleanKept
<1>5. QED
  BY <1>3, <1>4

LEMMA CleanPull ==
    ASSUME LoopTypeInv, CleanInv, PullFetch(Loop)
    PROVE  CleanInv'
<1>1. UNCHANGED <<wt, cleanup>> /\ (PullWorktree \/ UNCHANGED gitVars)
  BY DEF PullFetch
<1>2. CASE head # NoBranch /\ PullMoves /\ PullWorktree
  <2>1. /\ head = Main /\ wtree = TreeOf(refs[Main])
        /\ refs[Main] \in 1..Len(commits) /\ remote[Main] \in 1..Len(commits)
    BY <1>2 DEF CleanInv, LoopTypeInv, DirInv, DirTypeOK, GitTypeOK, PointersOK, NoCommit
  <2>2. ~UnstagedChanges
    BY <2>1 DEF UnstagedChanges
  <2>3. /\ refs' = [refs EXCEPT ![Main] = remote[Main]]
        /\ wtree' = ResetTree(refs[Main], remote[Main])
        /\ UNCHANGED <<commits, remote, head>>
    BY <1>2, <2>1, <2>2 DEF PullWorktree
  <2>4. refs'[Main] = remote[Main] /\ wtree' = TreeOf(remote[Main])
    BY <2>1, <2>3, CleanReset DEF LoopTypeInv, DirInv, DirTypeOK, GitTypeOK
  <2>5. remote[Main] \in Ancestors(remote[Main])
    BY <2>1 DEF LoopTypeInv, HistoryInv
  <2>6. QED
    BY <1>1, <2>1, <2>3, <2>4, <2>5 DEF CleanInv, IsFastForward, TreeOf, Ancestors
<1>3. CASE UNCHANGED gitVars
  BY <1>1, <1>3, CleanKept
<1>4. QED
  BY <1>1, <1>2, <1>3 DEF PullWorktree

LEMMA CleanRemote ==
    ASSUME LoopTypeInv, CleanInv, RemoteChanges, HistoryGrows
    PROVE  CleanInv'
<1>1. UNCHANGED <<refs, head, wtree, wt, cleanup>>
  BY DEF RemoteChanges, RemoteCommit, RemoteMerge, dirVars
<1>2. remote[Main] \in 1..Len(commits)
  BY DEF LoopTypeInv, DirInv, DirTypeOK, GitTypeOK, PointersOK, NoCommit
<1>3. CASE head = NoBranch
  BY <1>1, <1>3 DEF CleanInv
<1>4. CASE head # NoBranch
  <2>1. refs[Main] \in 1..Len(commits) /\ refs[Main] \in Ancestors(remote[Main])
    BY <1>4 DEF CleanInv, IsFastForward, LoopTypeInv, DirInv, DirTypeOK, GitTypeOK, PointersOK, NoCommit
  <2>2. ASSUME NEW k \in Keys, NEW v \in Versions \cup {Absent}, RemoteCommit(k, v)
        PROVE  refs[Main] \in commits'[remote'[Main]].anc
    <3> DEFINE tree == [TreeOf(remote[Main]) EXCEPT ![k] = v]
    <3>1. tree \in Files /\ commits \in Seq(Commit)
      BY <1>2, TreeOfType DEF LoopTypeInv, DirInv, DirTypeOK, GitTypeOK, Files
    <3>2. NewCommit(remote[Main], tree, Nobody) /\ remote' = [remote EXCEPT ![Main] = Len(commits) + 1]
      BY <2>2 DEF RemoteCommit
    <3> HIDE DEF tree
    <3>3. commits'[Len(commits) + 1].anc = Ancestors(remote[Main]) \cup {Len(commits) + 1}
      BY <1>2, <3>1, <3>2, NewCommitHistory DEF LoopTypeInv
    <3>4. remote'[Main] = Len(commits) + 1
      BY <3>2 DEF LoopTypeInv, DirInv, DirTypeOK, GitTypeOK
    <3>5. QED
      BY <2>1, <3>3, <3>4
  <2>3. ASSUME NEW b \in Branches, RemoteMerge(b)
        PROVE  refs[Main] \in commits'[remote'[Main]].anc
    <3>1. /\ remote[b] \in 1..Len(commits) /\ remote[Main] \in Ancestors(remote[b])
          /\ remote' = [remote EXCEPT ![Main] = remote[b]] /\ UNCHANGED commits
      BY <2>3 DEF RemoteMerge, IsFastForward, NoCommit, LoopTypeInv, DirInv, DirTypeOK, GitTypeOK
    <3>2. Ancestors(remote[Main]) \subseteq Ancestors(remote[b])
      BY <3>1 DEF LoopTypeInv, HistoryInv
    <3>3. remote'[Main] = remote[b]
      BY <3>1 DEF LoopTypeInv, DirInv, DirTypeOK, GitTypeOK
    <3>4. QED
      BY <2>1, <3>1, <3>2, <3>3 DEF Ancestors
  <2>4. refs[Main] \in commits'[remote'[Main]].anc
    BY <2>2, <2>3 DEF RemoteChanges
  <2>5. commits'[refs[Main]].tree = commits[refs[Main]].tree
    BY <2>1 DEF HistoryGrows
  <2>6. QED
    BY <1>1, <1>4, <2>4, <2>5 DEF CleanInv, IsFastForward, Ancestors, TreeOf
<1>5. QED
  BY <1>3, <1>4

LEMMA CleanNext ==
    ASSUME LoopTypeInv, CleanInv, [LoopNext]_loopVars
    PROVE  CleanInv'
<1>1. CASE Operations
  <2>1. ASSUME NEW s \in Starters, StartCheckoutLoop(s) \/ CloneSteps(s) PROVE CleanInv'
    <3>1. CASE Clone(s)
      BY <3>1, CleanClone
    <3>2. CASE ~Clone(s)
      BY <2>1, <3>2, CleanKept DEF StartCheckoutLoop, CloneSteps, CloneLock, HeadFails,
                                   HeadReports, SpawnLoop
    <3>3. QED
      BY <3>1, <3>2
  <2>2. CASE LoopTick \/ PullSteps(Loop) \/ LoopExits
    <3>1. CASE PullFetch(Loop)
      BY <3>1, CleanPull
    <3>2. CASE ~PullFetch(Loop)
      BY <2>2, <3>2, CleanKept DEF LoopTick, Pull, LoopExits, PullSteps, PullLock, HeadPanics,
                                   HeadFails, HeadReports
    <3>3. QED
      BY <3>1, <3>2
  <2>3. CASE CleanupCancels
    BY <2>3 DEF CleanupCancels, CleanInv, gitVars, IsFastForward, TreeOf, Ancestors
  <2>4. CASE CleanupRemoves
    BY <2>4 DEF CleanupRemoves, CleanInv
  <2>5. CASE RemoteChanges
    BY <2>5, LoopHistory, CleanRemote
  <2>6. QED
    BY <1>1, <2>1, <2>2, <2>3, <2>4, <2>5 DEF Operations
<1>2. CASE Receive \/ UNCHANGED loopVars
  BY <1>2, CleanKept DEF Receive, loopVars, dirVars
<1>3. QED
  BY <1>1, <1>2 DEF LoopNext

LEMMA CleanInit == LoopInit => CleanInv
  BY DEF LoopInit, DirInit, GitInit, CleanInv

\* A directory that was started and not cleaned up has exactly the files of the
\* main branch, at a commit that the remote's main branch contains, whenever the
\* mutex is free - and in fact always, because nothing but Pull changes them.
THEOREM CloneStaysOnMain == LoopSpec => []CloneOnMain
<1>1. CleanInv => CloneOnMain
  BY DEF CleanInv, CloneOnMain
<1>2. LoopTypeInv /\ CleanInv /\ [LoopNext]_loopVars => LoopTypeInv' /\ CleanInv'
  BY LoopTypeNext, CleanNext
<1>3. QED
  BY <1>1, <1>2, LoopTypeInit, CleanInit, PTL DEF LoopSpec

-----------------------------------------------------------------------------
(***************************************************************************)
(* The reports.                                                            *)
(***************************************************************************)
\* Commit b is reported after a.
Follows(a, b) == a < b /\ a \in Ancestors(b)

\* What has been reported is a line of commits that ends with lastCommit, behind
\* the main branch of the clone: what the reader has, then what is in the channel.
ChanInv ==
    /\ lastCommit # NoCommit =>
         cleanup = "removed" \/ (head # NoBranch /\ lastCommit \in Ancestors(refs[Main]))
    /\ commitChan = <<>> => received = lastCommit
    /\ commitChan # <<>> => commitChan[Len(commitChan)] = lastCommit
    /\ commitChan # <<>> => received = NoCommit \/ Follows(received, commitChan[1])
    /\ \A i \in 1..Len(commitChan) : i > 1 => Follows(commitChan[i - 1], commitChan[i])
    /\ \A s \in Starters : op[s] = "head" => lastCommit = NoCommit

\* A Pull that was told nothing new, or reported it, leaves nothing to report.
ReportInv ==
    (/\ cleanup = "up" /\ wt /\ err[Loop] = "nil"
     /\ \A g \in Users : op[g] \notin {"head", "panicked"}) => lastCommit = refs[Main]

ReportsInv == LoopTypeInv /\ OneGitOperation /\ CleanInv /\ ChanInv /\ ReportInv

\* Steps that report nothing, and move the clone's main branch forward at most.
LEMMA ChanKept ==
    ASSUME ReportsInv, HistoryGrows,
           UNCHANGED <<lastCommit, commitChan, received>>,
           cleanup = "removed" => cleanup' = "removed",
           cleanup' # "removed" /\ lastCommit # NoCommit =>
             head' # NoBranch /\ lastCommit \in commits'[refs'[Main]].anc,
           \A s \in Starters : op'[s] = "head" => op[s] = "head" \/ lastCommit = NoCommit
    PROVE  ChanInv'
<1>1. commitChan \in Seq(1..Len(commits)) /\ commits \in Seq(Commit)
  BY DEF ReportsInv, LoopTypeInv, DirInv, DirTypeOK, GitTypeOK
<1>2. \A i \in 1..Len(commitChan) :
         /\ commitChan[i] \in 1..Len(commits)
         /\ Ancestors(commitChan[i])' = Ancestors(commitChan[i])
  BY <1>1 DEF HistoryGrows, Ancestors
<1>3. commitChan # <<>> => 1 \in 1..Len(commitChan)
  BY <1>1
<1>4. commitChan # <<>> => received = NoCommit \/ Follows(received, commitChan[1])'
  BY <1>2, <1>3 DEF ReportsInv, ChanInv, Follows
<1>5. \A i \in 1..Len(commitChan) : i > 1 => Follows(commitChan[i - 1], commitChan[i])'
  BY <1>2 DEF ReportsInv, ChanInv, Follows
<1>6. QED
  BY <1>4, <1>5 DEF ReportsInv, ChanInv, Ancestors

\* The same for a step that leaves the clone alone.
LEMMA ChanStays ==
    ASSUME ReportsInv, HistoryGrows,
           UNCHANGED <<lastCommit, commitChan, received, refs, head>>,
           cleanup = "removed" => cleanup' = "removed",
           \A s \in Starters : op'[s] = "head" => op[s] = "head"
    PROVE  ChanInv'
<1>1. ASSUME cleanup' # "removed", lastCommit # NoCommit
      PROVE  head # NoBranch /\ lastCommit \in commits'[refs[Main]].anc
  <2>1. head # NoBranch /\ lastCommit \in Ancestors(refs[Main])
    BY <1>1 DEF ReportsInv, ChanInv
  <2>2. refs[Main] \in 1..Len(commits)
    BY <2>1 DEF ReportsInv, LoopTypeInv, DirInv, DirTypeOK, GitTypeOK, PointersOK, NoCommit
  <2>3. QED
    BY <2>1, <2>2 DEF HistoryGrows, Ancestors
<1>2. QED
  BY <1>1, ChanKept

\* A report goes to the end of the line.
LEMMA ChanReport ==
    ASSUME ReportsInv, NEW g \in Users, HeadReports(g), UNCHANGED received
    PROVE  ChanInv'
<1> g \in Goroutines /\ op \in [Goroutines -> OpStates]
  BY UsersAre DEF ReportsInv, LoopTypeInv, DirInv, DirTypeOK
<1>1. /\ head = Main /\ refs[Main] \in 1..Len(commits)
      /\ cleanup # "removed"
      /\ refs[Main] \in Ancestors(refs[Main])
  BY DEF HeadReports, ReportsInv, CleanInv, LoopTypeInv, DirInv, DirTypeOK, GitTypeOK, PointersOK,
         NoCommit, HistoryInv
<1>2. UNCHANGED <<gitVars, cleanup>> /\ op'[g] # "head" /\ \A h \in Users \ {g} : op'[h] = op[h]
  BY DEF HeadReports, ReturnNil
<1>3. \A h \in Users \ {g} : op[h] # "head"
  BY DEF HeadReports, ReportsInv, OneGitOperation, InGitOperation, Users
<1>4. \A s \in Starters : op'[s] # "head"
  BY <1>2, <1>3 DEF Users
<1>5. CASE observeCommit(refs[head]) /\ (g \in Starters \/ lastCommit # refs[head])
  <2> DEFINE n == Len(commitChan)
             c == refs[Main]
  <2>1. commitChan \in Seq(1..Len(commits)) /\ n \in Nat /\ Len(commits) \in Nat
    BY DEF ReportsInv, LoopTypeInv, DirInv, DirTypeOK, GitTypeOK
  <2>2. lastCommit' = c /\ commitChan' = Append(commitChan, c)
    BY <1>1, <1>5 DEF observeCommit
  <2>3. /\ Len(commitChan') = n + 1 /\ commitChan' # <<>>
        /\ commitChan'[n + 1] = c
        /\ \A i \in 1..n : commitChan'[i] = commitChan[i] /\ commitChan[i] \in 1..Len(commits)
    BY <1>1, <2>1, <2>2
  <2>4. lastCommit = NoCommit \/ Follows(lastCommit, c)
    <3>1. CASE g \in Starters
      BY <3>1 DEF HeadReports, ReportsInv, ChanInv
    <3>2. CASE g \notin Starters /\ lastCommit # NoCommit
      <4>1. lastCommit # c /\ lastCommit \in Ancestors(c)
        BY <1>1, <1>5, <3>2 DEF ReportsInv, ChanInv
      <4>2. lastCommit <= c /\ lastCommit \in 1..Len(commits)
        BY <1>1, <4>1 DEF ReportsInv, LoopTypeInv, HistoryInv
      <4>3. QED
        BY <1>1, <4>1, <4>2 DEF Follows
    <3>3. QED
      BY <3>1, <3>2
  <2>5. commitChan # <<>> => n \in 1..n /\ commitChan[n] = lastCommit /\ lastCommit # NoCommit
    BY <2>1, <2>3 DEF ReportsInv, ChanInv, NoCommit
  <2>6. received = NoCommit \/ Follows(received, commitChan'[1])
    <3>1. CASE commitChan = <<>>
      BY <2>1, <2>3, <2>4, <3>1 DEF ReportsInv, ChanInv
    <3>2. CASE commitChan # <<>>
      BY <2>1, <2>3, <3>2 DEF ReportsInv, ChanInv
    <3>3. QED
      BY <3>1, <3>2
  <2>7. ASSUME NEW i \in 1..(n + 1), i > 1
        PROVE  Follows(commitChan'[i - 1], commitChan'[i])
    <3>1. CASE i \in 1..n
      <4>1. i - 1 \in 1..n
        BY <2>1, <2>7, <3>1
      <4>2. QED
        BY <2>3, <2>7, <3>1, <4>1 DEF ReportsInv, ChanInv
    <3>2. CASE i = n + 1
      <4>1. commitChan # <<>> /\ i - 1 = n /\ n \in 1..n
        BY <2>1, <2>7, <3>2
      <4>2. QED
        BY <2>3, <2>4, <2>5, <3>2, <4>1
    <3>3. QED
      BY <2>1, <2>7, <3>1, <3>2
  <2>8. commits' = commits /\ refs' = refs /\ head' = head
    BY <1>2 DEF gitVars
  <2>9. QED
    BY <1>1, <1>4, <2>2, <2>3, <2>6, <2>7, <2>8 DEF ChanInv, Follows, Ancestors, NoCommit
<1>6. CASE UNCHANGED <<lastCommit, commitChan>>
  BY <1>2, <1>4, <1>6 DEF ReportsInv, ChanInv, Follows, Ancestors, gitVars
<1>7. QED
  BY <1>5, <1>6 DEF HeadReports

\* The reader takes the first of the line.
LEMMA ChanReceive ==
    ASSUME ReportsInv, Receive
    PROVE  /\ ChanInv'
           /\ received' # received
           /\ received = NoCommit \/ IsFastForward(received, received')
<1> DEFINE n == Len(commitChan)
<1>1. commitChan \in Seq(1..Len(commits)) /\ commitChan # <<>> /\ n \in Nat /\ Len(commits) \in Nat
  BY DEF Receive, ReportsInv, LoopTypeInv, DirInv, DirTypeOK, GitTypeOK
<1>2. /\ received' = commitChan[1] /\ commitChan' = Tail(commitChan)
      /\ UNCHANGED <<gitVars, lastCommit, cleanup, op>>
  BY DEF Receive
<1>3. /\ n >= 1 /\ Len(commitChan') = n - 1
      /\ \A i \in 1..(n - 1) : commitChan'[i] = commitChan[i + 1]
      /\ commitChan' = <<>> => n = 1
      /\ commitChan' # <<>> => n > 1
      /\ commitChan[1] \in 1..Len(commits)
  <2>1. n >= 1
    BY <1>1
  <2>2. /\ Len(commitChan') = n - 1 /\ commitChan[1] \in 1..Len(commits)
        /\ commitChan' \in Seq(1..Len(commits))
    BY <1>1, <1>2, <2>1
  <2>3. \A i \in 1..(n - 1) : commitChan'[i] = commitChan[i + 1]
    BY <1>1, <1>2, <2>1
  <2>4. (commitChan' = <<>> => n = 1) /\ (commitChan' # <<>> => n > 1)
    BY <1>1, <2>1, <2>2
  <2>5. QED
    BY <2>1, <2>2, <2>3, <2>4
<1>4. commitChan' = <<>> => received' = lastCommit'
  BY <1>1, <1>2, <1>3 DEF ReportsInv, ChanInv
<1>5. commitChan' # <<>> => commitChan'[Len(commitChan')] = lastCommit'
  <2>1. n > 1 => n - 1 \in 1..(n - 1)
    BY <1>1
  <2>2. commitChan[n] = lastCommit
    BY <1>1 DEF ReportsInv, ChanInv
  <2>3. n > 1 => commitChan'[n - 1] = commitChan[n]
    BY <1>1, <1>3, <2>1
  <2>4. QED
    BY <1>2, <1>3, <2>2, <2>3
<1>6. \A i \in 1..n : i > 1 => Follows(commitChan[i - 1], commitChan[i])
  BY DEF ReportsInv, ChanInv
<1>7. n > 1 => Follows(received', commitChan'[1])
  <2>1. n > 1 => 2 \in 1..n /\ 1 \in 1..(n - 1) /\ commitChan'[1] = commitChan[2]
    BY <1>1, <1>3
  <2>2. n > 1 => Follows(commitChan[2 - 1], commitChan[2])
    BY <1>6, <2>1
  <2>3. QED
    BY <1>2, <2>1, <2>2
<1>8. ASSUME NEW i \in 1..(n - 1), i > 1
      PROVE  Follows(commitChan'[i - 1], commitChan'[i])
  <2>1. i + 1 \in 1..n /\ i - 1 \in 1..(n - 1) /\ i + 1 > 1 /\ (i + 1) - 1 = i /\ (i - 1) + 1 = i
    BY <1>1, <1>8
  <2>2. Follows(commitChan[i], commitChan[i + 1])
    BY <1>6, <2>1
  <2>3. QED
    BY <1>3, <2>1, <2>2
<1>9. ChanInv'
  BY <1>2, <1>3, <1>4, <1>5, <1>7, <1>8 DEF ReportsInv, ChanInv, Follows, Ancestors, gitVars
<1>10. received = NoCommit \/ Follows(received, commitChan[1])
  BY <1>1 DEF ReportsInv, ChanInv
<1>11. received' # received
  <2>1. received \in Nat
    BY <1>1 DEF ReportsInv, LoopTypeInv
  <2>2. QED
    BY <1>2, <1>3, <1>10, <2>1 DEF Follows, NoCommit
<1>12. QED
  BY <1>2, <1>9, <1>10, <1>11 DEF Follows, IsFastForward

\* A clone succeeds in an empty directory only, of which nothing was reported.
LEMMA ChanClone ==
    ASSUME ReportsInv, HistoryGrows, NEW s \in Starters, Clone(s), UNCHANGED received
    PROVE  ChanInv' /\ ReportInv'
<1> s \in Goroutines /\ op \in [Goroutines -> OpStates] /\ s # Loop /\ s \in Users
  BY UsersAre DEF Users, Goroutines, ReportsInv, LoopTypeInv, DirInv, DirTypeOK
<1>1. PICK e \in ContextErrors(s), done \in BOOLEAN :
        /\ done => head = NoBranch /\ cleanup # "removed"
        /\ IF done THEN ClonedDirectory ELSE UNCHANGED gitVars
        /\ HandleError(s, e, done, "head")
  BY DEF Clone
<1>2. /\ UNCHANGED <<lastCommit, commitChan, cleanup>>
      /\ wt' = (wt \/ op'[s] = "head")
      /\ op[s] = "cloning"
  BY DEF Clone
<1>3. /\ \A h \in Users \ {s} : op'[h] = op[h]
      /\ err'[Loop] = err[Loop]
      /\ op'[s] \in {"head", "idle", "spawn"}
      /\ op'[s] = "head" => done
  BY <1>1, UsersAre DEF ContextErrors, HandleError, Return, ReturnNil, ReportsInv, LoopTypeInv,
                        DirInv, DirTypeOK
<1>4. CASE done
  <2>1. lastCommit = NoCommit
    BY <1>1, <1>4 DEF ReportsInv, ChanInv
  <2>2. ~wt
    BY <1>1, <1>4 DEF ReportsInv, CleanInv
  <2>3. ChanInv'
    BY <1>2, <2>1, ChanKept
  <2>4. wt' => op'[s] = "head"
    BY <1>2, <2>2
  <2>5. QED
    BY <2>3, <2>4 DEF ReportInv
<1>5. CASE ~done
  <2>1. UNCHANGED gitVars /\ op'[s] # "head"
    BY <1>1, <1>3, <1>5
  <2>2. ChanInv'
    BY <1>2, <1>3, <2>1, ChanStays DEF gitVars, Users
  <2>3. wt' = wt
    BY <1>2, <2>1 DEF ReportsInv, LoopTypeInv, DirInv, DirTypeOK
  <2>4. (\A g \in Users : op'[g] \notin {"head", "panicked"}) =>
            \A g \in Users : op[g] \notin {"head", "panicked"}
    BY <1>2, <1>3
  <2>5. QED
    BY <1>2, <1>3, <2>1, <2>2, <2>3, <2>4 DEF ReportsInv, ReportInv, gitVars
<1>6. QED
  BY <1>4, <1>5

\* A pull moves the main branch forward; unless it fails it goes on to report.
LEMMA ChanPull ==
    ASSUME ReportsInv, HistoryGrows, PullFetch(Loop), UNCHANGED received
    PROVE  ChanInv' /\ ReportInv'
<1> Loop \in Goroutines /\ op \in [Goroutines -> OpStates] /\ err \in [Goroutines -> Errors]
  BY DEF Goroutines, ReportsInv, LoopTypeInv, DirInv, DirTypeOK
<1>1. PICK e \in ContextErrors(Loop), done \in BOOLEAN :
        /\ IF done THEN PullWorktree ELSE UNCHANGED gitVars
        /\ HandleError(Loop, e, done /\ PullSucceeds, "head")
  BY DEF PullFetch
<1>2. UNCHANGED <<lastCommit, commitChan, cleanup, wt>> /\ op[Loop] = "fetch"
  BY DEF PullFetch
<1>3. /\ \A s \in Starters : op'[s] = op[s]
      /\ op'[Loop] = "head" \/ err'[Loop] # "nil" \/ cleanup # "up"
  <2>1. e \in {"canceled", "none", "deadline"} /\ (e = "canceled" => cleanup # "up")
    BY DEF ContextErrors, Cancelled
  <2>2. \A s \in Starters : s # Loop /\ s \in Goroutines
    BY DEF Goroutines
  <2>3. PICK next \in OpStates, error \in Errors :
            /\ op' = [op EXCEPT ![Loop] = next] /\ err' = [err EXCEPT ![Loop] = error]
            /\ next = "head" \/ error # "nil" \/ cleanup # "up"
    <3>1. HandleError(Loop, e, done /\ PullSucceeds, "head")
      BY <1>1
    <3>2. CASE e = "canceled"
      BY <2>1, <3>1, <3>2 DEF HandleError, ReturnNil, OpStates, Errors
    <3>3. CASE e = "deadline"
      BY <3>1, <3>3 DEF HandleError, Return, OpStates, Errors
    <3>4. CASE e = "none" /\ ~(done /\ PullSucceeds)
      BY <3>1, <3>4 DEF HandleError, Return, OpStates, Errors
    <3>5. CASE e = "none" /\ done /\ PullSucceeds
      <4>1. op' = [op EXCEPT ![Loop] = "head"] /\ err' = err
        BY <3>1, <3>5 DEF HandleError
      <4>2. err' = [err EXCEPT ![Loop] = err[Loop]] /\ err[Loop] \in Errors
        BY <4>1
      <4>3. QED
        BY <4>1, <4>2 DEF OpStates
    <3>6. QED
      BY <2>1, <3>2, <3>3, <3>4, <3>5
  <2>4. QED
    BY <2>2, <2>3
<1>4. ReportInv'
  BY <1>2, <1>3, UsersAre DEF ReportInv
<1>5. UNCHANGED <<commits, head>>
  BY <1>1 DEF PullWorktree, gitVars
<1>6. ASSUME cleanup' # "removed", lastCommit # NoCommit
      PROVE  head' # NoBranch /\ lastCommit \in commits'[refs'[Main]].anc
  <2>1. head # NoBranch /\ head = Main /\ lastCommit \in Ancestors(refs[Main])
    BY <1>2, <1>6 DEF ReportsInv, ChanInv, CleanInv
  <2>2. CASE PullMoves /\ PullWorktree
    <3>1. refs[Main] \in Ancestors(remote[Main]) /\ refs' = [refs EXCEPT ![Main] = remote[Main]]
      BY <2>1, <2>2 DEF PullMoves, IsFastForward, PullWorktree
    <3>2. remote[Main] \in 1..Len(commits) /\ refs'[Main] = remote[Main]
      BY <3>1 DEF ReportsInv, LoopTypeInv, DirInv, DirTypeOK, GitTypeOK, PointersOK, NoCommit
    <3>3. Ancestors(refs[Main]) \subseteq Ancestors(remote[Main])
      BY <3>1, <3>2 DEF ReportsInv, LoopTypeInv, HistoryInv
    <3>4. QED
      BY <1>5, <2>1, <3>2, <3>3 DEF Ancestors
  <2>3. CASE UNCHANGED gitVars
    BY <2>1, <2>3 DEF gitVars, Ancestors
  <2>4. QED
    BY <1>1, <2>2, <2>3 DEF PullWorktree
<1>7. ChanInv'
  BY <1>2, <1>3, <1>6, ChanKept
<1>8. QED
  BY <1>4, <1>7

\* Steps that change neither the clone nor the reports.
LEMMA ReportsStay ==
    ASSUME ReportsInv, HistoryGrows,
           UNCHANGED <<lastCommit, commitChan, received, refs, head>>,
           cleanup = "removed" => cleanup' = "removed", cleanup' = "up" => cleanup = "up",
           wt' = wt, err'[Loop] = "nil" => err[Loop] = "nil" \/ ~wt,
           \A g \in Users : op[g] \in {"head", "panicked"} <=> op'[g] \in {"head", "panicked"},
           \A s \in Starters : op'[s] = "head" => op[s] = "head"
    PROVE  ChanInv' /\ ReportInv'
<1>1. ChanInv'
  BY ChanStays
<1>2. ReportInv'
  BY DEF ReportsInv, ReportInv
<1>3. QED
  BY <1>1, <1>2

LEMMA HeadReportsAll ==
    ASSUME ReportsInv, NEW g \in Users, HeadReports(g), UNCHANGED received
    PROVE  ChanInv' /\ ReportInv'
<1>1. head = Main /\ UNCHANGED refs
  BY DEF HeadReports, ReportsInv, CleanInv, gitVars
<1>2. lastCommit' = refs[Main]
  BY <1>1 DEF HeadReports, observeCommit
<1>3. QED
  BY <1>1, <1>2, ChanReport DEF ReportInv

LEMMA HeadFailsAll ==
    ASSUME ReportsInv, HistoryGrows, NEW g \in Users, HeadFails(g), UNCHANGED received
    PROVE  ChanInv' /\ ReportInv'
<1> g \in Goroutines /\ op \in [Goroutines -> OpStates]
  BY UsersAre DEF ReportsInv, LoopTypeInv, DirInv, DirTypeOK
<1>1. /\ UNCHANGED <<lastCommit, commitChan, refs, head, cleanup, wt>>
      /\ op'[g] = "idle" /\ \A h \in Users \ {g} : op'[h] = op[h]
      /\ head = NoBranch
  BY UsersAre DEF HeadFails, Return, gitVars
<1>2. cleanup' = "up" => ~wt'
  BY <1>1 DEF ReportsInv, CleanInv
<1>3. ChanInv'
  BY <1>1, ChanStays DEF Users
<1>4. QED
  BY <1>2, <1>3 DEF ReportInv

LEMMA ReportsOperations ==
    ASSUME ReportsInv, HistoryGrows, Operations, UNCHANGED received
    PROVE  ChanInv' /\ ReportInv'
<1> op \in [Goroutines -> OpStates] /\ err \in [Goroutines -> Errors] /\ Users \subseteq Goroutines
  BY UsersAre DEF ReportsInv, LoopTypeInv, DirInv, DirTypeOK
<1>1. ASSUME NEW s \in Starters, StartCheckoutLoop(s) \/ CloneSteps(s)
      PROVE  ChanInv' /\ ReportInv'
  <2> s \in Users /\ s # Loop
    BY UsersAre DEF Users
  <2>1. CASE StartCheckoutLoop(s)
    <3>1. op[s] \in {"off", "idle"} /\ op'[s] \in {"idle", "clone"}
      BY <2>1 DEF StartCheckoutLoop, Return
    <3>2. /\ \A h \in Users \ {s} : op'[h] = op[h]
          /\ err'[Loop] = err[Loop]
          /\ UNCHANGED <<lastCommit, commitChan, refs, head, cleanup, wt>>
      BY <2>1, UsersAre DEF StartCheckoutLoop, Return, gitVars
    <3>3. QED
      BY <3>1, <3>2, ReportsStay DEF Users
  <2>2. CASE CloneLock(s)
    <3>1. op[s] = "clone" /\ op'[s] = "cloning" /\ \A h \in Users \ {s} : op'[h] = op[h]
      BY <2>2 DEF CloneLock
    <3>2. UNCHANGED <<lastCommit, commitChan, refs, head, cleanup, wt, err>>
      BY <2>2 DEF CloneLock, gitVars
    <3>3. QED
      BY <3>1, <3>2, ReportsStay DEF Users
  <2>3. CASE SpawnLoop(s)
    <3>1. /\ op[s] = "spawn" /\ op'[s] = "idle"
          /\ op'[Loop] = op[Loop] \/ (op[Loop] = "off" /\ op'[Loop] = "idle")
          /\ \A h \in Users \ {s, Loop} : op'[h] = op[h]
      BY <2>3, UsersAre DEF SpawnLoop
    <3>2. UNCHANGED <<lastCommit, commitChan, refs, head, cleanup, wt, err>>
      BY <2>3 DEF SpawnLoop, gitVars
    <3>3. QED
      BY <3>1, <3>2, ReportsStay DEF Users
  <2>4. QED
    BY <1>1, <2>1, <2>2, <2>3, ChanClone, HeadFailsAll, HeadReportsAll DEF CloneSteps
<1>2. CASE LoopTick \/ LoopExits \/ PullLock(Loop)
  <2> Loop \in Goroutines /\ \A s \in Starters : s # Loop /\ s \in Goroutines
    BY DEF Goroutines
  <2>1. /\ op[Loop] \in {"idle", "pull"} /\ op'[Loop] \in {"pull", "off", "fetch", "idle"}
        /\ \A s \in Starters : op'[s] = op[s]
    <3>1. CASE LoopTick
      BY <3>1 DEF LoopTick, Pull
    <3>2. CASE LoopExits
      BY <3>2 DEF LoopExits
    <3>3. CASE PullLock(Loop)
      BY <3>3, UsersAre DEF PullLock, Return
    <3>4. QED
      BY <1>2, <3>1, <3>2, <3>3
  <2>2. /\ UNCHANGED <<lastCommit, commitChan, refs, head, cleanup, wt>>
        /\ err'[Loop] = "nil" => err[Loop] = "nil" \/ ~wt
    BY <1>2, UsersAre DEF LoopTick, Pull, LoopExits, PullLock, Return, gitVars
  <2>3. QED
    BY <2>1, <2>2, ReportsStay DEF Users
<1>3. CASE HeadPanics(Loop)
  <2>1. op[Loop] = "head" /\ op'[Loop] = "panicked" /\ \A s \in Starters : op'[s] = op[s]
    BY <1>3, UsersAre DEF HeadPanics
  <2>2. UNCHANGED <<lastCommit, commitChan, refs, head, cleanup, wt, err>>
    BY <1>3 DEF HeadPanics, gitVars
  <2>3. QED
    BY <2>1, <2>2, ReportsStay DEF Users
<1>4. CASE CleanupCancels \/ RemoteChanges
  BY <1>4, ReportsStay DEF CleanupCancels, RemoteChanges, RemoteCommit, RemoteMerge, gitVars, dirVars
<1>5. CASE CleanupRemoves
  BY <1>5, ChanKept DEF CleanupRemoves, ReportInv
<1>6. QED
  BY <1>1, <1>2, <1>3, <1>4, <1>5, ChanPull, HeadFailsAll, HeadReportsAll, UsersAre
  DEF Operations, PullSteps

LEMMA ReportsNext ==
    ASSUME ReportsInv, [LoopNext]_loopVars
    PROVE  ReportsInv'
<1>1. LoopTypeInv' /\ OneGitOperation' /\ CleanInv'
  BY LoopTypeNext, MutexNext, CleanNext DEF ReportsInv
<1>2. HistoryGrows
  BY LoopHistory DEF ReportsInv
<1>3. CASE Operations /\ UNCHANGED received
  BY <1>1, <1>2, <1>3, ReportsOperations DEF ReportsInv
<1>4. CASE Receive
  <2>1. ReportInv'
    BY <1>4 DEF Receive, ReportsInv, ReportInv, gitVars
  <2>2. QED
    BY <1>1, <1>4, <2>1, ChanReceive DEF ReportsInv
<1>5. CASE UNCHANGED loopVars
  BY <1>1, <1>2, <1>5, ReportsStay DEF loopVars, gitVars, dirVars, ReportsInv
<1>6. QED
  BY <1>3, <1>4, <1>5 DEF LoopNext

LEMMA ReportsInit == LoopInit => ReportsInv
<1> SUFFICES ASSUME LoopInit PROVE ReportsInv
  OBVIOUS
<1>1. ChanInv /\ ReportInv
  BY DEF LoopInit, DirInit, ChanInv, ReportInv, NoCommit, Goroutines
<1>2. QED
  BY <1>1, LoopTypeInit, MutexInit, CleanInit DEF ReportsInv

LEMMA SpecReports == LoopSpec => []ReportsInv
  BY ReportsInit, ReportsNext, PTL DEF LoopSpec

\* A Pull of the loop that returned nil has reported the commit that it left checked
\* out, even when an earlier one moved the branch and failed afterwards, and
\* whoever else called StartCheckoutLoop meanwhile (gitdir.go: the comparison with
\* d.lastCommit at the end of Pull).
THEOREM PullsAreReported == LoopSpec => []PulledIsReported
<1>1. ReportsInv => PulledIsReported
  <2> SUFFICES ASSUME ReportsInv, lock = Free, cleanup = "up", err[Loop] = "nil", wt
               PROVE  lastCommit = refs[Main]
    BY DEF PulledIsReported
  <2>1. \A g \in Users : op[g] \notin {"head", "panicked"}
    BY UsersAre DEF ReportsInv, OneGitOperation, InGitOperation, Users
  <2>2. QED
    BY <2>1 DEF ReportsInv, ReportInv
<1>2. QED
  BY <1>1, SpecReports, PTL

\* The reader of the channel never goes back: each commit it takes contains the one
\* before, for any capacity of the channel (gitdir.go: observeCommit).
THEOREM ReaderGoesForward == LoopSpec => ReportsGoForward
<1>1. ReportsInv /\ [LoopNext]_loopVars =>
        [received' # received => received = NoCommit \/ IsFastForward(received, received')]_loopVars
  BY ChanReceive DEF LoopNext
<1>2. QED
  BY <1>1, SpecReports, PTL DEF LoopSpec, ReportsGoForward

\* And it is told of no commit twice.
THEOREM ReaderToldOnce == LoopSpec => ReportsOnce
<1>1. ReportsInv /\ [LoopNext]_loopVars => [Receive => received' # received]_loopVars
  BY ChanReceive
<1>2. QED
  BY <1>1, SpecReports, PTL DEF LoopSpec, ReportsOnce
=============================================================================
