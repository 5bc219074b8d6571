------------------------- MODULE GitDirectory_proofs -------------------------
(***************************************************************************)
(* Lemmas about the operations of GitDirectory: each one keeps its state   *)
(* well formed.                                                            *)
(***************************************************************************)
EXTENDS GitDirectory, TLAPS

\* Whatever is pointed at exists: the remote's main branch, the branch HEAD is on,
\* and the commit a caller is pushing or reporting.
PointersOK ==
    /\ remote[Main] # NoCommit
    /\ head # NoBranch => refs[head] # NoCommit /\ refs[Main] # NoCommit
    /\ \A t \in Callers : op[t] \in {"push", "report"} => hash[t] # NoCommit

DirInv == DirTypeOK /\ PointersOK

USE GitRepoAssumption, GitDirectoryAssumption

\* A new commit is added behind the others, which stay as they are.
LEMMA NewCommitAppends ==
    ASSUME commits \in Seq(Commit),
           NEW parent \in 1..Len(commits), NEW tree \in Files,
           NEW author \in Callers \cup {Nobody},
           NewCommit(parent, tree, author)
    PROVE  /\ commits' \in Seq(Commit)
           /\ Len(commits') = Len(commits) + 1
           /\ \A c \in 1..Len(commits) : commits'[c] = commits[c]
           /\ commits'[Len(commits) + 1] =
                [tree |-> tree, parent |-> parent, by |-> author,
                 anc |-> commits[parent].anc \cup {Len(commits) + 1}]
<1> DEFINE n == Len(commits)
           new == [tree |-> tree, parent |-> parent, by |-> author,
                   anc |-> commits[parent].anc \cup {n + 1}]
<1>1. n \in Nat
  OBVIOUS
<1>2. commits[parent] \in Commit
  OBVIOUS
<1>3. commits[parent].anc \in SUBSET Nat
  BY <1>2 DEF Commit
<1>4. new \in Commit
  BY <1>1, <1>3 DEF Commit
<1>5. commits' = Append(commits, new)
  BY DEF NewCommit, Ancestors
<1>6. QED
  BY <1>1, <1>4, <1>5

\* A commit that exists has a tree.
LEMMA TreeOfType ==
    ASSUME commits \in Seq(Commit), NEW c \in 1..Len(commits)
    PROVE  TreeOf(c) \in Files
<1>1. commits[c] \in Commit
  OBVIOUS
<1>2. QED
  BY <1>1 DEF TreeOf, Commit

\* A sequence over commits is one over more commits.
LEMMA ChanGrows ==
    ASSUME NEW m \in Nat, NEW n \in Nat, m <= n, NEW s \in Seq(1..m)
    PROVE  s \in Seq(1..n)
  OBVIOUS

LEMMA DirInitInv == DirInit => DirInv
<1> SUFFICES ASSUME DirInit PROVE DirInv
  OBVIOUS
<1>1. PICK tree \in Tree :
        commits = <<[tree |-> tree, parent |-> NoCommit, anc |-> {1}, by |-> Nobody]>>
  BY DEF DirInit, GitInit
<1>2. [tree |-> tree, parent |-> NoCommit, anc |-> {1}, by |-> Nobody] \in Commit
  BY DEF Tree, Files, Commit, NoCommit
<1>3. commits \in Seq(Commit) /\ Len(commits) = 1
  BY <1>1, <1>2
<1>4. GitTypeOK
  BY <1>3 DEF DirInit, GitInit, GitTypeOK, NoCommit, Files, EmptyTree
<1>5. DirTypeOK
  <2>1. commitChan \in Seq(1..Len(commits)) /\ Len(commitChan) <= ChanCap
    BY <1>3 DEF DirInit
  <2>2. /\ op \in [Goroutines -> OpStates]
        /\ err \in [Goroutines -> Errors]
        /\ hash \in [Goroutines -> 0..Len(commits)]
    BY <1>3 DEF DirInit, OpStates, Errors, NoCommit
  <2>3. lock \in Goroutines \cup {Free} /\ ctxDone \subseteq Callers
    BY DEF DirInit
  <2>4. repo \in BOOLEAN /\ wt \in BOOLEAN /\ cleanup \in CleanupStates
    BY DEF DirInit, CleanupStates
  <2>5. lastCommit \in 0..Len(commits)
    BY <1>3 DEF DirInit, NoCommit
  <2>6. QED
    BY <1>4, <2>1, <2>2, <2>3, <2>4, <2>5 DEF DirTypeOK
<1>6. PointersOK
  BY DEF DirInit, GitInit, PointersOK, NoCommit, Goroutines
<1>7. QED
  BY <1>5, <1>6 DEF DirInv

LEMMA StartCheckoutLoopInv ==
    ASSUME DirInv, NEW s \in Starters, StartCheckoutLoop(s)
    PROVE  DirInv'
  BY DEF DirInv, DirTypeOK, GitTypeOK, PointersOK, StartCheckoutLoop, Return, gitVars,
         OpStates, Errors, Goroutines

LEMMA CloneLockInv ==
    ASSUME DirInv, NEW s \in Starters, CloneLock(s)
    PROVE  DirInv'
  BY DEF DirInv, DirTypeOK, GitTypeOK, PointersOK, CloneLock, gitVars, OpStates, Goroutines

\* The commit in front of a merge, and the worktree it leaves, exist.
LEMMA ResetTreeType ==
    ASSUME commits \in Seq(Commit), wtree \in Files,
           NEW old \in 1..Len(commits), NEW new \in 1..Len(commits)
    PROVE  ResetTree(old, new) \in Files
  BY TreeOfType DEF ResetTree, Files

LEMMA CloneInv ==
    ASSUME DirInv, NEW s \in Starters, Clone(s)
    PROVE  DirInv'
<1>1. remote[Main] \in 1..Len(commits)
  BY DEF DirInv, DirTypeOK, GitTypeOK, PointersOK, NoCommit
<1>2. TreeOf(remote[Main]) \in Files
  BY <1>1, TreeOfType DEF DirInv, DirTypeOK, GitTypeOK
<1>3. /\ GitTypeOK'
      /\ UNCHANGED <<commits, remote>>
      /\ head' # NoBranch => refs'[head'] # NoCommit /\ refs'[Main] # NoCommit
  <2>1. CASE ClonedDirectory
    BY <1>1, <1>2, <2>1 DEF ClonedDirectory, DirInv, DirTypeOK, GitTypeOK, NoCommit
  <2>2. CASE UNCHANGED gitVars
    BY <2>2 DEF gitVars, DirInv, DirTypeOK, GitTypeOK, PointersOK
  <2>3. QED
    BY <2>1, <2>2 DEF Clone
<1>5. /\ op' \in [Goroutines -> OpStates]
      /\ err' \in [Goroutines -> Errors]
      /\ op'[s] \in {"idle", "spawn", "head"}
      /\ \A h \in Goroutines \ {s} : op'[h] = op[h]
  <2>1. PICK e \in ContextErrors(s), done \in BOOLEAN : HandleError(s, e, done, "head")
    BY DEF Clone
  <2>2. op \in [Goroutines -> OpStates] /\ err \in [Goroutines -> Errors]
    BY DEF DirInv, DirTypeOK
  <2>3. QED
    BY <2>1, <2>2 DEF HandleError, Return, ReturnNil, OpStates, Errors, Goroutines
<1>6. lock' \in Goroutines \cup {Free}
  BY DEF Clone, UnlockUnless, DirInv, DirTypeOK
<1>7. repo' \in BOOLEAN /\ wt' \in BOOLEAN
  BY DEF Clone, DirInv, DirTypeOK
<1>8. UNCHANGED <<lastCommit, commitChan, cleanup, ctxDone, hash>>
  BY DEF Clone
<1>9. DirTypeOK'
  BY <1>3, <1>5, <1>6, <1>7, <1>8 DEF DirInv, DirTypeOK
<1>10. PointersOK'
  BY <1>3, <1>5, <1>8 DEF DirInv, PointersOK, Goroutines
<1>11. QED
  BY <1>9, <1>10 DEF DirInv

LEMMA SpawnLoopInv ==
    ASSUME DirInv, NEW s \in Starters, SpawnLoop(s)
    PROVE  DirInv'
  BY DEF DirInv, DirTypeOK, GitTypeOK, PointersOK, SpawnLoop, gitVars, OpStates, Goroutines

LEMMA PullInv ==
    ASSUME DirInv, NEW g \in Goroutines, Pull(g)
    PROVE  DirInv'
  BY DEF DirInv, DirTypeOK, GitTypeOK, PointersOK, Pull, gitVars, OpStates

LEMMA PullLockInv ==
    ASSUME DirInv, NEW g \in Goroutines, PullLock(g)
    PROVE  DirInv'
<1>1. /\ lock' \in Goroutines \cup {Free}
      /\ err' \in [Goroutines -> Errors]
      /\ op' \in [Goroutines -> OpStates]
      /\ op'[g] \in {"fetch", "idle"}
      /\ \A h \in Goroutines \ {g} : op'[h] = op[h]
  BY DEF PullLock, Return, DirInv, DirTypeOK, OpStates, Errors
<1>2. UNCHANGED <<gitVars, repo, wt, lastCommit, commitChan, cleanup, ctxDone, hash>>
  BY DEF PullLock
<1>3. DirTypeOK'
  BY <1>1, <1>2 DEF DirInv, DirTypeOK, GitTypeOK, gitVars
<1>4. PointersOK'
  BY <1>1, <1>2 DEF DirInv, PointersOK, gitVars, Goroutines
<1>5. QED
  BY <1>3, <1>4 DEF DirInv

\* A pull moves the branch to the remote's commit.
LEMMA PullWorktreeInv ==
    ASSUME DirInv, PullWorktree
    PROVE  /\ GitTypeOK'
           /\ UNCHANGED <<commits, remote, head>>
           /\ \A b \in Branches : refs[b] # NoCommit => refs'[b] # NoCommit
<1>1. remote[Main] \in 1..Len(commits)
  BY DEF DirInv, DirTypeOK, GitTypeOK, PointersOK, NoCommit
<1>2. CASE head # NoBranch /\ PullMoves
  <2>1. refs[head] \in 1..Len(commits) /\ head \in Branches
    BY <1>2 DEF DirInv, DirTypeOK, GitTypeOK, PointersOK, NoCommit
  <2>2. ResetTree(refs[head], remote[Main]) \in Files
    BY <1>1, <2>1, ResetTreeType DEF DirInv, DirTypeOK, GitTypeOK
  <2>3. wtree' \in Files
    BY <1>2, <2>2 DEF PullWorktree, DirInv, DirTypeOK, GitTypeOK
  <2>4. UNCHANGED <<commits, remote, head>> /\ refs' = [refs EXCEPT ![head] = remote[Main]]
    BY <1>2 DEF PullWorktree
  <2>5. QED
    BY <1>1, <2>1, <2>3, <2>4 DEF DirInv, DirTypeOK, GitTypeOK, NoCommit
<1>3. CASE ~(head # NoBranch /\ PullMoves)
  BY <1>3 DEF PullWorktree, gitVars, DirInv, DirTypeOK, GitTypeOK
<1>4. QED
  BY <1>2, <1>3

LEMMA PullFetchInv ==
    ASSUME DirInv, NEW g \in Goroutines, PullFetch(g)
    PROVE  DirInv'
<1>1. /\ GitTypeOK'
      /\ UNCHANGED <<commits, remote, head>>
      /\ \A b \in Branches : refs[b] # NoCommit => refs'[b] # NoCommit
  <2>1. CASE PullWorktree
    BY <2>1, PullWorktreeInv
  <2>2. CASE UNCHANGED gitVars
    BY <2>2 DEF gitVars, DirInv, DirTypeOK, GitTypeOK
  <2>3. QED
    BY <2>1, <2>2 DEF PullFetch
<1>3. /\ op' \in [Goroutines -> OpStates]
      /\ err' \in [Goroutines -> Errors]
      /\ op'[g] \in {"idle", "spawn", "head"}
      /\ \A h \in Goroutines \ {g} : op'[h] = op[h]
  <2>1. PICK e \in ContextErrors(g), done \in BOOLEAN : HandleError(g, e, done /\ PullSucceeds, "head")
    BY DEF PullFetch
  <2>2. op \in [Goroutines -> OpStates] /\ err \in [Goroutines -> Errors]
    BY DEF DirInv, DirTypeOK
  <2>3. QED
    BY <2>1, <2>2 DEF HandleError, Return, ReturnNil, OpStates, Errors
<1>4. lock' \in Goroutines \cup {Free}
  BY DEF PullFetch, UnlockUnless, DirInv, DirTypeOK
<1>5. UNCHANGED <<repo, wt, lastCommit, commitChan, cleanup, ctxDone, hash>>
  BY DEF PullFetch
<1>6. DirTypeOK'
  BY <1>1, <1>3, <1>4, <1>5 DEF DirInv, DirTypeOK
<1>7. PointersOK'
  BY <1>1, <1>3, <1>5 DEF DirInv, DirTypeOK, GitTypeOK, PointersOK, Goroutines
<1>8. QED
  BY <1>6, <1>7 DEF DirInv

LEMMA HeadFailsInv ==
    ASSUME DirInv, NEW g \in Goroutines, HeadFails(g)
    PROVE  DirInv'
  BY DEF DirInv, DirTypeOK, GitTypeOK, PointersOK, HeadFails, Return, gitVars, OpStates, Errors

\* A report fits in the channel.
LEMMA observeCommitType ==
    ASSUME DirInv, NEW c \in 1..Len(commits), observeCommit(c)
    PROVE  /\ lastCommit' \in 0..Len(commits)
           /\ commitChan' \in Seq(1..Len(commits))
           /\ Len(commitChan') <= ChanCap
<1>1. commitChan \in Seq(1..Len(commits))
  BY DEF DirInv, DirTypeOK
<1>2. commitChan' = Append(commitChan, c) /\ Len(commitChan) < ChanCap /\ lastCommit' = c
  BY DEF observeCommit
<1>3. Len(commitChan') = Len(commitChan) + 1 /\ commitChan' \in Seq(1..Len(commits))
  BY <1>1, <1>2
<1>4. QED
  BY <1>1, <1>2, <1>3

LEMMA HeadReportsInv ==
    ASSUME DirInv, NEW g \in Goroutines, HeadReports(g)
    PROVE  DirInv'
<1>1. refs[head] \in 1..Len(commits)
  BY DEF HeadReports, DirInv, DirTypeOK, GitTypeOK, PointersOK, NoCommit
<1>2. /\ lastCommit' \in 0..Len(commits)
      /\ commitChan' \in Seq(1..Len(commits))
      /\ Len(commitChan') <= ChanCap
  <2>1. CASE observeCommit(refs[head])
    BY <1>1, <2>1, observeCommitType
  <2>2. CASE UNCHANGED <<lastCommit, commitChan>>
    BY <2>2 DEF DirInv, DirTypeOK
  <2>3. QED
    BY <2>1, <2>2 DEF HeadReports
<1>3. op' \in [Goroutines -> OpStates] /\ err' \in [Goroutines -> Errors]
  BY DEF HeadReports, ReturnNil, DirInv, DirTypeOK, OpStates, Errors
<1>4. /\ lock' = Free
      /\ UNCHANGED <<gitVars, repo, wt, cleanup, ctxDone, hash>>
      /\ op' = [op EXCEPT ![g] = IF g \in Starters THEN "spawn" ELSE "idle"]
  BY DEF HeadReports, ReturnNil
<1>5. DirTypeOK'
  BY <1>2, <1>3, <1>4 DEF DirInv, DirTypeOK, GitTypeOK, gitVars
<1>6. PointersOK'
  BY <1>4 DEF DirInv, DirTypeOK, PointersOK, gitVars
<1>7. QED
  BY <1>5, <1>6 DEF DirInv

LEMMA HeadPanicsInv ==
    ASSUME DirInv, NEW g \in Goroutines, HeadPanics(g)
    PROVE  DirInv'
  BY DEF DirInv, DirTypeOK, GitTypeOK, PointersOK, HeadPanics, gitVars, OpStates

LEMMA LoopExitsInv == DirInv /\ LoopExits => DirInv'
  BY DEF DirInv, DirTypeOK, GitTypeOK, PointersOK, LoopExits, gitVars, OpStates, Goroutines

LEMMA CheckoutNewBranchInv ==
    ASSUME DirInv, NEW t \in Callers, NEW b \in Branches, CheckoutNewBranch(t, b)
    PROVE  DirInv'
<1>1. UNCHANGED <<commits, remote, wtree, lock, repo, wt, lastCommit, commitChan,
                  cleanup, ctxDone, op, hash>>
  BY DEF CheckoutNewBranch
<1>2. err' \in [Goroutines -> Errors]
  BY DEF CheckoutNewBranch, WriteError, DirInv, DirTypeOK, Errors
<1>3. /\ refs' \in [Branches -> 0..Len(commits)]
      /\ head' \in Branches \cup {NoBranch}
      /\ head' # NoBranch => refs'[head'] # NoCommit /\ refs'[Main] # NoCommit
  <2>1. CASE head # NoBranch /\ refs' = [refs EXCEPT ![b] = refs[head]] /\ head' = b
    BY <2>1 DEF DirInv, DirTypeOK, GitTypeOK, PointersOK, NoCommit
  <2>2. CASE UNCHANGED <<refs, head>>
    BY <2>2 DEF DirInv, DirTypeOK, GitTypeOK, PointersOK
  <2>3. QED
    BY <2>1, <2>2 DEF CheckoutNewBranch
<1>4. DirTypeOK'
  BY <1>1, <1>2, <1>3 DEF DirInv, DirTypeOK, GitTypeOK
<1>5. PointersOK'
  BY <1>1, <1>3 DEF DirInv, PointersOK
<1>6. QED
  BY <1>4, <1>5 DEF DirInv

\* The caller of CheckoutMainBranch keeps the mutex.
LEMMA CheckoutMainBranchInv ==
    ASSUME DirInv, CheckoutMainBranch, UNCHANGED lock
    PROVE  DirInv'
<1>1. UNCHANGED <<commits, remote, refs, lock, repo, wt, lastCommit, commitChan,
                  cleanup, ctxDone, op, err, hash>>
  BY DEF CheckoutMainBranch
<1>2. CASE head # NoBranch /\ head' = Main /\ wtree' = TreeOf(refs[Main])
  <2>1. refs[Main] \in 1..Len(commits)
    BY <1>2 DEF DirInv, DirTypeOK, GitTypeOK, PointersOK, NoCommit
  <2>2. TreeOf(refs[Main]) \in Files
    BY <2>1, TreeOfType DEF DirInv, DirTypeOK, GitTypeOK
  <2>3. QED
    BY <1>1, <1>2, <2>1, <2>2 DEF DirInv, DirTypeOK, GitTypeOK, PointersOK, NoCommit
<1>3. CASE UNCHANGED <<head, wtree>>
  BY <1>1, <1>3 DEF DirInv, DirTypeOK, GitTypeOK, PointersOK
<1>4. QED
  BY <1>2, <1>3 DEF CheckoutMainBranch

\* When a commit is added, whatever points at a commit still does.
LEMMA MoreCommits ==
    ASSUME DirInv, NEW parent \in 1..Len(commits), NEW tree \in Files,
           NEW author \in Callers \cup {Nobody},
           NewCommit(parent, tree, author)
    PROVE  /\ commits' \in Seq(Commit)
           /\ Len(commits') = Len(commits) + 1
           /\ Len(commits) \in Nat
           /\ commitChan \in Seq(1..Len(commits'))
           /\ lastCommit \in 0..Len(commits')
           /\ refs \in [Branches -> 0..Len(commits')]
           /\ remote \in [Branches -> 0..Len(commits')]
           /\ hash \in [Goroutines -> 0..Len(commits')]
<1> commits \in Seq(Commit)
  BY DEF DirInv, DirTypeOK, GitTypeOK
<1>1. commits' \in Seq(Commit) /\ Len(commits') = Len(commits) + 1
  BY NewCommitAppends
<1>2. Len(commits) \in Nat
  OBVIOUS
<1>3. commitChan \in Seq(1..Len(commits'))
  BY <1>1, <1>2, ChanGrows DEF DirInv, DirTypeOK
<1>4. QED
  BY <1>1, <1>2, <1>3 DEF DirInv, DirTypeOK, GitTypeOK

LEMMA CreateCommitInv ==
    ASSUME DirInv, NEW t \in Callers, CreateCommit(t)
    PROVE  DirInv'
<1>1. UNCHANGED <<remote, head, wtree, lock, repo, wt, lastCommit, commitChan, cleanup, ctxDone>>
  BY DEF CreateCommit
<1>2. CASE WriteError = "nil" /\ head # NoBranch /\ ~StatusIsClean
  <2>1. refs[head] \in 1..Len(commits) /\ head \in Branches
    BY <1>2 DEF DirInv, DirTypeOK, GitTypeOK, PointersOK, NoCommit
  <2>2. AllTracked \in Files
    BY DEF AllTracked, Files, DirInv, DirTypeOK, GitTypeOK
  <2>3. NewCommit(refs[head], AllTracked, t)
    BY <1>2 DEF CreateCommit
  <2>4. /\ commits' \in Seq(Commit)
        /\ Len(commits') = Len(commits) + 1
        /\ Len(commits) \in Nat
        /\ commitChan \in Seq(1..Len(commits'))
        /\ lastCommit \in 0..Len(commits')
        /\ refs \in [Branches -> 0..Len(commits')]
        /\ remote \in [Branches -> 0..Len(commits')]
        /\ hash \in [Goroutines -> 0..Len(commits')]
    BY <2>1, <2>2, <2>3, MoreCommits
  <2>5. /\ refs' = [refs EXCEPT ![head] = Len(commits) + 1]
        /\ hash' = [hash EXCEPT ![t] = Len(commits) + 1]
        /\ op' = [op EXCEPT ![t] = "push"]
        /\ err' = err
    BY <1>2 DEF CreateCommit
  <2>6. /\ refs' \in [Branches -> 0..Len(commits')]
        /\ hash' \in [Goroutines -> 0..Len(commits')]
    <3>1. Len(commits) + 1 \in 0..Len(commits')
      BY <2>4
    <3>2. refs' \in [Branches -> 0..Len(commits')]
      BY <2>4, <2>5, <3>1
    <3>3. hash' \in [Goroutines -> 0..Len(commits')]
      BY <2>4, <2>5, <3>1
    <3>4. QED
      BY <3>2, <3>3
  <2>7. op' \in [Goroutines -> OpStates]
    BY <2>5 DEF DirInv, DirTypeOK, OpStates
  <2>8. DirTypeOK'
    BY <1>1, <2>4, <2>5, <2>6, <2>7 DEF DirInv, DirTypeOK, GitTypeOK
  <2>9. PointersOK'
    BY <1>1, <2>4, <2>5 DEF DirInv, DirTypeOK, GitTypeOK, PointersOK, NoCommit, Goroutines
  <2>10. QED
    BY <2>8, <2>9 DEF DirInv
<1>3. CASE ~(WriteError = "nil" /\ head # NoBranch /\ ~StatusIsClean)
  <2>1. UNCHANGED <<commits, refs, hash>> /\ op' = [op EXCEPT ![t] = "idle"]
    BY <1>3 DEF CreateCommit, Return
  <2>2. err' \in [Goroutines -> Errors]
    BY <1>3 DEF CreateCommit, Return, WriteError, DirInv, DirTypeOK, Errors
  <2>3. DirTypeOK'
    BY <1>1, <2>1, <2>2 DEF DirInv, DirTypeOK, GitTypeOK, OpStates
  <2>4. PointersOK'
    BY <1>1, <2>1 DEF DirInv, DirTypeOK, PointersOK
  <2>5. QED
    BY <2>3, <2>4 DEF DirInv
<1>4. QED
  BY <1>2, <1>3

LEMMA PushInv ==
    ASSUME DirInv, NEW t \in Callers, Push(t)
    PROVE  DirInv'
<1>1. UNCHANGED <<commits, refs, head, wtree, lock, repo, wt, lastCommit, commitChan,
                  cleanup, ctxDone, hash>>
  BY DEF Push
<1>2. /\ remote' \in [Branches -> 0..Len(commits)]
      /\ remote'[Main] # NoCommit
  BY DEF Push, PushedBranches, LocalBranches, DirInv, DirTypeOK, GitTypeOK, PointersOK
<1>3. /\ op' \in [Goroutines -> OpStates]
      /\ err' \in [Goroutines -> Errors]
      /\ \A h \in Goroutines \ {t} : op'[h] = op[h]
  <2>1. PICK e \in ContextErrors(t), done \in BOOLEAN : HandleError(t, e, done, "report")
    BY DEF Push
  <2>2. op \in [Goroutines -> OpStates] /\ err \in [Goroutines -> Errors] /\ t \in Goroutines
    BY DEF DirInv, DirTypeOK, Goroutines
  <2>3. QED
    BY <2>1, <2>2 DEF HandleError, Return, ReturnNil, OpStates, Errors
<1>4. op[t] = "push"
  BY DEF Push
<1>5. DirTypeOK'
  BY <1>1, <1>2, <1>3 DEF DirInv, DirTypeOK, GitTypeOK
<1>6. PointersOK'
  BY <1>1, <1>2, <1>3, <1>4 DEF DirInv, PointersOK, Goroutines
<1>7. QED
  BY <1>5, <1>6 DEF DirInv

LEMMA CommitReportsInv ==
    ASSUME DirInv, NEW t \in Callers, CommitReports(t)
    PROVE  DirInv'
<1>1. hash[t] \in 1..Len(commits)
  BY DEF CommitReports, DirInv, DirTypeOK, PointersOK, NoCommit, Goroutines
<1>2. /\ lastCommit' \in 0..Len(commits)
      /\ commitChan' \in Seq(1..Len(commits))
      /\ Len(commitChan') <= ChanCap
  BY <1>1, observeCommitType DEF CommitReports
<1>3. /\ UNCHANGED <<gitVars, lock, repo, wt, cleanup, ctxDone, hash>>
      /\ op' = [op EXCEPT ![t] = "idle"]
      /\ err' = [err EXCEPT ![t] = "nil"]
  BY DEF CommitReports, Return
<1>4. op' \in [Goroutines -> OpStates] /\ err' \in [Goroutines -> Errors]
  BY <1>3 DEF DirInv, DirTypeOK, OpStates, Errors
<1>5. DirTypeOK'
  BY <1>2, <1>3, <1>4 DEF DirInv, DirTypeOK, GitTypeOK, gitVars
<1>6. PointersOK'
  BY <1>3 DEF DirInv, DirTypeOK, PointersOK, gitVars
<1>7. QED
  BY <1>5, <1>6 DEF DirInv

LEMMA CleanupInv == DirInv /\ (CleanupCancels \/ CleanupRemoves) => DirInv'
<1>1. ASSUME DirInv, CleanupCancels PROVE DirInv'
  BY <1>1 DEF DirInv, DirTypeOK, GitTypeOK, PointersOK, CleanupCancels, gitVars, CleanupStates
<1>2. ASSUME DirInv, CleanupRemoves PROVE DirInv'
  <2>1. /\ UNCHANGED <<commits, remote, lock, repo, wt, lastCommit, commitChan,
                        ctxDone, op, err, hash>>
        /\ head' = NoBranch
        /\ refs' \in [Branches -> 0..Len(commits)]
        /\ wtree' \in Files
        /\ cleanup' \in CleanupStates
    BY <1>2 DEF CleanupRemoves, EmptyTree, Files, NoCommit, CleanupStates, DirInv, DirTypeOK,
                GitTypeOK
  <2>2. QED
    BY <1>2, <2>1 DEF DirInv, DirTypeOK, GitTypeOK, PointersOK
<1>3. QED
  BY <1>1, <1>2

LEMMA CancelContextInv ==
    ASSUME DirInv, NEW t \in Callers, CancelContext(t)
    PROVE  DirInv'
  BY DEF DirInv, DirTypeOK, GitTypeOK, PointersOK, CancelContext, gitVars

LEMMA RemoteChangesInv == DirInv /\ RemoteChanges => DirInv'
<1> SUFFICES ASSUME DirInv, RemoteChanges PROVE DirInv'
  OBVIOUS
<1> UNCHANGED dirVars
  BY DEF RemoteChanges
<1>1. ASSUME NEW k \in Keys, NEW v \in Versions \cup {Absent}, RemoteCommit(k, v)
      PROVE  DirInv'
  <2> DEFINE tree == [TreeOf(remote[Main]) EXCEPT ![k] = v]
  <2>1. remote[Main] \in 1..Len(commits)
    BY DEF DirInv, DirTypeOK, GitTypeOK, PointersOK, NoCommit
  <2>2. tree \in Files
    BY <2>1, TreeOfType DEF DirInv, DirTypeOK, GitTypeOK, Files
  <2>3. NewCommit(remote[Main], tree, Nobody)
    BY <1>1 DEF RemoteCommit
  <2>4. /\ commits' \in Seq(Commit)
        /\ Len(commits') = Len(commits) + 1
        /\ Len(commits) \in Nat
        /\ commitChan \in Seq(1..Len(commits'))
        /\ lastCommit \in 0..Len(commits')
        /\ refs \in [Branches -> 0..Len(commits')]
        /\ remote \in [Branches -> 0..Len(commits')]
        /\ hash \in [Goroutines -> 0..Len(commits')]
    BY <2>1, <2>2, <2>3, MoreCommits
  <2>5. remote' = [remote EXCEPT ![Main] = Len(commits) + 1] /\ UNCHANGED <<refs, head, wtree>>
    BY <1>1 DEF RemoteCommit
  <2>6. DirTypeOK'
    BY <2>4, <2>5 DEF DirInv, DirTypeOK, GitTypeOK, dirVars
  <2>7. PointersOK'
    BY <2>4, <2>5 DEF DirInv, DirTypeOK, GitTypeOK, PointersOK, NoCommit, dirVars
  <2>8. QED
    BY <2>6, <2>7 DEF DirInv
<1>2. ASSUME NEW b \in Branches, RemoteMerge(b)
      PROVE  DirInv'
  BY <1>2 DEF RemoteMerge, DirInv, DirTypeOK, GitTypeOK, PointersOK, NoCommit, dirVars
<1>3. QED
  BY <1>1, <1>2 DEF RemoteChanges

-----------------------------------------------------------------------------
(***************************************************************************)
(* The history: the ancestors of a commit exist, are older, and their      *)
(* ancestors are its ancestors.                                            *)
(***************************************************************************)
HistoryInv ==
    \A c \in 1..Len(commits) :
        /\ c \in Ancestors(c)
        /\ \A a \in Ancestors(c) :
                a \in 1..Len(commits) /\ a <= c /\ Ancestors(a) \subseteq Ancestors(c)

\* Commits are added and never changed.
HistoryGrows ==
    /\ Len(commits) \in Nat /\ Len(commits') \in Nat
    /\ Len(commits) <= Len(commits')
    /\ \A c \in 1..Len(commits) : commits'[c] = commits[c]

LEMMA NewCommitHistory ==
    ASSUME commits \in Seq(Commit), HistoryInv,
           NEW parent \in 1..Len(commits), NEW tree \in Files,
           NEW author \in Callers \cup {Nobody},
           NewCommit(parent, tree, author)
    PROVE  /\ HistoryGrows
           /\ HistoryInv'
           /\ Len(commits') = Len(commits) + 1
           /\ commits'[Len(commits) + 1].anc = Ancestors(parent) \cup {Len(commits) + 1}
<1> DEFINE n == Len(commits)
<1>1. n \in Nat
  OBVIOUS
<1>2. /\ Len(commits') = n + 1
      /\ \A c \in 1..n : commits'[c] = commits[c]
      /\ commits'[n + 1] = [tree |-> tree, parent |-> parent, by |-> author,
                            anc |-> commits[parent].anc \cup {n + 1}]
  BY NewCommitAppends
<1>3. HistoryGrows
  BY <1>1, <1>2 DEF HistoryGrows
<1>4. commits'[n + 1].anc = Ancestors(parent) \cup {n + 1}
  BY <1>2 DEF Ancestors
<1>5. \A c \in 1..n : Ancestors(c)' = Ancestors(c)
  BY <1>2 DEF Ancestors
<1>6. ASSUME NEW c \in 1..n
      PROVE  /\ c \in Ancestors(c)'
             /\ \A a \in Ancestors(c)' : a \in 1..n /\ a <= c /\ Ancestors(a)' \subseteq Ancestors(c)'
  BY <1>5 DEF HistoryInv
<1>7. ASSUME NEW c, c = n + 1
      PROVE  /\ c \in Ancestors(c)'
             /\ \A a \in Ancestors(c)' :
                    a \in 1..(n + 1) /\ a <= c /\ Ancestors(a)' \subseteq Ancestors(c)'
  <2>1. Ancestors(c)' = Ancestors(parent) \cup {c}
    BY <1>4, <1>7 DEF Ancestors
  <2>2. \A a \in Ancestors(parent) : a \in 1..n /\ Ancestors(a)' \subseteq Ancestors(parent)
    BY <1>5 DEF HistoryInv
  <2>3. QED
    BY <1>1, <1>7, <2>1, <2>2
<1>8. HistoryInv'
  <2>1. \A c \in 1..(n + 1) : c \in 1..n \/ c = n + 1
    BY <1>1
  <2>2. \A a \in 1..n : a \in 1..(n + 1)
    BY <1>1
  <2>3. QED
    BY <1>2, <1>6, <1>7, <2>1, <2>2 DEF HistoryInv
<1>9. QED
  BY <1>2, <1>3, <1>4, <1>8

\* A commit that exists keeps its tree and its ancestors.
LEMMA CommitKept ==
    ASSUME HistoryGrows, NEW c \in 1..Len(commits)
    PROVE  TreeOf(c)' = TreeOf(c) /\ Ancestors(c)' = Ancestors(c)
  BY DEF HistoryGrows, TreeOf, Ancestors
=============================================================================
