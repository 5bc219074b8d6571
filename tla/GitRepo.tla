------------------------------- MODULE GitRepo -------------------------------
(***************************************************************************)
(* The Git data a GitDirectory works on: the commits, the branches of the  *)
(* remote repository, and the branches, HEAD and worktree of the temporary *)
(* clone.  The operators say what the go-git calls made by pkg/gitdir do   *)
(* to that data.  go-git and the remote are not part of this repository,   *)
(* so every definition here is external to it: it is modelled from the     *)
(* options pkg/gitdir passes and from the errors it tells apart.           *)
(*                                                                         *)
(* A key stands for one manifest file and the object stored in it.  A tree *)
(* gives every key its content, or Absent when the file is not there.      *)
(***************************************************************************)
EXTENDS Naturals, Sequences, FiniteSets

CONSTANTS
    Keys,       \* the manifest files, one object in each
    Versions,   \* what a manifest may contain
    Absent,     \* the content of a file that does not exist
    Torn,       \* the content of a file between its truncation and its write
    Branches,   \* the branch names, Main among them
    Main,       \* GitDirectoryOptions.Branch
    NoBranch,   \* the HEAD of a directory that holds no clone
    Nobody,     \* the author of what was not committed by a transaction
    Callers,    \* the goroutines that call Transaction
    MaxRemoteCommits    \* bound: the commits other users make, the first included

ASSUME GitRepoAssumption ==
    /\ Main \in Branches
    /\ NoBranch \notin Branches
    /\ Absent \notin Versions
    /\ Torn \notin Versions \cup {Absent}
    /\ Nobody \notin Callers
    /\ Versions # {}
    /\ MaxRemoteCommits \in Nat \ {0}

VARIABLES
    commits,    \* the commits, in order of creation; commit c is commits[c]
    remote,     \* the branches of the remote repository
    refs,       \* the branches of the clone (refs/heads)
    head,       \* the branch the clone's HEAD points to
    wtree       \* the files of the clone's worktree

gitVars == <<commits, remote, refs, head, wtree>>

NoCommit == 0
Tree == [Keys -> Versions \cup {Absent}]
Files == [Keys -> Versions \cup {Absent, Torn}]
Commit == [tree: Files, parent: Nat, anc: SUBSET Nat, by: Callers \cup {Nobody}]
EmptyTree == [k \in Keys |-> Absent]

TreeOf(c) == commits[c].tree
Ancestors(c) == commits[c].anc
Present(tree) == {k \in Keys : tree[k] # Absent}

\* A commit made by author on top of parent (a new hash every time, because the
\* author's date is part of it).
NewCommit(parent, tree, author) ==
    commits' = Append(commits,
                 [tree |-> tree, parent |-> parent, by |-> author,
                  anc |-> Ancestors(parent) \cup {Len(commits) + 1}])

\* Tracked files that differ from HEAD: what a merge reset refuses to overwrite
\* (untracked files do not count).
UnstagedChanges ==
    \E k \in Keys : TreeOf(refs[head])[k] \notin {Absent, wtree[k]}

\* git status finds nothing: untracked files count here.
StatusIsClean == wtree = TreeOf(refs[head])

\* What CommitOptions{All: true} stages: modified and deleted files, but no new
\* file, which stays untracked.
AllTracked ==
    [k \in Keys |-> IF TreeOf(refs[head])[k] = Absent THEN Absent ELSE wtree[k]]

\* The worktree after a reset from commit old to commit new that leaves the
\* untracked files alone.
ResetTree(old, new) ==
    [k \in Keys |-> IF TreeOf(old)[k] = Absent /\ TreeOf(new)[k] = Absent
                    THEN wtree[k] ELSE TreeOf(new)[k]]

IsFastForward(old, new) == old \in Ancestors(new)

\* PullContext fetches and fast-forwards the branch HEAD is on.
PullUpToDate == IsFastForward(remote[Main], refs[head])
PullMoves == ~PullUpToDate /\ IsFastForward(refs[head], remote[Main])
PullSucceeds ==
    /\ head # NoBranch
    /\ PullUpToDate \/ (PullMoves /\ ~UnstagedChanges)

\* What is left of a PullContext that ran to its end: the branch is moved before
\* the reset looks at the worktree.
PullWorktree ==
    IF head # NoBranch /\ PullMoves
    THEN /\ refs' = [refs EXCEPT ![head] = remote[Main]]
         /\ wtree' = IF UnstagedChanges THEN wtree
                     ELSE ResetTree(refs[head], remote[Main])
         /\ UNCHANGED <<commits, remote, head>>
    ELSE UNCHANGED gitVars

\* PushOptions without RefSpecs pushes refs/heads/*, every local branch, and
\* pushes none of them unless all are fast-forwards.
LocalBranches == {b \in Branches : refs[b] # NoCommit}
PushAccepted ==
    /\ head # NoBranch
    /\ \A b \in LocalBranches :
            remote[b] = NoCommit \/ IsFastForward(remote[b], refs[b])
PushedBranches ==
    [b \in Branches |-> IF b \in LocalBranches THEN refs[b] ELSE remote[b]]

(***************************************************************************)
(* Other users of the remote repository.                                   *)
(***************************************************************************)
RemoteCommits == {c \in DOMAIN commits : commits[c].by = Nobody}

\* Somebody pushes a commit that changes one file of the main branch.
RemoteCommit(k, v) ==
    /\ Cardinality(RemoteCommits) < MaxRemoteCommits
    /\ TreeOf(remote[Main])[k] # v
    /\ NewCommit(remote[Main], [TreeOf(remote[Main]) EXCEPT ![k] = v], Nobody)
    /\ remote' = [remote EXCEPT ![Main] = Len(commits) + 1]
    /\ UNCHANGED <<refs, head, wtree>>

\* Somebody merges branch b into the main branch by a fast-forward.
RemoteMerge(b) ==
    /\ remote[b] \notin {NoCommit, remote[Main]}
    /\ IsFastForward(remote[Main], remote[b])
    /\ remote' = [remote EXCEPT ![Main] = remote[b]]
    /\ UNCHANGED <<commits, refs, head, wtree>>

\* The remote has a main branch of one commit; the clone directory is empty.
GitInit ==
    /\ \E tree \in Tree :
        commits = <<[tree |-> tree, parent |-> NoCommit, anc |-> {1}, by |-> Nobody]>>
    /\ remote = [b \in Branches |-> IF b = Main THEN 1 ELSE NoCommit]
    /\ refs = [b \in Branches |-> NoCommit]
    /\ head = NoBranch
    /\ wtree = EmptyTree

GitTypeOK ==
    /\ commits \in Seq(Commit)
    /\ remote \in [Branches -> 0..Len(commits)]
    /\ refs \in [Branches -> 0..Len(commits)]
    /\ head \in Branches \cup {NoBranch}
    /\ wtree \in Files
=============================================================================
