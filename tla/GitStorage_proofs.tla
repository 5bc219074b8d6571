-------------------------- MODULE GitStorage_proofs --------------------------
(***************************************************************************)
(* Theorems about GitStorage, for any number of callers, branches and      *)
(* keys, any channel capacity and any set of faults.                       *)
(***************************************************************************)
EXTENDS GitStorage, GitDirectory_proofs

USE GitRepoAssumption, GitDirectoryAssumption, GitStorageAssumption

-----------------------------------------------------------------------------
(***************************************************************************)
(* Types.                                                                  *)
(***************************************************************************)
TxTypeOK ==
    /\ tx \in [Callers -> TxStates]
    /\ result \in [Callers -> Results]
    /\ wantsPR \subseteq Callers
    /\ prs \subseteq Branches
    /\ touched \in [Callers -> SUBSET Keys]
    /\ mappings \subseteq Keys
    /\ unseen \in BOOLEAN

SyncTypeOK == sync \in SyncStates /\ files \subseteq Keys /\ found \subseteq Keys

TypeInv == DirInv /\ TxTypeOK /\ SyncTypeOK

LEMMA TypeInvTypeOK == TypeInv => TypeOK
  BY DEF TypeInv, DirInv, TxTypeOK, SyncTypeOK, TypeOK

LEMMA TypeInit == Init => TypeInv
<1>1. Init => DirInv
  BY DirInitInv DEF Init
<1>2. Init => TxTypeOK
  BY DEF Init, TxTypeOK, TxStates, Suspended, Results, Errors
<1>3. Init => SyncTypeOK
  BY DEF Init, SyncTypeOK, SyncStates
<1>4. QED
  BY <1>1, <1>2, <1>3 DEF TypeInv

LEMMA SyncType == TypeInv /\ SyncSteps => TypeInv'
<1> SUFFICES ASSUME TypeInv, SyncSteps PROVE TypeInv'
  OBVIOUS
<1> Syncer \in Starters
  OBVIOUS
<1>1. CASE NewGitStorage
  <2>1. DirInv'
    BY <1>1, StartCheckoutLoopInv DEF NewGitStorage, TypeInv
  <2>2. QED
    BY <1>1, <2>1 DEF NewGitStorage, TypeInv, TxTypeOK, SyncTypeOK, SyncStates, txVars
<1>2. CASE Started
  <2>1. DirInv' /\ TxTypeOK'
    BY <1>2 DEF Started, TypeInv, TxTypeOK, DirInv, DirTypeOK, GitTypeOK, PointersOK,
                gitVars, dirVars, txVars
  <2>2. QED
    BY <1>2, <2>1 DEF Started, TypeInv, SyncTypeOK, SyncStates
<1>3. CASE Receive
  <2>1. commitChan' \in Seq(1..Len(commits)) /\ Len(commitChan') <= ChanCap
    <3>1. commitChan \in Seq(1..Len(commits)) /\ commitChan # <<>> /\ commitChan' = Tail(commitChan)
      BY <1>3 DEF Receive, TypeInv, DirInv, DirTypeOK
    <3>2. Tail(commitChan) \in Seq(1..Len(commits)) /\ Len(Tail(commitChan)) = Len(commitChan) - 1
      BY <3>1
    <3>3. Len(commitChan) \in Nat /\ Len(commitChan) <= ChanCap
      BY <3>1 DEF TypeInv, DirInv, DirTypeOK
    <3>4. Len(Tail(commitChan)) <= ChanCap
      BY <3>2, <3>3
    <3>5. QED
      BY <3>1, <3>2, <3>4
  <2>2. DirInv'
    BY <1>3, <2>1 DEF Receive, TypeInv, DirInv, DirTypeOK, GitTypeOK, PointersOK, gitVars
  <2>3. QED
    BY <1>3, <2>2 DEF Receive, TypeInv, TxTypeOK, SyncTypeOK, SyncStates, txVars
<1>4. CASE Walk \/ WalkFails \/ (\E k \in Keys : DecodeFile(k)) \/ SetMappings
  <2>1. UNCHANGED <<gitVars, dirVars, txVars, unseen>>
    BY <1>4 DEF Walk, WalkFails, DecodeFile, SetMappings
  <2>2. DirInv'
    BY <2>1 DEF TypeInv, DirInv, DirTypeOK, GitTypeOK, PointersOK, gitVars, dirVars
  <2>3. SyncTypeOK'
    BY <1>4 DEF Walk, WalkFails, DecodeFile, SetMappings, Present, TypeInv, SyncTypeOK, SyncStates
  <2>4. mappings' \subseteq Keys
    BY <1>4 DEF Walk, WalkFails, DecodeFile, SetMappings, TypeInv, SyncTypeOK, TxTypeOK
  <2>5. QED
    BY <2>1, <2>2, <2>3, <2>4 DEF TypeInv, TxTypeOK, txVars
<1>5. QED
  BY <1>1, <1>2, <1>3, <1>4 DEF SyncSteps

\* A step of the function writes files and mappings only.
LEMMA FnType == ASSUME TypeInv, NEW t \in Callers, FnSteps(t) PROVE TypeInv'
<1>1. CASE \E k \in Keys : FnAddMapping(t, k) \/ FnOpenFile(t, k) \/ FnDelete(t, k)
  <2>1. PICK k \in Keys : FnAddMapping(t, k) \/ FnOpenFile(t, k) \/ FnDelete(t, k)
    BY <1>1
  <2>2. Writes(t, k)
    BY <2>1 DEF FnAddMapping, FnOpenFile, FnDelete
  <2>3. wtree' \in Files
    BY <2>1 DEF FnAddMapping, FnOpenFile, FnDelete, TypeInv, DirInv, DirTypeOK, GitTypeOK, Files
  <2>4. DirInv'
    BY <2>2, <2>3 DEF Writes, TypeInv, DirInv, DirTypeOK, GitTypeOK, PointersOK, dirVars
  <2>5. tx' \in [Callers -> TxStates] /\ mappings' \subseteq Keys
    BY <2>1 DEF FnAddMapping, FnOpenFile, FnDelete, TypeInv, TxTypeOK, TxStates, Suspended
  <2>6. TxTypeOK'
    BY <2>2, <2>5 DEF Writes, TypeInv, TxTypeOK
  <2>7. QED
    BY <2>2, <2>4, <2>6 DEF Writes, TypeInv, SyncTypeOK, syncVars
<1>2. CASE \E v \in Versions : FnWriteFile(t, v)
  <2>1. PICK v \in Versions : FnWriteFile(t, v)
    BY <1>2
  <2>2. wtree' \in Files
    BY <2>1 DEF FnWriteFile, TypeInv, DirInv, DirTypeOK, GitTypeOK, Files
  <2>3. DirInv'
    BY <2>1, <2>2 DEF FnWriteFile, TypeInv, DirInv, DirTypeOK, GitTypeOK, PointersOK, dirVars
  <2>4. QED
    BY <2>1, <2>3 DEF FnWriteFile, TypeInv, TxTypeOK, SyncTypeOK, syncVars, TxStates, Suspended
<1>3. CASE \E r \in FnResults : FnReturns(t, r)
  <2>1. PICK r \in FnResults : FnReturns(t, r)
    BY <1>3
  <2>2. DirInv'
    BY <2>1 DEF FnReturns, TypeInv, DirInv, DirTypeOK, GitTypeOK, PointersOK, gitVars, dirVars
  <2>3. tx' \in [Callers -> TxStates] /\ result' \in [Callers -> Results] /\ wantsPR' \subseteq Callers
    BY <2>1 DEF FnReturns, TypeInv, TxTypeOK, TxStates, Suspended, Results
  <2>4. QED
    BY <2>1, <2>2, <2>3 DEF FnReturns, TypeInv, TxTypeOK, SyncTypeOK, syncVars
<1>4. QED
  BY <1>1, <1>2, <1>3 DEF FnSteps

LEMMA TxType == ASSUME TypeInv, NEW t \in Callers, TxSteps(t) PROVE TypeInv'
<1> t \in Goroutines
  BY DEF Goroutines
<1>1. CASE Transaction(t)
  <2>1. DirInv'
    BY <1>1, PullInv DEF Transaction, TypeInv
  <2>2. QED
    BY <1>1, <2>1 DEF Transaction, TypeInv, TxTypeOK, SyncTypeOK, syncVars, TxStates
<1>2. CASE Pulled(t) \/ TxCommitted(t) \/ TxPullRequest(t)
  <2>1. UNCHANGED <<gitVars, dirVars, wantsPR, touched, mappings, syncVars, unseen>>
    BY <1>2 DEF Pulled, TxCommitted, TxPullRequest
  <2>2. DirInv'
    BY <2>1 DEF TypeInv, DirInv, DirTypeOK, GitTypeOK, PointersOK, gitVars, dirVars
  <2>3. tx' \in [Callers -> TxStates]
    BY <1>2 DEF Pulled, TxCommitted, TxPullRequest, TypeInv, TxTypeOK, TxStates, Suspended
  <2>4. result' \in [Callers -> Results]
    <3>1. err[t] \in Results
      BY DEF TypeInv, DirInv, DirTypeOK, Results
    <3>2. CASE Pulled(t) \/ TxCommitted(t)
      BY <3>1, <3>2 DEF Pulled, TxCommitted, TypeInv, TxTypeOK
    <3>3. CASE TxPullRequest(t)
      <4>1. PICK e \in {"nil", "provider", "noProvider"} : result' = [result EXCEPT ![t] = e]
        BY <3>3 DEF TxPullRequest
      <4>2. e \in Results
        BY DEF Results, Errors
      <4>3. QED
        BY <4>1, <4>2 DEF TypeInv, TxTypeOK
    <3>4. QED
      BY <1>2, <3>2, <3>3
  <2>5. prs' \subseteq Branches
    BY <1>2 DEF Pulled, TxCommitted, TxPullRequest, TypeInv, TxTypeOK
  <2>6. QED
    BY <2>1, <2>2, <2>3, <2>4, <2>5 DEF TypeInv, TxTypeOK, SyncTypeOK, syncVars
<1>3. CASE TxSuspend(t) \/ TxResume(t)
  <2>1. /\ lock' \in Goroutines \cup {Free}
        /\ UNCHANGED <<gitVars, repo, wt, lastCommit, commitChan, cleanup, ctxDone, op, err, hash,
                       result, wantsPR, prs, touched, mappings, syncVars, unseen>>
    BY <1>3 DEF TxSuspend, Suspend, TxResume, Resume
  <2>2. DirInv'
    BY <2>1 DEF TypeInv, DirInv, DirTypeOK, GitTypeOK, PointersOK, gitVars
  <2>3. tx' \in [Callers -> TxStates]
    BY <1>3 DEF TxSuspend, TxResume, TypeInv, TxTypeOK, TxStates, Suspended
  <2>4. QED
    BY <2>1, <2>2, <2>3 DEF TypeInv, TxTypeOK, SyncTypeOK, syncVars
<1>4. CASE TxBranch(t)
  <2>1. BranchOf[t] \in Branches
    OBVIOUS
  <2>2. DirInv'
    BY <1>4, <2>1, CheckoutNewBranchInv DEF TxBranch, TypeInv
  <2>3. err'[t] \in Results
    BY <2>2 DEF DirInv, DirTypeOK, Results
  <2>4. tx' \in [Callers -> TxStates] /\ result' \in [Callers -> Results]
    BY <1>4, <2>3 DEF TxBranch, TypeInv, TxTypeOK, TxStates, Suspended
  <2>5. QED
    BY <1>4, <2>2, <2>4 DEF TxBranch, TypeInv, TxTypeOK, SyncTypeOK, syncVars
<1>5. CASE FnSteps(t)
  BY <1>5, FnType
<1>6. CASE TxCommit(t)
  <2>1. DirInv'
    BY <1>6, CreateCommitInv DEF TxCommit, TypeInv
  <2>2. QED
    BY <1>6, <2>1 DEF TxCommit, TypeInv, TxTypeOK, SyncTypeOK, syncVars, TxStates, Suspended
<1>7. CASE TxRestore(t)
  <2>1. DirInv'
    BY <1>7, CheckoutMainBranchInv DEF TxRestore, TypeInv
  <2>2. QED
    BY <1>7, <2>1 DEF TxRestore, TypeInv, TxTypeOK, SyncTypeOK, syncVars, TxStates, Suspended
<1>8. QED
  BY <1>1, <1>2, <1>3, <1>4, <1>5, <1>6, <1>7 DEF TxSteps

\* The steps of the operations of GitDirectory.
LEMMA OperationType ==
    ASSUME TypeInv, NEW g \in Callers \cup {Loop},
           PullStep(g) \/ CloneStep \/ LoopStep \/ (g \in Callers /\ PushStep(g))
    PROVE  TypeInv'
<1> g \in Goroutines /\ Loop \in Goroutines /\ Syncer \in Starters /\ Syncer \in Goroutines
  BY DEF Goroutines
<1>1. UNCHANGED <<txVars, mappings, syncVars>> /\ unseen' \in BOOLEAN
  BY DEF PullStep, Reports, CloneStep, LoopStep, PushStep, TypeInv, TxTypeOK
<1>2. ASSUME PullStep(g) PROVE DirInv'
  BY <1>2, PullLockInv, PullFetchInv, HeadFailsInv, HeadReportsInv DEF PullStep, TypeInv
<1>3. ASSUME CloneStep PROVE DirInv'
  BY <1>3, CloneLockInv, CloneInv, HeadFailsInv, HeadReportsInv, SpawnLoopInv
  DEF CloneStep, CloneSteps, TypeInv
<1>4. ASSUME LoopStep PROVE DirInv'
  BY <1>4, PullInv, LoopExitsInv DEF LoopStep, LoopTick, TypeInv
<1>5. ASSUME g \in Callers, PushStep(g) PROVE DirInv'
  BY <1>5, PushInv, CommitReportsInv DEF PushStep, TypeInv
<1>6. DirInv'
  BY <1>2, <1>3, <1>4, <1>5
<1>7. QED
  BY <1>1, <1>6 DEF TypeInv, TxTypeOK, SyncTypeOK, txVars, syncVars

LEMMA EnvironmentType == TypeInv /\ Environment => TypeInv'
<1> SUFFICES ASSUME TypeInv, Environment PROVE TypeInv'
  OBVIOUS
<1>1. DirInv'
  BY CleanupInv, RemoteChangesInv, CancelContextInv DEF Environment, TypeInv
<1>2. QED
  BY <1>1 DEF Environment, TypeInv, TxTypeOK, SyncTypeOK, txVars, syncVars

LEMMA TypeNext == TypeInv /\ [Next]_vars => TypeInv'
<1> SUFFICES ASSUME TypeInv, [Next]_vars PROVE TypeInv'
  OBVIOUS
<1>1. CASE SyncSteps
  BY <1>1, SyncType
<1>2. CASE CloneStep \/ LoopStep \/ PullStep(Loop)
  BY <1>2, OperationType
<1>3. ASSUME NEW t \in Callers, TxSteps(t) \/ PullStep(t) \/ PushStep(t) PROVE TypeInv'
  BY <1>3, TxType, OperationType
<1>4. CASE Environment
  BY <1>4, EnvironmentType
<1>5. CASE UNCHANGED vars
  BY <1>5 DEF vars, gitVars, dirVars, txVars, syncVars, TypeInv, DirInv, DirTypeOK, GitTypeOK,
              PointersOK, TxTypeOK, SyncTypeOK
<1>6. QED
  BY <1>1, <1>2, <1>3, <1>4, <1>5 DEF Next

LEMMA SpecTypeInv == Spec => []TypeInv
  BY TypeInit, TypeNext, PTL DEF Spec

\* Type correctness of the whole storage: every pointer is to a commit that exists,
\* the channel never holds more than its capacity, and every state machine is in
\* one of its states.
THEOREM TypeCorrect == Spec => []TypeOK
  BY SpecTypeInv, TypeInvTypeOK, PTL

-----------------------------------------------------------------------------
(***************************************************************************)
(* Mutual exclusion.  OneAtATime alone is not inductive: a caller that     *)
(* ends a Pull gives the mutex back, which is only right because a caller  *)
(* inside Pull is not also between Suspend and Resume.                     *)
(***************************************************************************)
OpInv ==
    \A t \in Callers :
        /\ op[t] \in {"idle", "pull", "fetch", "head", "push", "report"}
        /\ op[t] \in {"pull", "fetch", "head"} => tx[t] = "pulling"
        /\ op[t] \in {"push", "report"} => tx[t] = "committing"

\* A step of g that takes the mutex and starts to work, gives it back and stops,
\* or changes neither.
MutexStep(g) ==
    /\ \A h \in Goroutines \ {g} : (Working(h)' <=> Working(h))
    /\ \/ lock' = lock /\ (Working(g)' <=> Working(g))
       \/ lock = Free /\ lock' = g /\ Working(g)'
       \/ lock' = Free /\ Working(g) /\ ~Working(g)'

LEMMA MutexStepKeepsOrder ==
    ASSUME OneAtATime, NEW g \in Goroutines, MutexStep(g)
    PROVE  OneAtATime'
  BY DEF OneAtATime, MutexStep

LEMMA LockInit == Init => OpInv /\ OneAtATime
<1> SUFFICES ASSUME Init PROVE OpInv /\ OneAtATime
  OBVIOUS
<1>1. /\ op = [g \in Goroutines |-> IF g \in Callers THEN "idle" ELSE "off"]
      /\ tx = [t \in Callers |-> "new"]
      /\ lock = Free
  BY DEF Init, DirInit
<1>2. QED
  BY <1>1 DEF OpInv, OneAtATime, Working, Suspended, Goroutines

\* The steps of Pull and clone: all of them leave the transactions as they are.
LEMMA OperationMutex ==
    ASSUME TypeInv, OpInv, NEW g \in Goroutines, UNCHANGED tx,
           \/ PullLock(g) \/ PullFetch(g) \/ HeadFails(g) \/ HeadReports(g)
           \/ g \in Starters /\ (CloneLock(g) \/ Clone(g))
    PROVE  OpInv' /\ MutexStep(g)
<1> DEFINE Inside == {"cloning", "fetch", "head"}
<1>1. op \in [Goroutines -> OpStates]
  BY DEF TypeInv, DirInv, DirTypeOK
<1>2. \A h \in Goroutines \ {g} : op'[h] = op[h]
  BY <1>1 DEF PullLock, PullFetch, HeadFails, HeadReports, CloneLock, Clone, HandleError,
              Return, ReturnNil
<1>3. g \in Callers => tx[g] \notin Suspended
  BY DEF OpInv, PullLock, PullFetch, HeadFails, HeadReports, Suspended
<1>4. (Working(g) <=> op[g] \in Inside) /\ (Working(g)' <=> op'[g] \in Inside)
  BY <1>3 DEF Working
<1>5. \A h \in Goroutines \ {g} : (Working(h)' <=> Working(h))
  BY <1>2 DEF Working
<1>6. CASE PullLock(g) \/ CloneLock(g)
  <2>1. /\ op[g] \in {"clone", "pull"}
        /\ \/ lock' = lock /\ op'[g] = "idle"
           \/ lock = Free /\ lock' = g /\ op'[g] \in {"cloning", "fetch"}
        /\ op[g] = "clone" => op'[g] = "cloning"
        /\ op[g] = "pull" => op'[g] \in {"idle", "fetch"}
    BY <1>1, <1>6 DEF PullLock, CloneLock, Return
  <2>2. MutexStep(g)
    BY <1>4, <1>5, <2>1 DEF MutexStep
  <2>3. OpInv'
    BY <1>2, <2>1 DEF OpInv, Goroutines
  <2>4. QED
    BY <2>2, <2>3
<1>7. CASE PullFetch(g) \/ (g \in Starters /\ Clone(g))
  <2>1. op[g] \in {"fetch", "cloning"} /\ lock' = (IF op'[g] = "head" THEN lock ELSE Free)
    BY <1>7 DEF PullFetch, Clone, UnlockUnless
  <2>2. op'[g] = "head" \/ op'[g] = (IF g \in Starters THEN "spawn" ELSE "idle") \/ op'[g] = "idle"
    BY <1>1, <1>7 DEF PullFetch, Clone, HandleError, Return, ReturnNil
  <2>3. MutexStep(g)
    BY <1>4, <1>5, <2>1, <2>2 DEF MutexStep
  <2>4. OpInv'
    BY <1>2, <2>1, <2>2 DEF OpInv, Goroutines
  <2>5. QED
    BY <2>3, <2>4
<1>8. CASE HeadFails(g) \/ HeadReports(g)
  <2>1. op[g] = "head" /\ lock' = Free
    BY <1>8 DEF HeadFails, HeadReports
  <2>2. op'[g] = (IF g \in Starters THEN "spawn" ELSE "idle") \/ op'[g] = "idle"
    BY <1>1, <1>8 DEF HeadFails, HeadReports, Return, ReturnNil
  <2>3. MutexStep(g)
    BY <1>4, <1>5, <2>1, <2>2 DEF MutexStep
  <2>4. OpInv'
    BY <1>2, <2>1, <2>2 DEF OpInv, Goroutines
  <2>5. QED
    BY <2>3, <2>4
<1>9. QED
  BY <1>6, <1>7, <1>8

\* Steps that leave the mutex, the callers' operations and the transactions alone.
LEMMA OtherMutex ==
    ASSUME OpInv, OneAtATime, UNCHANGED <<lock, tx>>,
           \A t \in Callers : op'[t] = op[t],
           \A h \in Goroutines : (op'[h] \in {"cloning", "fetch", "head"})
                                    = (op[h] \in {"cloning", "fetch", "head"})
    PROVE  OpInv' /\ OneAtATime'
  BY DEF OpInv, OneAtATime, Working

\* A transaction owns the mutex from Suspend to Resume.
LEMMA TxMutex ==
    ASSUME TypeInv, OpInv, OneAtATime, NEW t \in Callers, TxSteps(t)
    PROVE  OpInv' /\ OneAtATime'
<1> t \in Goroutines
  BY DEF Goroutines
<1>1. op \in [Goroutines -> OpStates] /\ tx \in [Callers -> TxStates]
  BY DEF TypeInv, DirInv, DirTypeOK, TxTypeOK
<1>2. CASE Transaction(t)
  <2>1. op' = [op EXCEPT ![t] = "pull"] /\ tx' = [tx EXCEPT ![t] = "pulling"] /\ lock' = lock
        /\ op[t] = "idle" /\ tx[t] = "new"
    BY <1>2 DEF Transaction, Pull
  <2>2. OpInv'
    BY <1>1, <2>1 DEF OpInv, Goroutines
  <2>3. MutexStep(t)
    BY <1>1, <2>1 DEF MutexStep, Working, Suspended
  <2>4. QED
    BY <2>2, <2>3, MutexStepKeepsOrder
<1>3. CASE TxSuspend(t) \/ TxResume(t)
  <2>1. op' = op /\ op[t] = "idle"
    BY <1>3 DEF TxSuspend, TxResume, OpInv
  <2>2. \/ tx[t] = "suspend" /\ tx' = [tx EXCEPT ![t] = "branch"] /\ lock = Free /\ lock' = t
        \/ tx[t] = "resume" /\ tx' = [tx EXCEPT ![t] = "done"] /\ lock' = Free
    BY <1>3 DEF TxSuspend, Suspend, TxResume, Resume
  <2>3. OpInv'
    BY <1>1, <2>1, <2>2 DEF OpInv
  <2>4. MutexStep(t)
    BY <1>1, <2>1, <2>2 DEF MutexStep, Working, Suspended
  <2>5. QED
    BY <2>3, <2>4, MutexStepKeepsOrder
<1>4. CASE Pulled(t) \/ TxBranch(t) \/ FnSteps(t) \/ TxCommitted(t) \/ TxPullRequest(t) \/ TxRestore(t)
  <2>1. op' = op /\ lock' = lock /\ op[t] = "idle"
    BY <1>4 DEF Pulled, TxBranch, CheckoutNewBranch, FnSteps, FnAddMapping, FnOpenFile, FnDelete,
                FnWriteFile, FnReturns, Writes, TxCommitted, TxPullRequest, TxRestore,
                CheckoutMainBranch, dirVars, OpInv
  <2>2. \A h \in Callers \ {t} : tx'[h] = tx[h]
    BY <1>1, <1>4 DEF Pulled, TxBranch, FnSteps, FnAddMapping, FnOpenFile, FnDelete,
                FnWriteFile, FnReturns, TxCommitted, TxPullRequest, TxRestore
  <2>3. (tx'[t] \in Suspended) = (tx[t] \in Suspended)
    BY <1>1, <1>4 DEF Pulled, TxBranch, FnSteps, FnAddMapping, FnOpenFile, FnDelete,
                FnWriteFile, FnReturns, TxCommitted, TxPullRequest, TxRestore, Suspended
  <2>4. OpInv'
    BY <2>1, <2>2 DEF OpInv
  <2>5. MutexStep(t)
    BY <2>1, <2>2, <2>3 DEF MutexStep, Working
  <2>6. QED
    BY <2>4, <2>5, MutexStepKeepsOrder
<1>5. CASE TxCommit(t)
  <2>1. /\ op[t] = "idle" /\ lock' = lock
        /\ \E o \in {"push", "idle"} : op' = [op EXCEPT ![t] = o]
        /\ tx[t] = "commit" /\ tx' = [tx EXCEPT ![t] = "committing"]
    BY <1>5 DEF TxCommit, CreateCommit, Return
  <2>2. OpInv'
    BY <1>1, <2>1 DEF OpInv, Goroutines
  <2>3. MutexStep(t)
    BY <1>1, <2>1 DEF MutexStep, Working, Suspended
  <2>4. QED
    BY <2>2, <2>3, MutexStepKeepsOrder
<1>6. QED
  BY <1>2, <1>3, <1>4, <1>5 DEF TxSteps

LEMMA LockNext == TypeInv /\ OpInv /\ OneAtATime /\ [Next]_vars => OpInv' /\ OneAtATime'
<1> SUFFICES ASSUME TypeInv, OpInv, OneAtATime, [Next]_vars PROVE OpInv' /\ OneAtATime'
  OBVIOUS
<1> Loop \in Goroutines \ Callers /\ Syncer \in Starters /\ Syncer \in Goroutines \ Callers
  BY DEF Goroutines
<1>1. op \in [Goroutines -> OpStates]
  BY DEF TypeInv, DirInv, DirTypeOK
<1>2. CASE SyncSteps
  <2>1. UNCHANGED <<lock, tx>>
    BY <1>2 DEF SyncSteps, NewGitStorage, StartCheckoutLoop, Started, Receive, Walk, WalkFails,
                DecodeFile, SetMappings, dirVars, txVars
  <2>2. op' = op \/ (op[Syncer] \in {"off", "idle"}
                      /\ \E o \in {"idle", "clone"} : op' = [op EXCEPT ![Syncer] = o])
    BY <1>2 DEF SyncSteps, NewGitStorage, StartCheckoutLoop, Return, Started, Receive, Walk,
                WalkFails, DecodeFile, SetMappings, dirVars
  <2>3. QED
    BY <1>1, <2>1, <2>2, OtherMutex DEF Goroutines
<1>3. CASE PullStep(Loop)
  BY <1>3, OperationMutex, MutexStepKeepsOrder DEF PullStep, txVars
<1>4. CASE CloneStep
  <2>1. UNCHANGED tx
    BY <1>4 DEF CloneStep, txVars
  <2>2. CASE SpawnLoop(Syncer)
    BY <1>1, <2>1, <2>2, OtherMutex DEF SpawnLoop, Goroutines
  <2>3. CASE ~SpawnLoop(Syncer)
    BY <1>4, <2>1, <2>3, OperationMutex, MutexStepKeepsOrder DEF CloneStep, CloneSteps
  <2>4. QED
    BY <2>2, <2>3
<1>5. CASE LoopStep
  <2>1. UNCHANGED <<lock, tx>>
    BY <1>5 DEF LoopStep, LoopTick, Pull, LoopExits, txVars
  <2>2. op[Loop] = "idle" /\ \E o \in {"off", "pull"} : op' = [op EXCEPT ![Loop] = o]
    BY <1>5 DEF LoopStep, LoopTick, Pull, LoopExits
  <2>3. QED
    BY <1>1, <2>1, <2>2, OtherMutex DEF Goroutines
<1>6. ASSUME NEW t \in Callers, TxSteps(t) \/ PullStep(t) \/ PushStep(t)
      PROVE  OpInv' /\ OneAtATime'
  <2> t \in Goroutines
    BY DEF Goroutines
  <2>1. CASE TxSteps(t)
    BY <2>1, TxMutex
  <2>2. CASE PullStep(t)
    BY <2>2, OperationMutex, MutexStepKeepsOrder DEF PullStep, txVars
  <2>3. CASE PushStep(t)
    <3>1. UNCHANGED <<lock, tx>> /\ op[t] \in {"push", "report"}
      BY <2>3 DEF PushStep, Push, CommitReports, txVars
    <3>2. \E o \in {"idle", "report"} : op' = [op EXCEPT ![t] = o]
      BY <2>3 DEF PushStep, Push, CommitReports, HandleError, Return, ReturnNil
    <3>3. OpInv'
      BY <1>1, <3>1, <3>2 DEF OpInv, Goroutines
    <3>4. OneAtATime'
      BY <1>1, <3>1, <3>2 DEF OneAtATime, Working
    <3>5. QED
      BY <3>3, <3>4
  <2>4. QED
    BY <1>6, <2>1, <2>2, <2>3
<1>7. CASE Environment
  <2>1. UNCHANGED <<lock, tx, op>>
    BY <1>7 DEF Environment, CleanupCancels, CleanupRemoves, RemoteChanges, CancelContext,
                dirVars, txVars
  <2>2. QED
    BY <2>1, OtherMutex
<1>8. CASE UNCHANGED vars
  BY <1>8, OtherMutex DEF vars, dirVars, txVars
<1>9. QED
  BY <1>2, <1>3, <1>4, <1>5, <1>6, <1>7, <1>8 DEF Next

LEMMA SpecLockInv == Spec => [](OpInv /\ OneAtATime)
  BY SpecTypeInv, LockInit, LockNext, PTL DEF Spec

\* One goroutine at a time works on the clone: the loop's Pull, a caller's Pull, the
\* first clone and the span from Suspend to Resume of a transaction exclude each
\* other, however many callers there are and whatever fails.
THEOREM MutualExclusion == Spec => []OneAtATime
  BY SpecLockInv, PTL

-----------------------------------------------------------------------------
(***************************************************************************)
(* What every transaction leaves behind: the clone on the main branch with *)
(* exactly that branch's files, whatever its function, the network and the *)
(* other users of the remote did.  The proof needs that the checkout of    *)
(* the main branch itself does not fail, whose error the code discards.    *)
(***************************************************************************)
LEMMA CommitsType == TypeInv => commits \in Seq(Commit)
  BY DEF TypeInv, DirInv, DirTypeOK, GitTypeOK

\* Only a transaction's commit and another user's push add a commit.
LEMMA CommitSteps ==
    ASSUME [Next]_vars
    PROVE  \/ UNCHANGED commits
           \/ \E t \in Callers :
                /\ tx[t] = "commit" /\ wt /\ head # NoBranch
                /\ NewCommit(refs[head], AllTracked, t)
                /\ UNCHANGED <<remote, touched>>
           \/ /\ \E k \in Keys, v \in Versions \cup {Absent} : RemoteCommit(k, v)
              /\ UNCHANGED touched
<1>1. CASE \E t \in Callers : TxCommit(t)
  BY <1>1 DEF TxCommit, CreateCommit, WriteError
<1>2. CASE Environment
  BY <1>2 DEF Environment, CleanupCancels, CleanupRemoves, RemoteChanges, RemoteMerge,
              CancelContext, gitVars, txVars
<1>3. QED
  <2>1. SyncSteps \/ CloneStep \/ LoopStep => UNCHANGED commits
    BY DEF SyncSteps, NewGitStorage, StartCheckoutLoop, Started, Receive, Walk, WalkFails,
           DecodeFile, SetMappings, CloneStep, CloneSteps, CloneLock, Clone, ClonedDirectory,
           HeadFails, HeadReports, SpawnLoop, LoopStep, LoopTick, Pull, LoopExits, gitVars
  <2>2. \A g \in Goroutines : PullStep(g) => UNCHANGED commits
    BY DEF PullStep, PullLock, PullFetch, PullWorktree, HeadFails, HeadReports, gitVars
  <2>3. \A t \in Callers : PushStep(t) => UNCHANGED commits
    BY DEF PushStep, Push, CommitReports, gitVars
  <2>4. \A t \in Callers : TxSteps(t) => TxCommit(t) \/ UNCHANGED commits
    BY DEF TxSteps, Transaction, Pull, Pulled, TxSuspend, TxBranch, CheckoutNewBranch, FnSteps,
           FnAddMapping, FnOpenFile, FnDelete, FnWriteFile, FnReturns, Writes, TxCommitted,
           TxPullRequest, TxRestore, CheckoutMainBranch, TxResume, gitVars
  <2>5. UNCHANGED vars => UNCHANGED commits
    BY DEF vars, gitVars
  <2>6. QED
    BY <1>1, <1>2, <2>1, <2>2, <2>3, <2>4, <2>5 DEF Next, Goroutines

LEMMA HistoryNext ==
    ASSUME TypeInv, HistoryInv, [Next]_vars
    PROVE  HistoryGrows /\ HistoryInv'
<1>1. CASE UNCHANGED commits
  <2>1. Len(commits) \in Nat
    BY CommitsType
  <2>2. QED
    BY <1>1, <2>1 DEF HistoryGrows, HistoryInv, Ancestors
<1>2. ASSUME NEW t \in Callers, head # NoBranch, NewCommit(refs[head], AllTracked, t)
      PROVE  HistoryGrows /\ HistoryInv'
  <2>1. refs[head] \in 1..Len(commits)
    BY <1>2 DEF TypeInv, DirInv, DirTypeOK, GitTypeOK, PointersOK, NoCommit
  <2>2. AllTracked \in Files
    BY DEF AllTracked, Files, TypeInv, DirInv, DirTypeOK, GitTypeOK
  <2>3. QED
    BY <1>2, <2>1, <2>2, CommitsType, NewCommitHistory
<1>3. ASSUME NEW k \in Keys, NEW v \in Versions \cup {Absent}, RemoteCommit(k, v)
      PROVE  HistoryGrows /\ HistoryInv'
  <2> DEFINE tree == [TreeOf(remote[Main]) EXCEPT ![k] = v]
  <2>1. remote[Main] \in 1..Len(commits)
    BY DEF TypeInv, DirInv, DirTypeOK, GitTypeOK, PointersOK, NoCommit
  <2>2. tree \in Files
    BY <2>1, TreeOfType DEF TypeInv, DirInv, DirTypeOK, GitTypeOK, Files
  <2>3. NewCommit(remote[Main], tree, Nobody)
    BY <1>3 DEF RemoteCommit
  <2>4. QED
    BY <2>1, <2>2, <2>3, CommitsType, NewCommitHistory
<1>4. QED
  BY <1>1, <1>2, <1>3, CommitSteps

-----------------------------------------------------------------------------
(***************************************************************************)
(* The strengthening of OnMainWhenFree: a transaction is on its branch     *)
(* from the checkout to its end, and the clone is on the main branch when  *)
(* no transaction is between the two.                                      *)
(***************************************************************************)
OnBranch(t) == tx[t] \in {"fn", "write", "commit", "committing", "pullRequest"}
Left(t) == OnBranch(t) \/ (tx[t] = "restore" /\ CanWrite)
Alive == wt /\ cleanup # "removed"

BranchInv ==
    \A t \in Callers : OnBranch(t) =>
        CanWrite /\ (cleanup # "removed" => head = BranchOf[t])

MainInv ==
    Alive =>
        /\ head # NoBranch
        /\ IsFastForward(refs[Main], remote[Main])
        /\ (\A t \in Callers : ~Left(t)) => head = Main /\ wtree = TreeOf(refs[Main])

IInv == TypeInv /\ OpInv /\ OneAtATime /\ HistoryInv /\ BranchInv /\ MainInv

\* Inside an operation no transaction is between Suspend and Resume, and inside a
\* transaction no other one is.
LEMMA Alone ==
    ASSUME OneAtATime, OpInv, NEW g \in Goroutines,
           \/ op[g] \in {"cloning", "fetch", "head"}
           \/ g \in Callers /\ tx[g] \in Suspended
    PROVE  \A t \in Callers : tx[t] \in Suspended => t = g /\ op[g] \notin {"cloning", "fetch", "head"}
<1>1. lock = g
  BY DEF OneAtATime, Working
<1>2. ASSUME NEW t \in Callers, tx[t] \in Suspended PROVE t = g
  BY <1>1, <1>2 DEF OneAtATime, Working, Goroutines
<1>3. g \in Callers /\ tx[g] \in Suspended => op[g] \notin {"cloning", "fetch", "head"}
  BY DEF OpInv, Suspended
<1>4. QED
  BY <1>2, <1>3

\* The steps that leave the main branch of the clone alone, and its files, too,
\* unless a transaction is on its branch.
LEMMA MainKept ==
    ASSUME IInv, HistoryGrows,
           wt' = wt, head' = head, Alive => refs'[Main] = refs[Main],
           cleanup' # "removed" => cleanup # "removed",
           Alive => IsFastForward(refs[Main], remote[Main])',
           \A t \in Callers : OnBranch(t)' => OnBranch(t),
           \A t \in Callers : Left(t) => Left(t)',
           wtree' = wtree \/ \E t \in Callers : OnBranch(t)'
    PROVE  BranchInv' /\ MainInv'
<1>1. BranchInv'
  BY DEF IInv, BranchInv
<1>2. MainInv'
  <2> SUFFICES ASSUME Alive'
               PROVE  /\ head' # NoBranch
                      /\ IsFastForward(refs[Main], remote[Main])'
                      /\ (\A t \in Callers : ~Left(t)') => head' = Main /\ wtree' = TreeOf(refs[Main])'
    BY DEF MainInv
  <2>1. Alive
    BY DEF Alive
  <2>2. head # NoBranch /\ refs[Main] \in 1..Len(commits)
    BY <2>1 DEF IInv, MainInv, TypeInv, DirInv, DirTypeOK, GitTypeOK, PointersOK, NoCommit
  <2>3. TreeOf(refs[Main])' = TreeOf(refs[Main])
    BY <2>1, <2>2, CommitKept DEF TreeOf
  <2>4. ASSUME \A t \in Callers : ~Left(t)'
        PROVE  head' = Main /\ wtree' = TreeOf(refs[Main])'
    <3>1. \A t \in Callers : ~Left(t) /\ ~OnBranch(t)'
      BY <2>4 DEF Left
    <3>2. QED
      BY <2>1, <2>3, <3>1 DEF IInv, MainInv
  <2>5. QED
    BY <2>1, <2>2, <2>4
<1>3. QED
  BY <1>1, <1>2

\* The worktree after a pull onto a clean main branch is the new commit's tree.
LEMMA CleanReset ==
    ASSUME TypeInv, NEW old \in 1..Len(commits), NEW new \in 1..Len(commits), wtree = TreeOf(old)
    PROVE  ResetTree(old, new) = TreeOf(new)
<1>1. TreeOf(old) \in Files /\ TreeOf(new) \in Files
  BY TreeOfType DEF TypeInv, DirInv, DirTypeOK, GitTypeOK
<1>2. \A k \in Keys : ResetTree(old, new)[k] = TreeOf(new)[k]
  BY DEF ResetTree
<1>3. ResetTree(old, new) \in [Keys -> Versions \cup {Absent, Torn}]
  BY <1>1 DEF ResetTree, Files
<1>4. QED
  BY <1>1, <1>2, <1>3 DEF Files

LEMMA CloneMain ==
    ASSUME IInv, NEW s \in Starters, Clone(s), UNCHANGED tx
    PROVE  BranchInv' /\ MainInv'
<1> s \in Goroutines
  BY DEF Goroutines
<1>1. \A t \in Callers : ~OnBranch(t) /\ ~Left(t)
  BY Alone DEF Clone, IInv, OnBranch, Left, Suspended
<1>2. \A t \in Callers : ~OnBranch(t)' /\ ~Left(t)'
  BY <1>1 DEF OnBranch, Left
<1>3. PICK e \in ContextErrors(s), done \in BOOLEAN :
        /\ IF done THEN ClonedDirectory ELSE UNCHANGED gitVars
        /\ HandleError(s, e, done, "head")
  BY DEF Clone
<1>4. BranchInv'
  BY <1>2 DEF BranchInv
<1>5. CASE done
  <2>1. /\ refs'[Main] = remote[Main] /\ head' = Main /\ wtree' = TreeOf(remote[Main])
        /\ UNCHANGED <<commits, remote>>
    BY <1>3, <1>5 DEF ClonedDirectory, IInv, TypeInv, DirInv, DirTypeOK, GitTypeOK
  <2>2. remote[Main] \in 1..Len(commits)
    BY DEF IInv, TypeInv, DirInv, DirTypeOK, GitTypeOK, PointersOK, NoCommit
  <2>3. remote[Main] \in Ancestors(remote[Main])
    BY <2>2 DEF IInv, HistoryInv
  <2>4. QED
    BY <1>4, <2>1, <2>3 DEF MainInv, IsFastForward, TreeOf, Ancestors
<1>6. CASE ~done
  <2>1. UNCHANGED gitVars
    BY <1>3, <1>6
  <2>2. op'[s] # "head"
    BY <1>3, <1>6 DEF ContextErrors, HandleError, Return, ReturnNil, IInv, TypeInv, DirInv, DirTypeOK
  <2>3. wt' = wt /\ cleanup' = cleanup
    BY <2>2 DEF Clone, IInv, TypeInv, DirInv, DirTypeOK
  <2>4. QED
    BY <1>1, <1>4, <2>1, <2>3
    DEF IInv, MainInv, Alive, IsFastForward, TreeOf, Ancestors, gitVars
<1>7. QED
  BY <1>5, <1>6

LEMMA PullMain ==
    ASSUME IInv, NEW g \in Goroutines, PullFetch(g), UNCHANGED tx
    PROVE  BranchInv' /\ MainInv'
<1>1. \A t \in Callers : ~OnBranch(t) /\ ~Left(t)
  BY Alone DEF PullFetch, IInv, OnBranch, Left, Suspended
<1>2. \A t \in Callers : ~OnBranch(t)' /\ ~Left(t)'
  BY <1>1 DEF OnBranch, Left
<1>3. BranchInv'
  BY <1>2 DEF BranchInv
<1>4. UNCHANGED <<wt, cleanup>>
  BY DEF PullFetch
<1>5. CASE Alive /\ PullWorktree /\ PullMoves
  <2>1. /\ head = Main /\ wtree = TreeOf(refs[Main])
        /\ Main # NoBranch
    BY <1>1, <1>5 DEF IInv, MainInv
  <2>2. refs[Main] \in 1..Len(commits) /\ remote[Main] \in 1..Len(commits)
    BY <2>1 DEF IInv, TypeInv, DirInv, DirTypeOK, GitTypeOK, PointersOK, NoCommit
  <2>3. ~UnstagedChanges
    BY <2>1 DEF UnstagedChanges
  <2>4. /\ refs' = [refs EXCEPT ![Main] = remote[Main]]
        /\ wtree' = ResetTree(refs[Main], remote[Main])
        /\ UNCHANGED <<commits, remote, head>>
    BY <1>5, <2>1, <2>3 DEF PullWorktree
  <2>5. refs'[Main] = remote[Main] /\ wtree' = TreeOf(remote[Main])
    BY <2>1, <2>2, <2>4, CleanReset DEF IInv, TypeInv, DirInv, DirTypeOK, GitTypeOK
  <2>6. remote[Main] \in Ancestors(remote[Main])
    BY <2>2 DEF IInv, HistoryInv
  <2>7. QED
    BY <1>3, <2>1, <2>4, <2>5, <2>6 DEF MainInv, IsFastForward, TreeOf, Ancestors
<1>6. CASE Alive /\ UNCHANGED gitVars
  BY <1>1, <1>3, <1>4, <1>6
  DEF IInv, MainInv, Alive, IsFastForward, TreeOf, Ancestors, gitVars
<1>7. CASE ~Alive
  BY <1>3, <1>4, <1>7 DEF MainInv, Alive
<1>8. QED
  BY <1>5, <1>6, <1>7 DEF PullFetch, PullWorktree

\* The checkouts at both ends of a transaction.
LEMMA TxBranchMain ==
    ASSUME IInv, NEW t \in Callers, TxBranch(t)
    PROVE  BranchInv' /\ MainInv'
<1> t \in Goroutines /\ BranchOf[t] \in Branches \ {Main}
  BY DEF Goroutines
<1>1. /\ tx[t] = "branch"
      /\ tx' = [tx EXCEPT ![t] = IF err'[t] = "nil" THEN "fn" ELSE "restore"]
      /\ UNCHANGED <<commits, remote, wtree, wt, cleanup>>
  BY DEF TxBranch, CheckoutNewBranch
<1>2. tx \in [Callers -> TxStates] /\ refs \in [Branches -> 0..Len(commits)]
  BY DEF IInv, TypeInv, TxTypeOK, DirInv, DirTypeOK, GitTypeOK
<1>3. \A u \in Callers : ~OnBranch(u) /\ ~Left(u)
  <2>1. ~OnBranch(t) /\ ~Left(t)
    BY <1>1 DEF OnBranch, Left
  <2>2. QED
    BY <1>1, <2>1, Alone DEF IInv, OnBranch, Left, Suspended
<1>4. \A u \in Callers \ {t} : ~OnBranch(u)' /\ ~Left(u)'
  BY <1>1, <1>2, <1>3 DEF OnBranch, Left
<1>5. refs'[Main] = refs[Main]
  BY <1>2 DEF TxBranch, CheckoutNewBranch
<1>6. CASE err'[t] = "nil"
  <2>1. CanWrite /\ head' = BranchOf[t] /\ head' # NoBranch
    BY <1>6 DEF TxBranch, CheckoutNewBranch, WriteError, IInv, TypeInv, DirInv, DirTypeOK
  <2>2. OnBranch(t)'
    BY <1>1, <1>2, <1>6 DEF OnBranch
  <2>3. BranchInv'
    BY <1>4, <2>1 DEF BranchInv
  <2>4. MainInv'
    BY <1>1, <1>5, <2>1, <2>2 DEF IInv, MainInv, Alive, Left, IsFastForward, Ancestors
  <2>5. QED
    BY <2>3, <2>4
<1>7. CASE err'[t] # "nil"
  <2>1. tx'[t] = "restore"
    BY <1>1, <1>2, <1>7
  <2>2. ~OnBranch(t)' /\ (CanWrite => Left(t)')
    BY <2>1 DEF OnBranch, Left
  <2>3. BranchInv'
    BY <1>4, <2>2 DEF BranchInv
  <2>4. head # NoBranch => head' # NoBranch
    BY DEF TxBranch, CheckoutNewBranch
  <2>5. ~CanWrite => head' = head
    BY DEF TxBranch, CheckoutNewBranch, WriteError
  <2>6. MainInv'
    BY <1>1, <1>3, <1>5, <2>2, <2>4, <2>5
    DEF IInv, MainInv, Alive, IsFastForward, Ancestors, TreeOf
  <2>7. QED
    BY <2>3, <2>6
<1>8. QED
  BY <1>6, <1>7

LEMMA TxRestoreMain ==
    ASSUME IInv, NEW t \in Callers, TxRestore(t), "restore" \notin Faults
    PROVE  BranchInv' /\ MainInv'
<1> t \in Goroutines
  BY DEF Goroutines
<1>1. /\ tx[t] = "restore"
      /\ tx' = [tx EXCEPT ![t] = "resume"]
      /\ UNCHANGED <<commits, remote, refs, wt, cleanup>>
  BY DEF TxRestore, CheckoutMainBranch
<1>2. tx \in [Callers -> TxStates]
  BY DEF IInv, TypeInv, TxTypeOK
<1>3. \A u \in Callers \ {t} : ~OnBranch(u) /\ ~Left(u)
  BY <1>1, Alone DEF IInv, OnBranch, Left, Suspended
<1>4. \A u \in Callers : ~OnBranch(u)' /\ ~Left(u)'
  BY <1>1, <1>2, <1>3 DEF OnBranch, Left
<1>5. BranchInv'
  BY <1>4 DEF BranchInv
<1>6. CASE head # NoBranch /\ WriteError = "nil"
  <2>1. head' = Main /\ wtree' = TreeOf(refs[Main])
    BY <1>6 DEF TxRestore, CheckoutMainBranch
  <2>2. QED
    BY <1>1, <1>5, <2>1 DEF IInv, MainInv, Alive, IsFastForward, Ancestors, TreeOf
<1>7. CASE ~(head # NoBranch /\ WriteError = "nil")
  <2>1. UNCHANGED <<head, wtree>>
    BY <1>7 DEF TxRestore, CheckoutMainBranch
  <2>2. Alive => ~CanWrite
    BY <1>7 DEF IInv, MainInv, Alive, WriteError
  <2>3. Alive => \A u \in Callers : ~Left(u)
    BY <1>1, <1>3, <2>2 DEF Left, OnBranch
  <2>4. QED
    BY <1>1, <1>5, <2>1, <2>3 DEF IInv, MainInv, Alive, IsFastForward, Ancestors, TreeOf
<1>8. QED
  BY <1>6, <1>7

\* The function and the commit work on the transaction's branch.
LEMMA TxStepsMain ==
    ASSUME IInv, HistoryGrows, NEW t \in Callers, TxSteps(t), "restore" \notin Faults
    PROVE  BranchInv' /\ MainInv'
<1> t \in Goroutines /\ BranchOf[t] \in Branches \ {Main}
  BY DEF Goroutines
<1>1. tx \in [Callers -> TxStates] /\ refs \in [Branches -> 0..Len(commits)]
  BY DEF IInv, TypeInv, TxTypeOK, DirInv, DirTypeOK, GitTypeOK
<1>2. CASE TxBranch(t)
  BY <1>2, TxBranchMain
<1>3. CASE TxRestore(t)
  BY <1>3, TxRestoreMain
<1>4. CASE Transaction(t) \/ Pulled(t) \/ TxSuspend(t) \/ TxCommitted(t) \/ TxPullRequest(t)
           \/ TxResume(t) \/ \E r \in FnResults : FnReturns(t, r)
  <2>1. UNCHANGED <<gitVars, wt, cleanup>>
    BY <1>4 DEF Transaction, Pull, Pulled, TxSuspend, TxCommitted, TxPullRequest, TxResume,
                FnReturns, dirVars
  <2>2. /\ tx[t] \in {"new", "pulling", "suspend", "resume"} =>
                tx'[t] \in {"pulling", "suspend", "done", "branch"}
        /\ tx[t] \in {"fn", "committing", "pullRequest"} =>
                tx'[t] \in {"commit", "pullRequest", "restore"}
        /\ tx[t] \in {"new", "pulling", "suspend", "resume", "fn", "committing", "pullRequest"}
        /\ \A u \in Callers \ {t} : tx'[u] = tx[u]
    BY <1>1, <1>4 DEF Transaction, Pulled, TxSuspend, TxCommitted, TxPullRequest, TxResume, FnReturns
  <2>3. \A u \in Callers : OnBranch(u)' => OnBranch(u)
    BY <2>2 DEF OnBranch
  <2>4. \A u \in Callers : Left(u) => Left(u)'
    BY <2>2 DEF IInv, BranchInv, OnBranch, Left
  <2>5. Alive => IsFastForward(refs[Main], remote[Main])'
    BY <2>1 DEF IInv, MainInv, IsFastForward, Ancestors, gitVars
  <2>6. QED
    BY <2>1, <2>3, <2>4, <2>5, MainKept DEF gitVars
<1>5. CASE (\E k \in Keys : FnAddMapping(t, k) \/ FnOpenFile(t, k) \/ FnDelete(t, k))
           \/ \E v \in Versions : FnWriteFile(t, v)
  <2>1. UNCHANGED <<commits, remote, refs, head, wt, cleanup>>
    BY <1>5 DEF FnAddMapping, FnOpenFile, FnDelete, Writes, FnWriteFile, dirVars
  <2>2. tx[t] \in {"fn", "write"} /\ tx'[t] \in {"fn", "write"} /\ \A u \in Callers \ {t} : tx'[u] = tx[u]
    BY <1>1, <1>5 DEF FnAddMapping, FnOpenFile, FnDelete, FnWriteFile
  <2>3. OnBranch(t) /\ OnBranch(t)'
    BY <2>2 DEF OnBranch
  <2>4. \A u \in Callers : (OnBranch(u)' <=> OnBranch(u)) /\ (Left(u)' <=> Left(u))
    BY <2>2, <2>3 DEF OnBranch, Left
  <2>5. Alive => IsFastForward(refs[Main], remote[Main])'
    BY <2>1 DEF IInv, MainInv, IsFastForward, Ancestors
  <2>6. QED
    BY <2>1, <2>3, <2>4, <2>5, MainKept
<1>6. CASE TxCommit(t)
  <2>1. UNCHANGED <<remote, head, wtree, wt, cleanup>>
    BY <1>6 DEF TxCommit, CreateCommit
  <2>2. tx[t] = "commit" /\ tx' = [tx EXCEPT ![t] = "committing"]
    BY <1>6 DEF TxCommit
  <2>3. \A u \in Callers : (OnBranch(u)' <=> OnBranch(u)) /\ (Left(u)' <=> Left(u))
    BY <1>1, <2>2 DEF OnBranch, Left
  <2>4. Alive => head = BranchOf[t]
    BY <2>2 DEF IInv, BranchInv, OnBranch, Alive
  <2>5. Alive => refs'[Main] = refs[Main]
    BY <1>1, <1>6, <2>4 DEF TxCommit, CreateCommit
  <2>6. Alive => IsFastForward(refs[Main], remote[Main])'
    <3>1. remote[Main] \in 1..Len(commits)
      BY DEF IInv, TypeInv, DirInv, DirTypeOK, GitTypeOK, PointersOK, NoCommit
    <3>2. QED
      BY <2>1, <2>5, <3>1, CommitKept DEF IInv, MainInv, IsFastForward, Ancestors
  <2>7. QED
    BY <2>1, <2>3, <2>5, <2>6, MainKept
<1>7. QED
  BY <1>2, <1>3, <1>4, <1>5, <1>6 DEF TxSteps, FnSteps

\* A push may move the remote's main branch only to the commit the clone has; other
\* users move it forward.
LEMMA RemoteMain ==
    ASSUME IInv, HistoryGrows, UNCHANGED <<wt, refs, head, wtree, tx, cleanup>>,
           \/ UNCHANGED <<commits, remote>>
           \/ RemoteChanges
           \/ \E t \in Callers : Push(t)
    PROVE  BranchInv' /\ MainInv'
<1>1. refs[Main] \in 0..Len(commits) /\ remote[Main] \in 1..Len(commits)
  BY DEF IInv, TypeInv, DirInv, DirTypeOK, GitTypeOK, PointersOK, NoCommit
<1>2. Alive => refs[Main] \in 1..Len(commits) /\ refs[Main] \in Ancestors(remote[Main])
  BY DEF IInv, MainInv, IsFastForward, TypeInv, DirInv, DirTypeOK, GitTypeOK, PointersOK, NoCommit
<1>3. Alive => IsFastForward(refs[Main], remote[Main])'
  <2>1. CASE UNCHANGED <<commits, remote>>
    BY <1>2, <2>1 DEF IsFastForward, Ancestors
  <2>2. CASE \E t \in Callers : Push(t)
    <3>1. UNCHANGED commits /\ (UNCHANGED remote \/ (PushAccepted /\ remote' = PushedBranches))
      BY <2>2 DEF Push
    <3>2. CASE PushAccepted /\ remote' = PushedBranches
      BY <1>1, <1>2, <3>1, <3>2 DEF PushedBranches, LocalBranches, NoCommit, IInv, HistoryInv,
                                    IsFastForward, Ancestors
    <3>3. QED
      BY <2>1, <3>1, <3>2
  <2>3. ASSUME NEW k \in Keys, NEW v \in Versions \cup {Absent}, RemoteCommit(k, v)
        PROVE  Alive => IsFastForward(refs[Main], remote[Main])'
    <3> DEFINE tree == [TreeOf(remote[Main]) EXCEPT ![k] = v]
    <3>1. tree \in Files
      BY <1>1, TreeOfType DEF IInv, TypeInv, DirInv, DirTypeOK, GitTypeOK, Files
    <3>2. NewCommit(remote[Main], tree, Nobody) /\ remote' = [remote EXCEPT ![Main] = Len(commits) + 1]
      BY <2>3 DEF RemoteCommit
    <3>3. commits'[Len(commits) + 1].anc = Ancestors(remote[Main]) \cup {Len(commits) + 1}
      BY <1>1, <3>1, <3>2, CommitsType, NewCommitHistory DEF IInv
    <3>4. remote'[Main] = Len(commits) + 1
      BY <3>2 DEF IInv, TypeInv, DirInv, DirTypeOK, GitTypeOK
    <3>5. QED
      BY <1>2, <3>3, <3>4 DEF IsFastForward, Ancestors
  <2>4. ASSUME NEW b \in Branches, RemoteMerge(b)
        PROVE  Alive => IsFastForward(refs[Main], remote[Main])'
    <3>1. /\ remote[b] \in 1..Len(commits) /\ remote[Main] \in Ancestors(remote[b])
          /\ remote' = [remote EXCEPT ![Main] = remote[b]] /\ UNCHANGED commits
      BY <2>4 DEF RemoteMerge, IsFastForward, NoCommit, IInv, TypeInv, DirInv, DirTypeOK, GitTypeOK
    <3>2. Ancestors(remote[Main]) \subseteq Ancestors(remote[b])
      BY <3>1 DEF IInv, HistoryInv
    <3>3. remote'[Main] = remote[b]
      BY <3>1 DEF IInv, TypeInv, DirInv, DirTypeOK, GitTypeOK
    <3>4. QED
      BY <1>2, <3>1, <3>2, <3>3 DEF IsFastForward, Ancestors
  <2>5. QED
    BY <2>1, <2>2, <2>3, <2>4 DEF RemoteChanges
<1>4. \A t \in Callers : (OnBranch(t)' <=> OnBranch(t)) /\ (Left(t)' <=> Left(t))
  BY DEF OnBranch, Left
<1>5. QED
  BY <1>3, <1>4, MainKept

LEMMA MainInit == Init => IInv
<1> SUFFICES ASSUME Init PROVE IInv
  OBVIOUS
<1>1. TypeInv /\ OpInv /\ OneAtATime
  BY TypeInit, LockInit
<1>2. HistoryInv
  <2>1. PICK tree \in Tree :
          commits = <<[tree |-> tree, parent |-> NoCommit, anc |-> {1}, by |-> Nobody]>>
    BY DEF Init, DirInit, GitInit
  <2>2. Len(commits) = 1 /\ commits[1].anc = {1}
    BY <2>1
  <2>3. QED
    BY <2>2 DEF HistoryInv, Ancestors
<1>3. BranchInv
  BY DEF Init, BranchInv, OnBranch
<1>4. MainInv
  BY DEF Init, DirInit, MainInv, Alive
<1>5. QED
  BY <1>1, <1>2, <1>3, <1>4 DEF IInv

LEMMA MainNext ==
    ASSUME IInv, [Next]_vars, "restore" \notin Faults
    PROVE  IInv'
<1> Loop \in Goroutines /\ Syncer \in Starters
  BY DEF Goroutines
<1>1. TypeInv' /\ OpInv' /\ OneAtATime'
  BY TypeNext, LockNext DEF IInv
<1>2. HistoryGrows /\ HistoryInv'
  BY HistoryNext DEF IInv
<1>3. ASSUME UNCHANGED <<gitVars, wt, tx, cleanup>> PROVE BranchInv' /\ MainInv'
  BY <1>2, <1>3, RemoteMain DEF gitVars
<1>4. CASE SyncSteps
  <2>1. UNCHANGED <<gitVars, wt, tx, cleanup>>
    BY <1>4 DEF SyncSteps, NewGitStorage, StartCheckoutLoop, Started, Receive, Walk, WalkFails,
                DecodeFile, SetMappings, dirVars, txVars
  <2>2. QED
    BY <1>1, <1>2, <1>3, <2>1 DEF IInv
<1>5. CASE CloneStep
  <2>1. UNCHANGED tx
    BY <1>5 DEF CloneStep, txVars
  <2>2. CASE Clone(Syncer)
    BY <1>1, <1>2, <2>1, <2>2, CloneMain DEF IInv
  <2>3. CASE ~Clone(Syncer)
    <3>1. UNCHANGED <<gitVars, wt, cleanup>>
      BY <1>5, <2>3 DEF CloneStep, CloneSteps, CloneLock, HeadFails, HeadReports, SpawnLoop
    <3>2. QED
      BY <1>1, <1>2, <1>3, <2>1, <3>1 DEF IInv
  <2>4. QED
    BY <2>2, <2>3
<1>6. CASE LoopStep
  <2>1. UNCHANGED <<gitVars, wt, tx, cleanup>>
    BY <1>6 DEF LoopStep, LoopTick, Pull, LoopExits, txVars
  <2>2. QED
    BY <1>1, <1>2, <1>3, <2>1 DEF IInv
<1>7. ASSUME NEW g \in Goroutines, PullStep(g) PROVE IInv'
  <2>1. UNCHANGED tx
    BY <1>7 DEF PullStep, txVars
  <2>2. CASE PullFetch(g)
    BY <1>1, <1>2, <2>1, <2>2, PullMain DEF IInv
  <2>3. CASE ~PullFetch(g)
    <3>1. UNCHANGED <<gitVars, wt, cleanup>>
      BY <1>7, <2>3 DEF PullStep, PullLock, HeadFails, HeadReports
    <3>2. QED
      BY <1>1, <1>2, <1>3, <2>1, <3>1 DEF IInv
  <2>4. QED
    BY <2>2, <2>3
<1>8. ASSUME NEW t \in Callers, TxSteps(t) PROVE IInv'
  BY <1>1, <1>2, <1>8, TxStepsMain DEF IInv
<1>9. ASSUME NEW t \in Callers, PushStep(t) PROVE IInv'
  <2>1. UNCHANGED tx
    BY <1>9 DEF PushStep, txVars
  <2>2. CASE Push(t)
    <3>1. UNCHANGED <<wt, refs, head, wtree, cleanup>>
      BY <2>2 DEF Push
    <3>2. BranchInv' /\ MainInv'
      BY <1>2, <2>1, <2>2, <3>1, RemoteMain
    <3>3. QED
      BY <1>1, <1>2, <3>2 DEF IInv
  <2>3. CASE CommitReports(t)
    BY <1>1, <1>2, <1>3, <2>1, <2>3 DEF CommitReports, IInv
  <2>4. QED
    BY <1>9, <2>2, <2>3 DEF PushStep
<1>10. CASE Environment
  <2>1. UNCHANGED tx
    BY <1>10 DEF Environment, txVars
  <2>2. CASE RemoteChanges
    <3>1. UNCHANGED <<wt, refs, head, wtree, cleanup>>
      BY <2>2 DEF RemoteChanges, RemoteCommit, RemoteMerge, dirVars
    <3>2. BranchInv' /\ MainInv'
      BY <1>2, <2>1, <2>2, <3>1, RemoteMain
    <3>3. QED
      BY <1>1, <1>2, <3>2 DEF IInv
  <2>3. CASE \E t \in Callers : CancelContext(t)
    BY <1>1, <1>2, <1>3, <2>1, <2>3 DEF CancelContext, IInv
  <2>4. CASE CleanupCancels
    <3>1. UNCHANGED <<gitVars, wt>> /\ cleanup = "up" /\ cleanup' = "cancelled"
      BY <2>4 DEF CleanupCancels
    <3>2. BranchInv'
      BY <2>1, <3>1 DEF IInv, BranchInv, OnBranch, gitVars
    <3>3. MainInv'
      BY <2>1, <3>1 DEF IInv, MainInv, Alive, Left, OnBranch, IsFastForward, Ancestors, TreeOf, gitVars
    <3>4. QED
      BY <1>1, <1>2, <3>2, <3>3 DEF IInv
  <2>5. CASE CleanupRemoves
    <3>1. cleanup' = "removed"
      BY <2>5 DEF CleanupRemoves
    <3>2. BranchInv' /\ MainInv'
      BY <2>1, <3>1 DEF IInv, BranchInv, OnBranch, MainInv, Alive
    <3>3. QED
      BY <1>1, <1>2, <3>2 DEF IInv
  <2>6. QED
    BY <1>10, <2>2, <2>3, <2>4, <2>5 DEF Environment
<1>11. CASE UNCHANGED vars
  BY <1>1, <1>2, <1>3, <1>11 DEF vars, dirVars, txVars, IInv
<1>12. QED
  BY <1>4, <1>5, <1>6, <1>7, <1>8, <1>9, <1>10, <1>11 DEF Next, Goroutines

LEMMA MainFree == IInv => OnMainWhenFree
<1> SUFFICES ASSUME IInv, lock = Free, Alive PROVE MainCheckedOut
  BY DEF OnMainWhenFree, Alive
<1>1. \A t \in Callers : tx[t] \notin Suspended
  BY DEF IInv, OneAtATime, Working, Goroutines
<1>2. \A t \in Callers : ~Left(t)
  BY <1>1 DEF Left, OnBranch, Suspended
<1>3. QED
  BY <1>2 DEF IInv, MainInv, MainCheckedOut

\* "Always switch back to the main branch afterwards" (git.go): whenever nobody
\* holds the mutex, a started clone that was not cleaned up is on the main branch,
\* at a commit of the remote's main branch, with exactly its files - for any number
\* of transactions and whatever their functions and the network do, as long as the
\* checkout of the main branch, whose error is discarded, does not fail.
THEOREM MainBranchRestored ==
    ASSUME "restore" \notin Faults
    PROVE  Spec => []OnMainWhenFree
<1>1. IInv /\ [Next]_vars => IInv'
  BY MainNext
<1>2. Spec => []IInv
  BY <1>1, MainInit, PTL DEF Spec
<1>3. QED
  BY <1>2, MainFree, PTL

-----------------------------------------------------------------------------
(***************************************************************************)
(* What transactions see and what they publish: a function works on the    *)
(* main branch and its own writes, its commit changes nothing else, and    *)
(* its push leaves the remote's main branch alone.  As for MainBranch,     *)
(* the checkout of the main branch must not fail.                          *)
(***************************************************************************)
NoTorn(tree) == \A k \in Keys : tree[k] # Torn

\* No commit has a half-written file.
TreesWhole == \A c \in 1..Len(commits) : NoTorn(TreeOf(c))

\* Nothing is left of a directory that was removed.
GoneInv == cleanup = "removed" => head = NoBranch

\* Only a started directory pushes.
PushStarted == \A t \in Callers : op[t] = "push" => wt

InFn(t) == tx[t] \in {"fn", "write", "commit"}

\* What FnSeesMainAndItself says, and that a function has finished its writes
\* before it returns.
FnInv ==
    \A t \in Callers : InFn(t) /\ cleanup # "removed" =>
        /\ head = BranchOf[t]
        /\ refs[head] = refs[Main]
        /\ \A k \in Keys \ touched[t] : wtree[k] = TreeOf(refs[Main])[k]
        /\ tx[t] # "write" => NoTorn(wtree)

\* What CommitIsolation says of one commit.
Isolated(c) ==
    commits[c].by # Nobody =>
        /\ commits[c].parent \in 1..Len(commits)
        /\ IsFastForward(commits[c].parent, remote[Main])
        /\ \A k \in Keys \ touched[commits[c].by] : TreeOf(c)[k] = TreeOf(commits[c].parent)[k]

AllIsolated == \A c \in 1..Len(commits) : Isolated(c)

IsoInv ==
    IInv /\ TreesWhole /\ GoneInv /\ PushStarted /\ FnInv /\ AllIsolated

-----------------------------------------------------------------------------
(***************************************************************************)
(* Commits.                                                                *)
(***************************************************************************)
\* The record of a new commit; the other ones stay.
LEMMA LastCommit ==
    ASSUME TypeInv, NEW parent \in 1..Len(commits), NEW tree \in Files,
           NEW author \in Callers \cup {Nobody},
           NewCommit(parent, tree, author)
    PROVE  /\ Len(commits) \in Nat
           /\ Len(commits') = Len(commits) + 1
           /\ DOMAIN commits = 1..Len(commits)
           /\ DOMAIN commits' = 1..Len(commits) + 1
           /\ \A c \in 1..Len(commits) : commits'[c] = commits[c]
           /\ commits'[Len(commits) + 1].tree = tree
           /\ commits'[Len(commits) + 1].by = author
           /\ commits'[Len(commits) + 1].parent = parent
           /\ commits'[Len(commits) + 1].anc = Ancestors(parent) \cup {Len(commits) + 1}
<1>1. commits \in Seq(Commit)
  BY DEF TypeInv, DirInv, DirTypeOK, GitTypeOK
<1>2. /\ commits' \in Seq(Commit)
      /\ Len(commits') = Len(commits) + 1
      /\ \A c \in 1..Len(commits) : commits'[c] = commits[c]
      /\ commits'[Len(commits) + 1] =
           [tree |-> tree, parent |-> parent, by |-> author,
            anc |-> commits[parent].anc \cup {Len(commits) + 1}]
  BY <1>1, NewCommitAppends
<1>3. DOMAIN commits = 1..Len(commits) /\ DOMAIN commits' = 1..Len(commits')
  BY <1>1, <1>2
<1>4. Len(commits) \in Nat
  BY <1>1
<1>5. QED
  BY <1>2, <1>3, <1>4 DEF Ancestors

\* The parent and the tree of a commit that a step adds exist, and the tree has
\* no half-written file.
LEMMA NewCommitParts ==
    ASSUME IInv, TreesWhole, GoneInv, FnInv,
           NEW t \in Callers, tx[t] = "commit", head # NoBranch
    PROVE  /\ refs[head] \in 1..Len(commits)
           /\ AllTracked \in Files
           /\ NoTorn(AllTracked)
           /\ cleanup # "removed"
<1>1. refs[head] \in 1..Len(commits) /\ AllTracked \in Files
  BY DEF AllTracked, Files, IInv, TypeInv, DirInv, DirTypeOK, GitTypeOK, PointersOK, NoCommit
<1>2. cleanup # "removed"
  BY DEF GoneInv
<1>3. NoTorn(wtree)
  BY <1>2 DEF FnInv, InFn
<1>4. QED
  BY <1>1, <1>2, <1>3 DEF NoTorn, AllTracked

LEMMA RemoteCommitParts ==
    ASSUME IInv, TreesWhole, NEW k \in Keys, NEW v \in Versions \cup {Absent}
    PROVE  /\ remote[Main] \in 1..Len(commits)
           /\ [TreeOf(remote[Main]) EXCEPT ![k] = v] \in Files
           /\ NoTorn([TreeOf(remote[Main]) EXCEPT ![k] = v])
<1>1. remote[Main] \in 1..Len(commits)
  BY DEF IInv, TypeInv, DirInv, DirTypeOK, GitTypeOK, PointersOK, NoCommit
<1>2. TreeOf(remote[Main]) \in Files
  BY <1>1, TreeOfType DEF IInv, TypeInv, DirInv, DirTypeOK, GitTypeOK
<1>3. QED
  BY <1>1, <1>2 DEF TreesWhole, NoTorn, Files

\* A new commit is whole when its tree is.
LEMMA NewCommitWhole ==
    ASSUME IInv, TreesWhole,
           NEW parent \in 1..Len(commits), NEW tree \in Files, NoTorn(tree),
           NEW author \in Callers \cup {Nobody},
           NewCommit(parent, tree, author)
    PROVE  TreesWhole'
<1> DEFINE n == Len(commits)
<1>1. /\ n \in Nat /\ Len(commits') = n + 1
      /\ \A c \in 1..n : commits'[c] = commits[c]
      /\ commits'[n + 1].tree = tree
  BY LastCommit DEF IInv
<1>2. \A c \in 1..(n + 1) : c \in 1..n \/ c = n + 1
  BY <1>1
<1>3. TreesWhole'
  <2>1. ASSUME NEW c \in 1..(n + 1)
        PROVE  NoTorn(commits'[c].tree)
    <3>1. CASE c \in 1..n
      BY <1>1, <3>1 DEF TreesWhole, TreeOf
    <3>2. CASE c = n + 1
      BY <1>1, <3>2
    <3>3. QED
      BY <1>2, <3>1, <3>2
  <2>2. QED
    BY <1>1, <2>1 DEF TreesWhole, TreeOf, NoTorn
<1>4. QED
  BY <1>3

LEMMA CommitsWhole ==
    ASSUME IsoInv, [Next]_vars
    PROVE  TreesWhole'
<1> USE DEF IsoInv
<1>1. CASE UNCHANGED commits
  BY <1>1 DEF TreesWhole, TreeOf, NoTorn
<1>2. ASSUME NEW t \in Callers, tx[t] = "commit", head # NoBranch,
             NewCommit(refs[head], AllTracked, t)
      PROVE  TreesWhole'
  BY <1>2, NewCommitParts, NewCommitWhole
<1>3. ASSUME NEW k \in Keys, NEW v \in Versions \cup {Absent}, RemoteCommit(k, v)
      PROVE  TreesWhole'
  <2> DEFINE tree == [TreeOf(remote[Main]) EXCEPT ![k] = v]
  <2>1. remote[Main] \in 1..Len(commits) /\ tree \in Files /\ NoTorn(tree)
    BY RemoteCommitParts
  <2>2. NewCommit(remote[Main], tree, Nobody)
    BY <1>3 DEF RemoteCommit
  <2> HIDE DEF tree
  <2>3. QED
    BY <2>1, <2>2, NewCommitWhole
<1>4. QED
  BY <1>1, <1>2, <1>3, CommitSteps

-----------------------------------------------------------------------------
(***************************************************************************)
(* The remote's main branch.                                               *)
(***************************************************************************)
\* A push that is accepted takes the main branch where it is already: the clone's
\* is behind the remote's, and a fast-forward.
LEMMA PushMain ==
    ASSUME IsoInv, NEW t \in Callers, Push(t)
    PROVE  remote'[Main] = remote[Main]
<1>1. remote' = remote \/ (PushAccepted /\ remote' = PushedBranches)
  BY DEF Push
<1>2. CASE PushAccepted /\ remote' = PushedBranches
  <2>1. head # NoBranch /\ wt /\ cleanup # "removed"
    BY <1>2 DEF PushAccepted, Push, IsoInv, GoneInv, PushStarted
  <2>2. /\ refs[Main] \in 1..Len(commits) /\ remote[Main] \in 1..Len(commits)
        /\ Len(commits) \in Nat
    BY <2>1 DEF IsoInv, IInv, TypeInv, DirInv, DirTypeOK, GitTypeOK, PointersOK, NoCommit
  <2>3. refs[Main] \in Ancestors(remote[Main])
    BY <2>1 DEF IsoInv, IInv, MainInv, Alive, IsFastForward
  <2>4. remote[Main] \in Ancestors(refs[Main]) /\ remote'[Main] = refs[Main]
    BY <1>2, <2>2 DEF PushAccepted, LocalBranches, IsFastForward, NoCommit, PushedBranches
  <2>5. refs[Main] <= remote[Main] /\ remote[Main] <= refs[Main]
    BY <2>2, <2>3, <2>4 DEF IsoInv, IInv, HistoryInv
  <2>6. QED
    BY <2>2, <2>4, <2>5
<1>3. QED
  BY <1>1, <1>2

\* What the remote's main branch has, it keeps.
LEMMA MainForward ==
    ASSUME IsoInv, HistoryGrows, [Next]_vars,
           NEW c \in 1..Len(commits), IsFastForward(c, remote[Main])
    PROVE  IsFastForward(c, remote[Main])'
<1>1. remote[Main] \in 1..Len(commits)
  BY DEF IsoInv, IInv, TypeInv, DirInv, DirTypeOK, GitTypeOK, PointersOK, NoCommit
<1>2. CASE remote'[Main] = remote[Main]
  BY <1>1, <1>2 DEF HistoryGrows, IsFastForward, Ancestors
<1>3. ASSUME NEW k \in Keys, NEW v \in Versions \cup {Absent}, RemoteCommit(k, v)
      PROVE  IsFastForward(c, remote[Main])'
  <2> DEFINE tree == [TreeOf(remote[Main]) EXCEPT ![k] = v]
  <2>1. tree \in Files
    BY RemoteCommitParts DEF IsoInv
  <2>2. NewCommit(remote[Main], tree, Nobody) /\ remote' = [remote EXCEPT ![Main] = Len(commits) + 1]
    BY <1>3 DEF RemoteCommit
  <2> HIDE DEF tree
  <2>3. commits'[Len(commits) + 1].anc = Ancestors(remote[Main]) \cup {Len(commits) + 1}
    BY <1>1, <2>1, <2>2, LastCommit DEF IsoInv, IInv
  <2>4. remote'[Main] = Len(commits) + 1
    BY <2>2 DEF IsoInv, IInv, TypeInv, DirInv, DirTypeOK, GitTypeOK
  <2>5. QED
    BY <2>3, <2>4 DEF IsFastForward, Ancestors
<1>4. ASSUME NEW b \in Branches, RemoteMerge(b)
      PROVE  IsFastForward(c, remote[Main])'
  <2>1. /\ remote[b] \in 1..Len(commits) /\ remote[Main] \in Ancestors(remote[b])
        /\ remote' = [remote EXCEPT ![Main] = remote[b]] /\ UNCHANGED commits
    BY <1>4 DEF RemoteMerge, IsFastForward, NoCommit, IsoInv, IInv, TypeInv, DirInv, DirTypeOK,
                GitTypeOK
  <2>2. Ancestors(remote[Main]) \subseteq Ancestors(remote[b])
    BY <2>1 DEF IsoInv, IInv, HistoryInv
  <2>3. remote'[Main] = remote[b]
    BY <2>1 DEF IsoInv, IInv, TypeInv, DirInv, DirTypeOK, GitTypeOK
  <2>4. QED
    BY <2>1, <2>2, <2>3 DEF IsFastForward, Ancestors
<1>5. CASE RemoteChanges
  BY <1>3, <1>4, <1>5 DEF RemoteChanges
<1>6. ASSUME NEW t \in Callers, PushStep(t)
      PROVE  remote'[Main] = remote[Main]
  BY <1>6, PushMain DEF PushStep, CommitReports, gitVars
<1>7. CASE Environment
  BY <1>2, <1>5, <1>7 DEF Environment, CleanupCancels, CleanupRemoves, CancelContext, gitVars
<1>8. QED
  <2>1. SyncSteps \/ CloneStep \/ LoopStep => UNCHANGED remote
    BY DEF SyncSteps, NewGitStorage, StartCheckoutLoop, Started, Receive, Walk, WalkFails,
           DecodeFile, SetMappings, CloneStep, CloneSteps, CloneLock, Clone, ClonedDirectory,
           HeadFails, HeadReports, SpawnLoop, LoopStep, LoopTick, Pull, LoopExits, gitVars
  <2>2. \A g \in Goroutines : PullStep(g) => UNCHANGED remote
    BY DEF PullStep, PullLock, PullFetch, PullWorktree, HeadFails, HeadReports, gitVars
  <2>3. \A t \in Callers : TxSteps(t) => UNCHANGED remote
    BY DEF TxSteps, Transaction, Pull, Pulled, TxSuspend, TxBranch, CheckoutNewBranch, FnSteps,
           FnAddMapping, FnOpenFile, FnDelete, FnWriteFile, FnReturns, Writes, TxCommit,
           CreateCommit, TxCommitted, TxPullRequest, TxRestore, CheckoutMainBranch, TxResume,
           gitVars
  <2>4. UNCHANGED vars => UNCHANGED remote
    BY DEF vars, gitVars
  <2>5. QED
    BY <1>2, <1>6, <1>7, <2>1, <2>2, <2>3, <2>4 DEF Next, Goroutines

-----------------------------------------------------------------------------
(***************************************************************************)
(* CommitIsolation.                                                        *)
(***************************************************************************)
\* A function's writes are never forgotten.
LEMMA TouchedGrows ==
    ASSUME TypeInv, [Next]_vars, NEW u \in Callers
    PROVE  touched[u] \subseteq touched'[u]
<1>1. CASE UNCHANGED touched
  BY <1>1
<1>2. ASSUME NEW t \in Callers, NEW k \in Keys, Writes(t, k)
      PROVE  touched[u] \subseteq touched'[u]
  BY <1>2 DEF Writes, TypeInv, TxTypeOK
<1>3. QED
  <2>1. SyncSteps \/ CloneStep \/ LoopStep \/ Environment \/ UNCHANGED vars => UNCHANGED touched
    BY DEF SyncSteps, NewGitStorage, Started, Receive, Walk, WalkFails, DecodeFile, SetMappings,
           CloneStep, LoopStep, Environment, txVars, vars
  <2>2. \A g \in Goroutines : PullStep(g) => UNCHANGED touched
    BY DEF PullStep, txVars
  <2>3. \A t \in Callers : PushStep(t) => UNCHANGED touched
    BY DEF PushStep, txVars
  <2>4. \A t \in Callers : TxSteps(t) => UNCHANGED touched \/ \E k \in Keys : Writes(t, k)
    BY DEF TxSteps, Transaction, Pulled, TxSuspend, TxBranch, FnSteps, FnAddMapping, FnOpenFile,
           FnDelete, FnWriteFile, FnReturns, TxCommit, TxCommitted, TxPullRequest, TxRestore,
           TxResume
  <2>5. QED
    BY <1>1, <1>2, <2>1, <2>2, <2>3, <2>4 DEF Next, Goroutines

\* An isolated commit stays one.
LEMMA IsolatedKept ==
    ASSUME IsoInv, HistoryGrows, [Next]_vars, NEW c \in 1..Len(commits), Isolated(c)
    PROVE  commits'[c].by # Nobody =>
             /\ commits'[c].parent \in 1..Len(commits')
             /\ IsFastForward(commits[c].parent, remote[Main])'
             /\ commits'[c].parent = commits[c].parent
             /\ \A k \in Keys \ touched'[commits'[c].by] :
                    commits'[c].tree[k] = commits'[commits'[c].parent].tree[k]
<1> SUFFICES ASSUME commits'[c].by # Nobody
             PROVE  /\ commits'[c].parent \in 1..Len(commits')
                    /\ IsFastForward(commits[c].parent, remote[Main])'
                    /\ commits'[c].parent = commits[c].parent
                    /\ \A k \in Keys \ touched'[commits'[c].by] :
                           commits'[c].tree[k] = commits'[commits'[c].parent].tree[k]
  OBVIOUS
<1>1. commits'[c] = commits[c] /\ Len(commits) <= Len(commits') /\ Len(commits) \in Nat /\ Len(commits') \in Nat
  BY DEF HistoryGrows
<1>2. commits[c].by \in Callers
  <2>1. commits[c] \in Commit
    BY DEF IsoInv, IInv, TypeInv, DirInv, DirTypeOK, GitTypeOK
  <2>2. QED
    BY <1>1, <2>1 DEF Commit
<1>3. /\ commits[c].parent \in 1..Len(commits)
      /\ IsFastForward(commits[c].parent, remote[Main])
      /\ \A k \in Keys \ touched[commits[c].by] : TreeOf(c)[k] = TreeOf(commits[c].parent)[k]
  BY <1>1 DEF Isolated
<1>4. IsFastForward(commits[c].parent, remote[Main])'
  <2>1. ASSUME NEW p \in 1..Len(commits), p = commits[c].parent
        PROVE  p \in commits'[remote'[Main]].anc
    BY <1>3, <2>1, MainForward DEF IsFastForward, Ancestors
  <2>2. QED
    BY <1>1, <1>3, <2>1 DEF IsFastForward, Ancestors
<1>5. commits'[commits[c].parent] = commits[commits[c].parent]
  BY <1>3 DEF HistoryGrows
<1>6. touched[commits[c].by] \subseteq touched'[commits[c].by]
  BY <1>2, TouchedGrows DEF IsoInv, IInv
<1>7. QED
  BY <1>1, <1>3, <1>4, <1>5, <1>6 DEF TreeOf

\* The commit of a transaction sits on the main branch that its function saw, and
\* holds what the function wrote and nothing else.
LEMMA TxCommitIsolated ==
    ASSUME IsoInv, HistoryGrows, [Next]_vars,
           NEW t \in Callers, tx[t] = "commit", wt, head # NoBranch,
           NewCommit(refs[head], AllTracked, t), UNCHANGED <<remote, touched>>
    PROVE  AllIsolated'
<1> DEFINE n == Len(commits)
<1>1. refs[head] \in 1..n /\ AllTracked \in Files /\ cleanup # "removed"
  BY NewCommitParts DEF IsoInv
<1>2. /\ n \in Nat /\ Len(commits') = n + 1
      /\ \A c \in 1..n : commits'[c] = commits[c]
      /\ commits'[n + 1].tree = AllTracked
      /\ commits'[n + 1].by = t
      /\ commits'[n + 1].parent = refs[head]
  <2>1. TypeInv
    BY DEF IsoInv, IInv
  <2>2. QED
    BY <1>1, <2>1, LastCommit
<1>3. /\ refs[head] = refs[Main]
      /\ \A k \in Keys \ touched[t] : wtree[k] = TreeOf(refs[Main])[k]
  BY <1>1 DEF IsoInv, FnInv, InFn
<1>4. refs[head] \in commits'[remote'[Main]].anc
  <2>1. refs[Main] \in 1..n /\ IsFastForward(refs[Main], remote[Main])
    BY <1>1, <1>3 DEF IsoInv, IInv, MainInv, Alive
  <2>2. ASSUME NEW p \in 1..n, IsFastForward(p, remote[Main])
        PROVE  p \in commits'[remote'[Main]].anc
    BY <2>2, MainForward DEF IsFastForward, Ancestors
  <2>3. QED
    BY <1>3, <2>1, <2>2
<1>5. \A k \in Keys \ touched[t] : AllTracked[k] = commits'[refs[head]].tree[k]
  BY <1>1, <1>2, <1>3 DEF AllTracked, TreeOf
<1>6. ASSUME NEW c \in 1..(n + 1)
      PROVE  commits'[c].by # Nobody =>
               /\ commits'[c].parent \in 1..Len(commits')
               /\ commits'[c].parent \in commits'[remote'[Main]].anc
               /\ \A k \in Keys \ touched'[commits'[c].by] :
                      commits'[c].tree[k] = commits'[commits'[c].parent].tree[k]
  <2>1. CASE c \in 1..n
    <3>1. Isolated(c)
      BY <2>1 DEF IsoInv, AllIsolated
    <3>2. QED
      BY <2>1, <3>1, IsolatedKept DEF IsFastForward, Ancestors
  <2>2. CASE c = n + 1
    BY <1>1, <1>2, <1>4, <1>5, <2>2
  <2>3. QED
    BY <1>2, <2>1, <2>2
<1>7. QED
  BY <1>2, <1>6 DEF AllIsolated, Isolated, IsFastForward, Ancestors, TreeOf

LEMMA IsolationNext ==
    ASSUME IsoInv, HistoryGrows, [Next]_vars
    PROVE  AllIsolated'
<1> DEFINE n == Len(commits)
           Fine(c) ==
             commits'[c].by # Nobody =>
               /\ commits'[c].parent \in 1..Len(commits')
               /\ commits'[c].parent \in commits'[remote'[Main]].anc
               /\ \A k \in Keys \ touched'[commits'[c].by] :
                      commits'[c].tree[k] = commits'[commits'[c].parent].tree[k]
<1>1. ASSUME NEW c \in 1..n PROVE Fine(c)
  <2>1. Isolated(c)
    BY DEF IsoInv, AllIsolated
  <2>2. QED
    BY <2>1, IsolatedKept DEF IsFastForward, Ancestors
<1>2. (\A c \in 1..Len(commits') : Fine(c)) => AllIsolated'
  BY DEF AllIsolated, Isolated, IsFastForward, Ancestors, TreeOf
<1>3. CASE UNCHANGED commits
  BY <1>1, <1>2, <1>3
<1>4. ASSUME NEW k \in Keys, NEW v \in Versions \cup {Absent}, RemoteCommit(k, v)
      PROVE  AllIsolated'
  <2> DEFINE tree == [TreeOf(remote[Main]) EXCEPT ![k] = v]
  <2>1. remote[Main] \in 1..n /\ tree \in Files /\ TypeInv
    BY RemoteCommitParts DEF IsoInv, IInv
  <2>2. NewCommit(remote[Main], tree, Nobody)
    BY <1>4 DEF RemoteCommit
  <2> HIDE DEF tree
  <2>3. n \in Nat /\ Len(commits') = n + 1 /\ commits'[n + 1].by = Nobody
    BY <2>1, <2>2, LastCommit
  <2>4. Fine(n + 1)
    BY <2>3
  <2>5. QED
    <3> HIDE DEF Fine
    <3>1. \A c \in 1..(n + 1) : c \in 1..n \/ c = n + 1
      BY <2>3
    <3>2. QED
      BY <1>1, <1>2, <2>3, <2>4, <3>1
<1>5. QED
  BY <1>3, <1>4, CommitSteps, TxCommitIsolated

-----------------------------------------------------------------------------
(***************************************************************************)
(* FnSeesMainAndItself.                                                    *)
(***************************************************************************)
\* The steps that leave the clone alone, and let no function begin.
LEMMA FnKept ==
    ASSUME IsoInv, HistoryGrows, UNCHANGED <<refs, head, wtree, cleanup, touched>>,
           \A t \in Callers : InFn(t)' => InFn(t) /\ tx'[t] = tx[t]
    PROVE  FnInv'
<1> SUFFICES ASSUME NEW t \in Callers, InFn(t)', cleanup' # "removed"
             PROVE  /\ head' = BranchOf[t]
                    /\ refs'[head'] = refs'[Main]
                    /\ \A k \in Keys \ touched'[t] : wtree'[k] = TreeOf(refs[Main])'[k]
                    /\ tx'[t] # "write" => NoTorn(wtree)'
  BY DEF FnInv
<1>1. /\ InFn(t) /\ tx'[t] = tx[t]
      /\ head = BranchOf[t] /\ refs[head] = refs[Main]
      /\ \A k \in Keys \ touched[t] : wtree[k] = TreeOf(refs[Main])[k]
      /\ tx[t] # "write" => NoTorn(wtree)
  BY DEF IsoInv, FnInv
<1>2. refs[Main] \in 1..Len(commits)
  BY <1>1 DEF IsoInv, IInv, TypeInv, DirInv, DirTypeOK, GitTypeOK, PointersOK, NoCommit
<1>3. TreeOf(refs[Main])' = TreeOf(refs[Main])
  BY <1>2 DEF HistoryGrows, TreeOf
<1>4. QED
  BY <1>1, <1>3 DEF NoTorn

\* The one function that runs, if any, is the one of this transaction.
LEMMA NobodyElse ==
    ASSUME IsoInv, NEW g \in Goroutines,
           \/ op[g] \in {"cloning", "fetch", "head"}
           \/ g \in Callers /\ tx[g] \in Suspended
    PROVE  \A u \in Callers \ {g} : ~InFn(u)
  BY Alone DEF IsoInv, IInv, InFn, Suspended

\* No function runs while the clone is made or pulled.
LEMMA NoFnInOperation ==
    ASSUME IsoInv, NEW g \in Goroutines, op[g] \in {"cloning", "fetch", "head"}, UNCHANGED tx
    PROVE  FnInv'
<1>1. \A u \in Callers : ~InFn(u)
  BY Alone DEF IsoInv, IInv, InFn, Suspended
<1>2. QED
  BY <1>1 DEF FnInv, InFn

\* A function begins on a clean clone of the main branch.
LEMMA TxBranchFn ==
    ASSUME IsoInv, NEW t \in Callers, TxBranch(t)
    PROVE  FnInv'
<1> t \in Goroutines /\ BranchOf[t] \in Branches \ {Main}
  BY DEF Goroutines
<1>1. /\ tx[t] = "branch"
      /\ tx' = [tx EXCEPT ![t] = IF err'[t] = "nil" THEN "fn" ELSE "restore"]
      /\ UNCHANGED <<commits, remote, wtree, wt, cleanup, touched>>
  BY DEF TxBranch, CheckoutNewBranch
<1>2. tx \in [Callers -> TxStates] /\ refs \in [Branches -> 0..Len(commits)]
  BY DEF IsoInv, IInv, TypeInv, TxTypeOK, DirInv, DirTypeOK, GitTypeOK
<1>3. \A u \in Callers \ {t} : ~InFn(u)
  BY <1>1, NobodyElse DEF Suspended
<1>4. \A u \in Callers \ {t} : ~InFn(u)'
  BY <1>1, <1>2, <1>3 DEF InFn
<1>5. CASE err'[t] = "nil" /\ cleanup # "removed"
  <2>1. /\ wt /\ head # NoBranch
        /\ head' = BranchOf[t]
        /\ refs' = [refs EXCEPT ![BranchOf[t]] = refs[head]]
    BY <1>5 DEF TxBranch, CheckoutNewBranch, WriteError, IsoInv, IInv, TypeInv, DirInv, DirTypeOK
  <2>2. \A u \in Callers : ~Left(u)
    BY <1>1, <1>3 DEF Left, OnBranch, IsoInv, IInv, OneAtATime, Working, Suspended, Goroutines
  <2>3. head = Main /\ wtree = TreeOf(refs[Main])
    BY <1>5, <2>1, <2>2 DEF IsoInv, IInv, MainInv, Alive
  <2>4. refs[Main] \in 1..Len(commits)
    BY <2>1, <2>3 DEF IsoInv, IInv, TypeInv, DirInv, DirTypeOK, GitTypeOK, PointersOK, NoCommit
  <2>5. NoTorn(wtree)
    BY <2>3, <2>4 DEF IsoInv, TreesWhole
  <2>6. refs'[BranchOf[t]] = refs[Main] /\ refs'[Main] = refs[Main]
    BY <1>2, <2>1, <2>3
  <2>7. TreeOf(refs[Main])' = TreeOf(refs[Main])
    BY <1>1, <2>6 DEF TreeOf
  <2>8. QED
    BY <1>1, <1>4, <2>1, <2>3, <2>5, <2>6, <2>7 DEF FnInv, NoTorn
<1>6. CASE ~(err'[t] = "nil" /\ cleanup # "removed")
  <2>1. InFn(t)' => cleanup' = "removed"
    BY <1>1, <1>2, <1>6 DEF InFn
  <2>2. QED
    BY <1>4, <2>1 DEF FnInv
<1>7. QED
  BY <1>5, <1>6

\* A function changes what it touches.
LEMMA FnStepsFn ==
    ASSUME IsoInv, NEW t \in Callers,
           \/ \E k \in Keys : FnAddMapping(t, k) \/ FnOpenFile(t, k) \/ FnDelete(t, k)
           \/ \E v \in Versions : FnWriteFile(t, v)
    PROVE  FnInv'
<1> t \in Goroutines
  BY DEF Goroutines
<1>1. /\ tx[t] \in {"fn", "write"} /\ tx'[t] \in {"fn", "write"}
      /\ \A u \in Callers \ {t} : tx'[u] = tx[u]
      /\ UNCHANGED <<commits, refs, head, cleanup>>
  BY DEF FnAddMapping, FnOpenFile, FnDelete, FnWriteFile, Writes, dirVars, IsoInv, IInv, TypeInv,
         TxTypeOK
<1>2. \A u \in Callers \ {t} : ~InFn(u)'
  BY <1>1, NobodyElse DEF Suspended, InFn
<1> SUFFICES ASSUME cleanup # "removed"
             PROVE  /\ head = BranchOf[t]
                    /\ refs[head] = refs[Main]
                    /\ \A k \in Keys \ touched'[t] : wtree'[k] = TreeOf(refs[Main])[k]
                    /\ tx'[t] # "write" => NoTorn(wtree')
  BY <1>1, <1>2 DEF FnInv, NoTorn, TreeOf
<1>3. /\ head = BranchOf[t] /\ refs[head] = refs[Main]
      /\ \A k \in Keys \ touched[t] : wtree[k] = TreeOf(refs[Main])[k]
      /\ tx[t] # "write" => NoTorn(wtree)
  BY <1>1 DEF IsoInv, FnInv, InFn
<1>4. NoTorn(TreeOf(refs[Main]))
  BY <1>3 DEF IsoInv, TreesWhole, IInv, TypeInv, DirInv, DirTypeOK, GitTypeOK, PointersOK, NoCommit
<1>5. wtree \in Files /\ touched \in [Callers -> SUBSET Keys] /\ tx \in [Callers -> TxStates]
  BY DEF IsoInv, IInv, TypeInv, TxTypeOK, DirInv, DirTypeOK, GitTypeOK
<1>6. ASSUME NEW k \in Keys, FnAddMapping(t, k) \/ FnOpenFile(t, k) \/ FnDelete(t, k)
      PROVE  /\ \A j \in Keys \ touched'[t] : wtree'[j] = TreeOf(refs[Main])[j]
             /\ tx'[t] # "write" => NoTorn(wtree')
  <2>1. touched'[t] = touched[t] \cup {k} /\ tx[t] = "fn"
    BY <1>5, <1>6 DEF FnAddMapping, FnOpenFile, FnDelete, Writes
  <2>2. \A j \in Keys \ {k} : wtree'[j] = wtree[j]
    BY <1>5, <1>6 DEF FnAddMapping, FnOpenFile, FnDelete, Files
  <2>3. tx'[t] # "write" => NoTorn(wtree')
    <3>1. CASE FnOpenFile(t, k)
      BY <1>5, <3>1 DEF FnOpenFile
    <3>2. CASE FnAddMapping(t, k) \/ FnDelete(t, k)
      <4>1. wtree'[k] = Absent \/ wtree'[k] = wtree[k]
        BY <1>5, <3>2 DEF FnAddMapping, FnDelete, Files
      <4>2. NoTorn(wtree)
        BY <1>3, <2>1
      <4>3. QED
        BY <2>2, <4>1, <4>2 DEF NoTorn
    <3>3. QED
      BY <1>6, <3>1, <3>2
  <2>4. QED
    BY <1>3, <2>1, <2>2, <2>3
<1>7. ASSUME NEW v \in Versions, FnWriteFile(t, v)
      PROVE  /\ \A j \in Keys \ touched'[t] : wtree'[j] = TreeOf(refs[Main])[j]
             /\ tx'[t] # "write" => NoTorn(wtree')
  <2>1. /\ \A j \in Keys : wtree'[j] = IF wtree[j] = Torn THEN v ELSE wtree[j]
        /\ touched' = touched
    BY <1>7 DEF FnWriteFile
  <2>2. QED
    BY <1>3, <1>4, <2>1 DEF NoTorn
<1>8. QED
  BY <1>3, <1>6, <1>7

LEMMA TxStepsFn ==
    ASSUME IsoInv, HistoryGrows, NEW t \in Callers, TxSteps(t)
    PROVE  FnInv'
<1> t \in Goroutines
  BY DEF Goroutines
<1> tx \in [Callers -> TxStates]
  BY DEF IsoInv, IInv, TypeInv, TxTypeOK
<1>1. CASE TxBranch(t)
  BY <1>1, TxBranchFn
<1>2. CASE \/ \E k \in Keys : FnAddMapping(t, k) \/ FnOpenFile(t, k) \/ FnDelete(t, k)
           \/ \E v \in Versions : FnWriteFile(t, v)
  BY <1>2, FnStepsFn
<1>3. CASE \E r \in FnResults : FnReturns(t, r)
  <2>1. /\ tx[t] = "fn" /\ tx'[t] \in {"restore", "commit"}
        /\ \A u \in Callers \ {t} : tx'[u] = tx[u]
        /\ UNCHANGED <<commits, refs, head, wtree, cleanup, touched>>
    BY <1>3 DEF FnReturns, gitVars, dirVars
  <2>2. \A u \in Callers \ {t} : ~InFn(u)'
    BY <2>1, NobodyElse DEF Suspended, InFn
  <2>3. cleanup # "removed" =>
          /\ head = BranchOf[t] /\ refs[head] = refs[Main]
          /\ \A k \in Keys \ touched[t] : wtree[k] = TreeOf(refs[Main])[k]
          /\ NoTorn(wtree)
    BY <2>1 DEF IsoInv, FnInv, InFn
  <2>4. QED
    BY <2>1, <2>2, <2>3 DEF FnInv, NoTorn, TreeOf
<1>4. CASE TxCommit(t) \/ TxCommitted(t) \/ TxPullRequest(t) \/ TxRestore(t)
  <2>1. /\ tx[t] \in Suspended /\ tx'[t] \in {"committing", "pullRequest", "restore", "resume"}
        /\ \A u \in Callers \ {t} : tx'[u] = tx[u]
    BY <1>4 DEF TxCommit, TxCommitted, TxPullRequest, TxRestore, Suspended
  <2>2. \A u \in Callers : ~InFn(u)'
    BY <2>1, NobodyElse DEF InFn
  <2>3. QED
    BY <2>2 DEF FnInv
<1>5. CASE Transaction(t) \/ Pulled(t) \/ TxSuspend(t) \/ TxResume(t)
  <2>1. /\ tx'[t] \in {"pulling", "suspend", "done", "branch"}
        /\ \A u \in Callers \ {t} : tx'[u] = tx[u]
        /\ UNCHANGED <<refs, head, wtree, cleanup, touched>>
    BY <1>5 DEF Transaction, Pull, Pulled, TxSuspend, TxResume, gitVars, dirVars
  <2>2. \A u \in Callers : InFn(u)' => InFn(u) /\ tx'[u] = tx[u]
    BY <2>1 DEF InFn
  <2>3. QED
    BY <2>1, <2>2, FnKept
<1>6. QED
  BY <1>1, <1>2, <1>3, <1>4, <1>5 DEF TxSteps, FnSteps

LEMMA FnNext ==
    ASSUME IsoInv, HistoryGrows, [Next]_vars
    PROVE  FnInv'
<1> Loop \in Goroutines /\ Syncer \in Starters /\ Syncer \in Goroutines
  BY DEF Goroutines
<1>1. ASSUME UNCHANGED <<refs, head, wtree, cleanup, touched, tx>> PROVE FnInv'
  BY <1>1, FnKept DEF InFn
<1>2. CASE SyncSteps \/ LoopStep \/ UNCHANGED vars
  BY <1>1, <1>2 DEF SyncSteps, NewGitStorage, StartCheckoutLoop, Started, Receive, Walk,
        WalkFails, DecodeFile, SetMappings, LoopStep, LoopTick, Pull, LoopExits, gitVars, dirVars,
        txVars, vars
<1>3. CASE CloneStep
  <2>1. CASE Clone(Syncer)
    BY <1>3, <2>1, NoFnInOperation DEF CloneStep, Clone, txVars
  <2>2. CASE ~Clone(Syncer)
    BY <1>1, <1>3, <2>2 DEF CloneStep, CloneSteps, CloneLock, HeadFails, HeadReports, SpawnLoop,
                            gitVars, txVars
  <2>3. QED
    BY <2>1, <2>2
<1>4. ASSUME NEW g \in Goroutines, PullStep(g) PROVE FnInv'
  <2>1. CASE PullFetch(g)
    BY <1>4, <2>1, NoFnInOperation DEF PullStep, PullFetch, txVars
  <2>2. CASE ~PullFetch(g)
    BY <1>1, <1>4, <2>2 DEF PullStep, PullLock, HeadFails, HeadReports, gitVars, txVars
  <2>3. QED
    BY <2>1, <2>2
<1>5. ASSUME NEW t \in Callers, PushStep(t) PROVE FnInv'
  BY <1>1, <1>5 DEF PushStep, Push, CommitReports, gitVars, txVars
<1>6. CASE Environment
  <2>1. CASE CleanupRemoves
    BY <2>1 DEF CleanupRemoves, FnInv
  <2>2. CASE CleanupCancels
    <3>1. UNCHANGED <<gitVars, tx, touched>> /\ cleanup # "removed"
      BY <1>6, <2>2 DEF Environment, CleanupCancels, txVars
    <3>2. QED
      BY <3>1 DEF IsoInv, FnInv, InFn, NoTorn, TreeOf, gitVars
  <2>3. CASE RemoteChanges \/ \E t \in Callers : CancelContext(t)
    BY <1>1, <1>6, <2>3 DEF Environment, RemoteChanges, RemoteCommit, RemoteMerge, CancelContext,
                            gitVars, dirVars, txVars
  <2>4. QED
    BY <1>6, <2>1, <2>2, <2>3 DEF Environment
<1>7. QED
  BY <1>2, <1>3, <1>4, <1>5, <1>6, TxStepsFn DEF Next, Goroutines

-----------------------------------------------------------------------------
(***************************************************************************)
(* The invariant holds, and with it the properties.                        *)
(***************************************************************************)
LEMMA GoneNext ==
    ASSUME IsoInv, [Next]_vars
    PROVE  GoneInv'
<1>1. ASSUME UNCHANGED <<head, cleanup>> PROVE GoneInv'
  BY <1>1 DEF IsoInv, GoneInv
<1>2. CASE SyncSteps \/ LoopStep \/ UNCHANGED vars
  BY <1>1, <1>2 DEF SyncSteps, NewGitStorage, StartCheckoutLoop, Started, Receive, Walk,
        WalkFails, DecodeFile, SetMappings, LoopStep, LoopTick, Pull, LoopExits, gitVars, dirVars,
        vars
<1>3. CASE CloneStep
  <2>1. CASE Clone(Syncer)
    BY <2>1 DEF Clone, ClonedDirectory, gitVars, IsoInv, GoneInv
  <2>2. CASE ~Clone(Syncer)
    BY <1>1, <1>3, <2>2 DEF CloneStep, CloneSteps, CloneLock, HeadFails, HeadReports, SpawnLoop,
                            gitVars
  <2>3. QED
    BY <2>1, <2>2
<1>4. ASSUME NEW g \in Goroutines, PullStep(g) PROVE GoneInv'
  BY <1>1, <1>4 DEF PullStep, PullLock, PullFetch, PullWorktree, HeadFails, HeadReports, gitVars
<1>5. ASSUME NEW t \in Callers, PushStep(t) PROVE GoneInv'
  BY <1>1, <1>5 DEF PushStep, Push, CommitReports, gitVars
<1>6. CASE Environment
  BY <1>1, <1>6 DEF Environment, CleanupRemoves, CleanupCancels, RemoteChanges, RemoteCommit,
                    RemoteMerge, CancelContext, GoneInv, gitVars, dirVars
<1>7. ASSUME NEW t \in Callers, TxSteps(t) PROVE GoneInv'
  <2>1. UNCHANGED cleanup /\ (head = NoBranch => head' = NoBranch)
    BY <1>7 DEF TxSteps, Transaction, Pull, Pulled, TxSuspend, TxBranch, CheckoutNewBranch,
           FnSteps, FnAddMapping, FnOpenFile, FnDelete, FnWriteFile, FnReturns, Writes, TxCommit,
           CreateCommit, TxCommitted, TxPullRequest, TxRestore, CheckoutMainBranch, TxResume,
           gitVars, dirVars
  <2>2. QED
    BY <2>1 DEF IsoInv, GoneInv
<1>8. QED
  BY <1>2, <1>3, <1>4, <1>5, <1>6, <1>7 DEF Next, Goroutines

LEMMA IsoInit == Init => IsoInv
<1> SUFFICES ASSUME Init PROVE IsoInv
  OBVIOUS
<1>1. IInv
  BY MainInit
<1>2. PICK tree \in Tree :
        commits = <<[tree |-> tree, parent |-> NoCommit, anc |-> {1}, by |-> Nobody]>>
  BY DEF Init, DirInit, GitInit
<1>3. Len(commits) = 1 /\ commits[1].tree = tree /\ commits[1].by = Nobody
  BY <1>2
<1>4. TreesWhole /\ AllIsolated
  BY <1>3 DEF TreesWhole, NoTorn, TreeOf, Tree, AllIsolated, Isolated
<1>5. GoneInv /\ PushStarted /\ FnInv
  BY DEF Init, DirInit, GoneInv, PushStarted, FnInv, InFn, Goroutines
<1>6. QED
  BY <1>1, <1>4, <1>5 DEF IsoInv

LEMMA PushStartedNext ==
    ASSUME IsoInv, [Next]_vars
    PROVE  PushStarted'
<1> op \in [Goroutines -> OpStates] /\ Callers \subseteq Goroutines /\ Loop \notin Callers
  BY DEF IsoInv, IInv, TypeInv, DirInv, DirTypeOK, Goroutines
<1> Syncer \in Starters /\ Starters \cap Callers = {} /\ Syncer \notin Callers
  OBVIOUS
<1>1. ASSUME wt => wt', \A t \in Callers : op'[t] = "push" => op[t] = "push" \/ wt
      PROVE  PushStarted'
  BY <1>1 DEF IsoInv, PushStarted
<1>2. CASE SyncSteps \/ LoopStep \/ UNCHANGED vars
  <2>1. UNCHANGED wt /\ \A t \in Callers : op'[t] = op[t]
    BY <1>2 DEF SyncSteps, NewGitStorage, StartCheckoutLoop, Return, Started, Receive, Walk,
          WalkFails, DecodeFile, SetMappings, LoopStep, LoopTick, Pull, LoopExits, dirVars, vars
  <2>2. QED
    BY <1>1, <2>1
<1>3. CASE CloneStep
  <2>1. CASE Clone(Syncer)
    <3>1. (wt => wt') /\ \A t \in Callers : op'[t] = op[t]
      BY <2>1 DEF Clone, HandleError, Return, ReturnNil
    <3>2. QED
      BY <1>1, <3>1
  <2>2. CASE ~Clone(Syncer)
    <3>1. UNCHANGED wt /\ \A t \in Callers : op'[t] = op[t]
      BY <1>3, <2>2 DEF CloneStep, CloneSteps, CloneLock, Return, ReturnNil, HeadFails, HeadReports,
                        SpawnLoop
    <3>2. QED
      BY <1>1, <3>1
  <2>3. QED
    BY <2>1, <2>2
<1>4. ASSUME NEW g \in Goroutines, PullStep(g) PROVE PushStarted'
  <2>1. UNCHANGED wt /\ \A h \in Goroutines : op'[h] = op[h] \/ op'[h] # "push"
    BY <1>4 DEF PullStep, PullLock, PullFetch, HandleError, Return, ReturnNil, HeadFails,
                HeadReports
  <2>2. QED
    BY <1>1, <2>1
<1>5. ASSUME NEW u \in Callers, PushStep(u) PROVE PushStarted'
  <2>1. UNCHANGED wt /\ \A h \in Goroutines : op'[h] = op[h] \/ op'[h] # "push"
    BY <1>5 DEF PushStep, Push, CommitReports, HandleError, Return, ReturnNil
  <2>2. QED
    BY <1>1, <2>1
<1>6. CASE Environment
  BY <1>1, <1>6 DEF Environment, CleanupRemoves, CleanupCancels, RemoteChanges, CancelContext,
                    dirVars
<1>7. ASSUME NEW u \in Callers, TxSteps(u) PROVE PushStarted'
  <2>1. CASE TxCommit(u)
    <3>1. UNCHANGED wt /\ \A h \in Goroutines : op'[h] = "push" => op[h] = "push" \/ wt
      BY <2>1 DEF TxCommit, CreateCommit, Return, WriteError
    <3>2. QED
      BY <1>1, <3>1
  <2>2. CASE ~TxCommit(u)
    <3>1. UNCHANGED wt /\ \A h \in Goroutines : op'[h] = op[h] \/ op'[h] # "push"
      BY <1>7, <2>2 DEF TxSteps, Transaction, Pull, Pulled, TxSuspend, TxBranch, CheckoutNewBranch,
           FnSteps, FnAddMapping, FnOpenFile, FnDelete, FnWriteFile, FnReturns, Writes,
           TxCommitted, TxPullRequest, TxRestore, CheckoutMainBranch, TxResume, dirVars
    <3>2. QED
      BY <1>1, <3>1
  <2>3. QED
    BY <2>1, <2>2
<1>8. QED
  BY <1>2, <1>3, <1>4, <1>5, <1>6, <1>7 DEF Next, Goroutines

LEMMA IsoNext ==
    ASSUME IsoInv, [Next]_vars, "restore" \notin Faults
    PROVE  IsoInv'
<1>1. IInv'
  BY MainNext DEF IsoInv
<1>2. HistoryGrows
  BY HistoryNext DEF IsoInv, IInv
<1>3. TreesWhole'
  BY CommitsWhole
<1>4. GoneInv' /\ PushStarted' /\ FnInv' /\ AllIsolated'
  BY <1>2, GoneNext, PushStartedNext, FnNext, IsolationNext
<1>5. QED
  BY <1>1, <1>3, <1>4 DEF IsoInv

LEMMA SpecIsoInv == ASSUME "restore" \notin Faults PROVE Spec => []IsoInv
<1>1. IsoInv /\ [Next]_vars => IsoInv'
  BY IsoNext
<1>2. QED
  BY <1>1, IsoInit, PTL DEF Spec

\* The function of a transaction works on its branch, made at the commit that the
\* clone's main branch is at, and on what it wrote itself: whatever the loop, other
\* transactions and the remote do, between Suspend and Resume nobody moves the
\* branches or the files under it (git.go:86-103).
THEOREM FunctionsSeeMain ==
    ASSUME "restore" \notin Faults
    PROVE  Spec => []FnSeesMainAndItself
<1>1. IsoInv => FnSeesMainAndItself
  BY DEF IsoInv, FnInv, InFn, FnSeesMainAndItself
<1>2. QED
  BY <1>1, SpecIsoInv, PTL

\* The commit of every transaction, for ever, sits on a commit that the remote's
\* main branch contains, and differs from it in the objects its function wrote
\* only (gitdir.go:396-434).
THEOREM CommitsAreIsolated ==
    ASSUME "restore" \notin Faults
    PROVE  Spec => []CommitIsolation
<1>1. IsoInv => CommitIsolation
  <2>1. IsoInv => DOMAIN commits = 1..Len(commits)
    BY DEF IsoInv, IInv, TypeInv, DirInv, DirTypeOK, GitTypeOK
  <2>2. QED
    BY <2>1 DEF IsoInv, AllIsolated, Isolated, CommitIsolation
<1>2. QED
  BY <1>1, SpecIsoInv, PTL

\* A push sends every local branch, the main one among them, and moves the remote's
\* main branch in no case: the clone's main branch has nothing that the remote's
\* does not have (gitdir.go:420).
THEOREM MainNotPushed ==
    ASSUME "restore" \notin Faults
    PROVE  Spec => PushKeepsMain
<1>1. IsoInv /\ [Next]_vars => [\A t \in Callers : Push(t) => remote'[Main] = remote[Main]]_vars
  BY PushMain
<1>2. QED
  BY <1>1, SpecIsoInv, PTL DEF Spec, PushKeepsMain

-----------------------------------------------------------------------------
(***************************************************************************)
(* CommitPublished.  From the commit on a transaction holds the mutex, so  *)
(* that its branch is at its commit when it is pushed, if the directory is *)
(* still there, and the remote's branches only go forward after that.  A   *)
(* cancelled context makes Commit return nil without a push.               *)
(***************************************************************************)
Published(t) ==
    hash[t] # NoCommit =>
        remote[BranchOf[t]] # NoCommit /\ IsFastForward(hash[t], remote[BranchOf[t]])

Uncommitted == {"new", "pulling", "suspend", "branch", "fn", "write", "commit"}

Succeeded(t) ==
    \/ op[t] = "report"
    \/ tx[t] = "committing" /\ op[t] = "idle" /\ err[t] = "nil"
    \/ tx[t] = "pullRequest"
    \/ tx[t] \in {"restore", "resume", "done"} /\ result[t] = "nil"

PublishedOf(t) ==
    /\ tx[t] \in Uncommitted => hash[t] = NoCommit
    /\ op[t] = "push" =>
        hash[t] # NoCommit /\ (cleanup # "removed" => refs[BranchOf[t]] = hash[t])
    /\ Succeeded(t) => Published(t)

PublishedInv == ctxDone = {} /\ \A t \in Callers : PublishedOf(t)

\* What a branch of the remote other than the main one has, it keeps.
LEMMA BranchForward ==
    ASSUME IsoInv, HistoryGrows, [Next]_vars, NEW b \in Branches \ {Main},
           NEW c \in 1..Len(commits), remote[b] # NoCommit, IsFastForward(c, remote[b])
    PROVE  remote'[b] # NoCommit /\ IsFastForward(c, remote[b])'
<1>1. remote[b] \in 1..Len(commits) /\ remote \in [Branches -> 0..Len(commits)]
  BY DEF IsoInv, IInv, TypeInv, DirInv, DirTypeOK, GitTypeOK, NoCommit
<1>2. CASE remote'[b] = remote[b]
  BY <1>1, <1>2 DEF HistoryGrows, IsFastForward, Ancestors
<1>3. CASE Environment
  <2>1. remote'[b] = remote[b]
    BY <1>1, <1>3 DEF Environment, CleanupCancels, CleanupRemoves, CancelContext, RemoteChanges,
                      RemoteCommit, RemoteMerge, gitVars
  <2>2. QED
    BY <1>2, <2>1
<1>4. ASSUME NEW t \in Callers, PushStep(t)
      PROVE  remote'[b] # NoCommit /\ IsFastForward(c, remote[b])'
  <2>1. /\ remote' = remote \/ (PushAccepted /\ remote' = PushedBranches)
        /\ UNCHANGED commits
    BY <1>4 DEF PushStep, Push, CommitReports, gitVars
  <2>2. CASE PushAccepted /\ remote' = PushedBranches /\ b \in LocalBranches
    <3>1. remote[b] \in Ancestors(refs[b]) /\ remote'[b] = refs[b]
      BY <1>1, <2>2 DEF PushAccepted, PushedBranches, IsFastForward
    <3>2. refs[b] \in 1..Len(commits)
      BY <2>2 DEF LocalBranches, IsoInv, IInv, TypeInv, DirInv, DirTypeOK, GitTypeOK, NoCommit
    <3>3. Ancestors(remote[b]) \subseteq Ancestors(refs[b])
      BY <1>1, <3>1, <3>2 DEF IsoInv, IInv, HistoryInv
    <3>4. QED
      BY <2>1, <3>1, <3>2, <3>3 DEF IsFastForward, Ancestors, NoCommit
  <2>3. QED
    BY <1>2, <2>1, <2>2 DEF PushedBranches
<1>5. QED
  <2>1. SyncSteps \/ CloneStep \/ LoopStep => UNCHANGED remote
    BY DEF SyncSteps, NewGitStorage, StartCheckoutLoop, Started, Receive, Walk, WalkFails,
           DecodeFile, SetMappings, CloneStep, CloneSteps, CloneLock, Clone, ClonedDirectory,
           HeadFails, HeadReports, SpawnLoop, LoopStep, LoopTick, Pull, LoopExits, gitVars
  <2>2. \A g \in Goroutines : PullStep(g) => UNCHANGED remote
    BY DEF PullStep, PullLock, PullFetch, PullWorktree, HeadFails, HeadReports, gitVars
  <2>3. \A t \in Callers : TxSteps(t) => UNCHANGED remote
    BY DEF TxSteps, Transaction, Pull, Pulled, TxSuspend, TxBranch, CheckoutNewBranch, FnSteps,
           FnAddMapping, FnOpenFile, FnDelete, FnWriteFile, FnReturns, Writes, TxCommit,
           CreateCommit, TxCommitted, TxPullRequest, TxRestore, CheckoutMainBranch, TxResume,
           gitVars
  <2>4. UNCHANGED vars => UNCHANGED remote
    BY DEF vars, gitVars
  <2>5. QED
    BY <1>2, <1>3, <1>4, <2>1, <2>2, <2>3, <2>4 DEF Next, Goroutines

\* A commit that was published stays so.
LEMMA PublishedKept ==
    ASSUME IsoInv, HistoryGrows, [Next]_vars, NEW t \in Callers,
           hash'[t] = hash[t], Published(t)
    PROVE  Published(t)'
<1>1. BranchOf[t] \in Branches \ {Main}
  OBVIOUS
<1>2. hash[t] \in 0..Len(commits)
  BY DEF IsoInv, IInv, TypeInv, DirInv, DirTypeOK, Goroutines
<1>3. CASE hash[t] # NoCommit
  <2>1. hash[t] \in 1..Len(commits)
    BY <1>2, <1>3 DEF NoCommit
  <2>2. ASSUME NEW c \in 1..Len(commits), c = hash[t]
        PROVE  remote'[BranchOf[t]] # NoCommit /\ IsFastForward(c, remote[BranchOf[t]])'
    BY <1>1, <1>3, <2>2, BranchForward DEF Published
  <2>3. QED
    BY <2>1, <2>2 DEF Published, IsFastForward, Ancestors
<1>4. QED
  BY <1>3 DEF Published

\* The steps that do not advance caller t, and leave its branch alone while it pushes.
LEMMA PublishedOfKept ==
    ASSUME IsoInv, HistoryGrows, [Next]_vars, NEW t \in Callers, PublishedOf(t),
           hash'[t] = hash[t],
           tx'[t] \in Uncommitted => tx[t] \in Uncommitted,
           op'[t] = "push" =>
             op[t] = "push" /\ (cleanup' # "removed" =>
                cleanup # "removed" /\ refs'[BranchOf[t]] = refs[BranchOf[t]]),
           Succeeded(t)' => Succeeded(t)
    PROVE  PublishedOf(t)'
<1>1. Succeeded(t)' => Published(t)'
  BY PublishedKept DEF PublishedOf
<1>2. QED
  BY <1>1 DEF PublishedOf

\* While others work on the clone, caller t does not push.
LEMMA NotPushing ==
    ASSUME IsoInv, NEW t \in Callers, NEW g \in Goroutines \ {t},
           \/ op[g] \in {"cloning", "fetch", "head"}
           \/ g \in Callers /\ tx[g] \in Suspended
    PROVE  op[t] # "push"
<1>1. tx[t] \notin Suspended
  BY Alone DEF IsoInv, IInv
<1>2. QED
  BY <1>1 DEF IsoInv, IInv, OpInv, Suspended

\* The push: with the context alive it returns nil only if the branch is there.
LEMMA PushPublishes ==
    ASSUME IsoInv, PublishedInv, HistoryGrows, [Next]_vars, NEW t \in Callers, Push(t), UNCHANGED tx
    PROVE  PublishedOf(t)'
<1> t \in Goroutines /\ BranchOf[t] \in Branches \ {Main}
  BY DEF Goroutines
<1> op \in [Goroutines -> OpStates] /\ err \in [Goroutines -> Errors]
  BY DEF IsoInv, IInv, TypeInv, DirInv, DirTypeOK
<1>1. op[t] = "push" /\ tx[t] = "committing" /\ hash' = hash /\ UNCHANGED <<commits, refs, cleanup>>
  BY DEF Push, IsoInv, IInv, OpInv
<1>2. hash[t] # NoCommit /\ (cleanup # "removed" => refs[BranchOf[t]] = hash[t])
  BY <1>1 DEF PublishedInv, PublishedOf
<1>3. PICK e \in ContextErrors(t), done \in BOOLEAN :
        /\ done => PushAccepted
        /\ remote' = IF done THEN PushedBranches ELSE remote
        /\ HandleError(t, e, done, "report")
  BY DEF Push
<1>4. e \in {"none", "deadline"}
  BY DEF ContextErrors, Cancelled, PublishedInv
<1>5. CASE e = "none" /\ done
  <2>1. op'[t] = "report" /\ tx'[t] = "committing"
    BY <1>1, <1>3, <1>5 DEF HandleError
  <2>2. head # NoBranch /\ cleanup # "removed"
    BY <1>3, <1>5 DEF PushAccepted, IsoInv, GoneInv
  <2>3. refs[BranchOf[t]] = hash[t] /\ remote'[BranchOf[t]] = hash[t]
    BY <1>2, <1>3, <1>5, <2>2 DEF PushedBranches, LocalBranches
  <2>4. hash[t] \in 1..Len(commits)
    BY <1>2 DEF IsoInv, IInv, TypeInv, DirInv, DirTypeOK, NoCommit
  <2>5. hash[t] \in Ancestors(hash[t])
    BY <2>4 DEF IsoInv, IInv, HistoryInv
  <2>6. Published(t)'
    BY <1>1, <1>2, <2>3, <2>5 DEF Published, IsFastForward, Ancestors
  <2>7. QED
    BY <2>1, <2>6 DEF PublishedOf, Uncommitted
<1>6. CASE ~(e = "none" /\ done)
  <2>1. op'[t] = "idle" /\ err'[t] \in {"deadline", "failed"} /\ tx'[t] = "committing"
    BY <1>1, <1>3, <1>4, <1>6 DEF HandleError, Return
  <2>2. QED
    BY <2>1 DEF PublishedOf, Uncommitted, Succeeded
<1>7. QED
  BY <1>5, <1>6

\* The steps of the transaction itself.
LEMMA TxStepsPublished ==
    ASSUME IsoInv, PublishedInv, HistoryGrows, [Next]_vars, NEW t \in Callers, TxSteps(t)
    PROVE  PublishedOf(t)'
<1> t \in Goroutines /\ BranchOf[t] \in Branches \ {Main}
  BY DEF Goroutines
<1> /\ op \in [Goroutines -> OpStates] /\ err \in [Goroutines -> Errors]
    /\ hash \in [Goroutines -> 0..Len(commits)] /\ refs \in [Branches -> 0..Len(commits)]
    /\ tx \in [Callers -> TxStates] /\ result \in [Callers -> Results]
  BY DEF IsoInv, IInv, TypeInv, TxTypeOK, DirInv, DirTypeOK, GitTypeOK
<1>1. PublishedOf(t) /\ op[t] \in {"push", "report"} => tx[t] = "committing"
  BY DEF PublishedInv, IsoInv, IInv, OpInv
<1>2. PublishedOf(t)
  BY DEF PublishedInv
<1>3. CASE TxCommit(t)
  <2>1. /\ tx[t] = "commit" /\ tx'[t] = "committing" /\ hash[t] = NoCommit
        /\ UNCHANGED cleanup
    BY <1>2, <1>3 DEF TxCommit, CreateCommit, PublishedOf, Uncommitted
  <2>2. CASE op'[t] = "push" /\ head # NoBranch
    <3>1. /\ hash'[t] = Len(commits) + 1 /\ refs'[head] = Len(commits) + 1
      BY <1>3, <2>2, <2>1 DEF TxCommit, CreateCommit, Return, IsoInv, IInv, TypeInv, DirInv,
           DirTypeOK, GitTypeOK
    <3>2. cleanup # "removed" => head = BranchOf[t]
      BY <2>1 DEF IsoInv, IInv, BranchInv, OnBranch
    <3>3. Len(commits) + 1 # NoCommit
      BY CommitsType DEF NoCommit, IsoInv, IInv
    <3>4. QED
      BY <2>1, <2>2, <3>1, <3>2, <3>3 DEF PublishedOf, Uncommitted, Succeeded
  <2>3. CASE ~(op'[t] = "push" /\ head # NoBranch)
    <3>1. hash'[t] = NoCommit /\ op'[t] = "idle"
      BY <1>3, <2>1, <2>3 DEF TxCommit, CreateCommit, Return
    <3>2. QED
      BY <3>1 DEF PublishedOf, Published
  <2>4. QED
    BY <2>2, <2>3
<1>4. CASE Transaction(t) \/ Pulled(t) \/ TxSuspend(t) \/ TxBranch(t) \/ FnSteps(t)
  <2>1. tx[t] \in Uncommitted /\ hash' = hash
    BY <1>4 DEF Transaction, Pull, Pulled, TxSuspend, TxBranch, CheckoutNewBranch, FnSteps,
           FnAddMapping, FnOpenFile, FnDelete, FnWriteFile, FnReturns, Writes, Uncommitted, dirVars
  <2>2. op'[t] # "push"
    <3>1. op[t] # "push"
      BY <1>1, <2>1, <1>2 DEF Uncommitted
    <3>2. QED
      BY <1>4, <3>1 DEF Transaction, Pull, Pulled, TxSuspend, TxBranch, CheckoutNewBranch, FnSteps,
           FnAddMapping, FnOpenFile, FnDelete, FnWriteFile, FnReturns, Writes, dirVars
  <2>3. hash'[t] = NoCommit
    BY <1>2, <2>1 DEF PublishedOf
  <2>4. QED
    BY <2>2, <2>3 DEF PublishedOf, Published
<1>5. CASE TxCommitted(t) \/ TxPullRequest(t) \/ TxRestore(t) \/ TxResume(t)
  <2>1. /\ tx[t] \in {"committing", "pullRequest", "restore", "resume"}
        /\ op[t] \notin {"push", "report"}
        /\ tx'[t] \in {"pullRequest", "restore", "resume", "done"}
        /\ hash' = hash /\ op' = op
    BY <1>1, <1>2, <1>5 DEF TxCommitted, TxPullRequest, TxRestore, CheckoutMainBranch, TxResume,
                            dirVars
  <2>2. Succeeded(t)' => Succeeded(t)
    BY <1>5, <2>1 DEF TxCommitted, TxPullRequest, TxRestore, TxResume, Succeeded
  <2>3. QED
    BY <1>2, <2>1, <2>2, PublishedOfKept DEF Uncommitted
<1>6. QED
  BY <1>3, <1>4, <1>5 DEF TxSteps

LEMMA PublishedNext ==
    ASSUME IsoInv, PublishedInv, [Next]_vars, "cancel" \notin Faults
    PROVE  PublishedInv'
<1>1. HistoryGrows
  BY HistoryNext DEF IsoInv, IInv
<1>2. ctxDone' = {}
  <2>1. SyncSteps \/ CloneStep \/ LoopStep => UNCHANGED ctxDone
    BY DEF SyncSteps, NewGitStorage, StartCheckoutLoop, Started, Receive, Walk, WalkFails,
           DecodeFile, SetMappings, CloneStep, CloneSteps, CloneLock, Clone, HeadFails,
           HeadReports, SpawnLoop, LoopStep, LoopTick, Pull, LoopExits, dirVars
  <2>2. \A g \in Goroutines : PullStep(g) => UNCHANGED ctxDone
    BY DEF PullStep, PullLock, PullFetch, HeadFails, HeadReports
  <2>3. \A t \in Callers : TxSteps(t) \/ PushStep(t) => UNCHANGED ctxDone
    BY DEF TxSteps, Transaction, Pull, Pulled, TxSuspend, TxBranch, CheckoutNewBranch, FnSteps,
           FnAddMapping, FnOpenFile, FnDelete, FnWriteFile, FnReturns, Writes, TxCommit,
           CreateCommit, TxCommitted, TxPullRequest, TxRestore, CheckoutMainBranch, TxResume,
           PushStep, Push, CommitReports, dirVars
  <2>4. Environment => UNCHANGED ctxDone
    BY DEF Environment, CleanupCancels, CleanupRemoves, CancelContext, RemoteChanges, dirVars
  <2>5. UNCHANGED vars => UNCHANGED ctxDone
    BY DEF vars, dirVars
  <2>6. QED
    BY <2>1, <2>2, <2>3, <2>4, <2>5 DEF Next, Goroutines, PublishedInv
<1>3. ASSUME NEW t \in Callers
      PROVE  PublishedOf(t)'
  <2> t \in Goroutines /\ BranchOf[t] \in Branches \ {Main} /\ Syncer \in Goroutines \ {t}
      /\ Loop \in Goroutines \ {t}
    BY DEF Goroutines
  <2> op \in [Goroutines -> OpStates] /\ err \in [Goroutines -> Errors]
      /\ tx \in [Callers -> TxStates] /\ result \in [Callers -> Results]
      /\ hash \in [Goroutines -> 0..Len(commits)] /\ refs \in [Branches -> 0..Len(commits)]
    BY DEF IsoInv, IInv, TypeInv, TxTypeOK, DirInv, DirTypeOK, GitTypeOK
  <2>1. PublishedOf(t)
    BY DEF PublishedInv
  <2>2. ASSUME hash'[t] = hash[t], tx'[t] = tx[t], result'[t] = result[t],
               op'[t] = op[t], err'[t] = err[t],
               op[t] = "push" /\ cleanup' # "removed" =>
                 cleanup # "removed" /\ refs'[BranchOf[t]] = refs[BranchOf[t]]
        PROVE  PublishedOf(t)'
    <3>1. Succeeded(t)' => Succeeded(t)
      BY <2>2 DEF Succeeded
    <3>2. QED
      BY <1>1, <2>1, <2>2, <3>1, PublishedOfKept
  <2>3. CASE SyncSteps \/ LoopStep \/ UNCHANGED vars
    <3>1. UNCHANGED <<hash, tx, result, refs, cleanup>> /\ op'[t] = op[t] /\ err'[t] = err[t]
      BY <2>3 DEF SyncSteps, NewGitStorage, StartCheckoutLoop, Return, Started, Receive, Walk,
             WalkFails, DecodeFile, SetMappings, LoopStep, LoopTick, Pull, LoopExits, vars,
             gitVars, dirVars, txVars
    <3>2. QED
      BY <2>2, <3>1
  <2>4. CASE Environment
    <3>1. /\ UNCHANGED <<hash, tx, result, op, err>>
          /\ cleanup' # "removed" => cleanup # "removed" /\ UNCHANGED refs
      BY <2>4 DEF Environment, CleanupCancels, CleanupRemoves, CancelContext, RemoteChanges,
             RemoteCommit, RemoteMerge, gitVars, dirVars, txVars
    <3>2. QED
      BY <2>2, <3>1
  <2>5. CASE CloneStep
    <3>1. /\ UNCHANGED <<hash, tx, result, cleanup>> /\ op'[t] = op[t] /\ err'[t] = err[t]
          /\ refs' = refs \/ op[Syncer] = "cloning"
      BY <2>5 DEF CloneStep, CloneSteps, CloneLock, Clone, HandleError, Return, ReturnNil,
             HeadFails, HeadReports, SpawnLoop, gitVars, txVars
    <3>2. QED
      BY <2>2, <3>1, NotPushing
  <2>6. ASSUME NEW g \in Goroutines, PullStep(g)
        PROVE  PublishedOf(t)'
    <3>1. /\ UNCHANGED <<hash, tx, result, cleanup>>
          /\ refs' = refs \/ op[g] = "fetch"
          /\ op[g] \in {"pull", "fetch", "head"}
      BY <2>6 DEF PullStep, PullLock, PullFetch, HeadFails, HeadReports, gitVars, txVars
    <3>2. CASE g = t
      <4>1. tx[t] = "pulling"
        BY <3>1, <3>2 DEF IsoInv, IInv, OpInv
      <4>2. op'[t] \in {"idle", "fetch", "head"}
        BY <2>6, <3>2 DEF PullStep, PullLock, PullFetch, HandleError, Return, ReturnNil,
               HeadFails, HeadReports
      <4>3. tx'[t] = "pulling" /\ ~Succeeded(t)' /\ op'[t] # "push"
        BY <3>1, <4>1, <4>2 DEF Succeeded
      <4>4. QED
        BY <1>1, <2>1, <3>1, <4>1, <4>3, PublishedOfKept
    <3>3. CASE g # t
      <4>1. op'[t] = op[t] /\ err'[t] = err[t]
        BY <2>6, <3>3 DEF PullStep, PullLock, PullFetch, HandleError, Return, ReturnNil,
               HeadFails, HeadReports
      <4>2. QED
        BY <2>2, <3>1, <3>3, <4>1, NotPushing
    <3>4. QED
      BY <3>2, <3>3
  <2>7. ASSUME NEW u \in Callers, PushStep(u)
        PROVE  PublishedOf(t)'
    <3> u \in Goroutines
      BY DEF Goroutines
    <3>1. UNCHANGED <<hash, tx, result, cleanup, refs>>
      BY <2>7 DEF PushStep, Push, CommitReports, gitVars, txVars
    <3>2. CASE u = t /\ Push(u)
      BY <1>1, <3>1, <3>2, PushPublishes
    <3>3. CASE u = t /\ CommitReports(u)
      <4>1. op[t] = "report" /\ op'[t] = "idle"
        BY <3>3 DEF CommitReports, Return
      <4>2. Succeeded(t)
        BY <4>1 DEF Succeeded
      <4>3. QED
        BY <1>1, <2>1, <3>1, <4>1, <4>2, PublishedOfKept
    <3>4. CASE u # t
      <4>1. op'[t] = op[t] /\ err'[t] = err[t]
        BY <2>7, <3>4 DEF PushStep, Push, CommitReports, HandleError, Return, ReturnNil
      <4>2. QED
        BY <2>2, <3>1, <4>1
    <3>5. QED
      BY <2>7, <3>2, <3>3, <3>4 DEF PushStep
  <2>8. ASSUME NEW u \in Callers, TxSteps(u)
        PROVE  PublishedOf(t)'
    <3> u \in Goroutines
      BY DEF Goroutines
    <3>1. CASE u = t
      BY <1>1, <2>8, <3>1, TxStepsPublished
    <3>2. CASE u # t
      <4>1. /\ hash'[t] = hash[t] /\ tx'[t] = tx[t] /\ result'[t] = result[t]
            /\ op'[t] = op[t] /\ err'[t] = err[t] /\ cleanup' = cleanup
        BY <2>8, <3>2 DEF TxSteps, Transaction, Pull, Pulled, TxSuspend, TxBranch,
               CheckoutNewBranch, FnSteps, FnAddMapping, FnOpenFile, FnDelete, FnWriteFile,
               FnReturns, Writes, TxCommit, CreateCommit, Return, TxCommitted, TxPullRequest,
               TxRestore, CheckoutMainBranch, TxResume, dirVars
      <4>2. refs' = refs \/ tx[u] \in Suspended
        BY <2>8 DEF TxSteps, Transaction, Pull, Pulled, TxSuspend, TxBranch, FnSteps,
               FnAddMapping, FnOpenFile, FnDelete, FnWriteFile, FnReturns, Writes, TxCommit,
               TxCommitted, TxPullRequest, TxRestore, CheckoutMainBranch, TxResume, gitVars,
               Suspended
      <4>3. QED
        BY <2>2, <3>2, <4>1, <4>2, NotPushing
    <3>3. QED
      BY <3>1, <3>2
  <2>9. CASE PullStep(Loop)
    BY <2>6, <2>9
  <2>10. CASE \E u \in Callers : TxSteps(u) \/ PullStep(u) \/ PushStep(u)
    BY <2>6, <2>7, <2>8, <2>10 DEF Goroutines
  <2>11. QED
    BY <2>3, <2>4, <2>5, <2>9, <2>10, Zenon DEF Next
<1>4. QED
  BY <1>2, <1>3 DEF PublishedInv

LEMMA PublishedInit == Init => PublishedInv
<1>1. ASSUME Init, NEW t \in Callers
      PROVE  PublishedOf(t)
  <2>1. tx[t] = "new" /\ op[t] = "idle" /\ hash[t] = NoCommit
    BY <1>1 DEF Init, DirInit, Goroutines
  <2>2. QED
    BY <2>1 DEF PublishedOf, Published, Succeeded
<1>2. QED
  BY <1>1 DEF Init, DirInit, PublishedInv

\* The commit of a Transaction that returned nil, or came as far as its pull
\* request, is on its branch at the remote, and stays there (gitdir.go:396-434).
THEOREM CommitsArePublished ==
    ASSUME "restore" \notin Faults, "cancel" \notin Faults
    PROVE  Spec => []CommitPublished
<1>1. Init => IsoInv /\ PublishedInv
  BY IsoInit, PublishedInit
<1>2. IsoInv /\ PublishedInv /\ [Next]_vars => IsoInv' /\ PublishedInv'
  BY IsoNext, PublishedNext
<1>3. IsoInv /\ PublishedInv => CommitPublished
  BY DEF PublishedInv, PublishedOf, Published, Succeeded, CommitPublished
<1>4. QED
  BY <1>1, <1>2, <1>3, PTL DEF Spec
-----------------------------------------------------------------------------
(***************************************************************************)
(* PullHealsMappings.  While no function has written since the last report *)
(* of a Pull, the worktree is the tree of the clone's main branch, so that *)
(* a walk that follows that report finds what will be there when it ends.  *)
(***************************************************************************)
\* What a transaction has written is unseen while it goes on.
Dirty(t) ==
    \/ tx[t] = "write"
    \/ op[t] \in {"push", "report"}
    \/ tx[t] \in Suspended /\ touched[t] # {}
DirtyInv ==
    \A t \in Callers :
        /\ Dirty(t) => unseen
        /\ touched[t] # {} => tx[t] \in Suspended \cup {"done"}

\* Nothing is reported before the clone, and NewGitStorage goes on after it only.
StartInv ==
    /\ ~wt => /\ lastCommit = NoCommit
              /\ \A g \in Goroutines : op[g] \notin {"fetch", "head", "report"}
    /\ cleanup = "up" =>
        /\ op[Syncer] = "spawn" => wt
        /\ sync = "starting" /\ op[Syncer] = "idle" /\ err[Syncer] = "nil" => wt
        /\ sync \notin {"new", "starting", "failed"} => wt

\* The syncer has, or finds, the files of the last commit reported.
Synced ==
    /\ sync = "receive" => mappings = Present(wtree)
    /\ sync \in {"firstDecode", "decode"} => files \cup found = Present(wtree)

HealInv ==
    wt /\ cleanup # "removed" /\ ~unseen =>
        /\ wtree = TreeOf(refs[Main])
        /\ lastCommit <= refs[Main]
        /\ lastCommit = refs[Main] /\ commitChan = <<>> => Synced

HealedInv == IsoInv /\ DirtyInv /\ StartInv /\ HealInv

\* Types that the lemmas below need again and again.
LEMMA HealTypes ==
    ASSUME IsoInv
    PROVE  /\ op \in [Goroutines -> OpStates] /\ err \in [Goroutines -> Errors]
           /\ tx \in [Callers -> TxStates] /\ touched \in [Callers -> SUBSET Keys]
           /\ refs \in [Branches -> 0..Len(commits)] /\ Len(commits) \in Nat
           /\ lastCommit \in Nat /\ wtree \in Files /\ unseen \in BOOLEAN
           /\ mappings \subseteq Keys /\ files \subseteq Keys /\ found \subseteq Keys
           /\ Callers \subseteq Goroutines /\ Loop \in Goroutines \ {Syncer}
           /\ Syncer \in Goroutines \ Callers /\ Syncer \in Starters
<1>1. Len(commits) \in Nat
  BY DEF IsoInv, IInv, TypeInv, DirInv, DirTypeOK, GitTypeOK
<1>2. QED
  BY <1>1 DEF IsoInv, IInv, TypeInv, TxTypeOK, SyncTypeOK, DirInv, DirTypeOK, GitTypeOK, Goroutines

\* The clone's main branch, once there is one.
LEMMA AliveMain ==
    ASSUME IsoInv, Alive
    PROVE  /\ head # NoBranch
           /\ refs[Main] \in 1..Len(commits) /\ remote[Main] \in 1..Len(commits)
           /\ NoTorn(TreeOf(refs[Main]))
           /\ (\A t \in Callers : ~Left(t)) => head = Main /\ wtree = TreeOf(refs[Main])
<1>1. remote[Main] \in 1..Len(commits) /\ refs[Main] \in 0..Len(commits)
  BY DEF IsoInv, IInv, TypeInv, DirInv, DirTypeOK, GitTypeOK, PointersOK, NoCommit
<1>2. /\ head # NoBranch /\ refs[Main] \in Ancestors(remote[Main])
      /\ (\A t \in Callers : ~Left(t)) => head = Main /\ wtree = TreeOf(refs[Main])
  BY DEF IsoInv, IInv, MainInv, IsFastForward
<1>3. refs[Main] \in 1..Len(commits)
  BY <1>1, <1>2 DEF IsoInv, IInv, HistoryInv
<1>4. QED
  BY <1>1, <1>2, <1>3 DEF IsoInv, TreesWhole

\* The steps that leave the files, the branch and what is known of them alone.
LEMMA HealKept ==
    ASSUME IsoInv, HealInv, HistoryGrows,
           UNCHANGED <<wt, lastCommit, commitChan, sync, mappings, files, found>>,
           cleanup' # "removed" /\ ~unseen' =>
             cleanup # "removed" /\ ~unseen /\ wtree' = wtree /\ refs'[Main] = refs[Main]
    PROVE  HealInv'
<1> SUFFICES ASSUME wt', cleanup' # "removed", ~unseen'
             PROVE  /\ wtree' = TreeOf(refs[Main])'
                    /\ lastCommit' <= refs'[Main]
                    /\ lastCommit' = refs'[Main] /\ commitChan' = <<>> => Synced'
  BY DEF HealInv
<1>1. wt /\ cleanup # "removed" /\ ~unseen /\ wtree' = wtree /\ refs'[Main] = refs[Main]
  OBVIOUS
<1>2. refs[Main] \in 1..Len(commits)
  BY <1>1, AliveMain DEF Alive
<1>3. TreeOf(refs[Main])' = TreeOf(refs[Main])
  BY <1>1, <1>2 DEF HistoryGrows, TreeOf
<1>4. Synced' <=> Synced
  BY <1>1 DEF Synced
<1>5. QED
  BY <1>1, <1>3, <1>4 DEF HealInv
-----------------------------------------------------------------------------
\* What a step must leave alone to leave DirtyInv alone.
LEMMA DirtyKept ==
    ASSUME DirtyInv, UNCHANGED <<unseen, touched>>,
           \A t \in Callers : Dirty(t)' => Dirty(t) \/ unseen,
           \A t \in Callers : tx[t] \in Suspended \cup {"done"} => tx'[t] \in Suspended \cup {"done"}
    PROVE  DirtyInv'
  BY DEF DirtyInv

\* Only what a function wrote can be committed.
LEMMA CommitDirty ==
    ASSUME IsoInv, DirtyInv, NEW t \in Callers, TxCommit(t), op'[t] = "push"
    PROVE  unseen
<1>1. wt /\ head # NoBranch /\ ~StatusIsClean /\ tx[t] = "commit"
  <2>1. op \in [Goroutines -> OpStates] /\ t \in Goroutines
    BY HealTypes
  <2>2. CASE WriteError = "nil" /\ head # NoBranch /\ ~StatusIsClean
    BY <2>2 DEF TxCommit, WriteError
  <2>3. CASE ~(WriteError = "nil" /\ head # NoBranch /\ ~StatusIsClean)
    <3>1. op' = [op EXCEPT ![t] = "idle"]
      BY <2>3 DEF TxCommit, CreateCommit, Return
    <3>2. QED
      BY <2>1, <3>1
  <2>4. QED
    BY <2>2, <2>3
<1>2. /\ refs[head] = refs[Main]
      /\ \A k \in Keys \ touched[t] : wtree[k] = TreeOf(refs[Main])[k]
  BY <1>1 DEF IsoInv, GoneInv, FnInv, InFn
<1>3. touched[t] # {}
  <2> SUFFICES ASSUME touched[t] = {} PROVE FALSE
    OBVIOUS
  <2>1. refs[head] \in 1..Len(commits)
    BY <1>1 DEF IsoInv, IInv, TypeInv, DirInv, DirTypeOK, GitTypeOK, PointersOK, NoCommit
  <2>2. TreeOf(refs[head]) \in Files /\ wtree \in Files
    BY <2>1, TreeOfType, HealTypes DEF IsoInv, IInv, TypeInv, DirInv, DirTypeOK, GitTypeOK
  <2>3. wtree = TreeOf(refs[head])
    BY <1>2, <2>2 DEF Files
  <2>4. QED
    BY <1>1, <2>3 DEF StatusIsClean
<1>4. QED
  BY <1>1, <1>3 DEF DirtyInv, Dirty, Suspended

LEMMA TxStepsDirty ==
    ASSUME IsoInv, DirtyInv, NEW t \in Callers, TxSteps(t)
    PROVE  DirtyInv'
<1> /\ tx \in [Callers -> TxStates] /\ touched \in [Callers -> SUBSET Keys] /\ t \in Goroutines
    /\ op \in [Goroutines -> OpStates] /\ Callers \subseteq Goroutines
  BY HealTypes
<1>1. ASSUME NEW k \in Keys, FnAddMapping(t, k) \/ FnOpenFile(t, k) \/ FnDelete(t, k)
      PROVE  DirtyInv'
  <2>1. /\ unseen' = TRUE /\ tx[t] \in Suspended /\ tx'[t] \in Suspended
        /\ \A u \in Callers \ {t} : tx'[u] = tx[u] /\ touched'[u] = touched[u]
    BY <1>1 DEF FnAddMapping, FnOpenFile, FnDelete, Writes, Suspended
  <2>2. QED
    BY <2>1 DEF DirtyInv
<1>2. CASE \E v \in Versions : FnWriteFile(t, v)
  <2>1. /\ UNCHANGED <<unseen, touched, op>> /\ tx[t] = "write" /\ tx'[t] = "fn"
        /\ \A u \in Callers \ {t} : tx'[u] = tx[u]
    BY <1>2 DEF FnWriteFile, dirVars
  <2>2. QED
    BY <2>1, DirtyKept DEF DirtyInv, Dirty, Suspended
<1>3. CASE (\E r \in FnResults : FnReturns(t, r)) \/ TxBranch(t) \/ TxCommitted(t)
             \/ TxPullRequest(t) \/ TxRestore(t)
  <2>1. /\ UNCHANGED <<unseen, touched, op>> /\ tx[t] \in Suspended
        /\ tx'[t] \in Suspended \ {"write"}
        /\ \A u \in Callers \ {t} : tx'[u] = tx[u]
    BY <1>3 DEF FnReturns, TxBranch, CheckoutNewBranch, TxCommitted, TxPullRequest, TxRestore,
                CheckoutMainBranch, dirVars, Suspended
  <2>2. QED
    BY <2>1, DirtyKept DEF DirtyInv, Dirty
<1>4. CASE Transaction(t) \/ Pulled(t) \/ TxSuspend(t) \/ TxResume(t)
  <2>1. /\ UNCHANGED <<unseen, touched>>
        /\ \A u \in Callers : op'[u] \in {"push", "report"} => op[u] \in {"push", "report"}
        /\ \A u \in Callers \ {t} : tx'[u] = tx[u]
        /\ \/ tx[t] \in {"new", "pulling", "suspend"}
           \/ tx[t] \in Suspended /\ tx'[t] = "done"
        /\ tx'[t] # "write"
    BY <1>4 DEF Transaction, Pull, Pulled, TxSuspend, TxResume, dirVars, Suspended
  <2>2. tx[t] \in {"new", "pulling", "suspend"} => touched[t] = {}
    BY DEF DirtyInv, Suspended
  <2>3. \A u \in Callers : Dirty(u)' => Dirty(u)
    BY <2>1, <2>2 DEF Dirty, Suspended
  <2>4. \A u \in Callers : tx[u] \in Suspended \cup {"done"} => tx'[u] \in Suspended \cup {"done"}
    BY <2>1 DEF Suspended
  <2>5. QED
    BY <2>1, <2>3, <2>4, DirtyKept
<1>5. CASE TxCommit(t)
  <2>1. /\ UNCHANGED <<unseen, touched>>
        /\ \A u \in Callers \ {t} : tx'[u] = tx[u] /\ op'[u] = op[u]
        /\ tx[t] = "commit" /\ tx'[t] = "committing"
        /\ op'[t] \in {"push", "idle"}
    BY <1>5 DEF TxCommit, CreateCommit, Return
  <2>2. op'[t] = "push" => unseen
    BY <1>5, CommitDirty
  <2>3. \A u \in Callers : Dirty(u)' => Dirty(u) \/ unseen
    BY <2>1, <2>2 DEF Dirty, Suspended
  <2>4. \A u \in Callers : tx[u] \in Suspended \cup {"done"} => tx'[u] \in Suspended \cup {"done"}
    BY <2>1 DEF Suspended
  <2>5. QED
    BY <2>1, <2>3, <2>4, DirtyKept
<1>6. QED
  BY <1>1, <1>2, <1>3, <1>4, <1>5 DEF TxSteps, FnSteps

LEMMA DirtyNext ==
    ASSUME IsoInv, DirtyInv, [Next]_vars
    PROVE  DirtyInv'
<1> /\ op \in [Goroutines -> OpStates] /\ Callers \subseteq Goroutines /\ Loop \notin Callers
    /\ Syncer \in Starters /\ Syncer \notin Callers /\ unseen \in BOOLEAN
  BY HealTypes
<1>1. ASSUME UNCHANGED <<unseen, touched, tx>>,
             \A u \in Callers : op'[u] \in {"push", "report"} => op[u] \in {"push", "report"}
      PROVE  DirtyInv'
  BY <1>1, DirtyKept DEF Dirty
<1>2. CASE SyncSteps \/ LoopStep \/ Environment \/ UNCHANGED vars
  <2>1. UNCHANGED <<unseen, touched, tx>> /\ \A u \in Callers : op'[u] = op[u]
    BY <1>2 DEF SyncSteps, NewGitStorage, StartCheckoutLoop, Return, Started, Receive, Walk,
          WalkFails, DecodeFile, SetMappings, LoopStep, LoopTick, Pull, LoopExits, Environment,
          CleanupRemoves, CleanupCancels, RemoteChanges, CancelContext, dirVars, txVars, vars
  <2>2. QED
    BY <1>1, <2>1
<1>3. CASE CloneStep
  <2>1. UNCHANGED <<unseen, touched, tx>> /\ \A u \in Callers : op'[u] = op[u]
    BY <1>3 DEF CloneStep, CloneSteps, CloneLock, Clone, HandleError, Return, ReturnNil, HeadFails,
                HeadReports, SpawnLoop, txVars
  <2>2. QED
    BY <1>1, <2>1
<1>4. ASSUME NEW g \in Goroutines, PullStep(g) PROVE DirtyInv'
  <2>1. CASE HeadReports(g)
    <3>1. \A u \in Callers : tx[u] \notin Suspended
      BY <2>1, Alone DEF HeadReports, IsoInv, IInv
    <3>2. /\ UNCHANGED <<touched, tx>>
          /\ \A u \in Callers : op'[u] \in {"push", "report"} => op[u] \in {"push", "report"}
      BY <1>4, <2>1 DEF PullStep, HeadReports, ReturnNil, txVars
    <3>3. \A u \in Callers : ~Dirty(u)
      BY <3>1 DEF Dirty, Suspended, IsoInv, IInv, OpInv
    <3>4. QED
      BY <3>2, <3>3 DEF DirtyInv, Dirty
  <2>2. CASE ~HeadReports(g)
    <3>1. /\ UNCHANGED <<unseen, touched, tx>>
          /\ \A u \in Callers : op'[u] \in {"push", "report"} => op[u] \in {"push", "report"}
      BY <1>4, <2>2 DEF PullStep, PullLock, PullFetch, HandleError, Return, ReturnNil, HeadFails,
                        Reports, txVars
    <3>2. QED
      BY <1>1, <3>1
  <2>3. QED
    BY <2>1, <2>2
<1>5. ASSUME NEW t \in Callers, PushStep(t) PROVE DirtyInv'
  <2>1. /\ UNCHANGED <<unseen, touched, tx>>
        /\ \A u \in Callers : op'[u] \in {"push", "report"} => op[u] \in {"push", "report"}
    BY <1>5 DEF PushStep, Push, CommitReports, HandleError, Return, ReturnNil, txVars
  <2>2. QED
    BY <1>1, <2>1
<1>6. QED
  BY <1>2, <1>3, <1>4, <1>5, TxStepsDirty DEF Next, Goroutines

-----------------------------------------------------------------------------
\* What a step must leave alone to leave StartInv alone.
LEMMA StartKept ==
    ASSUME StartInv, wt => wt',
           ~wt' => /\ lastCommit' = lastCommit
                   /\ \A g \in Goroutines :
                        op'[g] \in {"fetch", "head", "report"} => op[g] \in {"fetch", "head", "report"},
           cleanup' = "up" => cleanup = "up",
           cleanup' = "up" /\ ~wt' =>
             /\ op'[Syncer] # "spawn"
             /\ ~(sync' = "starting" /\ op'[Syncer] = "idle" /\ err'[Syncer] = "nil")
             /\ sync' \in {"new", "starting", "failed"}
    PROVE  StartInv'
  BY DEF StartInv

\* The steps of the goroutines other than the syncer.
LEMMA StartOther ==
    ASSUME StartInv, UNCHANGED <<wt, sync>>, cleanup' = "up" => cleanup = "up",
           ~wt => /\ lastCommit' = lastCommit
                  /\ \A g \in Goroutines :
                       op'[g] \in {"fetch", "head", "report"} => op[g] \in {"fetch", "head", "report"},
           op'[Syncer] = op[Syncer], err'[Syncer] = err[Syncer]
    PROVE  StartInv'
  BY StartKept DEF StartInv

LEMMA CloneStart ==
    ASSUME IsoInv, StartInv, CloneStep
    PROVE  StartInv'
<1> /\ op \in [Goroutines -> OpStates] /\ err \in [Goroutines -> Errors]
    /\ Syncer \in Goroutines \ Callers /\ Syncer \in Starters /\ Loop \in Goroutines \ {Syncer}
  BY HealTypes
<1>1. UNCHANGED <<cleanup, sync>>
  BY DEF CloneStep, CloneSteps, CloneLock, Clone, HeadFails, HeadReports, SpawnLoop, syncVars
<1>2. CASE CloneLock(Syncer)
  <2>1. /\ UNCHANGED <<wt, lastCommit>> /\ op'[Syncer] = "cloning"
        /\ \A g \in Goroutines \ {Syncer} : op'[g] = op[g]
    BY <1>2 DEF CloneLock
  <2>2. QED
    BY <1>1, <2>1, StartKept DEF StartInv
<1>3. CASE Clone(Syncer)
  <2>1. PICK e \in ContextErrors(Syncer), done \in BOOLEAN : HandleError(Syncer, e, done, "head")
    BY <1>3 DEF Clone
  <2>2. /\ wt' = (wt \/ op'[Syncer] = "head") /\ UNCHANGED lastCommit
        /\ \A g \in Goroutines \ {Syncer} : op'[g] = op[g]
    BY <1>3, <2>1 DEF Clone, HandleError, Return, ReturnNil
  <2>3. e = "canceled" => cleanup # "up"
    BY <2>1 DEF ContextErrors, Cancelled
  <2>4. \/ op'[Syncer] = "head"
        \/ op'[Syncer] = "spawn" /\ cleanup # "up"
        \/ op'[Syncer] = "idle" /\ err'[Syncer] # "nil"
    BY <2>1, <2>3 DEF HandleError, Return, ReturnNil
  <2>5. QED
    BY <1>1, <2>2, <2>4, StartKept DEF StartInv
<1>4. CASE HeadFails(Syncer) \/ HeadReports(Syncer)
  <2>1. UNCHANGED wt /\ op[Syncer] = "head"
    BY <1>4 DEF HeadFails, HeadReports
  <2>2. QED
    BY <1>1, <2>1, StartKept DEF StartInv
<1>5. CASE SpawnLoop(Syncer)
  <2>1. /\ UNCHANGED <<wt, lastCommit, err>> /\ op[Syncer] = "spawn" /\ op'[Syncer] = "idle"
        /\ \A g \in Goroutines \ {Syncer} : op'[g] \in {op[g], "idle"}
    BY <1>5 DEF SpawnLoop
  <2>2. QED
    BY <1>1, <2>1, StartKept DEF StartInv
<1>6. QED
  BY <1>2, <1>3, <1>4, <1>5 DEF CloneStep, CloneSteps

LEMMA StartNext ==
    ASSUME IsoInv, StartInv, [Next]_vars
    PROVE  StartInv'
<1> /\ op \in [Goroutines -> OpStates] /\ err \in [Goroutines -> Errors]
    /\ Syncer \in Goroutines \ Callers /\ Syncer \in Starters /\ Loop \in Goroutines \ {Syncer}
    /\ Callers \subseteq Goroutines
  BY HealTypes
<1>1. CASE SyncSteps
  <2>1. CASE NewGitStorage
    <3>1. /\ UNCHANGED <<wt, lastCommit, cleanup>> /\ sync' = "starting"
          /\ ~wt => op'[Syncer] = "clone"
          /\ \A g \in Goroutines \ {Syncer} : op'[g] = op[g]
      BY <2>1 DEF NewGitStorage, StartCheckoutLoop, Return
    <3>2. QED
      BY <3>1, StartKept DEF StartInv
  <2>2. CASE Started
    <3>1. /\ UNCHANGED dirVars /\ sync = "starting" /\ op[Syncer] = "idle"
          /\ sync' = IF err[Syncer] = "nil" THEN "firstWalk" ELSE "failed"
      BY <2>2 DEF Started
    <3>2. QED
      BY <3>1, StartKept DEF StartInv, dirVars
  <2>3. CASE Receive \/ Walk \/ WalkFails \/ (\E k \in Keys : DecodeFile(k)) \/ SetMappings
    <3>1. /\ UNCHANGED <<wt, lastCommit, cleanup, op, err>> /\ sync \notin {"new", "starting", "failed"}
      BY <2>3 DEF Receive, Walk, WalkFails, DecodeFile, SetMappings, dirVars
    <3>2. QED
      BY <3>1, StartKept DEF StartInv
  <2>4. QED
    BY <1>1, <2>1, <2>2, <2>3 DEF SyncSteps
<1>2. CASE LoopStep \/ UNCHANGED vars
  <2>1. /\ UNCHANGED <<wt, sync, cleanup, lastCommit, err>>
        /\ \A g \in Goroutines \ {Loop} : op'[g] = op[g]
        /\ op'[Loop] \in {op[Loop], "pull", "off"}
    BY <1>2 DEF LoopStep, LoopTick, Pull, LoopExits, dirVars, syncVars, vars
  <2>2. QED
    BY <2>1, StartOther
<1>3. ASSUME NEW g \in Goroutines \ {Syncer}, PullStep(g) PROVE StartInv'
  <2>1. /\ UNCHANGED <<wt, sync, cleanup>>
        /\ \A h \in Goroutines \ {g} : op'[h] = op[h] /\ err'[h] = err[h]
    BY <1>3 DEF PullStep, PullLock, PullFetch, HandleError, Return, ReturnNil, HeadFails,
                HeadReports, syncVars
  <2>2. CASE PullLock(g)
    <3>1. UNCHANGED lastCommit /\ (~wt => op'[g] = "idle")
      BY <2>2 DEF PullLock, Return
    <3>2. QED
      BY <2>1, <3>1, StartOther
  <2>3. CASE op[g] \in {"fetch", "head"}
    <3>1. wt
      BY <2>3 DEF StartInv
    <3>2. QED
      BY <2>1, <3>1, StartOther
  <2>4. QED
    BY <1>3, <2>2, <2>3 DEF PullStep, PullFetch, HeadFails, HeadReports
<1>4. ASSUME NEW t \in Callers, PushStep(t) PROVE StartInv'
  <2>1. /\ UNCHANGED <<wt, sync, cleanup>>
        /\ \A h \in Goroutines \ {t} : op'[h] = op[h] /\ err'[h] = err[h]
    BY <1>4 DEF PushStep, Push, CommitReports, HandleError, Return, ReturnNil, syncVars
  <2>2. wt
    BY <1>4 DEF PushStep, Push, CommitReports, IsoInv, PushStarted, StartInv
  <2>3. QED
    BY <2>1, <2>2, StartOther
<1>5. CASE Environment
  <2>1. UNCHANGED <<wt, sync, lastCommit, op, err>> /\ (cleanup' = "up" => cleanup = "up")
    BY <1>5 DEF Environment, CleanupRemoves, CleanupCancels, RemoteChanges, CancelContext, dirVars,
                syncVars
  <2>2. QED
    BY <2>1, StartOther
<1>6. ASSUME NEW t \in Callers, TxSteps(t) PROVE StartInv'
  <2>1. /\ UNCHANGED <<wt, sync, cleanup, lastCommit>>
        /\ \A h \in Goroutines \ {t} : op'[h] = op[h] /\ err'[h] = err[h]
        /\ op'[t] \in {op[t], "pull", "push", "idle"}
    <3>1. CASE TxCommit(t)
      BY <3>1 DEF TxCommit, CreateCommit, Return, syncVars
    <3>2. CASE TxBranch(t)
      BY <3>2 DEF TxBranch, CheckoutNewBranch, syncVars
    <3>3. CASE ~TxCommit(t) /\ ~TxBranch(t)
      BY <1>6, <3>3 DEF TxSteps, Transaction, Pull, Pulled, TxSuspend,
           FnSteps, FnAddMapping, FnOpenFile, FnDelete, FnWriteFile, FnReturns, Writes,
           TxCommitted, TxPullRequest, TxRestore, CheckoutMainBranch, TxResume, dirVars, syncVars
    <3>4. QED
      BY <3>1, <3>2, <3>3
  <2>2. QED
    BY <2>1, StartOther
<1>7. QED
  BY <1>1, <1>2, <1>3, <1>4, <1>5, <1>6, CloneStart DEF Next, Goroutines

-----------------------------------------------------------------------------
\* A walk that sees the files of the clean main branch finds and decodes them all.
LEMMA SyncHeal ==
    ASSUME IsoInv, HealInv, SyncSteps, "walk" \notin Faults
    PROVE  HealInv'
<1>1. UNCHANGED <<gitVars, wt, lastCommit, cleanup, unseen>>
  BY DEF SyncSteps, NewGitStorage, StartCheckoutLoop, Started, Receive, Walk, WalkFails, DecodeFile,
         SetMappings, dirVars
<1> SUFFICES ASSUME wt, cleanup # "removed", ~unseen, lastCommit = refs[Main], commitChan' = <<>>
             PROVE  Synced'
  BY <1>1 DEF HealInv, TreeOf, gitVars
<1>2. CASE NewGitStorage \/ Started \/ Receive
  BY <1>2 DEF NewGitStorage, Started, Receive, Synced
<1>3. CASE Walk
  BY <1>1, <1>3 DEF Walk, Synced, gitVars
<1>4. CASE WalkFails
  BY <1>4 DEF WalkFails
<1>5. CASE (\E k \in Keys : DecodeFile(k)) \/ SetMappings
  <2>1. files \cup found = Present(wtree) /\ sync \in {"firstDecode", "decode"}
    BY <1>5 DEF HealInv, Synced, DecodeFile, SetMappings, dirVars
  <2>2. CASE SetMappings
    BY <1>1, <2>1, <2>2 DEF SetMappings, Synced, gitVars
  <2>3. ASSUME NEW k \in Keys, DecodeFile(k) PROVE Synced'
    <3>1. wtree[k] \in Versions
      <4>1. wtree \in Files /\ NoTorn(wtree)
        BY HealTypes, AliveMain DEF HealInv, Alive
      <4>2. wtree[k] # Absent
        BY <2>1, <2>3 DEF DecodeFile, Present
      <4>3. QED
        BY <4>1, <4>2 DEF Files, NoTorn
    <3>2. files' \cup found' = Present(wtree) /\ UNCHANGED sync
      BY <2>1, <2>3, <3>1 DEF DecodeFile
    <3>3. QED
      BY <1>1, <2>1, <3>2 DEF Synced, gitVars
  <2>4. QED
    BY <1>5, <2>2, <2>3
<1>6. QED
  BY <1>2, <1>3, <1>4, <1>5 DEF SyncSteps

\* The clone's HEAD is the main branch, and clean, whenever clone or Pull looks.
LEMMA HeadIsMain ==
    ASSUME IsoInv, NEW g \in Goroutines, op[g] \in {"cloning", "fetch", "head"}, Alive
    PROVE  head = Main /\ wtree = TreeOf(refs[Main])
<1>1. \A t \in Callers : tx[t] \notin Suspended
  BY Alone DEF IsoInv, IInv
<1>2. QED
  BY <1>1, AliveMain DEF Left, OnBranch, Suspended

\* A reported commit waits in the channel.
LEMMA ReportQueued ==
    ASSUME IsoInv, NEW c \in 1..Len(commits), observeCommit(c)
    PROVE  commitChan' # <<>> /\ lastCommit' = c
<1>1. commitChan \in Seq(1..Len(commits))
  BY DEF IsoInv, IInv, TypeInv, DirInv, DirTypeOK
<1>2. QED
  BY <1>1 DEF observeCommit

LEMMA CloneHeal ==
    ASSUME IsoInv, StartInv, HealInv, HistoryGrows, CloneStep
    PROVE  HealInv'
<1> /\ op \in [Goroutines -> OpStates] /\ refs \in [Branches -> 0..Len(commits)]
    /\ Syncer \in Goroutines \ Callers /\ Syncer \in Starters /\ Len(commits) \in Nat
  BY HealTypes
<1>1. UNCHANGED <<sync, mappings, files, found, unseen, cleanup, commits>>
  BY DEF CloneStep, CloneSteps, CloneLock, Clone, ClonedDirectory, HeadFails, HeadReports, SpawnLoop,
         syncVars, gitVars
<1>2. CASE CloneLock(Syncer) \/ HeadFails(Syncer) \/ SpawnLoop(Syncer)
  <2>1. UNCHANGED <<gitVars, wt, lastCommit, commitChan>>
    BY <1>2 DEF CloneLock, HeadFails, SpawnLoop
  <2>2. QED
    BY <1>1, <2>1, HealKept DEF gitVars
<1>3. CASE Clone(Syncer)
  <2>1. PICK e \in ContextErrors(Syncer), done \in BOOLEAN :
            /\ done => head = NoBranch /\ cleanup # "removed"
            /\ IF done THEN ClonedDirectory ELSE UNCHANGED gitVars
            /\ HandleError(Syncer, e, done, "head")
    BY <1>3 DEF Clone
  <2>2. UNCHANGED <<lastCommit, commitChan>> /\ wt' = (wt \/ op'[Syncer] = "head")
    BY <1>3 DEF Clone
  <2>3. CASE done
    <3> SUFFICES ASSUME wt', cleanup # "removed"
                 PROVE  /\ wtree' = TreeOf(refs[Main])'
                        /\ lastCommit' <= refs'[Main]
                        /\ lastCommit' # refs'[Main]
      BY <1>1 DEF HealInv
    <3>1. ~wt
      BY <2>1, <2>3, AliveMain DEF Alive
    <3>2. lastCommit' = 0
      BY <2>2, <3>1 DEF StartInv, NoCommit
    <3>3. remote[Main] \in 1..Len(commits)
      BY DEF IsoInv, IInv, TypeInv, DirInv, DirTypeOK, GitTypeOK, PointersOK, NoCommit
    <3>4. refs'[Main] = remote[Main] /\ wtree' = TreeOf(remote[Main])
      BY <2>1, <2>3 DEF ClonedDirectory
    <3>5. QED
      BY <1>1, <3>2, <3>3, <3>4 DEF TreeOf
  <2>4. CASE ~done
    <3>1. op'[Syncer] # "head" /\ UNCHANGED gitVars
      BY <2>1, <2>4 DEF HandleError, Return, ReturnNil, ContextErrors
    <3>2. UNCHANGED wt
      BY <2>2, <3>1 DEF IsoInv, IInv, TypeInv, DirInv, DirTypeOK
    <3>3. QED
      BY <1>1, <2>2, <3>1, <3>2, HealKept DEF gitVars
  <2>5. QED
    BY <2>3, <2>4
<1>4. CASE HeadReports(Syncer)
  <2> SUFFICES ASSUME wt', cleanup # "removed", ~unseen
               PROVE  /\ wtree' = TreeOf(refs[Main])'
                      /\ lastCommit' <= refs'[Main]
                      /\ commitChan' # <<>>
    BY <1>1 DEF HealInv
  <2>1. UNCHANGED <<gitVars, wt>> /\ op[Syncer] = "head" /\ observeCommit(refs[head])
    BY <1>4 DEF HeadReports
  <2>2. head = Main /\ wtree = TreeOf(refs[Main])
    BY <2>1, HeadIsMain DEF Alive
  <2>3. refs[Main] \in 1..Len(commits)
    BY <2>1, AliveMain DEF Alive
  <2>4. commitChan' # <<>> /\ lastCommit' = refs[Main]
    BY <2>1, <2>2, <2>3, ReportQueued
  <2>5. QED
    BY <2>1, <2>2, <2>3, <2>4 DEF TreeOf, gitVars
<1>5. QED
  BY <1>2, <1>3, <1>4 DEF CloneStep, CloneSteps

\* A pull of the clean main branch leaves the clean main branch; when it moves the
\* branch, the commit has still to be reported.
LEMMA FetchHeal ==
    ASSUME IsoInv, HealInv, HistoryGrows, NEW g \in Goroutines, PullFetch(g),
           UNCHANGED <<unseen, txVars, mappings, syncVars>>
    PROVE  HealInv'
<1> refs \in [Branches -> 0..Len(commits)] /\ Len(commits) \in Nat /\ lastCommit \in Nat
  BY HealTypes
<1>1. UNCHANGED <<wt, lastCommit, commitChan, cleanup, unseen, sync, mappings, files, found>>
  BY DEF PullFetch, syncVars
<1>2. CASE UNCHANGED gitVars
  BY <1>1, <1>2, HealKept DEF gitVars
<1>3. CASE ~UNCHANGED gitVars
  <2> SUFFICES ASSUME wt, cleanup # "removed", ~unseen
               PROVE  /\ wtree' = TreeOf(refs[Main])'
                      /\ lastCommit <= refs'[Main]
                      /\ lastCommit # refs'[Main]
    BY <1>1 DEF HealInv
  <2>1. op[g] = "fetch" /\ PullWorktree
    BY <1>3 DEF PullFetch
  <2>2. head = Main /\ wtree = TreeOf(refs[Main])
    BY <2>1, HeadIsMain DEF Alive
  <2>3. /\ PullMoves
        /\ refs' = [refs EXCEPT ![head] = remote[Main]]
        /\ wtree' = IF UnstagedChanges THEN wtree ELSE ResetTree(refs[head], remote[Main])
        /\ UNCHANGED commits
    BY <1>3, <2>1 DEF PullWorktree
  <2>4. refs[Main] \in 1..Len(commits) /\ remote[Main] \in 1..Len(commits)
    BY AliveMain DEF Alive
  <2>5. wtree' = TreeOf(remote[Main])
    <3>1. ~UnstagedChanges
      BY <2>2 DEF UnstagedChanges
    <3>2. TypeInv
      BY DEF IsoInv, IInv
    <3>3. QED
      BY <2>2, <2>3, <2>4, <3>1, <3>2, CleanReset
  <2>6. refs[Main] <= remote[Main] /\ refs[Main] # remote[Main]
    <3>1. refs[Main] \in Ancestors(remote[Main]) /\ remote[Main] \notin Ancestors(refs[Main])
      BY <2>2, <2>3 DEF PullMoves, PullUpToDate, IsFastForward
    <3>2. QED
      BY <2>4, <3>1 DEF IsoInv, IInv, HistoryInv
  <2>7. refs'[Main] = remote[Main]
    BY <2>2, <2>3
  <2>8. lastCommit <= refs[Main]
    BY DEF HealInv
  <2>9. QED
    BY <2>3, <2>4, <2>5, <2>6, <2>7, <2>8 DEF TreeOf
<1>4. QED
  BY <1>2, <1>3

LEMMA PullHeal ==
    ASSUME IsoInv, StartInv, HealInv, HistoryGrows, NEW g \in Goroutines \ Starters, PullStep(g)
    PROVE  HealInv'
<1> unseen \in BOOLEAN
  BY HealTypes
<1>1. UNCHANGED <<txVars, mappings, sync, files, found>>
  BY DEF PullStep, syncVars
<1>2. ASSUME UNCHANGED <<gitVars, wt, lastCommit, commitChan, cleanup>> PROVE HealInv'
  <2>1. UNCHANGED unseen
    BY <1>2 DEF PullStep, Reports
  <2>2. QED
    BY <1>1, <1>2, <2>1, HealKept DEF gitVars
<1>3. CASE PullLock(g) \/ HeadFails(g)
  BY <1>2, <1>3 DEF PullLock, HeadFails
<1>4. CASE PullFetch(g)
  <2>1. UNCHANGED unseen
    BY <1>4 DEF PullStep, PullFetch, Reports
  <2>2. QED
    BY <1>1, <1>4, <2>1, FetchHeal DEF PullStep
<1>5. CASE HeadReports(g)
  <2>1. UNCHANGED <<gitVars, wt, cleanup>> /\ op[g] = "head" /\ wt
    BY <1>5 DEF HeadReports, StartInv
  <2>2. CASE UNCHANGED <<lastCommit, commitChan>>
    BY <1>2, <2>1, <2>2
  <2>3. CASE observeCommit(refs[head])
    <3> SUFFICES ASSUME cleanup # "removed"
                 PROVE  /\ wtree' = TreeOf(refs[Main])'
                        /\ lastCommit' = refs'[Main] /\ refs'[Main] \in Nat
                        /\ commitChan' # <<>>
      BY <2>1 DEF HealInv
    <3>1. head = Main /\ wtree = TreeOf(refs[Main])
      BY <2>1, HeadIsMain DEF Alive
    <3>2. refs[Main] \in 1..Len(commits)
      BY <2>1, AliveMain DEF Alive
    <3>3. commitChan' # <<>> /\ lastCommit' = refs[Main]
      BY <2>3, <3>1, <3>2, ReportQueued
    <3>4. QED
      BY <2>1, <3>1, <3>2, <3>3 DEF TreeOf, gitVars
  <2>4. QED
    BY <1>5, <2>2, <2>3 DEF HeadReports
<1>6. QED
  BY <1>3, <1>4, <1>5 DEF PullStep

LEMMA TxStepsHeal ==
    ASSUME IsoInv, DirtyInv, HealInv, HistoryGrows, NEW t \in Callers, TxSteps(t)
    PROVE  HealInv'
<1> /\ tx \in [Callers -> TxStates] /\ refs \in [Branches -> 0..Len(commits)]
    /\ op \in [Goroutines -> OpStates] /\ t \in Goroutines
  BY HealTypes
<1>1. CASE \E k \in Keys : FnAddMapping(t, k) \/ FnOpenFile(t, k) \/ FnDelete(t, k)
  <2>1. unseen'
    BY <1>1 DEF FnAddMapping, FnOpenFile, FnDelete, Writes
  <2>2. QED
    BY <2>1 DEF HealInv
<1>2. CASE \E v \in Versions : FnWriteFile(t, v)
  <2>1. unseen'
    BY <1>2 DEF FnWriteFile, DirtyInv, Dirty
  <2>2. QED
    BY <2>1 DEF HealInv
<1>3. ASSUME ~\E k \in Keys : FnAddMapping(t, k) \/ FnOpenFile(t, k) \/ FnDelete(t, k),
             ~\E v \in Versions : FnWriteFile(t, v)
      PROVE  UNCHANGED <<wt, lastCommit, commitChan, cleanup, sync, mappings, files, found, unseen>>
  BY <1>3 DEF TxSteps, Transaction, Pull, Pulled, TxSuspend, TxBranch, CheckoutNewBranch, FnSteps,
       FnReturns, TxCommit, CreateCommit, TxCommitted, TxPullRequest, TxRestore, CheckoutMainBranch,
       TxResume, dirVars, syncVars
<1>4. CASE TxBranch(t)
  <2>1. refs'[Main] = refs[Main] /\ UNCHANGED wtree
    BY <1>4 DEF TxBranch, CheckoutNewBranch
  <2>2. QED
    BY <1>3, <1>4, <2>1, HealKept DEF TxBranch, FnAddMapping, FnOpenFile, FnDelete, FnWriteFile
<1>5. CASE TxCommit(t)
  <2>1. CASE op'[t] = "push"
    <3>1. unseen'
      BY <1>5, <2>1, CommitDirty DEF TxCommit
    <3>2. QED
      BY <3>1 DEF HealInv
  <2>2. CASE op'[t] # "push"
    <3>1. UNCHANGED <<refs, wtree>>
      BY <1>5, <2>2 DEF TxCommit, CreateCommit
    <3>2. QED
      BY <1>3, <1>5, <3>1, HealKept DEF TxCommit, FnAddMapping, FnOpenFile, FnDelete, FnWriteFile
  <2>3. QED
    BY <2>1, <2>2
<1>6. CASE TxRestore(t)
  <2>1. /\ UNCHANGED refs
        /\ wtree' = wtree \/ (wt /\ wtree' = TreeOf(refs[Main]))
    BY <1>6 DEF TxRestore, CheckoutMainBranch, WriteError
  <2>2. UNCHANGED <<wt, lastCommit, commitChan, cleanup, sync, mappings, files, found, unseen>>
    BY <1>3, <1>6 DEF TxRestore, FnAddMapping, FnOpenFile, FnDelete, FnWriteFile
  <2>3. cleanup # "removed" /\ ~unseen => wtree' = wtree
    BY <2>1 DEF HealInv
  <2>4. QED
    BY <2>1, <2>2, <2>3, HealKept
<1>7. CASE Transaction(t) \/ Pulled(t) \/ TxSuspend(t) \/ (\E r \in FnResults : FnReturns(t, r))
             \/ TxCommitted(t) \/ TxPullRequest(t) \/ TxResume(t)
  <2>1. UNCHANGED <<gitVars, wt, lastCommit, commitChan, cleanup, sync, mappings, files, found, unseen>>
    BY <1>7 DEF Transaction, Pull, Pulled, TxSuspend, FnReturns, TxCommitted, TxPullRequest, TxResume,
                dirVars, syncVars
  <2>2. QED
    BY <2>1, HealKept DEF gitVars
<1>8. QED
  BY <1>1, <1>2, <1>4, <1>5, <1>6, <1>7 DEF TxSteps, FnSteps

LEMMA HealNext ==
    ASSUME HealedInv, [Next]_vars, "restore" \notin Faults, "walk" \notin Faults
    PROVE  HealedInv'
<1> USE DEF HealedInv
<1>1. HistoryGrows
  BY HistoryNext DEF IsoInv, IInv
<1>2. IsoInv' /\ DirtyInv' /\ StartInv'
  BY IsoNext, DirtyNext, StartNext
<1>3. HealInv'
  <2> Loop \in Goroutines \ Starters /\ Callers \subseteq Goroutines \ Starters
    BY DEF Goroutines
  <2>1. CASE SyncSteps
    BY <2>1, SyncHeal
  <2>2. CASE CloneStep
    BY <1>1, <2>2, CloneHeal
  <2>3. CASE PullStep(Loop) \/ \E t \in Callers : PullStep(t)
    BY <1>1, <2>3, PullHeal
  <2>4. CASE \E t \in Callers : TxSteps(t)
    BY <1>1, <2>4, TxStepsHeal
  <2>5. ASSUME NEW t \in Callers, PushStep(t) PROVE HealInv'
    <3>1. CASE Push(t)
      <4>1. /\ UNCHANGED <<refs, wtree, wt, lastCommit, commitChan, cleanup>>
            /\ UNCHANGED <<sync, mappings, files, found, unseen>>
        BY <2>5, <3>1 DEF PushStep, Push, syncVars
      <4>2. QED
        BY <1>1, <4>1, HealKept
    <3>2. CASE CommitReports(t)
      <4>1. unseen'
        BY <2>5, <3>2 DEF PushStep, CommitReports, DirtyInv, Dirty
      <4>2. QED
        BY <4>1 DEF HealInv
    <3>3. QED
      BY <2>5, <3>1, <3>2 DEF PushStep
  <2>6. CASE LoopStep \/ Environment \/ UNCHANGED vars
    <3>1. /\ UNCHANGED <<wt, lastCommit, commitChan, sync, mappings, files, found, unseen>>
          /\ cleanup' # "removed" => cleanup # "removed" /\ UNCHANGED <<refs, wtree>>
      BY <2>6 DEF LoopStep, LoopTick, Pull, LoopExits, Environment, CleanupCancels, CleanupRemoves,
                  RemoteChanges, RemoteCommit, RemoteMerge, CancelContext, gitVars, dirVars, syncVars, vars
    <3>2. QED
      BY <1>1, <3>1, HealKept
  <2>7. QED
    BY <2>1, <2>2, <2>3, <2>4, <2>5, <2>6 DEF Next
<1>4. QED
  BY <1>2, <1>3

LEMMA HealInit == Init => HealedInv
<1> SUFFICES ASSUME Init PROVE HealedInv
  OBVIOUS
<1> Syncer \in Goroutines \ Callers /\ Callers \subseteq Goroutines
  BY DEF Goroutines
<1>1. IsoInv
  BY IsoInit
<1>2. DirtyInv
  BY DEF Init, DirInit, DirtyInv, Dirty, Suspended
<1>3. StartInv /\ HealInv
  BY DEF Init, DirInit, StartInv, HealInv
<1>4. QED
  BY <1>1, <1>2, <1>3 DEF HealedInv

\* Whatever the functions of transactions did to the mappings, a commit that a Pull
\* reports repairs it: once the storage has synced the last one, and as long as no
\* function writes, the mappings are exactly the files of the clone (computeMappings
\* and sync in git.go; the reports of gitdir.go).  It takes that the checkout of the
\* main branch succeeds and that no walk fails: a failed walk loses its commit.
THEOREM MappingsHealed ==
    ASSUME "restore" \notin Faults, "walk" \notin Faults
    PROVE  Spec => []PullHealsMappings
<1>1. Init => HealedInv
  BY HealInit
<1>2. HealedInv /\ [Next]_vars => HealedInv'
  BY HealNext
<1>3. HealedInv => PullHealsMappings
  BY DEF HealedInv, StartInv, HealInv, Synced, PullHealsMappings, Quiet
<1>4. QED
  BY <1>1, <1>2, <1>3, PTL DEF Spec
=============================================================================
