----------------------------- MODULE MCGitStorage -----------------------------
EXTENDS GitStorage, TLC

CONSTANTS c1, c2, b1, b2, k1, k2

\* Two transactions on branches of their own, on one branch, and one transaction.
TwoBranches == c1 :> b1 @@ c2 :> b2
OneBranch == c1 :> b1 @@ c2 :> b1
SingleBranch == c1 :> b1

KeySymmetry == Permutations({k1, k2})
=============================================================================
