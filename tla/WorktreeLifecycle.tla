------------------------- MODULE WorktreeLifecycle -------------------------
(***************************************************************************)
(* The managed worktrees of a repository (src/core/worktree-lifecycle.ts).   *)
(* Each operation holds the inventory lease from its first read to its last  *)
(* write, so it is one step; a crash inside one leaves its record as the     *)
(* last save left it.  A worktree is named by the unit and the attempt it    *)
(* was made for, its implementation.  Nobody but the workers touches the     *)
(* directories: a tree that vanishes, or another branch, is not modelled.    *)
(***************************************************************************)
EXTENDS Integers

CONSTANT
  Units    \* the units worktrees are made for

VARIABLE
  tree    \* the record and the checkout of each worktree; "none" without a record

Attempts == 1 .. 2
Trees == Units \X Attempts

\* A ready record: its checkout is at the base, holds edits, holds a commit the
\* inventory does not expect yet, or the commit that was accepted.
ReadyStates == {"base", "edited", "committed", "accepted"}
\* A record no operation takes further: its operation failed, or a crash cut it short.
StuckStates == {"orphaned", "creating", "removing"}
TreeStates == {"none"} \cup ReadyStates \cup StuckStates

Managed(t) == tree[t] # "none"
\* The branch of the worktree still holds the accepted commit.
OnBranch(t) == tree[t] \in {"accepted", "orphaned"}

TreesInit == tree = [t \in Trees |-> "none"]

\* createManyAtBaseInternal: all records, or none.
CreateMany(new) ==
  /\ \A t \in new : ~Managed(t)
  /\ tree' = [t \in Trees |-> IF t \in new THEN "base" ELSE tree[t]]
\* git or the setup failed: every record of the request is retained as an orphan.
CreateManyFails(new) ==
  /\ \A t \in new : ~Managed(t)
  /\ tree' = [t \in Trees |-> IF t \in new THEN "orphaned" ELSE tree[t]]

\* cleanup() removes a ready worktree whose checkout is exact and clean, with its branch.
Removable(t) == tree[t] \in {"base", "accepted"}
Remove(gone) == tree' = [t \in Trees |-> IF t \in gone THEN "none" ELSE tree[t]]
\* Otherwise it is refused; a checkout that is not at the expected commit, or a
\* removal that fails, leaves an orphan.
CleanupFails(t) ==
  /\ Managed(t)
  /\ tree' = [tree EXCEPT ![t] = IF @ \in {"base", "committed", "accepted"} THEN "orphaned" ELSE @]

\* discardOwnedChanges: only a checkout whose HEAD is the base.
Discardable(t) == tree[t] \in {"base", "edited"}

\* acceptCommit: the checkout is at the commit, which becomes the expected one.
AcceptCommit(t) ==
  /\ tree[t] \in {"committed", "accepted"}
  /\ tree' = [tree EXCEPT ![t] = "accepted"]

\* reconcile(): a ready record whose checkout is not at the expected commit is an orphan.
Reconciled == [t \in Trees |-> IF tree[t] = "committed" THEN "orphaned" ELSE tree[t]]

\* What a worker does to its checkout.
Edit(t) == tree[t] = "base" /\ tree' = [tree EXCEPT ![t] = "edited"]
Commit(t) == tree[t] \in {"base", "edited"} /\ tree' = [tree EXCEPT ![t] = "committed"]

\* The process dies while it creates or removes these worktrees.
CreationCut(new) == tree' = [t \in Trees |-> IF t \in new THEN "creating" ELSE tree[t]]
RemovalCut(t) == Managed(t) /\ tree' = [tree EXCEPT ![t] = "removing"]
=============================================================================
