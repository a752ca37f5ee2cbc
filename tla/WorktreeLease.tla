---------------------------- MODULE WorktreeLease ----------------------------
(***************************************************************************)
(* What the dispatch lock is for, without the lock: the worktree of a task *)
(* is let to one agent run at a time.  A run is let a worktree once, and   *)
(* only one that nobody uses; it loses it when it ends or somebody puts it *)
(* out, never to another run in the same step.  RunLifecycle implements    *)
(* this with a column, two compare-and-swaps and two UPDATEs at boot.      *)
(***************************************************************************)
CONSTANTS Tasks, Runs, NoRun

VARIABLES
    user,    \* the run that uses a task's worktree
    fresh    \* runs that do not exist yet

leaseVars == <<user, fresh>>

Init ==
    /\ user = [t \in Tasks |-> NoRun]
    /\ fresh = Runs

Take(t, r) ==
    /\ user[t] = NoRun /\ r \in fresh
    /\ user' = [user EXCEPT ![t] = r]
    /\ fresh' = fresh \ {r}

\* A run that is created only to ask a human something.
Discard(r) ==
    /\ r \in fresh /\ fresh' = fresh \ {r}
    /\ UNCHANGED user

\* One run goes, or a crash takes several.
LetGo(S) ==
    /\ user' = [t \in Tasks |-> IF t \in S THEN NoRun ELSE user[t]]
    /\ UNCHANGED fresh

Next ==
    \/ \E t \in Tasks, r \in Runs : Take(t, r)
    \/ \E r \in Runs : Discard(r)
    \/ \E S \in SUBSET Tasks : LetGo(S)

Spec == Init /\ [][Next]_leaseVars

=============================================================================
