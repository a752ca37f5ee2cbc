-------------------------- MODULE SideEffectOutbox --------------------------
(***************************************************************************)
(* The durable outbox for what a label move owes the outside world         *)
(* (internal/workflow/sideeffects.go): pushing a finished task's branch    *)
(* and removing its worktree ("terminal"), opening a pull request          *)
(* ("create_pr"), telling the source issue that work began                 *)
(* ("leave_not_ready").  A move and its rows commit together; one worker   *)
(* per process claims rows, re-reads the task, runs the hook, and deletes, *)
(* reschedules or parks the row.  People retry and dismiss parked rows,    *)
(* and the forge sync deletes rows a merge has made moot.                  *)
(*                                                                         *)
(* One step is one statement or transaction, or the end of a hook.  Time   *)
(* (next_at, backoff, the ten minute limit of a hook) is abstracted: any   *)
(* pending row may be due, any hook may end or fail.  Tasks are ordinary   *)
(* ones: a subtask's terminal hook, its merge-back, never fails.           *)
(***************************************************************************)
EXTENDS Naturals, FiniteSets

CONSTANTS
    Tasks,          \* task ids
    Copies,         \* rows one task may have of one kind at a time (a bound)
    Labels,         \* the workflow's columns
    TerminalLabels, \* columns with is_terminal
    PRLabels,       \* columns with create_pr
    Gate,           \* the human gate (GateLabel), or a value that is no column
    Moves,          \* <<from, to>> pairs a task may be moved along
    FirstLabel,     \* the column tasks start in
    PREnds,         \* how a pull request may end
    MaxAttempts,    \* MaxSideEffectAttempts
    MaxStops,       \* how often the process may stop (a bound)
    NoRow

ASSUME ConstantsAssumption ==
    /\ TerminalLabels \subseteq Labels
    /\ PRLabels \subseteq Labels
    /\ Moves \subseteq (Labels \X Labels)
    /\ FirstLabel \in Labels
    /\ PREnds \subseteq {"pr_merged", "pr_closed"}
    /\ MaxAttempts \in Nat \ {0}
    /\ MaxStops \in Nat

Kinds == {"terminal", "create_pr", "leave_not_ready"}
\* What a merged or closed pull request makes pointless.
BranchKinds == {"terminal", "create_pr"}
\* A row is identified by its task, its kind and a number.
Rows == Tasks \X Kinds \X Copies

ASSUME NoRowAssumption == NoRow \notin Rows

VARIABLES
    \* database: tasks (label, git_state, worktree_path # "")
    label, git, worktree,
    \* database: task_side_effects (status, attempts); "none" is no row
    st, tries,
    \* memory: the worker's place in its loop and the row it has claimed
    step, current,
    \* memory: the forge sync's pass over a task, the process
    sync, mode, stops,
    \* history, read by the properties only
    owed,       \* per task and kind: is the last move's effect still due?
    stranded    \* running rows that a refused UPDATE left behind

taskVars    == <<label, git, worktree>>
rowVars     == <<st, tries>>
workerVars  == <<step, current>>
processVars == <<mode, stops>>
vars == <<label, git, worktree, st, tries, step, current, sync, mode, stops,
          owed, stranded>>

-----------------------------------------------------------------------------
Statuses == {"none", "pending", "running", "failed"}
Steps == {"off", "boot", "idle", "claimed", "hook", "done"}
GitStates == {"open"} \cup PREnds
SyncSteps == {"idle", "pr_merged", "pr_closed", "cleaning", "finishing"}
Modes == {"up", "stopping", "down"}
\* "inhand": the worker has read the task since the move that owes the
\* effect, and has not finished with it.
Debts == {"no", "owed", "inhand"}

\* A sync pass: its place, and whether it has read a task on a terminal column.
Passes == [at : SyncSteps, ended : BOOLEAN]
NoPass == [at |-> "idle", ended |-> FALSE]

TaskOf(row) == row[1]
KindOf(row) == row[2]
Exists(row) == st[row] # "none"
\* The worker has read the task for this row and acts on what it read.
Read(row)   == current = row /\ step \in {"hook", "done"}
\* A row whose run is still to come, and will read the task again.
Carries(row) == Exists(row) /\ ~Read(row)
Twins(row)  == {r \in Rows \ {row} : TaskOf(r) = TaskOf(row) /\ KindOf(r) = KindOf(row)}
Serving     == mode # "down"

Init ==
    /\ label = [t \in Tasks |-> FirstLabel]
    /\ git = [t \in Tasks |-> "open"]
    /\ worktree = [t \in Tasks |-> FALSE]
    /\ st = [row \in Rows |-> "none"]
    /\ tries = [row \in Rows |-> 0]
    /\ step = "boot"
    /\ current = NoRow
    /\ sync = [t \in Tasks |-> NoPass]
    /\ mode = "up"
    /\ stops = 0
    /\ owed = [t \in Tasks |-> [k \in Kinds |-> "no"]]
    /\ stranded = {}

-----------------------------------------------------------------------------
(* Moves: the engine's transaction.                                        *)

\* The kinds of effect a move writes to the outbox.
EffectsOf(from, to) ==
    {k \in Kinds :
        \/ k = "terminal" /\ to \in TerminalLabels
        \/ k = "create_pr" /\ to \in PRLabels
        \/ k = "leave_not_ready" /\ from = Gate /\ to # Gate}

\* Mutant: the index also covers rows the worker has already claimed.
Waiting_Claimed(t, k) ==
    \E i \in Copies : st[<<t, k, i>>] \in {"pending", "running"}

\* A row that makes another insert of its kind a no-op.
Waiting(t, k) == \E i \in Copies : st[<<t, k, i>>] = "pending"

Unused(t, k) == {i \in Copies : st[<<t, k, i>>] = "none"}
FreshRow(t, k) == <<t, k, CHOOSE i \in Unused(t, k) : TRUE>>

\* transition: the label and the rows the move owes commit together.
MoveTo(t, to) ==
    LET kinds  == EffectsOf(label[t], to)
        unmet  == {k \in kinds : ~Waiting(t, k)}
        added  == {FreshRow(t, k) : k \in unmet}
    IN /\ \A k \in unmet : Unused(t, k) # {}
       /\ label' = [label EXCEPT ![t] = to]
       /\ st' = [row \in Rows |-> IF row \in added THEN "pending" ELSE st[row]]
       /\ owed' = [owed EXCEPT ![t] = [k \in Kinds |->
                      IF k \in kinds THEN "owed" ELSE owed[t][k]]]
       /\ UNCHANGED <<git, worktree, tries, stranded>>

Move(t) ==
    /\ Serving
    /\ \E to \in Labels : <<label[t], to>> \in Moves /\ MoveTo(t, to)
    /\ UNCHANGED <<workerVars, processVars, sync>>

\* Dispatcher.worktreeSetup: a run on a working column gets a worktree.
Provision(t) ==
    /\ mode = "up"
    /\ label[t] \notin TerminalLabels \cup {Gate}
    /\ ~worktree[t]
    /\ worktree' = [worktree EXCEPT ![t] = TRUE]
    /\ UNCHANGED <<label, git, rowVars, workerVars, processVars, sync, owed,
                   stranded>>

-----------------------------------------------------------------------------
(* The worker.                                                             *)

\* Mutant: the worker starts without recovering what was left running.
ResetRunning_Forgotten ==
    /\ mode = "up" /\ step = "boot"
    /\ step' = "idle"
    /\ UNCHANGED <<taskVars, rowVars, current, processVars, sync, owed, stranded>>

\* RunSideEffects, first statement: one UPDATE for all rows, which the index
\* on pending rows refuses as a whole if any kind would have two.
ResetRunning ==
    LET left == {row \in Rows : st[row] = "running"}
    IN /\ mode = "up" /\ step = "boot"
       /\ IF \E row \in left : \E r \in Twins(row) : st[r] \in {"pending", "running"}
          THEN /\ stranded' = stranded \cup left
               /\ UNCHANGED st
          ELSE /\ st' = [row \in Rows |-> IF row \in left THEN "pending"
                                          ELSE st[row]]
               /\ stranded' = stranded \ left
       /\ step' = "idle"
       /\ UNCHANGED <<taskVars, tries, current, processVars, sync, owed>>

\* ClaimTaskSideEffect: a compare-and-swap on the row's status.
Claim(row) ==
    /\ mode = "up" /\ step = "idle"
    /\ st[row] = "pending"
    /\ st' = [st EXCEPT ![row] = "running"]
    /\ current' = row
    /\ step' = "claimed"
    /\ UNCHANGED <<taskVars, tries, processVars, sync, owed, stranded>>

Moot(row) == KindOf(row) \in BranchKinds /\ git[TaskOf(row)] # "open"

\* Does the task, as the worker reads it now, still call for the effect?  A
\* finished task without a worktree has nothing to tear down.
Wanted(row) ==
    LET t == TaskOf(row)
    IN /\ ~Moot(row)
       /\ KindOf(row) = "terminal" => label[t] \in TerminalLabels /\ worktree[t]
       /\ KindOf(row) = "create_pr" => label[t] \in PRLabels

Settle(row, debt) ==
    owed' = [owed EXCEPT ![TaskOf(row)] = [k \in Kinds |->
                IF k = KindOf(row) THEN debt ELSE owed[TaskOf(row)][k]]]
Debt(row) == owed[TaskOf(row)][KindOf(row)]

\* execSideEffect up to the hook: the task is read, the effect is run or
\* dropped as stale.
StartHook ==
    /\ mode = "up" /\ step = "claimed"
    /\ step' = IF Wanted(current) THEN "hook" ELSE "done"
    /\ Settle(current, IF Debt(current) = "owed" THEN "inhand"
                       ELSE Debt(current))
    /\ UNCHANGED <<taskVars, rowVars, current, processVars, sync, stranded>>

\* Mutant: a teardown that returns early, without removing the worktree.
HookSucceeds_NoTeardown ==
    /\ Serving /\ step = "hook"
    /\ step' = "done"
    /\ UNCHANGED <<taskVars, rowVars, current, processVars, sync, owed, stranded>>

\* The hook succeeds: OnTaskTerminal has pushed the branch and removed the
\* worktree, or there is a pull request and its state is recorded, or the
\* issue is labelled.
HookSucceeds ==
    /\ Serving /\ step = "hook"
    /\ worktree' = IF KindOf(current) = "terminal"
                   THEN [worktree EXCEPT ![TaskOf(current)] = FALSE]
                   ELSE worktree
    /\ \E g \in GitStates :
          git' = IF KindOf(current) = "create_pr"
                 THEN [git EXCEPT ![TaskOf(current)] = g] ELSE git
    /\ step' = "done"
    /\ UNCHANGED <<label, rowVars, current, processVars, sync, owed,
                   stranded>>

\* CompleteTaskSideEffect: the row is deleted.
Complete ==
    /\ Serving /\ step = "done"
    /\ st' = [st EXCEPT ![current] = "none"]
    /\ tries' = [tries EXCEPT ![current] = 0]
    /\ Settle(current, IF Debt(current) = "inhand" THEN "no"
                       ELSE Debt(current))
    /\ step' = "idle"
    /\ current' = NoRow
    /\ UNCHANGED <<taskVars, processVars, sync, stranded>>

\* Mutant: an attempt that failed is not counted.
Reschedule_Uncounted(row, n) ==
    IF \E r \in Twins(row) : st[r] = "pending"
    THEN /\ stranded' = stranded \cup {row}
         /\ UNCHANGED rowVars
    ELSE /\ st' = [st EXCEPT ![row] = "pending"]
         /\ UNCHANGED <<tries, stranded>>

\* RetryTaskSideEffectLater with n counted attempts.  The index refuses a
\* second pending row of a kind; the error is logged and the row stays.
Reschedule(row, n) ==
    IF \E r \in Twins(row) : st[r] = "pending"
    THEN /\ stranded' = stranded \cup {row}
         /\ UNCHANGED rowVars
    ELSE /\ st' = [st EXCEPT ![row] = "pending"]
         /\ tries' = [tries EXCEPT ![row] = n]
         /\ UNCHANGED stranded

\* FailTaskSideEffect: the row is parked for a person.
Park(row, n) ==
    /\ st' = [st EXCEPT ![row] = "failed"]
    /\ tries' = [tries EXCEPT ![row] = n]
    /\ UNCHANGED stranded

\* Mutant: the worker forgets to let go of the row.
PutDown_Held ==
    /\ Settle(current, IF Debt(current) = "inhand" THEN "owed"
                       ELSE Debt(current))
    /\ step' = "idle"
    /\ UNCHANGED current

\* The worker puts its row down without having done it.
PutDown ==
    /\ Settle(current, IF Debt(current) = "inhand" THEN "owed"
                       ELSE Debt(current))
    /\ step' = "idle"
    /\ current' = NoRow

\* An attempt fails or times out, in the hook or before it.
HookFails ==
    LET n == tries[current] + 1
    IN /\ mode = "up" /\ step \in {"claimed", "hook"}
       /\ IF n >= MaxAttempts THEN Park(current, n) ELSE Reschedule(current, n)
       /\ PutDown
       /\ UNCHANGED <<taskVars, processVars, sync>>

\* Shutdown cuts an attempt short: it does not count.
Interrupted ==
    /\ mode = "stopping" /\ step \in {"claimed", "hook"}
    /\ Reschedule(current, tries[current])
    /\ PutDown
    /\ UNCHANGED <<taskVars, processVars, sync>>

-----------------------------------------------------------------------------
(* People.                                                                 *)

FailedRows(t) == {row \in Rows : TaskOf(row) = t /\ st[row] = "failed"}
RequeueAllowed(t) ==
    \A row \in FailedRows(t) : \A r \in Twins(row) : st[r] \notin {"pending", "failed"}

\* RequeueFailedTaskSideEffects: one UPDATE, refused as a whole by the index.
RetrySideEffects(t) ==
    /\ Serving
    /\ FailedRows(t) # {} /\ RequeueAllowed(t)
    /\ st' = [row \in Rows |-> IF row \in FailedRows(t) THEN "pending" ELSE st[row]]
    /\ tries' = [row \in Rows |-> IF row \in FailedRows(t) THEN 0 ELSE tries[row]]
    /\ UNCHANGED <<taskVars, workerVars, processVars, sync, owed, stranded>>

\* Rows are deleted unrun; an effect no other row carries is written off.
Delete(doomed) ==
    /\ st' = [row \in Rows |-> IF row \in doomed THEN "none" ELSE st[row]]
    /\ tries' = [row \in Rows |-> IF row \in doomed THEN 0 ELSE tries[row]]
    /\ owed' = [t \in Tasks |-> [k \in Kinds |->
                  IF /\ owed[t][k] = "owed"
                     /\ \A i \in Copies : Carries(<<t, k, i>>) => <<t, k, i>> \in doomed
                  THEN "no" ELSE owed[t][k]]]

DismissSideEffects(t) ==
    /\ Serving
    /\ FailedRows(t) # {}
    /\ Delete(FailedRows(t))
    /\ UNCHANGED <<taskVars, workerVars, processVars, sync, stranded>>

\* GitHubStatus and UpdateGitState record a pull request's state, and
\* nothing else happens.
RefreshGit(t) ==
    /\ Serving
    /\ \E g \in GitStates \ {git[t]} : git' = [git EXCEPT ![t] = g]
    /\ UNCHANGED <<label, worktree, rowVars, workerVars, processVars, sync,
                   owed, stranded>>

-----------------------------------------------------------------------------
(* The forge sync's pass over a task whose pull request has ended.         *)

\* syncTask, reached only by tasks whose pull request had not ended.
SyncRecord(t) ==
    /\ mode = "up" /\ sync[t] = NoPass
    /\ git[t] = "open"
    /\ \E g \in PREnds :
          /\ git' = [git EXCEPT ![t] = g]
          /\ sync' = [sync EXCEPT ![t] =
                        [at |-> g, ended |-> label[t] \in TerminalLabels]]
    /\ UNCHANGED <<label, worktree, rowVars, workerVars, processVars, owed,
                   stranded>>

MootRows(t) == {row \in Rows : /\ TaskOf(row) = t /\ KindOf(row) \in BranchKinds
                               /\ st[row] \in {"pending", "failed"}}

\* DeleteMootTaskSideEffects; a closed pull request needs nothing more.
SyncDropMoot(t) ==
    /\ mode = "up" /\ sync[t].at \in {"pr_merged", "pr_closed"}
    /\ Delete(MootRows(t))
    /\ sync' = [sync EXCEPT ![t] = IF sync[t].at = "pr_closed" THEN NoPass
                                   ELSE [@ EXCEPT !.at = "cleaning"]]
    /\ UNCHANGED <<taskVars, workerVars, processVars, stranded>>

\* cleanupMergedBranch.
SyncCleanUp(t) ==
    /\ mode = "up" /\ sync[t].at = "cleaning"
    /\ worktree' = [worktree EXCEPT ![t] = FALSE]
    /\ sync' = [sync EXCEPT ![t].at = "finishing"]
    /\ UNCHANGED <<label, git, rowVars, workerVars, processVars, owed, stranded>>

\* finishMergedTask: moved to a terminal column, unless it was on one or a
\* run is live.
SyncFinish(t) ==
    /\ mode = "up" /\ sync[t].at = "finishing"
    /\ \/ /\ ~sync[t].ended
          /\ \E to \in TerminalLabels : MoveTo(t, to)
       \/ UNCHANGED <<taskVars, rowVars, owed, stranded>>
    /\ sync' = [sync EXCEPT ![t] = NoPass]
    /\ UNCHANGED <<workerVars, processVars>>

-----------------------------------------------------------------------------
(* The process.                                                            *)

\* The root context is cancelled.
Shutdown ==
    /\ mode = "up" /\ stops < MaxStops
    /\ mode' = "stopping"
    /\ UNCHANGED <<taskVars, rowVars, workerVars, sync, stops, owed, stranded>>

\* The process ends: after a shutdown in which the worker has put its row
\* down, or at any moment by a crash (or by a shutdown that does not wait).
Stop ==
    /\ Serving /\ stops < MaxStops
    /\ mode' = "down"
    /\ stops' = stops + 1
    /\ step' = "off"
    /\ current' = NoRow
    /\ sync' = [t \in Tasks |-> NoPass]
    /\ IF current = NoRow THEN UNCHANGED owed
       ELSE Settle(current, IF Debt(current) = "inhand" THEN "owed"
                            ELSE Debt(current))
    /\ UNCHANGED <<taskVars, rowVars, stranded>>

Boot ==
    /\ mode = "down"
    /\ mode' = "up"
    /\ step' = "boot"
    /\ UNCHANGED <<taskVars, rowVars, current, sync, stops, owed, stranded>>

-----------------------------------------------------------------------------
WorkerNext ==
    \/ ResetRunning \/ StartHook \/ HookSucceeds \/ Complete
    \/ HookFails \/ Interrupted
SyncNext(t) == SyncDropMoot(t) \/ SyncCleanUp(t) \/ SyncFinish(t)

Next ==
    \/ WorkerNext
    \/ \E row \in Rows : Claim(row)
    \/ \E t \in Tasks :
          \/ Move(t) \/ Provision(t) \/ RetrySideEffects(t)
          \/ DismissSideEffects(t) \/ RefreshGit(t)
          \/ SyncRecord(t) \/ SyncNext(t)
    \/ Shutdown \/ Stop \/ Boot

Spec == Init /\ [][Next]_vars

\* The worker keeps running, a hook ends (it has a time limit), a started
\* sync pass and a shutdown get to their end, and the server is started
\* again.  Rows are served in the order they come due, so a row that waits is
\* not passed over for ever; of one kind a task has at most one that waits.
FairSpec ==
    /\ Spec
    /\ WF_vars(WorkerNext)
    /\ \A t \in Tasks, k \in Kinds : SF_vars(\E i \in Copies : Claim(<<t, k, i>>))
    /\ \A t \in Tasks : WF_vars(SyncNext(t))
    /\ WF_vars(mode = "stopping" /\ Stop)
    /\ WF_vars(Boot)

-----------------------------------------------------------------------------
(* Properties.                                                             *)

TypeOK ==
    /\ label \in [Tasks -> Labels]
    /\ git \in [Tasks -> GitStates]
    /\ worktree \in [Tasks -> BOOLEAN]
    /\ st \in [Rows -> Statuses]
    /\ tries \in [Rows -> 0..MaxAttempts]
    /\ step \in Steps
    /\ current \in Rows \cup {NoRow}
    /\ current # NoRow <=> step \in {"claimed", "hook", "done"}
    /\ sync \in [Tasks -> Passes]
    /\ mode \in Modes
    /\ stops \in 0..MaxStops
    /\ owed \in [Tasks -> [Kinds -> Debts]]
    /\ stranded \subseteq Rows

\* An effect a move owes is never lost, through every failure, restart and
\* later move: unless the worker is acting on a read of the task made after
\* that move, or a person or a merge has written the effect off, there is a
\* row that is still to be run.  In particular a move may skip its insert only
\* for a row the worker has yet to claim (EnqueueTaskSideEffect, ON CONFLICT
\* DO NOTHING), since a claimed one may have been judged by the older label.
EffectNotLost ==
    \A t \in Tasks, k \in Kinds :
        /\ owed[t][k] = "owed" => \E i \in Copies : Carries(<<t, k, i>>)
        /\ owed[t][k] = "inhand" => \E i \in Copies : Read(<<t, k, i>>)

\* A row is marked running only while the worker is at it, until a restart
\* has recovered it, or because the index refused to have it made pending
\* again (RunSideEffects, runSideEffect).
RunningIsExplained ==
    \A row \in Rows : st[row] = "running" =>
        current = row \/ step \in {"off", "boot"} \/ row \in stranded

\* Every row that waits is in the end done, dropped, deleted or parked for a
\* person, whatever fails and however often people requeue it, unless the
\* index strands it (DrainSideEffects, MaxSideEffectAttempts).
EffectSettles ==
    \A row \in Rows :
        st[row] = "pending" ~> (st[row] \in {"none", "failed"} \/ row \in stranded)

TerminalRowIn(t, statuses) ==
    \E i \in Copies : st[<<t, "terminal", i>>] \in statuses

\* A finished task that stays where it is gets its worktree removed, or its
\* failed teardown is on show, or a row is stranded, or its pull request has
\* ended first (execSideEffect, OnTaskTerminal).
FinishedIsReclaimed ==
    \A t \in Tasks :
        (owed[t]["terminal"] = "owed" /\ worktree[t] /\ sync[t] = NoPass) ~>
            \/ ~worktree[t]
            \/ label[t] \notin TerminalLabels
            \/ git[t] # "open"
            \/ TerminalRowIn(t, {"failed"})
            \/ stranded # {}

=============================================================================
