# A verification project for agent-task-editor

agent-task-editor is a board on which AI agents work: tasks move through the
labels (columns) of a workflow, a dispatcher picks up tasks whose label belongs
to an agent, a pool runs the agent in the task's own git worktree, and the
agent's outcome moves the task on or stops it for a person. This directory holds
TLA+ models of the program's concurrent core (`src/backend`, Go), the TLC
configurations that check them, and proofs checked by TLAPS.

Paths below are relative to `src/backend/internal` unless they start with `src/`
or `docs/`.

## 1. Inventory

| Component | State it keeps | Operations | Talks to | What must hold |
|---|---|---|---|---|
| Dispatcher (`agent/dispatcher.go`) | `tasks.active_agent_run_id` (the dispatch lock), `agent_runs` rows | sweep, dispatch, cost-budget gate, DispatchReply, startRun | pool (Submit), database, escalate | one run per task at a time; a claim that cannot be carried out gives the lock back or waits for a human |
| Pool (`agent/pool.go`, `pool_failure.go`, `verify.go`) | jobs channel, workers, registry of cancel handles, draining and hardStop flags | Submit, run and its endings, Cancel, Shutdown | engine (move), database, subtask coordinator | every run ends once and is recorded; its lock is released last, and only by its owner |
| Escalation (`agent/escalate.go`) | run status `waiting_human`, lock | escalate, releaseLock | database, websocket events | a question to a human keeps the lock |
| Workflow engine (`workflow/engine.go`, `approve.go`) | `tasks.label`, label history | Transition, TransitionExpecting, ForceTransition, Approve | outbox, websocket events | a move is a compare-and-swap; side effects exist if and only if the move committed |
| Side-effect outbox (`workflow/sideeffects.go`) | `task_side_effects` rows | claim, execute, retry, fail, requeue, dismiss, recover | git and forge hooks | every effect is executed at least once, dropped as stale, or visible as failed |
| Task API (`api/handlers`) | none of its own | move, approve, reject, reply, rerun, pause, cancel, bulk | all of the above | people and agents do not undo each other's steps |
| Boot recovery (`storage/recovery.go`), process (`src/backend/cmd/server/main.go`) | none | recover, shut down in order | database | a crash between any two writes is repaired by the next boot |
| Retry and failure budgets (`agent/pool_failure.go`, `ladder.go`) | three counters per task, its label history | increment, reset, cool down, escalate, choose a rung | pool, dispatcher | an agent that keeps failing stops for a human after a bounded number of attempts |
| Rate limits, provider pauses (`agent/ratelimit.go`, `resetcheck.go`, `providerpause.go`) | block and pending check per account, pause per kind of provider | block, unblock, check, pause, recheck, resume | dispatcher, pool | a slow success does not wipe a fresh block; blocks and pauses end by themselves |
| Memory guard (`memguard`, `agent/mempressure.go`) | streak per task, global pause | cancel the oldest run, cool down | pool | a victim is retried, later |
| Autonomy (`autonomy/...`) | mode of a gate, decisions with a hold, escapes | decide, approve after the hold, step down, reset | engine, handlers | a gate steps down once per threshold of escapes; a superseded approval is not carried out |
| Subtask merge-back (`agent/subtasks.go`) | merge status of a child, the parent's integration mark | create, defer, merge, conflict, resolve, flush, mark, advance | pool, git | what is called merged is in the parent's branch; a run of the parent sees every child; a deferred merge is made up for |
| Feedback hand-off (`agent/feedback.go`, `ghsync/pr_review.go`) | `agent_runs.feedback` | append, copy to the next run, consume | dispatcher, pool, ghsync | feedback is neither lost nor replayed |
| WebSocket hub (`ws`) | queue per client, lagged flag | publish, resync | every publisher | a client that lags is told to resync |
| Scheduler (`schedule`) | next run of a schedule | fire, catch up | task creation | one open task per schedule |
| GitHub sync (`ghsync`) | a cursor per pull request, `pr_state` | poll, webhook refresh, ingest feedback, clean up a merged task | forge, feedback, engine, outbox | no review is lost or told twice |
| Issue import (`tasksource/importer.go`, handlers of a held edit) | `tasks.source_state`, `task_source_pending` | create, update, hold, apply, discard, flag, archive, move | forge, engine | an approved task is not changed behind the approver's back; the board follows the issue |
| Terminal sessions, write-back, forge, providers, backups, notifications, frontend | various | mostly I/O | | not the object of this project |

The behaviours that are hard to test: the interleavings of one sweep thread,
`MAX_CONCURRENT_AGENTS` workers, HTTP handlers and a dozen background loops over
rows they all update; state read at the start of a handler and used after
another actor has changed it; a cancel that comes while the run's end is being
written; a crash between two writes. `PROJECT.json` lists them as hazards at
their lines.

## 2. Plan

| Order | Module | Composes or refines | Theorems worth proving |
|---|---|---|---|
| 1 (done) | `RunLifecycle`: lock, runs, pool, people, shutdown, crash, recovery | | type, lock ownership, exclusion, no orphan lock, no zombie run, hand-over (done) |
| 2 (done) | `SideEffectOutbox`: what a move owes, the worker, retries, merges | | no effect lost, every running row explained, budget (done) |
| 3 (done) | `AutonomyGate`: policy service, holds, undo, step-down check | | type, a held approval moves nothing, an undone task stays, an approval is of this visit (done) |
| 4 (done) | `RetryBudgets`: transient, genuine and loop counters, cost stop, memory guard | | bounded number of failures between two human acts, no attempt on a cheaper model (done) |
| 5 (done) | `UsageLimits`: rate-limit registry, reset checks, provider pauses | | a fresh block survives an older run's end (done) |
| 6 (done) | `SubtaskMerge` | `RunLifecycle`'s endings as environment | what is called merged is in the parent's branch, a run sees every child (done) |
| 7 (done) | `FeedbackHandoff` | `RunLifecycle`'s claim and move, the sync's pass | no feedback lost, none told or handed on twice (done) |
| 8 (done) | `WorktreeLease`, what the lock promises, with `RunLifecycle` shown to implement it | refinement | step by step simulation (done) |
| 9 (done) | `IssueImport` | runs and moves as environment | type, one edit at most past an approval, a running task left alone (done) |
| 10 | `WriteBack` (a task's progress told to its issue), `WsDelivery`, `Scheduler`, `ChatTerminal` | | delivery or resync |
| 11 (done) | proofs of modules 3 to 7 | | every safety property the runs check, see section 11 |

Modules are written to be proved about: parameters as CONSTANTS with a named
assumption, one action per write, invariants as conjunctions of named parts, no
RECURSIVE operator.

## 3. `RunLifecycle`

One step is one database write (or transaction) or one update of the pool's
registry; everything a goroutine does between two of these is local to it.

State:

- `label`, `active`, `paused`, `cooling`: the columns `label`,
  `active_agent_run_id`, `paused` and (`next_retry_at` in the future) of a task.
- `status`, `taskOf`: the columns of a run.
- `phase`: the program counter of the goroutine that carries a run, from the
  claim (`claimed`) through `Submit` (`submitting`, `queued`) and the pool
  (`booting` = registered, `setup`, `provider`, `checked` = cancelledBy has been
  asked, `verify`, `moving`, `unlock`, `pausing`, `chilling`, `releasing`) to
  `done`. `phantom`, `parking` and `escalating` belong to runs that only exist to
  hold a question for a human. `from` and `to` are the goroutine's locals,
  `reason` the registry entry's cancel reason (`none` = its context is alive).
- `swept`, `sweepRun`: the list of the sweep under way and the run it is starting.
- `req`: what an HTTP request (or a background loop that moves tasks) has read.
- `mode`: `up`, `draining` and `hard` (Shutdown before and after the drain
  window), `down`, `recovering` (between the two statements of the recovery).
- `asked`, `evicted`, `lost`: history. `asked` are the runs whose cancel was
  accepted, `evicted` the runs whose lock somebody else took while they were
  carried, `lost` the ended runs some of whose last writes failed because a late
  cancel had ended their context. No action reads them.

| Actor | Actions | Code |
|---|---|---|
| Sweep | `SweepList`, `SweepSkip`, `SweepClaim`, `SweepConflict`, `SweepBudget`, `PhantomEscalate`, `PhantomLock` | `dispatcher.go` sweep, dispatch, escalateCostBudget, persistRunRow |
| startRun | `PrepEscalate`, `PrepLock`, `SubmitCheck`, `Submit`, `SubmitRefused`, `RefusedRelease` | `dispatcher.go` startRun, `pool.go` Submit |
| Worker | `Take` ... `Release` | `pool.go` worker, run and what it calls |
| Cancels | `UserCancel`, `MemguardCancel`, `ShutdownCancel` | cancelWithReason and its three callers |
| People | `MoveCheck`/`FeedbackMove`, `MoveRead`, `HumanMove`; `ReplyRead`, `ReplyClaim`; `Rerun`, `SetPaused` | `api/handlers`, `workflow/engine.go`, `ghsync/pr_review.go` |
| Process | `Shutdown`, `DrainWindowEnds`, `ProcessEnds`, `RecoverRuns`, `RecoverLocks` | `main.go`, `pool.go` Shutdown, `storage/recovery.go` |

Abstractions: the result of a provider, of worktree set-up and of the verify
command is any result; a counter only decides between "release" and "wait for a
human", and both are possible; the order of the jobs channel is not kept; a
panic is placed in the provider, the longest and only foreign phase; the HTTP
request context of a reply is taken to outlive its writes.
`tasks.current_agent_run_id` and feedback are left to `FeedbackHandoff`.

### Properties and runs

All runs use one task on a three-column board (an agent's column, a human gate,
an end), one worker and a queue of one. One task is enough because every guard
and write concerns one task and the only shared resources, queue and worker, are
saturated by two of its runs; a lock can be stolen, passed on and stolen back
with three runs.

| Run | Instance | Checks |
|---|---|---|
| `races` | 3 runs, 1 request at a time, a board of two columns, symmetry on runs (safety only) | `TypeOK`; `LockOwner`: from its claim to its last write a run holds its task's lock unless somebody took it, so nothing is written after the release; `WorktreeExclusive`; `NoOrphanLock` and `NoZombieRun`: a lock or a live status always has a carrier, a question to a human, or a late cancel to explain it; `LockHandover`: the complete list of ways a lock changes hands; `ImplementsLease` |
| `settles` | 2 runs, fairness | `RunSettles`, `LockSettles`: whatever fails, a live run gets a final status and a lock is released or waits for a human |

The board of `races` has no gate: a gate only adds columns from which nothing is
dispatched, and 3 runs with it do not fit the time a run may take.

Fairness (`FairSpec`): goroutines keep running (weak fairness of each run's
starter and worker, which Go's scheduler gives), the drain timer fires, a
shutdown gets to its end and the server is started again (the container restart
policy), and crashes do not hit every boot between the two recovery statements
(strong fairness of `RecoverLocks`). No person, sweep, cancel or crash is
obliged to happen. Deadlock is checked in every run.

### The lease

`WorktreeLease` says what the lock is for without saying how: a worktree is used
by at most one run, a run is let into it once, only when nobody uses it, and never
in the step in which another one leaves. `RunLifecycle` is shown to implement it
under the mapping `user[t]` = the run that works in t's worktree (its goroutine is
past the claim, its lock has not been taken from it, and it has not stopped for a
human) and `fresh` = the runs that do not exist. Evicted runs are outside the
mapping: that people and the automatic move can put a run out is in the lease
(`LetGo`), that the run put out keeps writing is a hazard of the code, which
`LockHandover` lists.

### What the documents say and the code does not do

- The answer to a cancel promises that "the pool marks the run cancelled"
  (`api/handlers/task_runs.go:124`). A cancel accepted after the pool's single
  `cancelledBy` check (`agent/pool.go:467`) kills the context under which the run's
  end is written: status and lock stay until a restart or a rerun. `lost` marks
  exactly these runs, and `NoZombieRun`, `NoOrphanLock`, `RunSettles` and
  `LockSettles` have to except them.
- The live-run check of a move and its compare-and-swap are not atomic
  (`api/handlers/tasks.go:611`), one of the disjuncts of `LockHandover`.

Four more ways to take a lock from under a run show up as the disjuncts of
`LockHandover`, which the model could not do without: recovery clears the locks
of runs that wait for a human, the automatic move on pull request feedback has
no live-run check, an escalation writes the lock unconditionally, and a run that
has lost its lock still moves its task.

## 4. `SideEffectOutbox`

One step is one statement or transaction, or the end of a hook.

State: `label`, `git`, `worktree` are the task's columns (a worktree is there or
not); `st` and `tries` the rows of `task_side_effects` ("none" is no row), where
a row is its task, its kind and a number; `step` and `current` the worker's place
and the row it holds; `sync` the pass of the forge sync over a task whose pull
request has ended; `mode`, `stops` the process. `owed` and `stranded` are
history: what the last move of a task owes, and the running rows a refused
UPDATE has left behind.

| Actor | Actions | Code |
|---|---|---|
| Engine | `Move` (label and rows in one transaction), `Provision` | `workflow/engine.go` transition, `dispatcher.go` worktreeSetup |
| Worker | `ResetRunning`, `Claim`, `StartHook`, `HookSucceeds`, `Complete`, `HookFails`, `PutDown` (reschedule or park), `Interrupted` | `workflow/sideeffects.go` |
| People | `RetrySideEffects`, `DismissSideEffects`, `RefreshGit` | `api/handlers/tasks.go`, `task_pr.go` |
| Sync | `SyncRecord`, `SyncDropMoot`, `SyncCleanUp`, `SyncFinish` | `ghsync/syncer.go`, `merged.go` |
| Process | `Shutdown`, `Stop`, `Boot` | `main.go` |

The partial unique index of migration 060 (one pending row per task and kind) is
in the guards: an insert is skipped, and a whole UPDATE is refused, exactly when
it would make a second pending row. Abstractions: time, back-off and the limit of
a hook (any pending row may be due, any hook may fail); the merge-back of a
subtask; the deletion of a task; errors of the database itself.

| Run | Instance | Checks |
|---|---|---|
| `effects` | work and done, done terminal and opening the pull request, merge possible | `TypeOK`; `EffectNotLost`; `RunningIsExplained` |
| `drains` | with the gate, pull request may be closed, fairness | `EffectSettles`; `FinishedIsReclaimed` |

Bounds: one task (no statement joins two tasks, but for the boot's UPDATE, whose
refusal one task already shows), two rows per kind at a time (the least at which
rows collide), two attempts (one retry, one parking), one stop. A board without
the gate is enough for `effects`: `drains` has the gate, and the effect of leaving
it is the one kind that no later column makes stale, so only there can a move
that wrongly skips its insert go unnoticed by the others.

Fairness: the worker, the sync's pass, a shutdown once begun and the boot go on;
`Claim` is strongly fair for each kind of a task's effects, of which at most one
row is pending, because rows are served in the order of `next_at` and a
rescheduled row goes behind. People, moves, merges and failures
are never obliged, and hooks may fail every time.

Two things the code does that its comments do not expect, both visible in the
model: the recovery of the boot is one UPDATE over all rows, and one row whose
effect has been enqueued again since makes the index refuse all of it
(`stranded`); and whoever records a merge first decides whether the clean-up
happens, so that recorded by the status endpoint it is nobody's.

## 5. `AutonomyGate`

One human gate between an agent's column ("work") and a terminal one ("done").
One step is one statement or transaction with the reads next to it.

State: `label`, `last` (newest history row: from, by whom) and `exit` (who made
the task's last exit from the gate); `mode` (ask 0, on_flags 1, auto 2) and
`esc` (a decision's escape: none, open, or counted by a mode change); `st` (a
decision's outcome; superseded, skipped and failed are "dropped"), `owner`,
`approvals` (the policy's approvals of a task in the order of `outcome_at`);
`queue` and `svc` (the service's channel and its place in an event or a due row);
`req` (a request's place); `chk` (a step-down check: its place, the mode it read,
the escapes it counted). `stopped`, `stale` and `lost` are history.

| Actor | Actions | Code |
|---|---|---|
| Moves | `AgentMove`, `HumanMove` | `workflow/engine.go` transition; `policy.go` Publish |
| Service, event | `Receive` (escape detection), `Checked`, `Supersede`, `Decide` | `policy.go` handle, doDetectEscape, evaluate |
| Service, sweep | `Due`, `ReadDue`, `Drop`, `Claim`, `Approve` | `policy.go` Sweep, process |
| Step-down | `CheckRead`, `CheckCount`, `StepDown`, `CheckReset`, `CheckCancel` | `escape.go` CheckStepDown |
| People | `Hold`; `UndoMove`, `UndoReport`, `UndoMark`; `Report`, `SendBack`, `Answered`; `HangUp`; `SetMode` | `api/handlers/autonomy*.go`, `label_autonomy.go` |
| Process | `Restart` | all that was in memory is gone |

Abstractions: any hold may be over and no escape leaves the window of days; flags,
rules, cost and verification may always make the policy ask; a paused task or a
live run is one of the reasons for which a due row may be dropped; a move and
its event are one step (the queue's fate is the interesting part); change rows,
notes and events to clients are left out, and so are workflow updates that keep
the mode, and a merged task's refusal of undo. An immediate approval (hold 0) is
a decision whose row is due at once.

| Run | Instance | Checks |
|---|---|---|
| `gate` | 1 task, 2 decisions, 1 request at a time, threshold 1, queue of 1, one restart, symmetry on decisions | `TypeOK`; `HoldWins`; `UndoneStays`; `ApprovesThisVisit`: the row of an earlier visit to the gate is taken up only while the event of the task's leaving waits in the queue, or was dropped |
| `holds` | no request, one restart, fairness | `PendingSettles` |

Bounds: a queue of one, with one event in the service's hands, is the least that
both delays and drops events; with two decisions one can be approved and reported
while the other is pending; threshold 1 lets every escape start a step-down,
and from mode 2 the gate can be lowered twice. `PendingSettles` has no requests:
they only end holds sooner.

Fairness: the service's goroutine and its own step-down check run on. `Due` is
strongly fair per row: Go's select takes the tick as well as the queue, and a
sweep lists every due row. Nobody is obliged to move, hold or report.

Two behaviours to know of. The step-down check is six statements without a
transaction (`autonomy/escape/escape.go:137`): check A lowers auto to on_flags,
check B reads on_flags and the escapes A has not reset yet, and lowers it again,
so that two escapes can step a gate twice. And labels are compared when a row is
due, while a pending row is superseded only when the event of the away-move is
handled; the exceptions in `ApprovesThisVisit` are the windows this leaves.

## 6. `RetryBudgets`

How often the board tries a task on its own. State: the task's columns `label`,
`lock`, `transient` (`transient_retry_count`), `failures`
(`consecutive_failure_count`), `cooling` (`next_retry_at` in the future), `paused`
and whether its cost budget is spent (`broke`); `moves`, its label history since
a person last moved it; a run's goroutine (`at`, `of`, `from`, the outcome `got`
and the retry count it has read, `seen`); the memory guard's cancels in its window
(`recent`) and its pause of all dispatch (`held`). `strikes`, `stale`, `meddled` are
history.

| Actor | Actions | Code |
|---|---|---|
| Sweep | `Sweep`, `BudgetRunsOut` | `dispatcher.go` dispatch, checkCostBudget |
| Run | `Complete`, `FailGenuinely`, `ReadRetries`, `SpendRetry`, `RetriesExhausted`, `RateLimited`, `AskHuman`, `LandMoved`, `LandEscalated`, `LandMove`, `LandRefused`, `Release` | `pool.go` persistRunResult, applyTerminalTransition; `pool_failure.go` |
| Cancels | `KillForMemory`, `CancelByUser` | `pool_failure.go` handleCancelled, `mempressure.go` |
| People | `RerunClear`, `RerunReset`, `Reply`, `HumanMove`, `SetPaused`, `RaiseBudget` | `api/handlers` |
| Time | `CooldownEnds`, `PressureFades` | |

Run `budgets` (1 task, 2 run slots, 2 agents' columns with a rework edge, one
retry, two failures, loop threshold 2, two rungs, one act of a person besides a
raised budget, two shocks; fairness): `TypeOK`; `StrikesBounded`: however the
kinds of failure alternate, a task that nobody helps fails at most
`MaxFailures * (MaxRetries + 1)` times before it waits for a person;
`RungNeverDrops`: no attempt is made on a cheaper model than the last while the
task stays where it is; `ComesToRest`: a task left to the agents leaves their
columns or waits for a person. Two of each counter are the least at which one
counter's reset can undo the other's progress, and two columns the least for a
rework loop. Deadlock is not checked: a task at rest is the end of the behaviour.
Fairness is the ticker, the goroutines, a begun handler, and the clock.

A run whose task a person has taken over while it ran still writes the counters;
`meddled` marks these tasks, for which the bound does not hold.

## 7. `UsageLimits`

Which account the next run goes to. State: the world (`limited`, `loggedOut`); the
registry, an account's `block` (free, timed, with a check pending, or lapsed: the
grace is over but the check is still there), `checksOn`, and `newer`, the runs that
started before their account's `blockedAt`; `paused` per kind of provider; `on`, the
provider of a run; the checker's place (`due`, `probing`, `answer`) and the
recheck's list (`listed`, `asking`).

Actions: `Dispatch` (the walk over an agent's providers), `Reply`; a run's `Ends`,
`EndsTransient`, `EndsLimited`, `EndsLoggedOut` (`agent/ratelimit.go`,
`pool_failure.go`); `BlockPasses`, `EnableResetChecks`, `CheckPass`, `Probe`,
`CheckKnown`, `CheckStill`, `CheckUsable` (`resetcheck.go`); `PauseAges`,
`RecheckTick`, `RecheckAsk`, `RecheckResume`, `ResumeProvider`
(`providerpause.go`); `World`, `Restart`.

Run `limits` (2 providers on 2 accounts of 2 kinds, one of which may be limited,
2 runs; fairness): `TypeOK`; `FreshBlockStays`: a block ends only
when its time passes, its check finds the account usable, or a run on the account
ends that was started after the block; `Served`: while one of an
agent's accounts stays usable, runs keep being started; `LoginHeals`: when a login
works again, its pause ends for good. Two runs are the least that start on either
side of a block; a second account is needed to see that one's trouble does not
hold up the other, and one limitable account suffices because no registry
operation joins two. Fairness is that of the goroutines, the ticker and the clock;
the world owes nothing.

## 8. `SubtaskMerge`

A parent and its children. State: the parent's column (`pcol`: gate, work, past),
lock, branch and `integration_status`; a child's column, `merge_status` and what
became of its commits (`ref`); the terminal effects to be delivered (`due`); the
parent's runs (`phase`, `result`, and the children named in the `brief`); `co`, the
place of whoever holds the parent's mutex. An empty status column is `"unset"`.
`waived` is history.

| Actor | Actions | Code |
|---|---|---|
| Children | `Create`, `Release`, `ChildWorks`, `ChildFinishes`, `Reopen` | `api/handlers/subtasks.go`, moves |
| Parent's runs | `Start` (behind the dependency gate), `Land`, `LandNowhere`, `Fails`, `EndsEarly`, `Asks`, `Reply`, `Rerun`, `MoveParent` | `pool.go`, `dispatcher.go` |
| Coordinator | `ChildTerminal`, `Defer`, `GoAhead`, `AfterParentRun`, `LoopFlush`, `LoopResolve`, `LoopEnds`, `MarkDone`, `Merge`, `MergeNothing`, `MergeNowhere`, `Record`, `IsReady`, `NotReady`, `MarkPending`, `AutoAdvance`, `StayPut` | `agent/subtasks.go` |
| Process | `Restart` | |

| Run | Instance | Checks |
|---|---|---|
| `subtasks` | 2 children, 2 run slots, one act out of turn or restart, fairness | `TypeOK`; `MergedIsIn`; `SeesEveryChild`: a run the sweep starts on the parent finds each child's work in its branch or named in its brief; `FlushedInTime`: a deferred merge is made up for by the end of the run it waited for |
| `lostwork` | 1 child, 1 run | violated: a branch that is deleted has its commits in the parent's |

`lostwork`: a child's merge conflicts between the move that clears the parent's
lock and `AfterParentRun`; the run that just ended, which never saw the conflict,
is taken for the one that resolved it, the child is recorded merged and its branch
deleted. The exceptions of `MergedIsIn` (`waived`) are these children, those moved
back by a person, and those whose merge a restart cut off.

Two children are the least at which one can be merged while the other conflicts or
is created, and two run slots the least at which a run still reports its end while
the next goes on. Fairness: the holder of the mutex goes on, and a run that is
over gets the mutex in the end (Go's mutex starves nobody).

## 9. `FeedbackHandoff`

How a change request reaches the agent. Feedback is the column
`agent_runs.feedback` of the task's current run, `fb`, as a sequence of paragraphs;
`label`, `active` and `current` are the task's columns; `cursor` and `comments` what
the sync has on record of the pull request, `forge` the pull request itself;
`phase` and `mem` the runs' goroutines with their locals, `st` the two ways to start
one, `req` a request, `sy` the passes of the sync (a sweep, or a refresh that a
webhook asked for; one mutex, but both take their snapshot before it).

| Actor | Actions | Code |
|---|---|---|
| Starts | `SweepRead`, `ReplyRead`, `Claim` (with the copy), `Conflict`, `Escalate`, `Restore` | `dispatcher.go` startRun, persistRunRow |
| Runs | `Succeed`, `Fail`, `Ask`, `Die`, `ConsumeRead`, `ConsumeSwap`, `WriteFindings`, `LoopExceeded`, `RunMoveRead`, `RunMove`, `RunGivesUp` | `pool.go`, `feedback.go` |
| People | `RejectRead`, `RejectNote`, `MoveRequest`, `ReqMoveRead`, `ReqMove`, `Rerun` | `api/handlers/tasks.go` |
| Sync | `SyncSnap`, `SyncNoHead`, `SyncHead`, `SyncFetchSome` (each set of fetches may fail), `SyncAppend`, `SyncSave`, `SyncMoveRead`, `SyncMove` | `ghsync/syncer.go`, `webhook.go`, `pr_review.go` |
| Forge | `Review`, `Comment`, `Push`, `Check`, `Base` | |
| Process | `Crash` | |

Run `handoff` (2 runs, the task at the gate of a board with a worker's and a
reviewer's column, 2 passes of the sync that may overlap, one post on the forge,
one request or crash; symmetry on the passes; safety only): `TypeOK`;
`KeptUntilAddressed`: what was put to the task stays with its current run until a
run it was handed to succeeds; `NoReplay`: what has been addressed is not copied
again; `OnceEach`: a review or a red commit is put to the task once, unless its
cursor could not be saved; `CaughtUp`: when the sync takes the pull request for
unchanged, every trusted review was put and every inline comment recorded. One run
that receives and one that hands on are the least; two passes are the least that
can overlap or repeat. Larger instances were checked without a violation: 3 runs
with two passes, 3 runs with two acts and one pass, and the task starting at work.
Deadlock is not checked: the bounds stop the behaviour.

`waived` names what the code displaces: a rejection or an agent's findings replace
the column as a whole, whatever the forge appended meanwhile (the comment at
`ghsync/pr_review.go:517` accepts this). `again` names the text that stays because
of a write at the same time (by the sync, by a start that had copied it before, or
because a crash kept the run from dropping it), that comes back because a move wrote
back an older `current_agent_run_id` (`workflow/engine.go:282`), or that is told
twice. `KeptUntilAddressed` also excepts what a pass of the sync has read off the
forge and is about to write. `SuccessOf`, `FailureOf` and `BackOf` give a label or,
for a column without that path, `NoLabel`. Abstractions: the answers of the
forge to one pass are one step; the store's failures to append or to record a
comment, which the code only logs while the cursor moves on (`pr_review.go:360`,
`:534`), are left out; a run's status and lock change in one step.

## 10. `IssueImport`

One issue and the task imported from it; the issues of a repository do not touch
one another. One step is one query. State: `repo` (update policy and gone action),
`issue` (its text, and whether a fetch returns it), `task` (the row with that
source_ref, if any), `pending` (its `task_source_pending` row), `sweep` (the
importer's goroutine with what it has read), `hand` (the handler that applies a
held edit), `born` (how often the issue was imported). `silent` and `joined` are
history.

| Actor | Actions | Code |
|---|---|---|
| Importer | `Fetch`, `Look`, `ClearGone`, `DropPending`, `ReadHistory`, `HoldPending`, `WriteTask`, `CreateTask`, `ListMissing`, `FlagGone`, `Shelve` | `tasksource/importer.go` sweepRepo, applyFieldUpdates, createNewTasks, reconcile, applyGoneAction |
| Handlers | `ApplyRead`, `ApplyWrite`, `ApplyClear`, `Discard` | `api/handlers/tasks.go` |
| People, agents | `HumanMove`, `SetArchived`, `EditTask`, `DeleteTask`, `StartRun`, `EndRun` | `api/handlers`, `dispatcher.go`, `engine.go` |
| World | `IssueChanges`, `Restart` | |

Run `imports` (2 texts, gate, work and done; the repository freezes approved tasks
and moves gone ones to the gate, or follows the issue and archives; the issue
imported up to twice; one edit by a person or restart; fairness): `TypeOK`;
`ApprovalHolds`; `RunningIsLeft`; `BoardFollows`: once the issue is left alone, the
task comes to show its text, or a held edit does, and whether it is gone. Two
imports show a sweep and a handler that act on a row that has been deleted and
imported again. All four combinations of these settings were checked as well.
Fairness: the importer's ticker and a begun handler go on; nobody else owes
anything. `HumanMove` is one step here; its parts are in `RunLifecycle`. Comments of
an issue, the failures of a fetch and intake rules beyond where they let a task
land are left out.

What the model shows beside the documents:

- "an upstream edit must not silently change what the agent was approved to do"
  (`importer.go:650`): the history is read before the task is written, so an
  approval between the two is not seen. `ApprovalHolds` is what does hold: at most
  one edit gets past an approval.
- "it is re-evaluated on the next sweep once the run clears" (`importer.go:831`,
  `docs/task-sources.md`): `reconcile` skips tasks that are flagged gone, so a task
  that was only flagged because a run was live is never archived or moved later.
- The busy check uses the listed row: a run dispatched after the listing is moved
  over and loses its lock (`joined`).
- `writeback/writeback.go` (not modelled) says that a failed call is retried by the
  next sweep; the sync's query leaves out tasks whose pull request is merged, so only
  another request for the same move closes the issue.

## 11. Proofs

`RunLifecycleProofs` proves, for any sets of tasks, runs and clients, any
workflow and any pool size, `Spec => []` of `TypeOK`, `LockOwner`,
`WorktreeExclusive`, `NoOrphanLock`, `NoZombieRun`, and `Spec => LockHandover`.
The only assumption is `ConstantsAssumption`.

The argument is one inductive invariant, `IInv`. The properties alone are not
inductive; what is added is what the code knows at each program point:

- `RunsWellFormed`, `RequestsWellFormed`, `LocksWellFormed`: a created run has a
  task, a pending request names a task and a column, a lock names a run of that
  task, and the run a reply answers still waits for a human. Without the last
  one a reply could take a live run's lock.
- `QuietWhenDown`: a process that is not up carries no run, and no run is live
  when the recovery clears the locks. Without it clearing all locks would evict.
- `WaitingIsFinal`: `waiting_human` is a run's last status.
- `EndIsRecorded`: past the point where a run's end is decided it is not live,
  unless its context is dead; this is where the late cancel shows.

`IInv` was checked with TLC before it was proved. There is one lemma per actor
(`SweepStep`, `StarterStep`, `WorkerStep`, `CancelStep`, `HumanStep`,
`ProcessStep`), with one step per action. `WorktreeExclusive` follows from
`LockOwner`; `LockHandover` is an action property shown for each actor from
`IInv`.

`SideEffectOutboxProofs` proves, for any tasks, workflow, number of rows and
attempt budget, `Spec => []` of `TypeOK`, `EffectNotLost`, `RunningIsExplained`
and `BudgetKept` (a row that waits or runs has an attempt left), from `ConstantsAssumption` and `NoRowAssumption` (the absent
row is no row). The four are inductive together with `HeldIsRunning` (the row
the worker holds is marked running, so no move, retry or dismissal touches it)
and `WorkerUp` (there is a worker unless the process is down). The lemma `LetGo`
is the heart: when the worker puts a row down, the effect it carried is written
off, still carried by the row, or carried by a twin.

`AutonomyGateProofs` proves, for any tasks, decisions, requests and threshold,
`Spec => []TypeOK` and `Spec => HoldWins`, from `ConstantsAssumption`. `TypeOK`
alone is not inductive (the mode could fall below ask), and needs `ChecksKnow`: a
check past its first read has not read ask. `HoldWins` needs `StoppedIsFinal` (a
stopped row stays held or dropped) and what the goroutines know at their places
(`ServiceKnows`, `RequestsKnow`: a claimed row is approved or undone, a row about
to be marked undone was never stopped), and `PolicyApproves`: no other action
moves a task in the policy's name.

`Spec => UndoneStays` and `Spec => ApprovesThisVisit` need a second invariant,
`VInv`, which relates the service's queue to the history. While no event was lost,
a task's arrivals and departures alternate in the queue (`InTurn`: between two
arrivals there is a departure, and a task that is away with an arrival or a decision
still open has its departure waiting); so a task has one decision at a time
(`OneVisit`), a task the policy let go has none left (`LetGo`), nor has one that a
person took back (`AfterUndo`), and the row of an earlier visit is open only while
the departure that closes it is to be heard (`StaleOnes`). Both properties except
the behaviours in which an event was dropped by a full queue or a restart.

`RetryBudgetsProofs` proves, for any workflow, tasks, runs and budgets, `Spec => []`
of `TypeOK` and `StrikesBounded`, and `Spec => RungNeverDrops`, from
`BudgetsAssumption`. `Links` ties locks, runs and columns together: a lock names a
run of the task's present column, and a run that goes on has the lock unless a person
took it over. `Budget` counts by rounds: each genuine failure stands for
`MaxRetries + 1` strikes, the transient ones of the present round are the counter in
the row or, while a run is about to write it, the number that run has read. Where a
run has thrown the count away and its move may still be refused, the whole round is
taken as spent, which `MaxFailures - 1` allows. `RungNeverDrops` follows because a
counter falls only with a move or an act of a person.

`UsageLimitsProofs` proves, for any providers, accounts, order and runs,
`Spec => []TypeOK` and `Spec => FreshBlockStays`, from `LimitsAssumption`. `TypeOK` is
inductive as it stands; it says that `newer` holds only runs that go on, that a check
has an answer exactly when it probes an account. `FreshBlockStays` is shown action by
action: only `UnblockIfNotBlockedSince`, `CheckUsable` and the clock free an account.

`SubtaskMergeProofs` proves, for any children, runs and acts, `Spec => []` of
`TypeOK` and `MergedIsIn`, and `Spec => SeesEveryChild`, from `SubtasksAssumption`.
`MergedIsIn` is not inductive: a child could be merged and then go on committing, or
the result of a merge that failed could be recorded. Hence `WorkIsOver` (of a child
that has anything to be merged, is on the list of a flush or in the coordinator's
hands, the work is over, unless a person moved it back), `RecordKnows` (between the
merge and the write of its result the commits stay in), `CoKnown` (whose mutex it is)
and `LockKnown` (a run that is over keeps the lock only to wait for a person). A
child that a run may start past without its work is in conflict, and every conflict is
in the brief: that is `SeesEveryChild`.

`FeedbackHandoffProofs` proves, for any workflow, runs and trusted reviews and any
number of passes, posts and requests, `Spec => []` of `TypeOK`, `KeptUntilAddressed`
and `CaughtUp`, and `Spec => OnceEach` and `Spec => NoReplay`, from
`ConstantsAssumption`. The invariant has six parts:

- `Typed`: what each goroutine knows at its place; among it, that one pass at most
  is past the mutex, and that a run that drops what it was handed has read a column
  that begins with it.
- `Behind`: the cursor, and the cursor a pass is about to save, are never ahead of
  what was told, so a failed fetch cannot burn a review.
- `CaughtUp`, which is kept because of `Behind`.
- `Once`: what was told, and whose cursor was saved, is below the cursor or among
  what the pass in hand tells, and never above its next cursor. `OnceEach` follows.
- `Kept`: `KeptUntilAddressed`, and the same of the copies: the one a start is about
  to insert as the new current run, and the one a pass is about to write back.
- `Handed`: whatever is kept in a row, a copy or a pass was told (`Known`), stands
  there once unless it was told again (`Singles`), and what is written next is new
  (`FreshParts`, `NewNotes`, `NewFindings`); a start that could not run its agent is
  alone with its run (`Owned`); and what was addressed and could still be handed out
  is covered by a run that is about to drop it (`NotAgain`). `NoReplay` is the last
  one. `Singles` is why dropping a prefix drops the text: nothing of it stands again
  behind the prefix.

`RunLifecycleProofs` also proves the refinement, `Spec => ImplementsLease`, from the
same `IInv`. `UserKnown` turns `WorktreeExclusive` into the value of the mapping: a
run that works in a worktree is its user. Every action then is one of three kinds,
with a lemma for each: it lets nobody in (the users that go are a set, and the step
is `LetGo`, or nothing happens), it only creates a run that waits for a human
(`Discard`), or it lets a fresh run into a worktree nobody uses (`Take`).

`IssueImportProofs` proves, for any workflow, texts, settings and number of imports,
`Spec => []` of `TypeOK` and `ApprovalHolds` and `Spec => RunningIsLeft`, from
`ConstantsAssumption` and `NoTaskAssumption`. The strengthening: `Room` (the importer
creates a task only in place of one that was deleted, which bounds the numbers),
`Unspent` (no edit has got past a task that nobody approved, nor past one whose
approval the sweep about to write does not know of; this is why one edit is the
most) and `Noticed` (a run the sweep does not know of began after the listing).
There is one lemma per action.

The invariants were checked with TLC before they were proved. Every safety property
and every action property that a passing run checks is now the statement of a theorem.
Model-checked only is what the prover cannot reach: liveness, since fairness and
ENABLED are outside it (`RunSettles`, `LockSettles`, `EffectSettles`,
`FinishedIsReclaimed`, `PendingSettles`, `ComesToRest`, `Served`, `LoginHeals`,
`FlushedInTime`, `BoardFollows`), and the violation run `lostwork`.

## 12. Not modelled, and why

See the components with status `not_modelled` in `PROJECT.json`: write-back, the
websocket hub and the scheduler are next in the plan; providers, git, forges, issue
trackers, terminals and the frontend are I/O whose results the models choose freely;
block reasons, needs-me and the review brief are read-only views.

Hazards that the models contain or that reading found, but that no property is
about: a second cancel's reason overwrites the first (`agent/pool.go:283`); a
reply's start runs under the request's context (`agent/dispatcher.go:1105`);
`prepareRuntime` escalates a run that was cancelled (`pool.go:653`); failed rows of
one kind pile up until a retry is refused (`storage/queries/side_effects.sql:38`); a
crash between the claim and the approval (`autonomy/policy/policy.go:415`); a
step-down cut off after the mode was lowered, a person setting the mode meanwhile,
and a check that steps twice (`autonomy/escape/escape.go:137`, `:140`); a decision
made in a mode read before (`policy.go:181`); an escape reported again after it was
counted (`storage/queries/autonomy.sql:105`); a merge recorded by the status
endpoint (`api/handlers/task_pr.go:181`); the parent's integration marked done by a
run without an integration brief (`agent/subtasks.go:132`); the boot's clearing of
all locks (`storage/recovery.go:25`).
