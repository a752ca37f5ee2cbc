---------------------------- MODULE RunLifecycle ----------------------------
(***************************************************************************)
(* The dispatch lock and the life of an agent run: the dispatcher's sweep, *)
(* the worker pool, the people who move, reply to, rerun, pause and cancel *)
(* (internal/api/handlers), the workflow engine's label move, shutdown and *)
(* boot recovery.                                                          *)
(*                                                                         *)
(* One step is one write (or one transaction) to the database, or one     *)
(* update of the pool's in-memory registry; everything a goroutine does    *)
(* between two such steps is local to it.  A run's phase is the program    *)
(* counter of the goroutine that carries it.  The order of the jobs        *)
(* channel is abstracted (a worker may take any queued job).  The retry    *)
(* and failure counters only decide between "release" and "wait for a      *)
(* human"; here either choice is possible.  tasks.current_agent_run_id     *)
(* and feedback are not kept in this module.                               *)
(***************************************************************************)
EXTENDS Naturals, FiniteSets

CONSTANTS
    Tasks,        \* task ids
    Runs,         \* run ids that may be created (bounds every behaviour)
    Clients,      \* concurrent HTTP requests of people
    Labels,       \* the workflow's columns
    AgentLabels,  \* columns an agent picks tasks from
    AgentMoves,   \* <<from, to>> pairs an agent outcome may follow
    HumanMoves,   \* <<from, to>> pairs a person may request
    FeedbackMoves,\* those of them that are a column's human "failure" path
    FirstLabel,   \* the column tasks start in
    MaxWorkers,   \* pool workers
    QueueCap,     \* capacity of the jobs channel
    NoRun, NoTask, NoLabel

ASSUME ConstantsAssumption ==
    /\ AgentLabels \subseteq Labels
    /\ FirstLabel \in Labels
    /\ AgentMoves \subseteq (Labels \X Labels)
    /\ HumanMoves \subseteq (Labels \X Labels)
    /\ FeedbackMoves \subseteq HumanMoves
    /\ NoRun \notin Runs
    /\ NoTask \notin Tasks
    /\ NoLabel \notin Labels
    /\ MaxWorkers \in Nat \ {0}
    /\ QueueCap \in Nat \ {0}

VARIABLES
    \* database: tasks
    label, active, paused, cooling,
    \* database: agent_runs
    status, taskOf,
    \* memory: the goroutine of each run
    from, to, phase, reason,
    \* memory: the sweep, the HTTP requests, the process
    swept, sweepRun, req, mode,
    \* history, read by the properties only
    asked,        \* carried runs whose cancellation a person was promised
    evicted,      \* carried runs whose lock somebody else took
    lost          \* ended runs whose last writes a late cancel made fail

taskVars    == <<label, active, paused, cooling>>
runVars     == <<status, taskOf, from, to, phase, reason>>
controlVars == <<swept, sweepRun, req, mode>>
history     == <<asked, evicted, lost>>
vars == <<label, active, paused, cooling, status, taskOf, from, to, phase,
          reason, swept, sweepRun, req, mode, asked, evicted, lost>>

-----------------------------------------------------------------------------
Statuses == {"none", "pending", "running", "completed", "failed",
             "cancelled", "waiting_human", "interrupted"}
LiveStatuses == {"pending", "running"}

\* Phases of a run the pool has registered (Pool.running holds its control).
RegisteredPhases == {"booting", "setup", "provider", "checked", "verify",
                     "moving", "unlock", "pausing", "chilling", "releasing"}
\* Phases in which the run has claimed the lock and some goroutine, or the
\* jobs channel, still carries it.
CarriedPhases == RegisteredPhases \cup
                 {"claimed", "submitting", "queued", "refused", "escalating"}
Phases == CarriedPhases \cup {"none", "phantom", "parking", "done"}

Reasons == {"none", "user", "resource", "shutdown"}
Modes   == {"up", "draining", "hard", "down", "recovering"}

IdleReq == [op |-> "idle", task |-> NoTask, run |-> NoRun,
            from |-> NoLabel, to |-> NoLabel]
Requests == [op : {"idle", "reply", "checked", "move"},
             task : Tasks \cup {NoTask}, run : Runs \cup {NoRun},
             from : Labels \cup {NoLabel}, to : Labels \cup {NoLabel}]

Carried(r)    == phase[r] \in CarriedPhases
Registered(r) == phase[r] \in RegisteredPhases
CtxAlive(r)   == reason[r] = "none"
Serving       == mode \in {"up", "draining", "hard"}

\* Engine.RunIsLive / taskRunIsLive: the lock is held by a pending or
\* running run.
RunIsLive(t) == active[t] # NoRun /\ status[active[t]] \in LiveStatuses

-----------------------------------------------------------------------------
Init ==
    /\ label = [t \in Tasks |-> FirstLabel]
    /\ active = [t \in Tasks |-> NoRun]
    /\ paused = [t \in Tasks |-> FALSE]
    /\ cooling = [t \in Tasks |-> FALSE]
    /\ status = [r \in Runs |-> "none"]
    /\ taskOf = [r \in Runs |-> NoTask]
    /\ from = [r \in Runs |-> NoLabel]
    /\ to = [r \in Runs |-> NoLabel]
    /\ phase = [r \in Runs |-> "none"]
    /\ reason = [r \in Runs |-> "none"]
    /\ swept = [t \in Tasks |-> NoLabel]
    /\ sweepRun = NoRun
    /\ req = [c \in Clients |-> IdleReq]
    /\ mode = "up"
    /\ asked = {}
    /\ evicted = {}
    /\ lost = {}

\* Mutant: the release of issue #244, which clears whatever lock there is.
ReleaseLock_Unscoped(r) == active' = [active EXCEPT ![taskOf[r]] = NoRun]

\* Owner-scoped release: clears the lock only if it still points at r.
ReleaseLock(r) ==
    active' = [t \in Tasks |-> IF t = taskOf[r] /\ active[t] = r
                               THEN NoRun ELSE active[t]]

\* The goroutine of r ends (unregisterRun); its locals and its control
\* block go with it.
LeaveBut(r, taken) ==
    /\ phase' = [phase EXCEPT ![r] = "done"]
    /\ from' = [from EXCEPT ![r] = NoLabel]
    /\ to' = [to EXCEPT ![r] = NoLabel]
    /\ reason' = [reason EXCEPT ![r] = "none"]
    /\ asked' = asked \ {r}
    /\ evicted' = taken \ {r}
Leave(r) == LeaveBut(r, evicted)

Goto(r, p) == phase' = [phase EXCEPT ![r] = p]
SetStatus(r, s) == status' = [status EXCEPT ![r] = s]
Forget(t) == swept' = [swept EXCEPT ![t] = NoLabel]

\* Steps that change a run's phase only, and its phase and status only.
GoOn(r, p) ==
    /\ Goto(r, p)
    /\ UNCHANGED <<taskVars, status, taskOf, from, to, reason, controlVars,
                   history>>
Record(r, s, p) ==
    /\ SetStatus(r, s)
    /\ Goto(r, p)
    /\ UNCHANGED <<taskVars, taskOf, from, to, reason, controlVars, history>>

\* A step of one HTTP request that touches nothing else.
SetReq(c, q) ==
    /\ req' = [req EXCEPT ![c] = q]
    /\ UNCHANGED <<taskVars, runVars, swept, sweepRun, mode, history>>

\* Bookkeeping for a lock write that is not made on behalf of its holder.
Evicting(t) ==
    evicted \cup {r \in Runs : active[t] = r /\ Carried(r)}

-----------------------------------------------------------------------------
(* The dispatcher's sweep.  One thread: while startRun of one run is under *)
(* way (sweepRun) no other task is looked at.                              *)

Pickup(t) ==
    /\ label[t] \in AgentLabels
    /\ active[t] = NoRun
    /\ ~paused[t]
    /\ ~cooling[t]

SweepIdle == mode = "up" /\ sweepRun = NoRun

\* ListAgentPickupTasks: one read for the whole sweep.
SweepList ==
    /\ SweepIdle
    /\ \A t \in Tasks : swept[t] = NoLabel
    /\ \E t \in Tasks : Pickup(t)
    /\ swept' = [t \in Tasks |-> IF Pickup(t) THEN label[t] ELSE NoLabel]
    /\ UNCHANGED <<taskVars, runVars, sweepRun, req, mode, history>>

\* No matching config, repo or WIP limit, rate-limited or paused provider.
SweepSkip(t) ==
    /\ SweepIdle
    /\ swept[t] # NoLabel
    /\ Forget(t)
    /\ UNCHANGED <<taskVars, runVars, sweepRun, req, mode, history>>

\* persistRunRow: create the run and claim the lock in one transaction.
Claim(t, r, l, p) ==
    /\ phase[r] = "none"
    /\ active' = [active EXCEPT ![t] = r]
    /\ SetStatus(r, "pending")
    /\ taskOf' = [taskOf EXCEPT ![r] = t]
    /\ from' = [from EXCEPT ![r] = l]
    /\ Goto(r, p)

\* ClaimTaskActiveRunIfFree's condition.
IfFree(t, l) == label[t] = l /\ active[t] = NoRun

SweepClaim(t, r) ==
    /\ SweepIdle
    /\ swept[t] # NoLabel
    /\ IfFree(t, swept[t])
    /\ Claim(t, r, swept[t], "claimed")
    /\ Forget(t)
    /\ sweepRun' = r
    /\ UNCHANGED <<label, paused, cooling, to, reason, req, mode, history>>

\* ErrDispatchConflict: the transaction is rolled back, the sweep goes on.
SweepConflict(t) ==
    /\ SweepIdle
    /\ swept[t] # NoLabel
    /\ ~IfFree(t, swept[t])
    /\ Forget(t)
    /\ UNCHANGED <<taskVars, runVars, sweepRun, req, mode, history>>

\* escalateCostBudget, first write: a run row without a lock.
SweepBudget(t, r) ==
    /\ SweepIdle
    /\ swept[t] # NoLabel
    /\ phase[r] = "none"
    /\ SetStatus(r, "pending")
    /\ taskOf' = [taskOf EXCEPT ![r] = t]
    /\ Goto(r, "phantom")
    /\ Forget(t)
    /\ sweepRun' = r
    /\ UNCHANGED <<taskVars, from, to, reason, req, mode, history>>

\* escalate with lockPhantomOnly: the status ...
PhantomEscalate(r) ==
    /\ Serving
    /\ phase[r] = "phantom"
    /\ Record(r, "waiting_human", "parking")

\* ... then an unconditional SetTaskActiveRunOnly.
PhantomLock(r) ==
    /\ Serving
    /\ phase[r] = "parking"
    /\ active' = [active EXCEPT ![taskOf[r]] = r]
    /\ phase' = [phase EXCEPT ![r] = "done"]
    /\ evicted' = Evicting(taskOf[r])
    /\ sweepRun' = NoRun
    /\ UNCHANGED <<label, paused, cooling, status, taskOf, from, to, reason,
                   swept, req, mode, asked, lost>>

-----------------------------------------------------------------------------
(* startRun after the claim, shared by the sweep and DispatchReply.        *)

\* startRun has returned for r.
StartReturns(r) == sweepRun' = IF sweepRun = r THEN NoRun ELSE sweepRun

\* A malformed runtime config or no runner for the provider: escalate with
\* lockRestoreCurrent, the status ...
PrepEscalate(r) ==
    /\ Serving
    /\ phase[r] = "claimed"
    /\ Record(r, "waiting_human", "escalating")

\* ... then SetTaskActiveRun, which is unconditional.
PrepLock(r) ==
    /\ Serving
    /\ phase[r] = "escalating"
    /\ active' = [active EXCEPT ![taskOf[r]] = r]
    /\ LeaveBut(r, Evicting(taskOf[r]))
    /\ StartReturns(r)
    /\ UNCHANGED <<label, paused, cooling, status, taskOf, swept, req, mode,
                   lost>>

\* Submit's draining check ...
SubmitCheck(r) ==
    /\ Serving
    /\ phase[r] = "claimed"
    /\ mode = "up"
    /\ GoOn(r, "submitting")

QueueLen == Cardinality({r \in Runs : phase[r] = "queued"})

\* ... and its send, which does not look at draining again.
Submit(r) ==
    /\ Serving
    /\ phase[r] = "submitting"
    /\ QueueLen < QueueCap
    /\ Goto(r, "queued")
    /\ StartReturns(r)
    /\ UNCHANGED <<taskVars, status, taskOf, from, to, reason, swept, req,
                   mode, history>>

\* Mutant: a refused run gets a status no column knows.
SubmitRefused_Dropped(r) ==
    /\ Serving
    /\ phase[r] = "claimed" /\ mode # "up"
    /\ Record(r, "dropped", "refused")

\* Submit returned false: the run ends failed, or interrupted when the
\* server is shutting down; the owner-scoped release follows.
SubmitRefused(r) ==
    /\ Serving
    /\ \/ phase[r] = "claimed" /\ mode # "up"
       \/ phase[r] = "submitting" /\ QueueLen >= QueueCap
    /\ Record(r, IF mode = "up" THEN "failed" ELSE "interrupted", "refused")

\* Mutant: the refused run's lock is forgotten.
RefusedRelease_Forgotten(r) ==
    /\ Serving
    /\ phase[r] = "refused"
    /\ Leave(r)
    /\ StartReturns(r)
    /\ UNCHANGED <<taskVars, status, taskOf, swept, req, mode, lost>>

\* The release after a refusal, and after a queued job is drained.
RefusedRelease(r) ==
    /\ Serving
    /\ phase[r] = "refused"
    /\ ReleaseLock(r)
    /\ Leave(r)
    /\ StartReturns(r)
    /\ UNCHANGED <<label, paused, cooling, status, taskOf, swept, req, mode,
                   lost>>

-----------------------------------------------------------------------------
(* The pool: one worker carries one registered run.                        *)

Busy == Cardinality({r \in Runs : Registered(r)})

\* A worker takes a job and registers the run.
Take(r) ==
    /\ mode = "up"
    /\ phase[r] = "queued"
    /\ Busy < MaxWorkers
    /\ GoOn(r, "booting")

\* Shutdown's drain loop, or a worker that sees draining: a job that never
\* started is recorded interrupted (handleCancelled), then released.
DrainQueued(r) ==
    /\ mode \in {"draining", "hard"}
    /\ phase[r] = "queued"
    /\ Record(r, "interrupted", "refused")

\* startRun of the pool: the started marker is written under the run's own
\* context; when that is already cancelled the run ends failed.
StartRun(r) ==
    /\ Serving
    /\ phase[r] = "booting"
    /\ \/ /\ CtxAlive(r)
          /\ SetStatus(r, "running")
          /\ Goto(r, "setup")
       \/ /\ ~CtxAlive(r)
          /\ SetStatus(r, "failed")
          /\ Goto(r, "releasing")
    /\ UNCHANGED <<taskVars, taskOf, from, to, reason, controlVars, history>>

\* handleCancelled, first write, for the reason read by cancelledBy.
RecordCancel(r) ==
    /\ SetStatus(r, IF reason[r] = "shutdown" THEN "interrupted"
                                              ELSE "cancelled")
    /\ Goto(r, CASE reason[r] = "user"     -> "pausing"
                 [] reason[r] = "resource" -> "chilling"
                 [] OTHER                  -> "releasing")

\* setupWorktree and prepareRuntime succeed.
SetupDone(r) ==
    /\ Serving
    /\ phase[r] = "setup"
    /\ GoOn(r, "provider")

\* setupWorktree fails because the run was cancelled.
SetupCancelled(r) ==
    /\ Serving
    /\ phase[r] = "setup"
    /\ ~CtxAlive(r)
    /\ RecordCancel(r)
    /\ UNCHANGED <<taskVars, taskOf, from, to, reason, controlVars, history>>

\* escalate with lockUntouched, under a live context: the run waits for
\* a human and keeps the lock it has.
EscalateAndLeave(r) ==
    /\ SetStatus(r, "waiting_human")
    /\ Leave(r)
    /\ UNCHANGED <<taskVars, taskOf, controlVars, lost>>

\* prepareRuntime fails, for whatever reason: it never asks cancelledBy.
PrepFails(r) ==
    /\ Serving
    /\ phase[r] = "setup"
    /\ EscalateAndLeave(r)

\* Mutant: the recovery from a panic releases the lock only.
Panic_LockOnly(r) ==
    /\ Serving
    /\ phase[r] = "provider"
    /\ ReleaseLock(r)
    /\ Leave(r)
    /\ UNCHANGED <<label, paused, cooling, status, taskOf, controlVars, lost>>

\* A panic in the provider: runGuarded records failed and releases.
Panic(r) ==
    /\ Serving
    /\ phase[r] = "provider"
    /\ SetStatus(r, "failed")
    /\ ReleaseLock(r)
    /\ Leave(r)
    /\ UNCHANGED <<label, paused, cooling, taskOf, controlVars, lost>>

\* The provider returns, with whatever result, and run asks cancelledBy.
CancelCheck(r) ==
    /\ Serving
    /\ phase[r] = "provider"
    /\ \/ /\ CtxAlive(r)
          /\ Goto(r, "checked")
          /\ UNCHANGED status
       \/ /\ ~CtxAlive(r)
          /\ RecordCancel(r)
    /\ UNCHANGED <<taskVars, taskOf, from, to, reason, controlVars, history>>

\* Rate limited, or transient within budget (next_retry_at is written
\* before the lock is released): failAndRelease.  Also a worktree set-up
\* failure of a run nobody cancelled.
RetryLater(r) ==
    /\ Serving
    /\ \/ phase[r] = "checked"
       \/ phase[r] = "setup" /\ CtxAlive(r)
    /\ \/ cooling' = [cooling EXCEPT ![taskOf[r]] = TRUE]
       \/ UNCHANGED cooling
    /\ SetStatus(r, "failed")
    /\ Goto(r, "releasing")
    /\ UNCHANGED <<label, active, paused, taskOf, from, to, reason,
                   controlVars, history>>

\* Turn limit, cost budget, retry budget exhausted (also by a worktree that
\* cannot be provisioned); the last one clears next_retry_at.
StopForHuman(r) ==
    /\ Serving
    /\ phase[r] = "checked" \/ (phase[r] = "setup" /\ CtxAlive(r))
    /\ SetStatus(r, "waiting_human")
    /\ Leave(r)
    /\ \/ cooling' = [cooling EXCEPT ![taskOf[r]] = FALSE]
       \/ UNCHANGED cooling
    /\ UNCHANGED <<label, active, paused, taskOf, controlVars, lost>>

\* Writes under the run's own context fail once it is cancelled.
WriteEnd(r, s) ==
    status' = IF CtxAlive(r) THEN [status EXCEPT ![r] = s] ELSE status
ResetCooling(r) ==
    cooling' = IF CtxAlive(r) THEN [cooling EXCEPT ![taskOf[r]] = FALSE]
                              ELSE cooling
LoseIfCancelled(r) == lost' = IF CtxAlive(r) THEN lost ELSE lost \cup {r}

\* persistRunResult under the run's context: a late cancel loses the write,
\* and the worker goes on with the status it meant to write.
PersistResult(r) ==
    /\ Serving
    /\ phase[r] = "checked"
    /\ \/ /\ WriteEnd(r, "completed")
          /\ Goto(r, "verify")
          /\ ResetCooling(r)
          /\ UNCHANGED <<from, to, reason, history>>
       \/ /\ WriteEnd(r, "failed")
          /\ Goto(r, "unlock")
          /\ ResetCooling(r)
          /\ UNCHANGED <<from, to, reason, history>>
       \/ /\ WriteEnd(r, "waiting_human")
          /\ Leave(r)
          /\ LoseIfCancelled(r)
          /\ ResetCooling(r) \/ UNCHANGED cooling
    /\ UNCHANGED <<label, active, paused, taskOf, controlVars>>

\* releaseLock under the run's context, after a genuine failure.
FailedUnlock(r) ==
    /\ Serving
    /\ phase[r] = "unlock"
    /\ IF CtxAlive(r) THEN ReleaseLock(r) ELSE UNCHANGED active
    /\ Leave(r)
    /\ LoseIfCancelled(r)
    /\ UNCHANGED <<label, paused, cooling, status, taskOf, controlVars>>

\* A verify command that was cancelled hands over to handleCancelled.
VerifyCancelled(r) ==
    /\ Serving
    /\ phase[r] = "verify"
    /\ ~CtxAlive(r)
    /\ RecordCancel(r)
    /\ UNCHANGED <<taskVars, taskOf, from, to, reason, controlVars, history>>

\* applyTerminalTransition under a cancelled context: every write fails.
DeliverLost(r) ==
    /\ Serving
    /\ phase[r] \in {"verify", "moving"}
    /\ ~CtxAlive(r)
    /\ Leave(r)
    /\ LoseIfCancelled(r)
    /\ UNCHANGED <<taskVars, status, taskOf, controlVars>>

\* After the safety-net commit and the verify command: no usable outcome, a
\* verify error, a rework loop, or a limit of verify holds or rejected
\* transitions is reached: the run waits for a human.
DeliverEscalate(r) ==
    /\ Serving
    /\ phase[r] = "verify"
    /\ CtxAlive(r)
    /\ EscalateAndLeave(r)

\* Mutant: a refused move leaves the lock to the engine, which did not move.
DeliverRelease_Forgotten(r) ==
    /\ Serving
    /\ phase[r] \in {"verify", "moving"}
    /\ CtxAlive(r)
    /\ Leave(r)
    /\ UNCHANGED <<taskVars, status, taskOf, controlVars, lost>>

\* A person moved the task meanwhile (humanMovedTask, ErrStale), the engine
\* refused the move, or the verify command failed below its limit: the lock
\* is released, if it is still this run's.
DeliverRelease(r) ==
    /\ Serving
    /\ \/ phase[r] = "verify"
       \/ phase[r] = "moving" /\ label[taskOf[r]] # from[r]
    /\ CtxAlive(r)
    /\ ReleaseLock(r)
    /\ Leave(r)
    /\ UNCHANGED <<label, paused, cooling, status, taskOf, controlVars, lost>>

\* resolveOutcome found column l, and the engine has read the task on the
\* label the run was dispatched on.
DeliverRead(r, l) ==
    /\ Serving
    /\ phase[r] = "verify"
    /\ CtxAlive(r)
    /\ <<from[r], l>> \in AgentMoves
    /\ label[taskOf[r]] = from[r]
    /\ to' = [to EXCEPT ![r] = l]
    /\ Goto(r, "moving")
    /\ UNCHANGED <<taskVars, status, taskOf, from, reason, controlVars,
                   history>>

\* Engine.transition's compare-and-swap on the label; it clears the lock,
\* whoever holds it.
MoveLabel(t, l) ==
    /\ label' = [label EXCEPT ![t] = l]
    /\ active' = [active EXCEPT ![t] = NoRun]

AgentMove(r) ==
    /\ Serving
    /\ phase[r] = "moving"
    /\ CtxAlive(r)
    /\ label[taskOf[r]] = from[r]
    /\ MoveLabel(taskOf[r], to[r])
    /\ LeaveBut(r, Evicting(taskOf[r]))
    /\ UNCHANGED <<paused, cooling, status, taskOf, controlVars, lost>>

\* handleCancelled, later writes: the pause or the cool-down, which must be
\* in place before the release.
CancelPause(r) ==
    /\ Serving
    /\ phase[r] = "pausing"
    /\ paused' = [paused EXCEPT ![taskOf[r]] = TRUE]
    /\ cooling' = [cooling EXCEPT ![taskOf[r]] = FALSE]
    /\ Goto(r, "releasing")
    /\ UNCHANGED <<label, active, status, taskOf, from, to, reason,
                   controlVars, history>>

CancelCooldown(r) ==
    /\ Serving
    /\ phase[r] = "chilling"
    /\ cooling' = [cooling EXCEPT ![taskOf[r]] = TRUE]
    /\ Goto(r, "releasing")
    /\ UNCHANGED <<label, active, paused, status, taskOf, from, to, reason,
                   controlVars, history>>

\* releaseLock under context.Background.
Release(r) ==
    /\ Serving
    /\ phase[r] = "releasing"
    /\ ReleaseLock(r)
    /\ Leave(r)
    /\ UNCHANGED <<label, paused, cooling, status, taskOf, controlVars, lost>>

-----------------------------------------------------------------------------
(* Cancellation.  The reason is overwritten by every later cancel.         *)

Signal(r, why) == reason' = [reason EXCEPT ![r] = why]

\* CancelRun: the handler saw the run running, at some earlier moment, and
\* the registry still has it: 202.
UserCancel(r) ==
    /\ Serving
    /\ Registered(r)
    /\ phase[r] # "booting"
    /\ Signal(r, "user")
    /\ asked' = asked \cup {r}
    /\ UNCHANGED <<taskVars, status, taskOf, from, to, phase, controlVars,
                   evicted, lost>>

\* The memory watchdog picks a registered run.
MemguardCancel(r) ==
    /\ Serving
    /\ Registered(r)
    /\ Signal(r, "resource")
    /\ UNCHANGED <<taskVars, status, taskOf, from, to, phase, controlVars,
                   history>>

\* Shutdown after the drain window, and registerRun under hardStop.
ShutdownCancel(r) ==
    /\ mode = "hard"
    /\ Registered(r)
    /\ Signal(r, "shutdown")
    /\ UNCHANGED <<taskVars, status, taskOf, from, to, phase, controlVars,
                   history>>

-----------------------------------------------------------------------------
(* People.                                                                 *)

\* MoveLabel, Approve, Reject, bulk move, and the background loops that move
\* tasks: read the task, refuse while a run is live.
MoveCheck(c, t, l) ==
    /\ Serving
    /\ req[c].op = "idle"
    /\ ~RunIsLive(t)
    /\ <<label[t], l>> \in HumanMoves
    /\ SetReq(c, [op |-> "checked", task |-> t, run |-> NoRun,
                  from |-> NoLabel, to |-> l])

\* ghsync's auto-transition on pull request feedback does not look for a run.
FeedbackMove(c, t, l) ==
    /\ Serving
    /\ req[c].op = "idle"
    /\ <<label[t], l>> \in FeedbackMoves
    /\ SetReq(c, [op |-> "checked", task |-> t, run |-> NoRun,
                  from |-> NoLabel, to |-> l])

\* Engine.transition reads the task again and validates the move ...
MoveRead(c) ==
    /\ Serving
    /\ req[c].op = "checked"
    /\ LET l == label[req[c].task] IN
       SetReq(c, IF <<l, req[c].to>> \in HumanMoves
                 THEN [op |-> "move", task |-> req[c].task, run |-> NoRun,
                       from |-> l, to |-> req[c].to]
                 ELSE IdleReq)

\* ... and its compare-and-swap looks at the label only.
HumanMove(c) ==
    /\ Serving
    /\ req[c].op = "move"
    /\ label[req[c].task] = req[c].from
    /\ MoveLabel(req[c].task, req[c].to)
    /\ evicted' = Evicting(req[c].task)
    /\ req' = [req EXCEPT ![c] = IdleReq]
    /\ UNCHANGED <<paused, cooling, runVars, swept, sweepRun, mode, asked,
                   lost>>

HumanMoveStale(c) ==
    /\ Serving
    /\ req[c].op = "move"
    /\ label[req[c].task] # req[c].from
    /\ SetReq(c, IdleReq)

\* DispatchReply: the task's lock is held by a waiting_human run ...
ReplyRead(c, t) ==
    /\ Serving
    /\ req[c].op = "idle"
    /\ active[t] # NoRun
    /\ status[active[t]] = "waiting_human"
    /\ SetReq(c, [op |-> "reply", task |-> t, run |-> active[t],
                  from |-> label[t], to |-> NoLabel])

\* Mutant: the claim compares the label only.
IfHeldBy_LabelOnly(t, l, r) == label[t] = l

\* ClaimTaskActiveRunIfHeldBy's condition.
IfHeldBy(t, l, r) == label[t] = l /\ active[t] = r

\* ... and the new run takes it over from exactly that run.
ReplyClaim(c, r) ==
    /\ Serving
    /\ req[c].op = "reply"
    /\ IfHeldBy(req[c].task, req[c].from, req[c].run)
    /\ Claim(req[c].task, r, req[c].from, "claimed")
    /\ evicted' = Evicting(req[c].task)
    /\ req' = [req EXCEPT ![c] = IdleReq]
    /\ UNCHANGED <<label, paused, cooling, to, reason, swept, sweepRun, mode,
                   asked, lost>>

\* ErrDispatchConflict, or no matching agent config.
ReplyConflict(c) ==
    /\ Serving
    /\ req[c].op = "reply"
    /\ SetReq(c, IdleReq)

\* Rerun: the unscoped force-clear.
Rerun(t) ==
    /\ Serving
    /\ active[t] # NoRun
    /\ active' = [active EXCEPT ![t] = NoRun]
    /\ evicted' = Evicting(t)
    /\ UNCHANGED <<label, paused, cooling, runVars, controlVars, asked, lost>>

SetPaused(t, b) ==
    /\ Serving
    /\ paused' = [paused EXCEPT ![t] = b]
    /\ UNCHANGED <<label, active, cooling, runVars, controlVars, history>>

\* next_retry_at passes.
CooldownEnds(t) ==
    /\ cooling[t]
    /\ cooling' = [cooling EXCEPT ![t] = FALSE]
    /\ UNCHANGED <<label, active, paused, runVars, controlVars, history>>

-----------------------------------------------------------------------------
(* The process.                                                            *)

\* main stops the dispatcher and waits for its sweep, then Pool.Shutdown.
Shutdown ==
    /\ mode = "up"
    /\ sweepRun = NoRun
    /\ mode' = "draining"
    /\ swept' = [t \in Tasks |-> NoLabel]
    /\ UNCHANGED <<taskVars, runVars, sweepRun, req, history>>

DrainWindowEnds ==
    /\ mode = "draining"
    /\ mode' = "hard"
    /\ UNCHANGED <<taskVars, runVars, swept, sweepRun, req, history>>

\* A crash or a kill at any moment, and the end of a shutdown: the database
\* is all that is left.
ProcessEnds ==
    /\ mode # "down"
    /\ mode' = "down"
    /\ phase' = [r \in Runs |-> IF phase[r] = "none" THEN "none" ELSE "done"]
    /\ from' = [r \in Runs |-> NoLabel]
    /\ to' = [r \in Runs |-> NoLabel]
    /\ swept' = [t \in Tasks |-> NoLabel]
    /\ sweepRun' = NoRun
    /\ req' = [c \in Clients |-> IdleReq]
    /\ reason' = [r \in Runs |-> "none"]
    /\ asked' = {} /\ evicted' = {} /\ lost' = {}
    /\ UNCHANGED <<taskVars, status, taskOf>>

\* Mutant: runs that were created but never started are left alone.
RecoverRuns_RunningOnly ==
    /\ mode = "down"
    /\ mode' = "recovering"
    /\ status' = [r \in Runs |-> IF status[r] = "running"
                                 THEN "interrupted" ELSE status[r]]
    /\ UNCHANGED <<taskVars, taskOf, from, to, phase, reason, swept,
                   sweepRun, req, history>>

\* RecoverInterruptedRuns: two statements, before anything else runs.
RecoverRuns ==
    /\ mode = "down"
    /\ mode' = "recovering"
    /\ status' = [r \in Runs |-> IF status[r] \in LiveStatuses
                                 THEN "interrupted" ELSE status[r]]
    /\ UNCHANGED <<taskVars, taskOf, from, to, phase, reason, swept,
                   sweepRun, req, history>>

RecoverLocks ==
    /\ mode = "recovering"
    /\ mode' = "up"
    /\ active' = [t \in Tasks |-> NoRun]
    /\ UNCHANGED <<label, paused, cooling, runVars, swept, sweepRun, req,
                   history>>

-----------------------------------------------------------------------------
Sweep ==
    \/ SweepList
    \/ \E t \in Tasks : SweepSkip(t) \/ SweepConflict(t)
    \/ \E t \in Tasks, r \in Runs : SweepClaim(t, r) \/ SweepBudget(t, r)

Starter(r) ==
    \/ PhantomEscalate(r) \/ PhantomLock(r)
    \/ PrepEscalate(r) \/ PrepLock(r)
    \/ SubmitCheck(r) \/ Submit(r) \/ SubmitRefused(r) \/ RefusedRelease(r)

Worker(r) ==
    \/ Take(r) \/ DrainQueued(r) \/ StartRun(r)
    \/ SetupDone(r) \/ SetupCancelled(r) \/ PrepFails(r)
    \/ Panic(r) \/ CancelCheck(r)
    \/ RetryLater(r) \/ StopForHuman(r) \/ PersistResult(r)
    \/ FailedUnlock(r) \/ VerifyCancelled(r)
    \/ DeliverLost(r) \/ DeliverEscalate(r) \/ DeliverRelease(r)
    \/ AgentMove(r)
    \/ \E l \in Labels : DeliverRead(r, l)
    \/ CancelPause(r) \/ CancelCooldown(r) \/ Release(r)

Cancel(r) == UserCancel(r) \/ MemguardCancel(r) \/ ShutdownCancel(r)

Human ==
    \/ \E c \in Clients, t \in Tasks, l \in Labels :
          MoveCheck(c, t, l) \/ FeedbackMove(c, t, l)
    \/ \E c \in Clients : MoveRead(c) \/ HumanMove(c) \/ HumanMoveStale(c)
                          \/ ReplyConflict(c)
    \/ \E c \in Clients, t \in Tasks : ReplyRead(c, t)
    \/ \E c \in Clients, r \in Runs : ReplyClaim(c, r)
    \/ \E t \in Tasks : Rerun(t) \/ CooldownEnds(t)
    \/ \E t \in Tasks, b \in BOOLEAN : SetPaused(t, b)

Process == Shutdown \/ DrainWindowEnds \/ ProcessEnds
           \/ RecoverRuns \/ RecoverLocks

Next ==
    \/ Sweep
    \/ \E r \in Runs : Starter(r) \/ Worker(r) \/ Cancel(r)
    \/ Human
    \/ Process

Spec == Init /\ [][Next]_vars

\* Goroutines keep running, a shutdown gets to its end and the server is
\* started again.  Strong fairness of RecoverLocks: crashes do not hit every
\* single boot between the two statements of the recovery.  No person, no
\* sweep and no crash is ever obliged to come.
FairSpec ==
    /\ Spec
    /\ \A r \in Runs : WF_vars(Starter(r)) /\ WF_vars(Worker(r))
    /\ WF_vars(DrainWindowEnds)
    /\ WF_vars(mode = "hard" /\ ProcessEnds)
    /\ WF_vars(RecoverRuns) /\ SF_vars(RecoverLocks)

-----------------------------------------------------------------------------
(* Safety.                                                                 *)

\* Every variable holds a value of its column or field.
TypeOK ==
    /\ label \in [Tasks -> Labels]
    /\ active \in [Tasks -> Runs \cup {NoRun}]
    /\ paused \in [Tasks -> BOOLEAN]
    /\ cooling \in [Tasks -> BOOLEAN]
    /\ status \in [Runs -> Statuses]
    /\ taskOf \in [Runs -> Tasks \cup {NoTask}]
    /\ from \in [Runs -> Labels \cup {NoLabel}]
    /\ to \in [Runs -> Labels \cup {NoLabel}]
    /\ phase \in [Runs -> Phases]
    /\ reason \in [Runs -> Reasons]
    /\ swept \in [Tasks -> Labels \cup {NoLabel}]
    /\ sweepRun \in Runs \cup {NoRun}
    /\ req \in [Clients -> Requests]
    /\ mode \in Modes
    /\ asked \subseteq Runs
    /\ evicted \subseteq Runs
    /\ lost \subseteq Runs

\* From the claim to its very last write a run holds its task's lock, unless
\* somebody else took it: nothing a run does after its claim, on any error,
\* cancel or shutdown path, may start with the lock already given away
\* (releases come last; the pause and the cool-down come before them).
LockOwner ==
    \A r \in Runs : Carried(r) /\ r \notin evicted => active[taskOf[r]] = r

\* Two runs never share a task's worktree: two goroutines that both still
\* have the lock they were dispatched with work for different tasks.
WorktreeExclusive ==
    \A q, r \in Runs :
        /\ Carried(q) /\ Carried(r)
        /\ q \notin evicted /\ r \notin evicted
        /\ taskOf[q] = taskOf[r]
        => q = r

\* No task is locked for ever: while the server is up, a lock belongs to a
\* run that a goroutine or the queue still carries, to a run that waits for
\* a human, or to one whose end was lost to a late cancel.
NoOrphanLock ==
    \A t \in Tasks :
        Serving /\ active[t] # NoRun =>
            LET r == active[t] IN
            Carried(r) \/ status[r] = "waiting_human" \/ r \in lost

\* No run is shown pending or running for ever: some goroutine still carries
\* it, or its end was lost to a late cancel.
NoZombieRun ==
    \A r \in Runs :
        Serving /\ status[r] \in LiveStatuses =>
            Carried(r) \/ phase[r] = "phantom" \/ r \in lost

\* The ways a lock may change hands: its own run lets go; a person reruns or
\* moves the task; a reply takes it over from a run that waits for a human;
\* boot recovery clears it; or a run that had lost it finishes an escalation
\* or an outcome it had begun.
HandedOver(t) ==
    LET r == active[t] IN
    \/ phase'[r] # phase[r]
    \/ Rerun(t)
    \/ \E c \in Clients : HumanMove(c)
    \/ status[r] = "waiting_human"
       /\ \E c \in Clients : req[c].op = "reply" /\ req[c].run = r
    \/ mode = "recovering"
    \/ \E q \in Runs :
          /\ taskOf[q] = t
          /\ phase[q] \in {"escalating", "parking", "moving"}
          /\ phase'[q] = "done"

\* Whoever is racing whom, a lock changes hands in no other way: no release
\* takes another run's lock and no claim displaces a live run.
LockHandover ==
    [][\A t \in Tasks : active[t] # NoRun /\ active'[t] # active[t]
                         => HandedOver(t)]_vars

-----------------------------------------------------------------------------
(* The abstract specification.                                             *)

\* r works in the worktree of t: it has claimed it, nobody has put it out, and
\* it has not stopped to wait for a human.
Works(r, t) ==
    /\ Carried(r) /\ phase[r] # "escalating"
    /\ r \notin evicted /\ taskOf[r] = t

user == [t \in Tasks |-> IF \E r \in Runs : Works(r, t)
                         THEN CHOOSE r \in Runs : Works(r, t) ELSE NoRun]
fresh == {r \in Runs : phase[r] = "none"}

Lease == INSTANCE WorktreeLease WITH user <- user, fresh <- fresh

\* The lock implements the lease: whoever claims, replies, reruns, moves,
\* cancels, fails or crashes, a run gets a worktree only when no other run
\* works in it (persistRunRow's two conditional UPDATEs, releaseLock,
\* RecoverInterruptedRuns).
ImplementsLease == Lease!Spec

-----------------------------------------------------------------------------
(* Liveness.                                                               *)

\* Whatever fails, a pending or running run gets a final status, or its end
\* was lost to a late cancel.
RunSettles ==
    \A r \in Runs :
        status[r] \in LiveStatuses ~>
            status[r] \notin LiveStatuses \/ r \in lost

\* Whatever fails, a task that was locked by a run is unlocked again, unless
\* the run waits for a human or its end was lost to a late cancel.
LockSettles ==
    \A t \in Tasks, r \in Runs :
        active[t] = r ~> \/ active[t] # r
                        \/ status[r] = "waiting_human"
                        \/ r \in lost

=============================================================================
