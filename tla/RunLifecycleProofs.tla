-------------------------- MODULE RunLifecycleProofs --------------------------
(***************************************************************************)
(* What RunLifecycle guarantees for every number of tasks, runs and        *)
(* clients, and for every workflow.  The inductive invariant adds to the   *)
(* properties what the code knows at each program point.                   *)
(***************************************************************************)
EXTENDS RunLifecycle, TLAPS

\* A run that has been created belongs to a task; a run about to move its
\* task has a column to move it to.
RunsWellFormed ==
    \A r \in Runs :
        /\ phase[r] # "none" => taskOf[r] \in Tasks
        /\ phase[r] = "moving" => to[r] \in Labels

\* A request in progress names a task; a move names its target; the run a
\* reply answers still waits for a human.
RequestsWellFormed ==
    \A c \in Clients : req[c].op # "idle" =>
        /\ req[c].task \in Tasks
        /\ req[c].op # "reply" => req[c].to \in Labels
        /\ req[c].op = "reply" => /\ req[c].run \in Runs
                                  /\ status[req[c].run] = "waiting_human"

\* A lock names a run that was created for its task.
LocksWellFormed ==
    \A t \in Tasks : active[t] # NoRun =>
        phase[active[t]] # "none" /\ taskOf[active[t]] = t

\* A process that is not up carries nothing, and recovery clears the locks
\* only when no run is live.
QuietWhenDown ==
    /\ ~Serving => \A r \in Runs : ~Carried(r)
    /\ mode = "recovering" => \A r \in Runs : status[r] \notin LiveStatuses

\* waiting_human is only ever a run's last status.
WaitingIsFinal ==
    \A r \in Runs :
        /\ status[r] = "waiting_human" =>
              phase[r] \in {"escalating", "parking", "done"}
        /\ phase[r] \in {"escalating", "parking"} => status[r] = "waiting_human"

\* Once its end is decided a run is not live, unless a late cancel lost the
\* write, and then its context is dead.
EndIsRecorded ==
    \A r \in Runs :
        /\ phase[r] \in {"refused", "pausing", "chilling", "releasing"}
              => status[r] \notin LiveStatuses
        /\ phase[r] \in {"verify", "moving", "unlock"} /\ CtxAlive(r)
              => status[r] \notin LiveStatuses
        /\ phase[r] = "none" => status[r] = "none"

IInv ==
    /\ TypeOK
    /\ RunsWellFormed
    /\ RequestsWellFormed
    /\ LocksWellFormed
    /\ QuietWhenDown
    /\ WaitingIsFinal
    /\ EndIsRecorded
    /\ LockOwner
    /\ NoOrphanLock
    /\ NoZombieRun

-----------------------------------------------------------------------------
(* Every step keeps IInv.  The lemmas follow the actors of Next; a leaf    *)
(* names the action and the operators that only this action uses.         *)

USE ConstantsAssumption DEF ConstantsAssumption

LEMMA InitIInv == Init => IInv
  BY DEF Init, IInv, TypeOK, RunsWellFormed, RequestsWellFormed,
         LocksWellFormed, QuietWhenDown, WaitingIsFinal, EndIsRecorded,
         LockOwner, NoOrphanLock, NoZombieRun, IdleReq, Requests, Carried,
         CarriedPhases, RegisteredPhases, Phases, Statuses, LiveStatuses,
         Reasons, Modes, Serving

\* Setting one task's cool-down keeps the flags Boolean.
LEMMA CoolingTyped ==
    ASSUME NEW f \in [Tasks -> BOOLEAN], NEW t, NEW b \in BOOLEAN
    PROVE  [f EXCEPT ![t] = b] \in [Tasks -> BOOLEAN]
  OBVIOUS

\* The dispatcher's sweep.
LEMMA SweepStep ==
    ASSUME IInv, Sweep
    PROVE  IInv'
<1> USE DEF IInv, TypeOK, RunsWellFormed, RequestsWellFormed,
       LocksWellFormed, QuietWhenDown, WaitingIsFinal, EndIsRecorded,
       LockOwner, NoOrphanLock, NoZombieRun, Statuses, LiveStatuses, Phases,
       CarriedPhases, RegisteredPhases, Reasons, Modes, Requests, Carried,
       CtxAlive, Serving, taskVars, runVars, controlVars, history
<1>1. CASE SweepList
  BY <1>1 DEF SweepList, SweepIdle, Pickup
<1>2. ASSUME NEW t \in Tasks, SweepSkip(t) PROVE IInv'
  BY <1>2 DEF SweepSkip, SweepIdle, Forget
<1>3. ASSUME NEW t \in Tasks, SweepConflict(t) PROVE IInv'
  BY <1>3 DEF SweepConflict, SweepIdle, Forget
<1>4. ASSUME NEW t \in Tasks, NEW r \in Runs, SweepClaim(t, r) PROVE IInv'
  BY <1>4 DEF SweepClaim, SweepIdle, IfFree, Claim, Forget,
            SetStatus, Goto
<1>5. ASSUME NEW t \in Tasks, NEW r \in Runs, SweepBudget(t, r) PROVE IInv'
  BY <1>5 DEF SweepBudget, SweepIdle, Forget, SetStatus, Goto
<1> HIDE DEF IInv
<1> QED BY <1>1, <1>2, <1>3, <1>4, <1>5 DEF Sweep

\* startRun of the dispatcher.
LEMMA StarterStep ==
    ASSUME IInv, NEW r \in Runs, Starter(r)
    PROVE  IInv'
<1> USE DEF IInv, TypeOK, RunsWellFormed, RequestsWellFormed,
       LocksWellFormed, QuietWhenDown, WaitingIsFinal, EndIsRecorded,
       LockOwner, NoOrphanLock, NoZombieRun, Statuses, LiveStatuses, Phases,
       CarriedPhases, RegisteredPhases, Reasons, Modes, Requests, Carried,
       CtxAlive, Serving, taskVars, runVars, controlVars, history
<1>1. CASE PhantomEscalate(r)
  BY <1>1 DEF PhantomEscalate, Record, SetStatus, Goto
<1>2. CASE PhantomLock(r)
  BY <1>2 DEF PhantomLock, Evicting
<1>3. CASE PrepEscalate(r)
  BY <1>3 DEF PrepEscalate, Record, SetStatus, Goto
<1>4. CASE PrepLock(r)
  BY <1>4 DEF PrepLock, LeaveBut, Evicting, StartReturns
<1>5. CASE SubmitCheck(r)
  BY <1>5 DEF SubmitCheck, GoOn, Goto
<1>6. CASE Submit(r)
  BY <1>6 DEF Submit, Goto, StartReturns
<1>7. CASE SubmitRefused(r)
  BY <1>7 DEF SubmitRefused, Record, SetStatus, Goto
<1>8. CASE RefusedRelease(r)
  BY <1>8 DEF RefusedRelease, ReleaseLock, Leave, LeaveBut, StartReturns
<1> HIDE DEF IInv
<1> QED BY <1>1, <1>2, <1>3, <1>4, <1>5, <1>6, <1>7, <1>8 DEF Starter

\* The pool's worker.
LEMMA WorkerStep ==
    ASSUME IInv, NEW r \in Runs, Worker(r)
    PROVE  IInv'
<1> USE DEF IInv, TypeOK, RunsWellFormed, RequestsWellFormed,
       LocksWellFormed, QuietWhenDown, WaitingIsFinal, EndIsRecorded,
       LockOwner, NoOrphanLock, NoZombieRun, Statuses, LiveStatuses, Phases,
       CarriedPhases, RegisteredPhases, Reasons, Modes, Requests, Carried,
       CtxAlive, Serving, taskVars, runVars, controlVars, history
<1>1. CASE Take(r)
  BY <1>1 DEF Take, GoOn, Goto
<1>2. CASE DrainQueued(r)
  BY <1>2 DEF DrainQueued, Record, SetStatus, Goto
<1>3. CASE StartRun(r)
  BY <1>3 DEF StartRun, Record, SetStatus, Goto, GoOn
<1>4. CASE SetupDone(r)
  BY <1>4 DEF SetupDone, GoOn, Goto
<1>5. CASE SetupCancelled(r)
  BY <1>5, SMTT(30) DEF SetupCancelled, RecordCancel, SetStatus, Goto
<1>6. CASE PrepFails(r)
  BY <1>6 DEF PrepFails, EscalateAndLeave, SetStatus, Leave, LeaveBut
<1>7. CASE Panic(r)
  BY <1>7 DEF Panic, SetStatus, ReleaseLock, Leave, LeaveBut
<1>8. CASE CancelCheck(r)
  BY <1>8 DEF CancelCheck, RecordCancel, SetStatus, Goto
<1>9. CASE RetryLater(r)
  <2> USE <1>9 DEF RetryLater, SetStatus, Goto
  <2>0. cooling' \in [Tasks -> BOOLEAN]
    BY CoolingTyped
  <2>1. TypeOK' BY <2>0
  <2>2. RunsWellFormed' /\ RequestsWellFormed' /\ LocksWellFormed'
    OBVIOUS
  <2>3. QuietWhenDown' /\ WaitingIsFinal' /\ EndIsRecorded' OBVIOUS
  <2>4. LockOwner' /\ NoOrphanLock' /\ NoZombieRun' OBVIOUS
  <2> QED BY <2>1, <2>2, <2>3, <2>4
<1>10. CASE StopForHuman(r)
  <2> USE <1>10 DEF StopForHuman, SetStatus, Leave, LeaveBut
  <2>0. cooling' \in [Tasks -> BOOLEAN]
    BY CoolingTyped
  <2>1. TypeOK' BY <2>0
  <2>2. RunsWellFormed' /\ RequestsWellFormed' /\ LocksWellFormed'
    OBVIOUS
  <2>3. QuietWhenDown' /\ WaitingIsFinal' /\ EndIsRecorded' OBVIOUS
  <2>4. LockOwner' /\ NoOrphanLock' /\ NoZombieRun' OBVIOUS
  <2> QED BY <2>1, <2>2, <2>3, <2>4
<1>11. CASE PersistResult(r)
  <2> USE <1>11 DEF PersistResult, WriteEnd, ResetCooling, LoseIfCancelled,
         Goto, Leave, LeaveBut
  <2>0. cooling' \in [Tasks -> BOOLEAN]
    BY CoolingTyped
  <2>1. TypeOK'
    <3>1. status' \in [Runs -> Statuses] OBVIOUS
    <3>2. phase' \in [Runs -> Phases] OBVIOUS
    <3>3. /\ from' \in [Runs -> Labels \cup {NoLabel}]
          /\ to' \in [Runs -> Labels \cup {NoLabel}]
          /\ reason' \in [Runs -> Reasons]
      OBVIOUS
    <3>4. asked' \subseteq Runs /\ evicted' \subseteq Runs /\ lost' \subseteq Runs
      OBVIOUS
    <3> QED BY <2>0, <3>1, <3>2, <3>3, <3>4
  <2>2. RunsWellFormed' /\ RequestsWellFormed' /\ LocksWellFormed'
    OBVIOUS
  <2>3. QuietWhenDown' /\ WaitingIsFinal' /\ EndIsRecorded' OBVIOUS
  <2>4. LockOwner' /\ NoOrphanLock' /\ NoZombieRun' OBVIOUS
  <2> QED BY <2>1, <2>2, <2>3, <2>4
<1>12. CASE FailedUnlock(r)
  BY <1>12 DEF FailedUnlock, ReleaseLock, LoseIfCancelled, Leave, LeaveBut
<1>13. CASE VerifyCancelled(r)
  <2> USE <1>13 DEF VerifyCancelled, RecordCancel, SetStatus, Goto
  <2>1. TypeOK' OBVIOUS
  <2>2. RunsWellFormed' /\ RequestsWellFormed' /\ LocksWellFormed'
    OBVIOUS
  <2>3. QuietWhenDown' /\ WaitingIsFinal' /\ EndIsRecorded' OBVIOUS
  <2>4. LockOwner' /\ NoOrphanLock' /\ NoZombieRun' OBVIOUS
  <2> QED BY <2>1, <2>2, <2>3, <2>4
<1>14. CASE DeliverLost(r)
  BY <1>14 DEF DeliverLost, LoseIfCancelled, Leave, LeaveBut
<1>15. CASE DeliverEscalate(r)
  BY <1>15 DEF DeliverEscalate, EscalateAndLeave, SetStatus, Leave, LeaveBut
<1>16. CASE DeliverRelease(r)
  BY <1>16 DEF DeliverRelease, ReleaseLock, Leave, LeaveBut
<1>17. CASE AgentMove(r)
  BY <1>17 DEF AgentMove, MoveLabel, LeaveBut, Evicting
<1>18. CASE CancelPause(r)
  BY <1>18 DEF CancelPause, Goto
<1>19. CASE CancelCooldown(r)
  BY <1>19 DEF CancelCooldown, Goto
<1>20. CASE Release(r)
  BY <1>20 DEF Release, ReleaseLock, Leave, LeaveBut
<1>21. ASSUME NEW l \in Labels, DeliverRead(r, l) PROVE IInv'
  BY <1>21 DEF DeliverRead, Goto
<1> HIDE DEF IInv
<1> QED
  BY <1>1, <1>2, <1>3, <1>4, <1>5, <1>6, <1>7, <1>8, <1>9, <1>10, <1>11,
     <1>12, <1>13, <1>14, <1>15, <1>16, <1>17, <1>18, <1>19, <1>20, <1>21
     DEF Worker

\* A cancel changes nothing but the run's context and reason.
LEMMA CancelStep ==
    ASSUME IInv, NEW r \in Runs, Cancel(r)
    PROVE  IInv'
<1> USE DEF IInv, TypeOK, RunsWellFormed, RequestsWellFormed,
       LocksWellFormed, QuietWhenDown, WaitingIsFinal, EndIsRecorded,
       LockOwner, NoOrphanLock, NoZombieRun, Statuses, LiveStatuses, Phases,
       CarriedPhases, RegisteredPhases, Reasons, Modes, Requests, Carried,
       CtxAlive, Serving, taskVars, runVars, controlVars, history
<1>1. CASE UserCancel(r)
  BY <1>1 DEF UserCancel, Registered, Signal
<1>2. CASE MemguardCancel(r)
  BY <1>2 DEF MemguardCancel, Registered, Signal
<1>3. CASE ShutdownCancel(r)
  BY <1>3 DEF ShutdownCancel, Registered, Signal
<1> HIDE DEF IInv
<1> QED BY <1>1, <1>2, <1>3 DEF Cancel

\* People, through the API.
LEMMA HumanStep ==
    ASSUME IInv, Human
    PROVE  IInv'
<1> USE DEF IInv, TypeOK, RunsWellFormed, RequestsWellFormed,
       LocksWellFormed, QuietWhenDown, WaitingIsFinal, EndIsRecorded,
       LockOwner, NoOrphanLock, NoZombieRun, Statuses, LiveStatuses, Phases,
       CarriedPhases, RegisteredPhases, Reasons, Modes, Requests, Carried,
       CtxAlive, Serving, taskVars, runVars, controlVars, history
<1>1. ASSUME NEW c \in Clients, NEW t \in Tasks, NEW l \in Labels,
             MoveCheck(c, t, l)
      PROVE  IInv'
  BY <1>1 DEF MoveCheck, SetReq, IdleReq
<1>2. ASSUME NEW c \in Clients, MoveRead(c) PROVE IInv'
  BY <1>2 DEF MoveRead, SetReq, IdleReq
<1>3. ASSUME NEW c \in Clients, HumanMove(c) PROVE IInv'
  BY <1>3 DEF HumanMove, MoveLabel, Evicting, IdleReq
<1>4. ASSUME NEW c \in Clients, HumanMoveStale(c) PROVE IInv'
  BY <1>4 DEF HumanMoveStale, SetReq, IdleReq
<1>5. ASSUME NEW c \in Clients, ReplyConflict(c) PROVE IInv'
  BY <1>5 DEF ReplyConflict, SetReq, IdleReq
<1>6. ASSUME NEW c \in Clients, NEW t \in Tasks, ReplyRead(c, t) PROVE IInv'
  BY <1>6 DEF ReplyRead, SetReq
<1>7. ASSUME NEW c \in Clients, NEW r \in Runs, ReplyClaim(c, r) PROVE IInv'
  BY <1>7 DEF ReplyClaim, IfHeldBy, Claim, SetStatus, Goto, Evicting,
            IdleReq
<1>8. ASSUME NEW t \in Tasks, Rerun(t) PROVE IInv'
  BY <1>8 DEF Rerun, Evicting
<1>9. ASSUME NEW t \in Tasks, CooldownEnds(t) PROVE IInv'
  BY <1>9 DEF CooldownEnds
<1>10. ASSUME NEW t \in Tasks, NEW b \in BOOLEAN, SetPaused(t, b) PROVE IInv'
  BY <1>10 DEF SetPaused
<1>11. ASSUME NEW c \in Clients, NEW t \in Tasks, NEW l \in Labels,
              FeedbackMove(c, t, l)
       PROVE  IInv'
  BY <1>11 DEF FeedbackMove, SetReq, IdleReq
<1> HIDE DEF IInv
<1> QED
  BY <1>1, <1>2, <1>3, <1>4, <1>5, <1>6, <1>7, <1>8, <1>9, <1>10, <1>11
     DEF Human

\* Shutdown, crash and boot recovery.
LEMMA ProcessStep ==
    ASSUME IInv, Process
    PROVE  IInv'
<1> USE DEF IInv, TypeOK, RunsWellFormed, RequestsWellFormed,
       LocksWellFormed, QuietWhenDown, WaitingIsFinal, EndIsRecorded,
       LockOwner, NoOrphanLock, NoZombieRun, Statuses, LiveStatuses, Phases,
       CarriedPhases, RegisteredPhases, Reasons, Modes, Requests, Carried,
       CtxAlive, Serving, taskVars, runVars, controlVars, history
<1>1. CASE Shutdown
  BY <1>1 DEF Shutdown
<1>2. CASE DrainWindowEnds
  BY <1>2 DEF DrainWindowEnds
<1>3. CASE ProcessEnds
  BY <1>3 DEF ProcessEnds, IdleReq
<1>4. CASE RecoverRuns
  BY <1>4 DEF RecoverRuns
<1>5. CASE RecoverLocks
  BY <1>5 DEF RecoverLocks
<1> HIDE DEF IInv
<1> QED BY <1>1, <1>2, <1>3, <1>4, <1>5 DEF Process

\* IInv is an inductive invariant.
THEOREM Inductive == Spec => []IInv
<1>1. ASSUME IInv, [Next]_vars PROVE IInv'
  <2>1. CASE Next
    BY <1>1, <2>1, SweepStep, StarterStep, WorkerStep, CancelStep, HumanStep,
       ProcessStep DEF Next
  <2>2. CASE UNCHANGED vars
    BY <1>1, <2>2 DEF vars, IInv, TypeOK, RunsWellFormed,
       RequestsWellFormed, LocksWellFormed, QuietWhenDown, WaitingIsFinal,
       EndIsRecorded, LockOwner, NoOrphanLock, NoZombieRun, Carried,
       CtxAlive, Serving
  <2> QED BY <1>1, <2>1, <2>2
<1> QED BY <1>1, InitIInv, PTL DEF Spec

-----------------------------------------------------------------------------
(* The results.                                                            *)

\* Every variable always holds a value of its type.
THEOREM TypeCorrect == Spec => []TypeOK
  BY Inductive, PTL DEF IInv

\* From its claim to its last write a run holds its task's lock, unless a
\* person or a late escalation or outcome took it.
THEOREM LockOwnership == Spec => []LockOwner
  BY Inductive, PTL DEF IInv

\* No two runs that both still have their lock share a task's worktree.
THEOREM Exclusion == Spec => []WorktreeExclusive
<1>1. LockOwner => WorktreeExclusive
  BY DEF LockOwner, WorktreeExclusive
<1> QED BY <1>1, LockOwnership, PTL

\* While the server is up a lock is carried, waits for a human, or was lost
\* to a late cancel.
THEOREM NoOrphan == Spec => []NoOrphanLock
  BY Inductive, PTL DEF IInv

\* While the server is up a live run is carried, or its end was lost to a
\* late cancel.
THEOREM NoZombie == Spec => []NoZombieRun
  BY Inductive, PTL DEF IInv

\* Only the starters, the workers, people and the recovery touch a lock that
\* is held, each in one of the ways HandedOver lists.
LEMMA HandoverStep ==
    ASSUME IInv, Next, NEW t \in Tasks, active[t] # NoRun,
           active'[t] # active[t]
    PROVE  HandedOver(t)
<1> USE DEF HandedOver, taskVars
<1>1. CASE Sweep
  BY <1>1 DEF Sweep, SweepList, SweepSkip, SweepConflict, SweepClaim,
     SweepBudget, IfFree, Claim, IInv, TypeOK
<1>2. ASSUME NEW r \in Runs, Starter(r) PROVE HandedOver(t)
  <2> USE DEF IInv, TypeOK, RunsWellFormed
  <2>1. CASE PhantomLock(r) \/ PrepLock(r)
    BY <1>2, <2>1 DEF PhantomLock, PrepLock, LeaveBut
  <2>2. CASE RefusedRelease(r)
    BY <1>2, <2>2 DEF RefusedRelease, ReleaseLock, Leave, LeaveBut
  <2> QED
    BY <1>2, <2>1, <2>2 DEF Starter, PhantomEscalate, PrepEscalate,
       SubmitCheck, Submit, SubmitRefused, GoOn, Record
<1>3. ASSUME NEW r \in Runs, Worker(r) PROVE HandedOver(t)
  <2> USE DEF IInv, TypeOK, RunsWellFormed, LocksWellFormed
  <2>1. CASE Panic(r) \/ FailedUnlock(r) \/ DeliverRelease(r) \/ Release(r)
    BY <1>3, <2>1 DEF Panic, FailedUnlock, DeliverRelease, Release,
       ReleaseLock, Leave, LeaveBut
  <2>2. CASE AgentMove(r)
    BY <1>3, <2>2 DEF AgentMove, MoveLabel, LeaveBut
  <2> QED
    BY <1>3, <2>1, <2>2 DEF Worker, Take, DrainQueued, StartRun, SetupDone,
       SetupCancelled, PrepFails, CancelCheck, RetryLater, StopForHuman,
       PersistResult, VerifyCancelled, DeliverLost, DeliverEscalate,
       DeliverRead, CancelPause, CancelCooldown, EscalateAndLeave, GoOn,
       Record
<1>4. ASSUME NEW r \in Runs, Cancel(r) PROVE HandedOver(t)
  BY <1>4 DEF Cancel, UserCancel, MemguardCancel, ShutdownCancel
<1>5. CASE Human
  <2>1. ASSUME NEW c \in Clients, NEW r \in Runs, ReplyClaim(c, r)
        PROVE HandedOver(t)
    BY <2>1 DEF ReplyClaim, IfHeldBy, Claim, IInv, TypeOK,
       RequestsWellFormed
  <2>2. ASSUME NEW u \in Tasks, Rerun(u) PROVE HandedOver(t)
    BY <2>2 DEF Rerun, IInv, TypeOK
  <2> QED
    BY <1>5, <2>1, <2>2 DEF Human, MoveCheck, FeedbackMove, MoveRead,
       HumanMoveStale, ReplyConflict, ReplyRead, CooldownEnds, SetPaused, SetReq
<1>6. CASE Process
  BY <1>6 DEF Process, Shutdown, DrainWindowEnds, ProcessEnds, RecoverRuns,
     RecoverLocks
<1> QED BY <1>1, <1>2, <1>3, <1>4, <1>5, <1>6 DEF Next

\* A lock changes hands only in the ways HandedOver lists: in particular no
\* claim, release or transition of a run that has the lock takes another's.
THEOREM Handover == Spec => LockHandover
<1>1. ASSUME IInv, [Next]_vars
      PROVE  [\A t \in Tasks : active[t] # NoRun /\ active'[t] # active[t]
                                => HandedOver(t)]_vars
  BY <1>1, HandoverStep
<1> QED BY <1>1, Inductive, PTL DEF Spec, LockHandover

-----------------------------------------------------------------------------
(* The lock implements the lease of WorktreeLease.                         *)

\* The abstract user of a worktree is the run that works in it.
UserKnown ==
    /\ user \in [Tasks -> Runs \cup {NoRun}]
    /\ \A t \in Tasks, r \in Runs : user[t] = r <=> Works(r, t)

LEMMA UserIsKnown == WorktreeExclusive => UserKnown
<1> SUFFICES ASSUME WorktreeExclusive PROVE UserKnown
  OBVIOUS
<1>1. ASSUME NEW t \in Tasks, NEW q \in Runs, NEW r \in Runs,
             Works(q, t), Works(r, t)
      PROVE  q = r
  BY <1>1 DEF WorktreeExclusive, Works
<1>2. ASSUME NEW t \in Tasks
      PROVE  /\ user[t] \in Runs \cup {NoRun}
             /\ \A r \in Runs : user[t] = r <=> Works(r, t)
  <2>1. CASE \E r \in Runs : Works(r, t)
    <3> DEFINE c == CHOOSE r \in Runs : Works(r, t)
    <3>1. c \in Runs /\ Works(c, t)
      BY <2>1
    <3>2. user[t] = c
      BY <2>1 DEF user
    <3> QED BY <3>1, <3>2, <1>1
  <2>2. CASE ~ \E r \in Runs : Works(r, t)
    BY <2>2 DEF user
  <2> QED BY <2>1, <2>2
<1>3. user \in [Tasks -> Runs \cup {NoRun}]
  BY <1>2 DEF user
<1> QED BY <1>2, <1>3 DEF UserKnown

\* A step that creates no run and lets no run into a worktree.
LetsNobodyIn ==
    \A q \in Runs :
        /\ phase'[q] = "none" <=> phase[q] = "none"
        /\ \A t \in Tasks : Works(q, t)' => Works(q, t)

LEMMA LetsNobodyInLetsGo ==
    ASSUME UserKnown, UserKnown', LetsNobodyIn
    PROVE  Lease!Next
<1> DEFINE S == {t \in Tasks : user'[t] = NoRun}
<1>1. fresh' = fresh
  BY DEF LetsNobodyIn, fresh
<1>2. user' = [t \in Tasks |-> IF t \in S THEN NoRun ELSE user[t]]
  BY DEF LetsNobodyIn, UserKnown
<1>3. Lease!LetGo(S)
  BY <1>1, <1>2 DEF Lease!LetGo
<1> QED BY <1>3 DEF Lease!Next

\* A step that creates run r for task t, which nobody works in.
LetsIn(t, r) ==
    /\ phase[r] = "none" /\ phase'[r] # "none"
    /\ \A q \in Runs \ {r} : phase'[q] = "none" <=> phase[q] = "none"
    /\ \A q \in Runs : ~Works(q, t)
    /\ \A u \in Tasks, q \in Runs : ~(q = r /\ u = t) => (Works(q, u)' <=> Works(q, u))

LEMMA LetsInTakes ==
    ASSUME UserKnown, UserKnown', NEW t \in Tasks, NEW r \in Runs, LetsIn(t, r)
    PROVE  Lease!Next
<1>1. r \in fresh /\ fresh' = fresh \ {r}
  BY DEF LetsIn, fresh
<1>2. user[t] = NoRun
  BY DEF LetsIn, UserKnown
<1>3. CASE Works(r, t)'
  <2>1. user' = [user EXCEPT ![t] = r]
    BY <1>3 DEF LetsIn, UserKnown
  <2> QED BY <1>1, <1>2, <2>1 DEF Lease!Take, Lease!Next
<1>4. CASE ~Works(r, t)'
  <2>1. user' = user
    BY <1>4 DEF LetsIn, UserKnown
  <2> QED BY <1>1, <2>1 DEF Lease!Discard, Lease!Next
<1> QED BY <1>3, <1>4

\* A step that creates run r only to ask a human something.
CreatesOnly(r) ==
    /\ phase[r] = "none" /\ phase'[r] # "none"
    /\ \A q \in Runs \ {r} : phase'[q] = "none" <=> phase[q] = "none"
    /\ \A u \in Tasks, q \in Runs : Works(q, u)' <=> Works(q, u)

LEMMA CreatesOnlyDiscards ==
    ASSUME UserKnown, UserKnown', NEW r \in Runs, CreatesOnly(r)
    PROVE  Lease!Next
<1>1. r \in fresh /\ fresh' = fresh \ {r}
  BY DEF CreatesOnly, fresh
<1>2. user' = user
  BY DEF CreatesOnly, UserKnown
<1> QED BY <1>1, <1>2 DEF Lease!Discard, Lease!Next

\* A claim lets the new run in: its condition leaves no run at work on the
\* task, because the lock is free or names a run that waits for a human.
LEMMA ClaimLetsIn ==
    ASSUME IInv, NEW t \in Tasks, NEW r \in Runs, NEW l,
           Claim(t, r, l, "claimed"),
           \A q \in Runs : Works(q, t) => active[t] # q,
           evicted' = evicted \/ evicted' = Evicting(t)
    PROVE  LetsIn(t, r)
<1> USE DEF IInv, TypeOK, Claim, Goto, Works, Carried, CarriedPhases, RegisteredPhases
<1>1. \A q \in Runs : ~Works(q, t)
  BY DEF LockOwner
<1>2. ASSUME NEW q \in Runs, q # r, NEW u \in Tasks
      PROVE  Works(q, u)' <=> Works(q, u)
  <2>1. q \in evicted' => q \in evicted \/ (Carried(q) /\ active[t] = q)
    BY DEF Evicting
  <2>2. q \in evicted => q \in evicted'
    BY DEF Evicting
  <2>3. Carried(q) /\ active[t] = q => ~Works(q, u)
    BY <1>1 DEF LocksWellFormed
  <2>4. phase'[q] = phase[q] /\ taskOf'[q] = taskOf[q]
    BY <1>2
  <2> QED BY <2>1, <2>2, <2>3, <2>4
<1>3. ASSUME NEW u \in Tasks, u # t
      PROVE  ~Works(r, u)' /\ ~Works(r, u)
  BY <1>3
<1>4. phase[r] = "none" /\ phase'[r] # "none"
  OBVIOUS
<1>5. \A q \in Runs \ {r} : phase'[q] = phase[q]
  OBVIOUS
<1> HIDE DEF IInv, Works, Claim
<1> QED BY <1>1, <1>2, <1>3, <1>4, <1>5 DEF LetsIn

LEMMA SweepLets ==
    ASSUME IInv, Sweep
    PROVE  \/ LetsNobodyIn
           \/ \E r \in Runs : CreatesOnly(r)
           \/ \E t \in Tasks, r \in Runs : LetsIn(t, r)
<1>1. ASSUME NEW t \in Tasks, NEW r \in Runs, SweepClaim(t, r)
      PROVE  LetsIn(t, r)
  <2>1. \A q \in Runs : Works(q, t) => active[t] # q
    BY <1>1 DEF SweepClaim, IfFree
  <2> QED BY <1>1, <2>1, ClaimLetsIn DEF SweepClaim, history
<1>2. ASSUME NEW t \in Tasks, NEW r \in Runs, SweepBudget(t, r)
      PROVE  CreatesOnly(r)
  BY <1>2 DEF SweepBudget, Goto, CreatesOnly, Works, Carried, CarriedPhases,
     RegisteredPhases, history, IInv, TypeOK
<1>3. ASSUME NEW t \in Tasks, SweepSkip(t) \/ SweepConflict(t)
      PROVE  LetsNobodyIn
  BY <1>3 DEF SweepSkip, SweepConflict, LetsNobodyIn, Works, Carried, runVars,
     history
<1>4. CASE SweepList
  BY <1>4 DEF SweepList, LetsNobodyIn, Works, Carried, runVars, history
<1> QED BY <1>1, <1>2, <1>3, <1>4 DEF Sweep

\* A goroutine only ever goes on or leaves, and puts out whoever it takes the
\* lock from.
LEMMA GoroutineLets ==
    ASSUME IInv, NEW r \in Runs, Starter(r) \/ Worker(r)
    PROVE  LetsNobodyIn
<1> USE DEF IInv, TypeOK, LetsNobodyIn, Works, Carried, CarriedPhases,
       RegisteredPhases, history
<1>1. CASE Starter(r)
  <2>1. CASE PhantomEscalate(r) \/ PrepEscalate(r) \/ SubmitCheck(r)
             \/ Submit(r) \/ SubmitRefused(r)
    BY <2>1 DEF PhantomEscalate, PrepEscalate, SubmitCheck, Submit,
       SubmitRefused, Record, GoOn, Goto
  <2>2. CASE PhantomLock(r) \/ PrepLock(r) \/ RefusedRelease(r)
    BY <2>2 DEF PhantomLock, PrepLock, RefusedRelease, Leave, LeaveBut, Evicting
  <2> QED BY <1>1, <2>1, <2>2 DEF Starter
<1>2. CASE Worker(r)
  <2>1. CASE Take(r) \/ DrainQueued(r) \/ StartRun(r) \/ SetupDone(r)
    BY <2>1 DEF Take, DrainQueued, StartRun, SetupDone, Record, GoOn, Goto
  <2>2. CASE SetupCancelled(r) \/ CancelCheck(r) \/ VerifyCancelled(r)
    BY <2>2 DEF SetupCancelled, CancelCheck, VerifyCancelled, RecordCancel,
       Goto
  <2>3. CASE RetryLater(r) \/ CancelPause(r) \/ CancelCooldown(r)
             \/ \E l \in Labels : DeliverRead(r, l)
    BY <2>3, ZenonT(60) DEF RetryLater, CancelPause, CancelCooldown, DeliverRead, Goto
  <2>4. CASE PrepFails(r) \/ Panic(r) \/ StopForHuman(r) \/ FailedUnlock(r)
             \/ DeliverLost(r) \/ DeliverEscalate(r) \/ DeliverRelease(r)
             \/ AgentMove(r) \/ Release(r)
    BY <2>4 DEF PrepFails, Panic, StopForHuman, FailedUnlock, DeliverLost,
       DeliverEscalate, DeliverRelease, AgentMove, Release, EscalateAndLeave,
       Leave, LeaveBut, Evicting
  <2>5. CASE PersistResult(r)
    BY <2>5 DEF PersistResult, Goto, Leave, LeaveBut
  <2> QED BY <1>2, <2>1, <2>2, <2>3, <2>4, <2>5 DEF Worker
<1> QED BY <1>1, <1>2

LEMMA CancelLets ==
    ASSUME NEW r \in Runs, Cancel(r)
    PROVE  LetsNobodyIn
  BY DEF Cancel, UserCancel, MemguardCancel, ShutdownCancel, LetsNobodyIn,
     Works, Carried, history

LEMMA HumanLets ==
    ASSUME IInv, Human
    PROVE  \/ LetsNobodyIn
           \/ \E t \in Tasks, r \in Runs : LetsIn(t, r)
<1>1. ASSUME NEW c \in Clients, NEW r \in Runs, ReplyClaim(c, r)
      PROVE  \E t \in Tasks : LetsIn(t, r)
  <2> DEFINE t == req[c].task
  <2>1. t \in Tasks /\ status[req[c].run] = "waiting_human"
        /\ req[c].run \in Runs /\ active[t] = req[c].run
    BY <1>1 DEF ReplyClaim, IfHeldBy, IInv, RequestsWellFormed
  <2>2. \A q \in Runs : Works(q, t) => active[t] # q
    BY <2>1 DEF IInv, WaitingIsFinal, Works, Carried, CarriedPhases,
       RegisteredPhases
  <2>3. LetsIn(t, r)
    BY <1>1, <2>1, <2>2, ClaimLetsIn DEF ReplyClaim
  <2> QED BY <2>1, <2>3
<1>2. ASSUME NEW c \in Clients, NEW t \in Tasks, NEW l \in Labels,
             MoveCheck(c, t, l) \/ FeedbackMove(c, t, l)
      PROVE  LetsNobodyIn
  BY <1>2 DEF MoveCheck, FeedbackMove, SetReq, LetsNobodyIn, Works, Carried,
     runVars, history
<1>3. ASSUME NEW c \in Clients,
             MoveRead(c) \/ HumanMoveStale(c) \/ ReplyConflict(c)
      PROVE  LetsNobodyIn
  BY <1>3 DEF MoveRead, HumanMoveStale, ReplyConflict, SetReq, LetsNobodyIn,
     Works, Carried, runVars, history
<1>4. ASSUME NEW c \in Clients, NEW t \in Tasks, ReplyRead(c, t)
      PROVE  LetsNobodyIn
  BY <1>4 DEF ReplyRead, SetReq, LetsNobodyIn, Works, Carried, runVars, history
<1>5. ASSUME NEW c \in Clients, HumanMove(c) PROVE LetsNobodyIn
  BY <1>5 DEF HumanMove, Evicting, LetsNobodyIn, Works, Carried, runVars
<1>6. ASSUME NEW t \in Tasks, NEW b \in BOOLEAN,
             Rerun(t) \/ CooldownEnds(t) \/ SetPaused(t, b)
      PROVE  LetsNobodyIn
  BY <1>6 DEF Rerun, CooldownEnds, SetPaused, Evicting, LetsNobodyIn, Works,
     Carried, runVars, history
<1> QED BY <1>1, <1>2, <1>3, <1>4, <1>5, <1>6 DEF Human

LEMMA ProcessLets ==
    ASSUME IInv, Process
    PROVE  LetsNobodyIn
<1> USE DEF LetsNobodyIn, Works, Carried, CarriedPhases, RegisteredPhases,
       runVars, history, IInv, TypeOK
<1>1. CASE Shutdown \/ DrainWindowEnds \/ RecoverRuns \/ RecoverLocks
  BY <1>1 DEF Shutdown, DrainWindowEnds, RecoverRuns, RecoverLocks
<1>2. CASE ProcessEnds
  BY <1>2 DEF ProcessEnds
<1> QED BY <1>1, <1>2 DEF Process

\* The dispatch lock, with everything that races it, implements the lease:
\* no run is ever let into a worktree another run works in.
THEOREM Refinement == Spec => ImplementsLease
<1>1. Init => Lease!Init
  BY DEF Init, Lease!Init, user, fresh, Works, Carried, CarriedPhases,
     RegisteredPhases
<1>2. ASSUME IInv, UserKnown, UserKnown', [Next]_vars
      PROVE  [Lease!Next]_(Lease!leaseVars)
  <2>1. CASE Next
    BY <1>2, <2>1, SweepLets, GoroutineLets, CancelLets, HumanLets,
       ProcessLets, LetsNobodyInLetsGo, LetsInTakes, CreatesOnlyDiscards
       DEF Next
  <2>2. CASE UNCHANGED vars
    BY <2>2 DEF vars, Lease!leaseVars, user, fresh, Works, Carried
  <2> QED BY <1>2, <2>1, <2>2
<1>3. Spec => []UserKnown
  BY Exclusion, UserIsKnown, PTL
<1> QED BY <1>1, <1>2, <1>3, Inductive, PTL DEF Spec, ImplementsLease, Lease!Spec
=============================================================================
