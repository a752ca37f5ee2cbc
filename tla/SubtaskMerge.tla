---------------------------- MODULE SubtaskMerge ----------------------------
(***************************************************************************)
(* A parent task and its subtasks: how the branch of a child that reaches  *)
(* a terminal label gets into the parent's branch (agent/subtasks.go), and *)
(* how that meets the parent's own runs (agent/pool.go, the dependency     *)
(* gate of ListAgentPickupTasks), new subtasks (api/handlers/subtasks.go), *)
(* people, and a restart.                                                  *)
(*                                                                         *)
(* All of a parent's merge-backs run under one mutex, so the coordinator   *)
(* is one process here, a step of which lies between two points at which   *)
(* somebody else's write can fall.  The parent's columns are abstracted to *)
(* an agent's, a gate that agents ignore, and what lies behind them; the   *)
(* dispatch lock itself is in RunLifecycle and the delivery of a terminal  *)
(* effect in SideEffectOutbox.  A run whose outcome is a success did the   *)
(* merges its brief asked for; with any other outcome it did some of them. *)
(* Archiving, pausing and overlapping file scopes are left out.            *)
(***************************************************************************)
EXTENDS Naturals, FiniteSets

CONSTANTS
    Children,
    Runs,
    MaxActs,       \* bound: what people do out of turn, and restarts
    NoRun, NoChild

ASSUME SubtasksAssumption ==
    /\ NoRun \notin Runs
    /\ NoChild \notin Children
    /\ MaxActs \in Nat

VARIABLES
    \* database: the parent
    pcol, active, hasBranch, integration,
    \* database and git: the children
    col, merge, ref,
    due,         \* children with a terminal effect to be delivered
    \* goroutines: the parent's runs
    phase, result, brief,
    \* goroutine: the holder of the parent's mutex
    co,
    \* bound
    acts,
    \* history, read by the properties only: children that were moved back, whose
    \* conflict was taken as resolved, or whose merge was put off at a restart
    waived

parentVars == <<pcol, active, hasBranch, integration>>
childVars  == <<col, merge, ref, due>>
runVars    == <<phase, result, brief>>
vars == <<pcol, active, hasBranch, integration, col, merge, ref, due, phase,
          result, brief, co, acts, waived>>

-----------------------------------------------------------------------------
ParentCols == {"gate", "work", "past"}
ChildCols  == {"absent", "gate", "work", "done"}
\* The empty string of the status columns is "unset".
Merges     == {"unset", "pending", "merged", "merge_conflict"}
\* What became of a child's commits: none yet, on its branch only, in the
\* parent's branch too, and the branch deleted, with commits that were in the
\* parent's or with some that were not.
Refs       == {"none", "open", "landed", "gone", "lost"}
Phases     == {"idle", "going", "waiting", "after"}
Results    == {"unset", "success", "failure", "none", "failed"}
Steps      == {"free", "read", "loop", "merge", "record", "finish",
               "eval", "set"}

\* What the holder of the mutex is at, for which child or run, and what it read.
Coordinators == [at : Steps, child : Children \cup {NoChild},
                 run : Runs \cup {NoRun}, flush : SUBSET Children,
                 resolve : SUBSET Children, wasPending : BOOLEAN, ok : BOOLEAN]

Present == {c \in Children : col[c] # "absent"}
Conflicted == {c \in Present : merge[c] = "merge_conflict"}

Idle == [at |-> "free", child |-> NoChild, run |-> NoRun, flush |-> {},
         resolve |-> {}, wasPending |-> FALSE, ok |-> FALSE]

Init ==
    /\ pcol \in {"gate", "work"}
    /\ active = NoRun
    /\ hasBranch = FALSE
    /\ integration = "unset"
    /\ col = [c \in Children |-> "absent"]
    /\ merge = [c \in Children |-> "unset"]
    /\ ref = [c \in Children |-> "none"]
    /\ due = {}
    /\ phase = [r \in Runs |-> "idle"]
    /\ result = [r \in Runs |-> "unset"]
    /\ brief = [r \in Runs |-> {}]
    /\ co = Idle
    /\ acts = 0
    /\ waived = {}

Act == acts < MaxActs /\ acts' = acts + 1

-----------------------------------------------------------------------------
(* The children.                                                           *)

\* The child, its dependency edge and the parent's status in one transaction.
Create(c) ==
    /\ col[c] = "absent"
    /\ c = CHOOSE d \in Children \ Present : TRUE
    /\ col' = [col EXCEPT ![c] = "gate"]
    /\ integration' = "unset"
    /\ UNCHANGED <<pcol, active, hasBranch, merge, ref, due, runVars, co, acts,
                   waived>>

MoveChild(c, to) ==
    /\ col' = [col EXCEPT ![c] = to]
    /\ due' = IF to = "done" THEN due \cup {c} ELSE due

\* A person releases the child from the gate, or moves it straight to the end.
Release(c) ==
    /\ col[c] = "gate"
    /\ \E to \in {"work", "done"} : MoveChild(c, to)
    /\ UNCHANGED <<parentVars, merge, ref, runVars, co, acts, waived>>

\* An agent works on the child's branch, cut from the parent's ...
ChildWorks(c) ==
    /\ col[c] = "work"
    /\ ref[c] # "open"
    /\ ref' = [ref EXCEPT ![c] = "open"]
    /\ UNCHANGED <<parentVars, col, merge, due, runVars, co, acts, waived>>

\* ... and the child moves on.
ChildFinishes(c) ==
    /\ col[c] = "work"
    /\ ref[c] = "open"
    /\ MoveChild(c, "done")
    /\ UNCHANGED <<parentVars, merge, ref, runVars, co, acts, waived>>

\* A finished child is moved back.  Its merge status stays what it was.
Reopen(c) ==
    /\ col[c] = "done"
    /\ Act
    /\ MoveChild(c, "work")
    /\ waived' = waived \cup {c}
    /\ UNCHANGED <<parentVars, merge, ref, runVars, co>>

-----------------------------------------------------------------------------
(* The parent's runs.                                                      *)

\* Any free slot will do.
Begin(r) ==
    /\ phase[r] = "idle"
    /\ r = CHOOSE q \in Runs : phase[q] = "idle"
    /\ active' = r
    /\ hasBranch' = TRUE
    /\ brief' = [brief EXCEPT ![r] = Conflicted]

\* Mutant: a subtask is a blocker like any other.
Satisfied_Terminal(c) == col[c] = "done"

\* The dependency gate: a subtask has to be merged back too.
Satisfied(c) == col[c] = "done" /\ merge[c] \in {"merged", "merge_conflict"}

\* The sweep.  The brief names the children whose merge conflicted.
Start(r) ==
    /\ pcol = "work"
    /\ active = NoRun
    /\ \A c \in Present : Satisfied(c)
    /\ Begin(r)
    /\ phase' = [phase EXCEPT ![r] = "going"]
    /\ UNCHANGED <<pcol, integration, childVars, result, co, acts, waived>>

\* Mutant: the lock stays behind.
Unlock_Forgotten(r) == UNCHANGED active

\* Owner-scoped.
Unlock(r) == active' = IF active = r THEN NoRun ELSE active

\* A run that is over, and its slot.
Forget(r) ==
    /\ phase' = [phase EXCEPT ![r] = "idle"]
    /\ result' = [result EXCEPT ![r] = "unset"]
    /\ brief' = [brief EXCEPT ![r] = {}]

\* The merges of the brief that the run did itself.
Resolves(S) == ref' = [c \in Children |-> IF c \in S /\ ref[c] = "open" THEN "landed" ELSE ref[c]]

Finish(r, o) ==
    /\ phase' = [phase EXCEPT ![r] = "after"]
    /\ result' = [result EXCEPT ![r] = o]
    /\ brief' = [brief EXCEPT ![r] = {}]

\* A completed run with an outcome: its move clears the lock, before the
\* coordinator hears of it.
Land(r, o) ==
    /\ phase[r] = "going"
    /\ o \in {"success", "failure"}
    /\ \E S \in SUBSET brief[r] : (o = "success" => S = brief[r]) /\ Resolves(S)
    /\ IF pcol = "work"
       THEN /\ pcol' = IF o = "success" THEN "past" ELSE pcol
            /\ active' = NoRun
       ELSE Unlock(r) /\ UNCHANGED pcol
    /\ Finish(r, o)
    /\ UNCHANGED <<hasBranch, integration, col, merge, due, co, acts, waived>>

\* A completed run without one keeps the lock for a person.
LandNowhere(r) ==
    /\ phase[r] = "going"
    /\ \E S \in SUBSET brief[r] : Resolves(S)
    /\ Finish(r, "none")
    /\ UNCHANGED <<parentVars, col, merge, due, co, acts, waived>>

Fails(r) ==
    /\ phase[r] = "going"
    /\ Unlock(r)
    /\ Finish(r, "failed")
    /\ UNCHANGED <<pcol, hasBranch, integration, childVars, co, acts, waived>>

\* Cancelled, rate limited, or a transient error: the coordinator is not told.
EndsEarly(r) ==
    /\ phase[r] = "going"
    /\ Unlock(r)
    /\ Forget(r)
    /\ UNCHANGED <<pcol, hasBranch, integration, childVars, co, acts, waived>>

Asks(r) ==
    /\ phase[r] = "going"
    /\ IF active = r
       THEN phase' = [phase EXCEPT ![r] = "waiting"] /\ UNCHANGED <<result, brief>>
       ELSE Forget(r)
    /\ UNCHANGED <<parentVars, childVars, co, acts, waived>>

-----------------------------------------------------------------------------
(* People on the parent.                                                   *)

\* Whoever takes the lock from a run that waits ends it.
Settle(keep) ==
    phase' = [r \in Runs |-> IF phase[r] = "waiting" /\ r # keep THEN "idle" ELSE phase[r]]

Reply(q) ==
    /\ Act
    /\ active # NoRun
    /\ phase[active] = "waiting"
    /\ Begin(q)
    /\ phase' = [phase EXCEPT ![active] = "idle", ![q] = "going"]
    /\ UNCHANGED <<pcol, integration, childVars, result, co, waived>>

\* Rerun clears the lock, even of a run that goes on.
Rerun ==
    /\ Act
    /\ active # NoRun
    /\ active' = NoRun
    /\ Settle(NoRun)
    /\ UNCHANGED <<pcol, hasBranch, integration, childVars, result, brief, co, waived>>

MoveParent(to) ==
    /\ Act
    /\ to # pcol
    /\ active # NoRun => phase[active] # "going"
    /\ pcol' = to
    /\ active' = NoRun
    /\ Settle(NoRun)
    /\ UNCHANGED <<hasBranch, integration, childVars, result, brief, co, waived>>

-----------------------------------------------------------------------------
(* The coordinator.                                                        *)

At(s) == co.at = s
Goto(s) == co' = [co EXCEPT !.at = s]

\* It lets the mutex go; a run that told it is over, or waits if it has the lock.
Leave ==
    /\ co' = Idle
    /\ IF co.run = NoRun THEN UNCHANGED runVars
       ELSE IF result[co.run] = "none" /\ active = co.run
       THEN /\ phase' = [phase EXCEPT ![co.run] = "waiting"]
            /\ result' = [result EXCEPT ![co.run] = "unset"]
            /\ UNCHANGED brief
       ELSE Forget(co.run)

\* execSideEffect: an effect whose child has left the terminal label is dropped.
Stale(c) ==
    /\ c \in due
    /\ col[c] # "done"
    /\ due' = due \ {c}
    /\ UNCHANGED <<parentVars, col, merge, ref, runVars, co, acts, waived>>

\* OnChildTerminal, behind the mutex.
ChildTerminal(c) ==
    /\ At("free")
    /\ c \in due
    /\ col[c] = "done"
    /\ due' = due \ {c}
    /\ co' = [Idle EXCEPT !.at = "read", !.child = c]
    /\ UNCHANGED <<parentVars, col, merge, ref, runVars, acts, waived>>

\* While the parent has a run the merge is put off.
Defer ==
    /\ At("read")
    /\ active # NoRun
    /\ merge' = [merge EXCEPT ![co.child] = "pending"]
    /\ Leave
    /\ UNCHANGED <<parentVars, col, ref, due, acts, waived>>

GoAhead ==
    /\ At("read")
    /\ active = NoRun
    /\ Goto("merge")
    /\ UNCHANGED <<parentVars, childVars, runVars, acts, waived>>

\* AfterParentRun, behind the mutex: the children as they are now.
AfterParentRun(r) ==
    /\ At("free")
    /\ phase[r] = "after"
    /\ co' = [Idle EXCEPT !.at = "loop", !.run = r,
                !.flush = {c \in Present : merge[c] = "pending"},
                !.resolve = IF result[r] = "failed" THEN {} ELSE Conflicted,
                !.wasPending = (integration = "pending")]
    /\ UNCHANGED <<parentVars, childVars, runVars, acts, waived>>

\* Mutant: what was put off stays put off.
LoopFlush_Skips(c) ==
    /\ At("loop")
    /\ c \in co.flush
    /\ co' = [co EXCEPT !.flush = @ \ {c}]
    /\ UNCHANGED <<parentVars, childVars, runVars, acts, waived>>

LoopFlush(c) ==
    /\ At("loop")
    /\ c \in co.flush
    /\ co' = [co EXCEPT !.flush = @ \ {c}, !.at = "merge", !.child = c]
    /\ UNCHANGED <<parentVars, childVars, runVars, acts, waived>>

\* The child's worktree and branch are removed.
TearDown(c) ==
    ref' = [ref EXCEPT ![c] = CASE @ = "open" -> "lost"
                                [] @ = "landed" -> "gone"
                                [] OTHER -> @]

\* A completed run counts as having resolved the conflicts.
LoopResolve(c) ==
    /\ At("loop")
    /\ c \in co.resolve
    /\ merge' = [merge EXCEPT ![c] = "merged"]
    /\ TearDown(c)
    /\ co' = [co EXCEPT !.resolve = @ \ {c}]
    /\ waived' = waived \cup {c}
    /\ UNCHANGED <<parentVars, col, due, runVars, acts>>

LoopEnds ==
    /\ At("loop")
    /\ co.flush = {}
    /\ co.resolve = {}
    /\ Goto(IF co.wasPending /\ result[co.run] = "success" /\ Conflicted = {}
            THEN "finish" ELSE "eval")
    /\ UNCHANGED <<parentVars, childVars, runVars, acts, waived>>

\* An integration run that succeeded.
MarkDone ==
    /\ At("finish")
    /\ integration' = "done"
    /\ Goto("eval")
    /\ UNCHANGED <<pcol, active, hasBranch, childVars, runVars, acts, waived>>

NextChild ==
    co' = IF co.run = NoRun THEN [co EXCEPT !.at = "eval", !.ok = FALSE]
          ELSE [co EXCEPT !.at = "loop", !.ok = FALSE, !.child = NoChild]

\* mergeChild of a child that never ran: nothing to merge.
MergeNothing ==
    /\ At("merge")
    /\ ref[co.child] = "none"
    /\ merge' = [merge EXCEPT ![co.child] = "merged"]
    /\ NextChild
    /\ UNCHANGED <<parentVars, col, ref, due, runVars, acts, waived>>

\* A parent that never ran has no branch to merge into.
MergeNowhere ==
    /\ At("merge")
    /\ ref[co.child] # "none"
    /\ ~hasBranch
    /\ NextChild
    /\ UNCHANGED <<parentVars, childVars, runVars, acts, waived>>

\* Mutant: the exit status of the merge is not looked at.
Merge_Unchecked ==
    /\ At("merge")
    /\ ref[co.child] # "none"
    /\ hasBranch
    /\ \E ok \in BOOLEAN :
         ref' = [ref EXCEPT ![co.child] = IF ok /\ @ = "open" THEN "landed" ELSE @]
    /\ co' = [co EXCEPT !.at = "record", !.ok = TRUE]
    /\ UNCHANGED <<parentVars, col, merge, due, runVars, acts, waived>>

\* git merge: it goes in, or it conflicts; a branch that is gone is an error.
Merge ==
    /\ At("merge")
    /\ ref[co.child] # "none"
    /\ hasBranch
    /\ \E ok \in BOOLEAN :
         /\ ref[co.child] = "landed" => ok
         /\ ref[co.child] \in {"gone", "lost"} => ~ok
         /\ ref' = [ref EXCEPT ![co.child] = IF ok /\ @ = "open" THEN "landed" ELSE @]
         /\ co' = [co EXCEPT !.at = "record", !.ok = ok]
    /\ UNCHANGED <<parentVars, col, merge, due, runVars, acts, waived>>

\* The column is written first, but nobody reads the branch in between.
Record ==
    /\ At("record")
    /\ IF co.ok
       THEN merge' = [merge EXCEPT ![co.child] = "merged"] /\ TearDown(co.child)
       ELSE merge' = [merge EXCEPT ![co.child] = "merge_conflict"] /\ UNCHANGED ref
    /\ NextChild
    /\ UNCHANGED <<parentVars, col, due, runVars, acts, waived>>

\* evaluateParent: is every child finished and merged back?
Ready == Present # {} /\ \A c \in Present : Satisfied(c)

NotReady ==
    /\ At("eval")
    /\ ~Ready
    /\ Leave
    /\ UNCHANGED <<parentVars, childVars, acts, waived>>

IsReady ==
    /\ At("eval")
    /\ Ready
    /\ co' = [co EXCEPT !.at = "set", !.ok = Conflicted = {}]
    /\ UNCHANGED <<parentVars, childVars, runVars, acts, waived>>

\* On an agent's column the parent is marked for an integration run.
MarkPending ==
    /\ At("set")
    /\ pcol = "work"
    /\ integration' = IF integration = "unset" THEN "pending" ELSE integration
    /\ Leave
    /\ UNCHANGED <<pcol, active, hasBranch, childVars, acts, waived>>

\* On the gate it moves on by itself, unless there are conflicts or a lock.
AutoAdvance ==
    /\ At("set")
    /\ pcol = "gate"
    /\ co.ok
    /\ active = NoRun
    /\ pcol' = "work"
    /\ Leave
    /\ UNCHANGED <<active, hasBranch, integration, childVars, acts, waived>>

StayPut ==
    /\ At("set")
    /\ pcol # "work"
    /\ pcol = "gate" => ~co.ok \/ active # NoRun
    /\ Leave
    /\ UNCHANGED <<parentVars, childVars, acts, waived>>

Coordinate ==
    \/ Defer \/ GoAhead
    \/ \E c \in Children : LoopFlush(c) \/ LoopResolve(c)
    \/ LoopEnds \/ MarkDone
    \/ MergeNothing \/ MergeNowhere \/ Merge \/ Record
    \/ NotReady \/ IsReady \/ MarkPending \/ AutoAdvance \/ StayPut

-----------------------------------------------------------------------------
\* The process stops.  Boot recovery clears the lock and delivers again the
\* effect that was being carried out.
Restart ==
    /\ Act
    /\ active' = NoRun
    /\ due' = IF co.at # "free" /\ co.run = NoRun THEN due \cup {co.child} ELSE due
    /\ phase' = [r \in Runs |-> "idle"]
    /\ result' = [r \in Runs |-> "unset"]
    /\ brief' = [r \in Runs |-> {}]
    /\ co' = Idle
    /\ waived' = waived \cup {c \in Children : merge[c] = "pending"}
    /\ UNCHANGED <<pcol, hasBranch, integration, col, merge, ref>>

RunStep(r) ==
    \/ \E o \in Results : Land(r, o)
    \/ LandNowhere(r) \/ Fails(r) \/ EndsEarly(r) \/ Asks(r)

Next ==
    \/ \E c \in Children :
         \/ Create(c) \/ Release(c) \/ ChildWorks(c) \/ ChildFinishes(c)
         \/ Reopen(c) \/ Stale(c) \/ ChildTerminal(c)
    \/ \E r \in Runs : Start(r) \/ RunStep(r) \/ Reply(r) \/ AfterParentRun(r)
    \/ Rerun
    \/ \E to \in ParentCols : MoveParent(to)
    \/ Coordinate
    \/ Restart

Spec == Init /\ [][Next]_vars

\* The holder of the mutex goes on, and a run that is over and waits for it gets
\* it (Go's mutex starves nobody).  No property needs more.
FairSpec ==
    /\ Spec
    /\ \A r \in Runs : SF_vars(AfterParentRun(r))
    /\ WF_vars(Coordinate)

-----------------------------------------------------------------------------
TypeOK ==
    /\ pcol \in ParentCols
    /\ active \in Runs \cup {NoRun}
    /\ hasBranch \in BOOLEAN
    /\ integration \in {"unset", "pending", "done"}
    /\ col \in [Children -> ChildCols]
    /\ merge \in [Children -> Merges]
    /\ ref \in [Children -> Refs]
    /\ due \in SUBSET Children
    /\ phase \in [Runs -> Phases]
    /\ result \in [Runs -> Results]
    /\ brief \in [Runs -> SUBSET Children]
    /\ co \in Coordinators
    /\ acts \in 0..MaxActs
    /\ waived \in SUBSET Children
    /\ co.at = "free" => co = Idle
    /\ co.run # NoRun => phase[co.run] = "after"
    /\ active # NoRun => phase[active] # "idle"

\* What the columns call merged is in the parent's branch (docs/workflows.md:
\* "merged into its parent's branch"), or the child had nothing to give.
MergedIsIn ==
    \A c \in Children \ waived : merge[c] = "merged" => ref[c] \notin {"open", "lost"}

\* A run that the sweep starts on the parent sees the work of every child: it
\* is in the parent's branch, or the child is named in the run's brief.
SeesEveryChild ==
    [][\A r \in Runs : Start(r) =>
         \A c \in Present \ waived : ref[c] = "open" => c \in brief'[r]]_vars

\* A merge that was put off is made up for by the end of the run it waited for
\* (agent/subtasks.go:70-72: "retried when that run finishes"), if that run
\* completes or fails and no restart takes the goroutine that would do it.
FlushedInTime ==
    \A c \in Children :
        (merge[c] = "pending" /\ \E r \in Runs : phase[r] = "after")
            ~> (merge[c] # "pending" \/ c \in waived)

-----------------------------------------------------------------------------
\* What the comment in agent/subtasks.go:137-138 takes for granted: a branch
\* that is deleted has its commits in the parent's.
NoWorkLost ==
    [][\A c \in Children : ref[c] = "open" => ref'[c] # "lost"]_vars

=============================================================================
