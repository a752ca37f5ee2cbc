----------------------------- MODULE IssueImport -----------------------------
(***************************************************************************)
(* One issue of a repository whose issues are synchronised, and the task   *)
(* imported from it: the importer's sweep (tasksource/importer.go), the    *)
(* two handlers for an edit that is held (api/handlers/tasks.go), people   *)
(* who move, edit, archive and delete the task, and the agent runs that    *)
(* lock it.                                                                *)
(*                                                                         *)
(* There is one importer goroutine, so sweeps do not overlap, but every    *)
(* query of a sweep is a step of its own: it decides on rows that may have *)
(* changed since.  The issues of a repository do not touch one another.    *)
(***************************************************************************)
EXTENDS Naturals

CONSTANTS
    Texts,         \* what an issue or a task may say
    Labels,
    Gate,          \* the agent_ignore label imported tasks wait on
    WorkLabels,    \* labels the dispatcher picks tasks up from
    FirstLabels,   \* where intake rules let new tasks land (shapeItem)
    HumanMoves,    \* transitions a person may take
    AgentMoves,    \* transitions an agent may take
    HumanGates,    \* labels only a person moves a task on from
    GoneLabel,     \* issue_sync_gone_label
    Settings,      \* the repositories considered: issue_sync_update_policy
                   \* and issue_sync_gone_action
    MaxTasks,      \* how often the issue is imported (a bound)
    MaxActs,       \* edits of the task by people, and stops (a bound)
    NoTask,
    NoText

ASSUME ConstantsAssumption ==
    /\ Gate \in Labels /\ GoneLabel \in Labels
    /\ WorkLabels \subseteq Labels /\ FirstLabels \subseteq Labels
    /\ HumanGates \subseteq Labels \ WorkLabels
    /\ HumanMoves \subseteq Labels \X Labels /\ AgentMoves \subseteq Labels \X Labels
    /\ Settings \subseteq [policy : {"gate", "always", "never"},
                           gone : {"flag", "archive", "move"}]
    /\ MaxTasks \in Nat \ {0} /\ MaxActs \in Nat
    /\ NoText \notin Texts

VARIABLES
    repo,      \* the repository's two settings
    issue,     \* the issue: its text, and whether a fetch returns it
    task,      \* the row of the task with the issue's source_ref
    pending,   \* its task_source_pending row
    born,      \* tasks imported so far; the newest has that number
    sweep,     \* the importer goroutine
    hand,      \* the handler that applies a held edit
    acts,
    silent,    \* history: upstream edits written to the task after approval
    joined     \* history: a run started after the sweep listed the task as missing

vars == <<repo, issue, task, pending, born, sweep, hand, acts, silent, joined>>

NoPending == [text |-> NoText, dismissed |-> FALSE]
Fetched(a, x) == [at |-> a, item |-> x, id |-> 0, next |-> "idle", busy |-> FALSE]
IdleSweep == Fetched("idle", NoText)
IdleHand  == [at |-> "idle", id |-> 0, text |-> NoText]

Issues == [open : BOOLEAN, text : Texts]
Edits  == [text : Texts \cup {NoText}, dismissed : BOOLEAN]
SweepPoints ==
    {"idle", "look", "clear", "drop", "history", "hold", "write", "create", "list",
     "flag", "shelve"}
Sweeps ==
    [at : SweepPoints,
     item : Texts \cup {NoText}, id : 0..MaxTasks,
     next : {"idle", "drop", "history"}, busy : BOOLEAN]
Hands  == [at : {"idle", "write", "clear"}, id : 0..MaxTasks,
           text : Texts \cup {NoText}]
TaskRows ==
    [id : 1..MaxTasks, label : Labels, text : Texts, approved : BOOLEAN,
     archived : BOOLEAN, gone : BOOLEAN, run : BOOLEAN]

ASSUME NoTaskAssumption == NoTask \notin TaskRows

Exists == task # NoTask
\* An UPDATE of the row with that id finds it.
Is(id) == Exists /\ task.id = id

Init ==
    /\ repo \in Settings
    /\ issue \in Issues /\ issue.open
    /\ task = NoTask
    /\ pending = NoPending
    /\ born = 0
    /\ sweep = IdleSweep
    /\ hand = IdleHand
    /\ acts = 0
    /\ silent = 0
    /\ joined = FALSE

-----------------------------------------------------------------------------
(* The sweep.                                                              *)

rest == <<repo, issue, hand, acts>>

\* updateAllowed
UpdateAllowed(label) ==
    CASE repo.policy = "never"  -> FALSE
      [] repo.policy = "always" -> TRUE
      [] OTHER                  -> label = Gate

\* source.Fetch: open issues that match the filter.  An issue that is not
\* among them is left to reconcile.
Fetch ==
    /\ sweep.at = "idle"
    /\ sweep' = IF issue.open THEN Fetched("look", issue.text)
                ELSE Fetched("list", NoText)
    /\ UNCHANGED <<rest, task, pending, born, silent, joined>>

\* What the row that was read leads to once the flag is off it.
AfterLook(row) ==
    IF ~UpdateAllowed(row.label) THEN "idle"
    ELSE IF row.text = sweep.item THEN "drop" ELSE "history"

\* GetTaskBySource.
Look ==
    /\ sweep.at = "look"
    /\ sweep' =
          IF ~Exists THEN [sweep EXCEPT !.at = "create"]
          ELSE LET next == AfterLook(task) IN
               IF next = "idle" /\ ~task.gone THEN IdleSweep
               ELSE [sweep EXCEPT !.at = IF task.gone THEN "clear" ELSE next,
                                  !.id = task.id, !.next = next]
    /\ UNCHANGED <<rest, task, pending, born, silent, joined>>

\* The issue is back.
ClearGone ==
    /\ sweep.at = "clear"
    /\ task' = IF Is(sweep.id) THEN [task EXCEPT !.gone = FALSE] ELSE task
    /\ sweep' = IF sweep.next = "idle" THEN IdleSweep ELSE [sweep EXCEPT !.at = sweep.next]
    /\ UNCHANGED <<rest, pending, born, silent, joined>>

\* clearPendingEdit: the task reads as the issue does.
DropPending ==
    /\ sweep.at = "drop"
    /\ pending' = IF Is(sweep.id) THEN NoPending ELSE pending
    /\ sweep' = IdleSweep
    /\ UNCHANGED <<rest, task, born, silent, joined>>

\* Mutant: everybody is taken for a task nobody has approved.
ApprovedByHuman_Never(id) == FALSE

\* approvedByHuman, of the history of a row that may be gone by now.
ApprovedByHuman(id) == Is(id) /\ task.approved

ReadHistory ==
    /\ sweep.at = "history"
    /\ sweep' = [sweep EXCEPT !.at = IF ApprovedByHuman(sweep.id) THEN "hold" ELSE "write"]
    /\ UNCHANGED <<rest, task, pending, born, silent, joined>>

\* UpsertTaskSourcePending: the same text keeps its dismissal.
Upserted(text) ==
    [text |-> text, dismissed |-> pending.text = text /\ pending.dismissed]

\* Mutant: an edit is not held while another one is.
HoldPending_FirstOnly ==
    /\ sweep.at = "hold"
    /\ pending' = IF Is(sweep.id) /\ pending = NoPending
                  THEN Upserted(sweep.item) ELSE pending
    /\ sweep' = IdleSweep
    /\ UNCHANGED <<rest, task, born, silent, joined>>

\* holdPendingEdit
HoldPending ==
    /\ sweep.at = "hold"
    /\ pending' = IF Is(sweep.id) THEN Upserted(sweep.item) ELSE pending
    /\ sweep' = IdleSweep
    /\ UNCHANGED <<rest, task, born, silent, joined>>

\* UpdateTaskFromSource, which asks nothing of the row.
WriteTask ==
    /\ sweep.at = "write"
    /\ task' = IF Is(sweep.id) THEN [task EXCEPT !.text = sweep.item] ELSE task
    /\ silent' = IF Is(sweep.id) /\ task.approved THEN silent + 1 ELSE silent
    /\ sweep' = IdleSweep
    /\ UNCHANGED <<rest, pending, born, joined>>

\* Mutant: the new row is numbered as the last one.
CreateTask_Renumbered(l) ==
    /\ sweep.at = "create"
    /\ task' = [id |-> born, label |-> l, text |-> sweep.item, approved |-> FALSE,
                archived |-> FALSE, gone |-> FALSE, run |-> FALSE]
    /\ born' = born + 1
    /\ silent' = 0
    /\ sweep' = IdleSweep
    /\ UNCHANGED <<rest, pending, joined>>

\* createNewTasks
CreateTask(l) ==
    /\ sweep.at = "create"
    /\ task' = [id |-> born + 1, label |-> l, text |-> sweep.item, approved |-> FALSE,
                archived |-> FALSE, gone |-> FALSE, run |-> FALSE]
    /\ born' = born + 1
    /\ silent' = 0
    /\ sweep' = IdleSweep
    /\ UNCHANGED <<rest, pending, joined>>

\* Mutant: the run on the listed row is not looked at.
Busy_Ignored(row) == FALSE

\* applyGoneAction: an agent may be at work.
Busy(row) == row.run

\* reconcile: ListTasksBySourceRepo.
ListMissing ==
    /\ sweep.at = "list"
    /\ sweep' = IF ~Exists \/ task.gone THEN IdleSweep
                ELSE [sweep EXCEPT !.at = "flag", !.id = task.id, !.busy = Busy(task)]
    /\ UNCHANGED <<rest, task, pending, born, silent, joined>>

\* applyGoneAction, SetTaskSourceState.
FlagGone ==
    /\ sweep.at = "flag"
    /\ task' = IF Is(sweep.id) THEN [task EXCEPT !.gone = TRUE] ELSE task
    /\ sweep' = IF repo.gone = "flag" \/ sweep.busy THEN IdleSweep
                ELSE [sweep EXCEPT !.at = "shelve"]
    /\ joined' = (joined /\ sweep'.at = "shelve")
    /\ UNCHANGED <<rest, pending, born, silent>>

\* Engine.Transition with a person's trigger: takes the lock off, and counts
\* as a person's approval when it leaves a human gate.
Moved(l) ==
    [task EXCEPT !.label = l, !.run = FALSE,
                 !.approved = task.approved \/ task.label \in HumanGates]

\* applyGoneAction, the escalation; a move the workflow does not have fails.
Shelve ==
    /\ sweep.at = "shelve"
    /\ task' = IF ~Is(sweep.id) THEN task
               ELSE IF repo.gone = "archive" THEN [task EXCEPT !.archived = TRUE]
               ELSE IF <<task.label, GoneLabel>> \in HumanMoves THEN Moved(GoneLabel)
               ELSE task
    /\ sweep' = IdleSweep
    /\ joined' = FALSE
    /\ UNCHANGED <<rest, pending, born, silent>>

SweepStep ==
    \/ Fetch \/ Look \/ ClearGone \/ DropPending \/ ReadHistory \/ HoldPending
    \/ WriteTask \/ \E l \in FirstLabels : CreateTask(l)
    \/ ListMissing \/ FlagGone \/ Shelve

-----------------------------------------------------------------------------
(* The handlers for a held edit.                                           *)

others == <<repo, issue, born, sweep, acts, silent, joined>>

\* ApplySourceUpdate reads the held edit, ...
ApplyRead ==
    /\ hand.at = "idle"
    /\ Exists /\ pending # NoPending /\ ~pending.dismissed
    /\ hand' = [at |-> "write", id |-> task.id, text |-> pending.text]
    /\ UNCHANGED <<others, task, pending>>

\* ... writes it (a task deleted meanwhile is an error), ...
ApplyWrite ==
    /\ hand.at = "write"
    /\ task' = IF Is(hand.id) THEN [task EXCEPT !.text = hand.text] ELSE task
    /\ hand' = IF Is(hand.id) THEN [hand EXCEPT !.at = "clear"] ELSE IdleHand
    /\ UNCHANGED <<others, pending>>

\* ... and deletes whatever is held by now.
ApplyClear ==
    /\ hand.at = "clear"
    /\ pending' = IF Is(hand.id) THEN NoPending ELSE pending
    /\ hand' = IdleHand
    /\ UNCHANGED <<others, task>>

\* DiscardSourceUpdate
Discard ==
    /\ Exists /\ pending # NoPending /\ ~pending.dismissed
    /\ pending' = [pending EXCEPT !.dismissed = TRUE]
    /\ UNCHANGED <<others, hand, task>>

-----------------------------------------------------------------------------
(* People, agents and the forge.                                           *)

background == <<repo, born, sweep, hand, silent>>

\* Somebody edits, closes, reopens or relabels the issue.
IssueChanges ==
    /\ issue' \in Issues
    /\ issue' # issue
    /\ UNCHANGED <<background, task, pending, acts, joined>>

\* MoveLabel and Approve, refused while a run is live.
HumanMove(l) ==
    /\ Exists /\ ~task.run
    /\ <<task.label, l>> \in HumanMoves
    /\ task' = Moved(l)
    /\ UNCHANGED <<background, issue, pending, acts, joined>>

SetArchived ==
    /\ Exists
    /\ task' = [task EXCEPT !.archived = ~task.archived]
    /\ UNCHANGED <<background, issue, pending, acts, joined>>

\* PATCH: a person rewrites the task.
EditTask(text) ==
    /\ acts < MaxActs /\ acts' = acts + 1
    /\ Exists /\ task.text # text
    /\ task' = [task EXCEPT !.text = text]
    /\ UNCHANGED <<background, issue, pending, joined>>

\* Delete, refused while a run is live; what is held goes with the row.
DeleteTask ==
    /\ Exists /\ ~task.run
    /\ born < MaxTasks
    /\ task' = NoTask
    /\ pending' = NoPending
    /\ UNCHANGED <<background, issue, acts, joined>>

\* A run claims the task.
StartRun ==
    /\ Exists /\ ~task.run /\ ~task.archived
    /\ task.label \in WorkLabels
    /\ task' = [task EXCEPT !.run = TRUE]
    /\ joined' = (sweep.at \in {"flag", "shelve"})
    /\ UNCHANGED <<background, issue, pending, acts>>

\* ... and ends, with a move or without.
EndRun(l) ==
    /\ Exists /\ task.run
    /\ l = task.label \/ <<task.label, l>> \in AgentMoves
    /\ task' = [task EXCEPT !.label = l, !.run = FALSE]
    /\ UNCHANGED <<background, issue, pending, acts, joined>>

\* The server stops and starts again (RecoverInterruptedRuns).
Restart ==
    /\ acts < MaxActs /\ acts' = acts + 1
    /\ sweep' = IdleSweep
    /\ hand' = IdleHand
    /\ task' = IF Exists THEN [task EXCEPT !.run = FALSE] ELSE task
    /\ joined' = FALSE
    /\ UNCHANGED <<repo, issue, pending, born, silent>>

Next ==
    \/ SweepStep
    \/ ApplyRead \/ ApplyWrite \/ ApplyClear \/ Discard
    \/ IssueChanges \/ SetArchived \/ DeleteTask \/ StartRun \/ Restart
    \/ \E l \in Labels : HumanMove(l) \/ EndRun(l)
    \/ \E x \in Texts : EditTask(x)

Spec == Init /\ [][Next]_vars

\* The importer's ticker goes on and its fetches succeed in the end, and a
\* handler that began finishes.  People, agents and the forge owe nothing.
FairSpec ==
    /\ Spec
    /\ WF_vars(SweepStep)
    /\ WF_vars(ApplyWrite) /\ WF_vars(ApplyClear)

-----------------------------------------------------------------------------
(* Properties.                                                             *)

TypeOK ==
    /\ repo \in Settings
    /\ issue \in Issues
    /\ task \in TaskRows \cup {NoTask}
    /\ Exists => task.id = born
    /\ pending \in Edits
    /\ born \in 0..MaxTasks
    /\ sweep \in Sweeps /\ hand \in Hands
    /\ sweep.at \notin {"idle", "list", "flag", "shelve"} => sweep.item \in Texts
    /\ hand.at # "idle" => hand.text \in Texts
    /\ acts \in 0..MaxActs /\ silent \in Nat /\ joined \in BOOLEAN

\* "once a human has approved the task, an upstream edit must not silently
\* change what the agent was approved to do" (importer.go:650-652).  Nothing
\* ties the write to the check, so the sweep that asked before the approval may
\* still write: at most one edit gets past a person, and none once the check
\* came after the approval.
ApprovalHolds == silent <= 1

\* "A task with an active agent run is only ever flagged, never archived or
\* moved" (importer.go:829-831), unless the run began while the sweep passed.
RunningIsLeft ==
    [][Shelve /\ Exists /\ task.run /\ task' # task => joined]_vars

\* The task shows what its issue says: as its text, or as an edit a person has
\* been asked about; and that the issue is gone or back.
Surfaced(text) == Exists /\ ~task.gone /\ text \in {task.text, pending.text}

\* Once nobody touches the issue any more and the task stays where upstream
\* edits are taken, the sweeps make the task show it, whatever edits were held,
\* applied from an older state or discarded, and however sweeps were cut off.
BoardFollows ==
    /\ \A x \in Texts :
         <>[](issue = [open |-> TRUE, text |-> x] /\ Exists /\ UpdateAllowed(task.label))
             => <>[]Surfaced(x)
    /\ <>[](~issue.open /\ Exists) => <>[](Exists /\ task.gone)
    /\ <>[](issue.open /\ Exists) => <>[](Exists /\ ~task.gone)

=============================================================================
