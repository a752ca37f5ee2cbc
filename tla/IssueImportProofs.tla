-------------------------- MODULE IssueImportProofs --------------------------
(***************************************************************************)
(* What the importer keeps of a person's approval and of a running agent,  *)
(* for every workflow, every repository and any number of imports.         *)
(***************************************************************************)
EXTENDS IssueImport, TLAPS

\* The importer creates a task only in place of one that was deleted.
Room == ~Exists \/ sweep.at = "create" => born < MaxTasks

\* No edit has got past a task nobody approved, nor past one whose approval
\* the sweep that is about to write does not know of.
Unspent ==
    /\ Exists /\ ~task.approved => silent = 0
    /\ sweep.at = "write" /\ Is(sweep.id) => silent = 0

\* A run the sweep does not know of began after the task was listed.
Noticed ==
    /\ sweep.at = "shelve" => ~sweep.busy
    /\ sweep.at \in {"flag", "shelve"} /\ ~sweep.busy /\ Is(sweep.id) /\ task.run
          => joined

IInv == TypeOK /\ Room /\ Unspent /\ Noticed /\ ApprovalHolds

USE ConstantsAssumption DEF ConstantsAssumption
USE NoTaskAssumption

-----------------------------------------------------------------------------
\* The records the steps build.
LEMMA FetchedFacts ==
    ASSUME NEW a \in SweepPoints, NEW x \in Texts \cup {NoText}
    PROVE  Fetched(a, x) \in Sweeps /\ Fetched(a, x).at = a /\ Fetched(a, x).item = x
BY DEF Sweeps, Fetched

LEMMA IdleFacts ==
    /\ IdleSweep \in Sweeps /\ IdleSweep.at = "idle"
    /\ IdleHand \in Hands /\ IdleHand.at = "idle"
    /\ NoPending \in Edits
BY FetchedFacts DEF IdleSweep, SweepPoints, IdleHand, Hands, NoPending, Edits

LEMMA SweepGoesOn ==
    ASSUME NEW s \in Sweeps, NEW a \in SweepPoints
    PROVE  /\ [s EXCEPT !.at = a] \in Sweeps
           /\ [s EXCEPT !.at = a].at = a
           /\ [s EXCEPT !.at = a].item = s.item
           /\ [s EXCEPT !.at = a].id = s.id
           /\ [s EXCEPT !.at = a].busy = s.busy
BY DEF Sweeps

\* A row keeps its number whatever is written to it.
LEMMA RowFacts ==
    ASSUME NEW row \in TaskRows
    PROVE  /\ row # NoTask /\ row.id \in 1..MaxTasks
           /\ row.run \in BOOLEAN /\ row.approved \in BOOLEAN /\ row.gone \in BOOLEAN
           /\ row.label \in Labels /\ row.text \in Texts
           /\ \A x \in Texts :
                 /\ [row EXCEPT !.text = x] \in TaskRows
                 /\ [row EXCEPT !.text = x].id = row.id
                 /\ [row EXCEPT !.text = x].run = row.run
                 /\ [row EXCEPT !.text = x].approved = row.approved
           /\ \A b \in BOOLEAN :
                 /\ [row EXCEPT !.gone = b] \in TaskRows
                 /\ [row EXCEPT !.gone = b].id = row.id
                 /\ [row EXCEPT !.gone = b].run = row.run
                 /\ [row EXCEPT !.gone = b].approved = row.approved
BY DEF TaskRows

LEMMA MoreRowFacts ==
    ASSUME NEW row \in TaskRows, NEW b \in BOOLEAN, NEW l \in Labels
    PROVE  /\ [row EXCEPT !.archived = b] \in TaskRows
           /\ [row EXCEPT !.archived = b].id = row.id
           /\ [row EXCEPT !.archived = b].run = row.run
           /\ [row EXCEPT !.archived = b].approved = row.approved
           /\ [row EXCEPT !.run = b] \in TaskRows
           /\ [row EXCEPT !.run = b].id = row.id
           /\ [row EXCEPT !.run = b].run = b
           /\ [row EXCEPT !.run = b].approved = row.approved
           /\ [row EXCEPT !.label = l, !.run = b] \in TaskRows
           /\ [row EXCEPT !.label = l, !.run = b].id = row.id
           /\ [row EXCEPT !.label = l, !.run = b].run = b
           /\ [row EXCEPT !.label = l, !.run = b].approved = row.approved
           /\ row.archived \in BOOLEAN
BY DEF TaskRows

LEMMA MovedFacts ==
    ASSUME task \in TaskRows, NEW l \in Labels
    PROVE  /\ Moved(l) \in TaskRows /\ Moved(l).id = task.id
           /\ Moved(l).run = FALSE
           /\ task.approved => Moved(l).approved
BY DEF TaskRows, Moved

-----------------------------------------------------------------------------
THEOREM InitIInv == Init => IInv
<1> SUFFICES ASSUME Init PROVE IInv
    OBVIOUS
<1>1. /\ repo \in Settings /\ issue \in Issues /\ pending \in Edits
      /\ sweep \in Sweeps /\ sweep.at = "idle" /\ hand \in Hands /\ hand.at = "idle"
  BY IdleFacts DEF Init
<1>2. TypeOK
  <2>1. task \in TaskRows \cup {NoTask} /\ ~Exists
    BY DEF Init, Exists
  <2>2. born \in 0..MaxTasks /\ acts \in 0..MaxActs /\ silent \in Nat
    BY SMT DEF Init
  <2>3. joined \in BOOLEAN
    BY Zenon DEF Init
  <2> QED BY <1>1, <2>1, <2>2, <2>3 DEF TypeOK
<1>3. Room /\ Unspent /\ Noticed /\ ApprovalHolds
  BY <1>1 DEF Init, Room, Unspent, Noticed, ApprovalHolds, Exists, Is
<1> QED BY <1>2, <1>3 DEF IInv

-----------------------------------------------------------------------------
(* The sweep.  No step of it but the create touches born, and it only      *)
(* writes rows it finds.                                                   *)

LEMMA FetchStep == ASSUME IInv, Fetch PROVE IInv'
<1>1. /\ sweep' \in Sweeps
      /\ sweep'.at \in {"look", "list"}
      /\ sweep'.at = "look" => sweep'.item \in Texts
  <2>1. issue.text \in Texts
    BY DEF IInv, TypeOK, Issues
  <2>2. CASE issue.open
    <3>1. sweep' = Fetched("look", issue.text)
      BY <2>2 DEF Fetch
    <3>2. "look" \in SweepPoints /\ issue.text \in Texts \cup {NoText}
      BY <2>1 DEF SweepPoints
    <3> QED BY <2>1, <3>1, <3>2, FetchedFacts
  <2>3. CASE ~issue.open
    <3>1. sweep' = Fetched("list", NoText)
      BY <2>3 DEF Fetch
    <3>2. "list" \in SweepPoints /\ NoText \in Texts \cup {NoText}
      BY DEF SweepPoints
    <3> QED BY <3>1, <3>2, FetchedFacts
  <2> QED BY <2>2, <2>3
<1> QED BY <1>1 DEF IInv, TypeOK, Room, Unspent, Noticed, ApprovalHolds, Fetch, rest,
           Exists, Is

LEMMA LookStep == ASSUME IInv, Look PROVE IInv'
<1>1. /\ sweep' \in Sweeps
      /\ sweep'.at \in {"idle", "create", "clear", "drop", "history"}
      /\ sweep'.at # "idle" => sweep'.item = sweep.item
      /\ sweep'.at = "create" => ~Exists
  <2>1. CASE ~Exists
    BY <2>1, SweepGoesOn DEF IInv, TypeOK, Look, SweepPoints
  <2>2. CASE Exists
    <3>1. AfterLook(task) \in {"idle", "drop", "history"} /\ task.id \in 0..MaxTasks
      BY <2>2, RowFacts DEF IInv, TypeOK, Exists, AfterLook
    <3> QED BY <2>2, <3>1, IdleFacts DEF IInv, TypeOK, Look, Sweeps, SweepPoints
  <2> QED BY <2>1, <2>2
<1> QED BY <1>1 DEF IInv, TypeOK, Room, Unspent, Noticed, ApprovalHolds, Look, rest,
           Exists, Is

LEMMA ListStep == ASSUME IInv, ListMissing PROVE IInv'
<1>1. /\ sweep' \in Sweeps
      /\ sweep'.at \in {"idle", "flag"}
      /\ sweep'.at = "flag" => sweep'.busy = task.run
  <2>1. CASE ~Exists \/ task.gone
    BY <2>1, IdleFacts DEF ListMissing
  <2>2. CASE ~(~Exists \/ task.gone)
    BY <2>2, RowFacts DEF IInv, TypeOK, Exists, ListMissing, Busy, Sweeps, SweepPoints
  <2> QED BY <2>1, <2>2
<1> QED BY <1>1, RowFacts DEF IInv, TypeOK, Room, Unspent, Noticed, ApprovalHolds,
           ListMissing, rest, Exists, Is

LEMMA ClearStep == ASSUME IInv, ClearGone PROVE IInv'
<1>1. /\ sweep' \in Sweeps
      /\ sweep'.at \in {"idle", "drop", "history"}
      /\ sweep'.at # "idle" => sweep'.item = sweep.item
  <2>1. sweep.next \in {"idle", "drop", "history"}
    BY DEF IInv, TypeOK, Sweeps
  <2>2. CASE sweep.next = "idle"
    BY <2>2, IdleFacts DEF ClearGone
  <2>3. CASE sweep.next # "idle"
    <3>1. sweep' = [sweep EXCEPT !.at = sweep.next] /\ sweep \in Sweeps
      BY <2>3 DEF ClearGone, IInv, TypeOK
    <3>2. sweep.next \in SweepPoints /\ sweep.next \in {"drop", "history"}
      BY <2>1, <2>3 DEF SweepPoints
    <3> QED BY <3>1, <3>2, SweepGoesOn
  <2> QED BY <2>2, <2>3
<1>2. /\ task' \in TaskRows \cup {NoTask}
      /\ (task' = NoTask) <=> (task = NoTask)
      /\ task # NoTask => task'.id = task.id /\ task'.approved = task.approved
  BY RowFacts DEF IInv, TypeOK, ClearGone, Is, Exists
<1> QED BY <1>1, <1>2 DEF IInv, TypeOK, Room, Unspent, Noticed, ApprovalHolds, ClearGone,
           rest, Exists, Is

LEMMA DropStep == ASSUME IInv, DropPending PROVE IInv'
BY IdleFacts DEF IInv, TypeOK, Room, Unspent, Noticed, ApprovalHolds, DropPending, rest,
   Exists, Is

LEMMA HistoryStep == ASSUME IInv, ReadHistory PROVE IInv'
<1>1. /\ sweep' \in Sweeps
      /\ sweep'.at \in {"hold", "write"}
      /\ sweep'.item = sweep.item /\ sweep'.id = sweep.id
      /\ sweep'.at = "write" => ~ApprovedByHuman(sweep.id)
  <2> DEFINE a == IF ApprovedByHuman(sweep.id) THEN "hold" ELSE "write"
  <2>1. sweep' = [sweep EXCEPT !.at = a] /\ sweep \in Sweeps
    BY DEF ReadHistory, IInv, TypeOK
  <2>2. a \in SweepPoints /\ a \in {"hold", "write"}
    BY DEF SweepPoints
  <2>3. a = "write" => ~ApprovedByHuman(sweep.id)
    OBVIOUS
  <2> HIDE DEF a
  <2> QED BY <2>1, <2>2, <2>3, SweepGoesOn
<1>2. sweep.item \in Texts
  BY DEF IInv, TypeOK, ReadHistory
<1> QED BY <1>1, <1>2 DEF IInv, TypeOK, Room, Unspent, Noticed, ApprovalHolds, ReadHistory,
           rest, Exists, Is, ApprovedByHuman

LEMMA HoldStep == ASSUME IInv, HoldPending PROVE IInv'
<1>1. pending' \in Edits
  BY DEF IInv, TypeOK, HoldPending, Upserted, Edits
<1> QED BY <1>1, IdleFacts DEF IInv, TypeOK, Room, Unspent, Noticed, ApprovalHolds,
           HoldPending, rest, Exists, Is

\* The one step that can write past an approval: nothing had before.
LEMMA WriteStep == ASSUME IInv, WriteTask PROVE IInv'
<1>1. sweep' \in Sweeps /\ sweep'.at = "idle" /\ sweep.item \in Texts
  BY IdleFacts DEF IInv, TypeOK, WriteTask
<1>2. /\ task' \in TaskRows \cup {NoTask}
      /\ (task' = NoTask) <=> (task = NoTask)
      /\ task # NoTask => task'.id = task.id /\ task'.approved = task.approved
  BY <1>1, RowFacts DEF IInv, TypeOK, WriteTask, Is, Exists
<1>3. /\ silent' \in Nat /\ silent' <= 1
      /\ Exists /\ ~task.approved => silent' = 0
  BY DEF IInv, TypeOK, Unspent, ApprovalHolds, WriteTask, Is
<1> QED BY <1>1, <1>2, <1>3 DEF IInv, TypeOK, Room, Unspent, Noticed, ApprovalHolds,
           WriteTask, rest, Exists, Is

LEMMA CreateStep == ASSUME IInv, NEW l \in FirstLabels, CreateTask(l) PROVE IInv'
<1>1. sweep' \in Sweeps /\ sweep'.at = "idle"
  BY IdleFacts DEF CreateTask
<1>2. /\ born' \in 1..MaxTasks /\ born' \in 0..MaxTasks
  BY DEF IInv, TypeOK, Room, CreateTask
<1>3. /\ task' \in TaskRows /\ task'.id = born' /\ task' # NoTask
  <2>1. sweep.item \in Texts /\ l \in Labels
    BY DEF IInv, TypeOK, CreateTask
  <2>2. task' \in TaskRows /\ task'.id = born'
    BY <1>2, <2>1 DEF TaskRows, CreateTask
  <2> QED BY <2>2
<1> QED BY <1>1, <1>2, <1>3 DEF IInv, TypeOK, Room, Unspent, Noticed, ApprovalHolds,
           CreateTask, rest, Exists, Is

LEMMA FlagStep == ASSUME IInv, FlagGone PROVE IInv'
<1>1. /\ sweep' \in Sweeps
      /\ sweep'.at \in {"idle", "shelve"}
      /\ sweep'.at = "shelve" => ~sweep.busy /\ sweep'.busy = sweep.busy
                                 /\ sweep'.id = sweep.id
  BY IdleFacts, SweepGoesOn DEF IInv, TypeOK, FlagGone, SweepPoints
<1>2. /\ task' \in TaskRows \cup {NoTask}
      /\ (task' = NoTask) <=> (task = NoTask)
      /\ task # NoTask => /\ task'.id = task.id /\ task'.approved = task.approved
                          /\ task'.run = task.run
  BY RowFacts DEF IInv, TypeOK, FlagGone, Is, Exists
<1>3. joined' \in BOOLEAN
  BY Zenon DEF FlagGone
<1>4. sweep'.at = "shelve" /\ joined => joined'
  BY Zenon DEF FlagGone
<1> QED BY <1>1, <1>2, <1>3, <1>4 DEF IInv, TypeOK, Room, Unspent, Noticed, ApprovalHolds,
           FlagGone, rest, Exists, Is

LEMMA ShelveStep == ASSUME IInv, Shelve PROVE IInv'
<1>1. sweep' \in Sweeps /\ sweep'.at = "idle"
  BY IdleFacts DEF Shelve
<1>2. /\ task' \in TaskRows \cup {NoTask}
      /\ (task' = NoTask) <=> (task = NoTask)
      /\ task # NoTask => /\ task'.id = task.id
                          /\ task.approved => task'.approved
  <2>1. CASE ~Is(sweep.id)
    BY <2>1 DEF Shelve, IInv, TypeOK
  <2>2. CASE Is(sweep.id)
    <3>1. task \in TaskRows /\ task # NoTask
      BY <2>2 DEF IInv, TypeOK, Is, Exists
    <3>2. \/ task' = [task EXCEPT !.archived = TRUE]
          \/ task' = Moved(GoneLabel)
          \/ task' = task
      BY <2>2 DEF Shelve
    <3>3. CASE task' = [task EXCEPT !.archived = TRUE]
      <4>1. TRUE \in BOOLEAN /\ GoneLabel \in Labels
        OBVIOUS
      <4>2. /\ [task EXCEPT !.archived = TRUE] \in TaskRows
            /\ [task EXCEPT !.archived = TRUE].id = task.id
            /\ [task EXCEPT !.archived = TRUE].approved = task.approved
        BY <3>1, <4>1, MoreRowFacts
      <4> QED BY <3>1, <3>3, <4>2, RowFacts
    <3>4. CASE task' = Moved(GoneLabel)
      BY <3>1, <3>4, RowFacts, MovedFacts
    <3>5. CASE task' = task
      BY <3>1, <3>5
    <3> QED BY <3>2, <3>3, <3>4, <3>5
  <2> QED BY <2>1, <2>2
<1>3. joined' \in BOOLEAN
  BY Zenon DEF Shelve
<1> QED BY <1>1, <1>2, <1>3 DEF IInv, TypeOK, Room, Unspent, Noticed, ApprovalHolds,
           Shelve, rest, Exists, Is

-----------------------------------------------------------------------------
(* The handlers.  They read and write the texts, nothing else.             *)

LEMMA ApplyReadStep == ASSUME IInv, ApplyRead PROVE IInv'
<1>1. hand' \in Hands /\ hand'.text \in Texts
  <2>1. task \in TaskRows /\ task.id \in 0..MaxTasks
    BY RowFacts DEF IInv, TypeOK, ApplyRead, Exists
  <2>2. pending.text \in Texts
    BY DEF IInv, TypeOK, ApplyRead, Edits, NoPending
  <2> QED BY <2>1, <2>2 DEF ApplyRead, Hands
<1> QED BY <1>1 DEF IInv, TypeOK, Room, Unspent, Noticed, ApprovalHolds, ApplyRead, others,
           Exists, Is

LEMMA ApplyWriteStep == ASSUME IInv, ApplyWrite PROVE IInv'
<1>1. hand.text \in Texts /\ hand \in Hands
  BY DEF IInv, TypeOK, ApplyWrite
<1>2. hand' \in Hands /\ (hand'.at # "idle" => hand'.text \in Texts)
  BY <1>1, IdleFacts DEF ApplyWrite, Hands
<1>3. /\ task' \in TaskRows \cup {NoTask}
      /\ (task' = NoTask) <=> (task = NoTask)
      /\ task # NoTask => /\ task'.id = task.id /\ task'.approved = task.approved
                          /\ task'.run = task.run
  BY <1>1, RowFacts DEF IInv, TypeOK, ApplyWrite, Is, Exists
<1> QED BY <1>2, <1>3 DEF IInv, TypeOK, Room, Unspent, Noticed, ApprovalHolds, ApplyWrite,
           others, Exists, Is

LEMMA ApplyClearStep == ASSUME IInv, ApplyClear PROVE IInv'
BY IdleFacts DEF IInv, TypeOK, Room, Unspent, Noticed, ApprovalHolds, ApplyClear, others,
   Exists, Is

LEMMA DiscardStep == ASSUME IInv, Discard PROVE IInv'
<1>1. pending' \in Edits
  BY DEF IInv, TypeOK, Discard, Edits
<1> QED BY <1>1 DEF IInv, TypeOK, Room, Unspent, Noticed, ApprovalHolds, Discard, others,
           Exists, Is

-----------------------------------------------------------------------------
(* People, agents and the forge.                                           *)

LEMMA IssueStep == ASSUME IInv, IssueChanges PROVE IInv'
BY DEF IInv, TypeOK, Room, Unspent, Noticed, ApprovalHolds, IssueChanges, background,
   Exists, Is

LEMMA HumanMoveStep == ASSUME IInv, NEW l \in Labels, HumanMove(l) PROVE IInv'
<1>1. /\ task \in TaskRows
      /\ task' \in TaskRows /\ task'.id = task.id /\ task'.run = FALSE
      /\ task.approved => task'.approved
      /\ task # NoTask /\ task' # NoTask
  BY RowFacts, MovedFacts DEF IInv, TypeOK, HumanMove, Exists
<1> QED BY <1>1 DEF IInv, TypeOK, Room, Unspent, Noticed, ApprovalHolds, HumanMove,
           background, Exists, Is

LEMMA ArchiveStep == ASSUME IInv, SetArchived PROVE IInv'
<1>1. task \in TaskRows /\ task # NoTask
  BY DEF IInv, TypeOK, SetArchived, Exists
<1>2. (~task.archived) \in BOOLEAN /\ GoneLabel \in Labels
  OBVIOUS
<1>3. /\ task' \in TaskRows /\ task'.id = task.id /\ task'.run = task.run
      /\ task'.approved = task.approved
  <2> DEFINE b == ~task.archived
  <2>1. task' = [task EXCEPT !.archived = b] /\ b \in BOOLEAN
    BY <1>2 DEF SetArchived
  <2> HIDE DEF b
  <2> QED BY <1>1, <2>1 DEF TaskRows
<1> QED BY <1>1, <1>3, RowFacts DEF IInv, TypeOK, Room, Unspent, Noticed, ApprovalHolds,
           SetArchived, background, Exists, Is

LEMMA EditStep == ASSUME IInv, NEW x \in Texts, EditTask(x) PROVE IInv'
<1>1. task \in TaskRows /\ task # NoTask
  BY DEF IInv, TypeOK, EditTask, Exists
<1>2. /\ task' \in TaskRows /\ task'.id = task.id /\ task'.run = task.run
      /\ task'.approved = task.approved
  BY <1>1, RowFacts DEF EditTask
<1>3. acts' \in 0..MaxActs
  BY DEF IInv, TypeOK, EditTask
<1> QED BY <1>1, <1>2, <1>3, RowFacts DEF IInv, TypeOK, Room, Unspent, Noticed,
           ApprovalHolds, EditTask, background, Exists, Is

LEMMA DeleteStep == ASSUME IInv, DeleteTask PROVE IInv'
<1>1. born < MaxTasks /\ task' = NoTask /\ pending' \in Edits
  BY IdleFacts DEF DeleteTask
<1> QED BY <1>1 DEF IInv, TypeOK, Room, Unspent, Noticed, ApprovalHolds, DeleteTask,
           background, Exists, Is

\* The only step that makes a row busy, which is when it counts as seen.
LEMMA StartStep == ASSUME IInv, StartRun PROVE IInv'
<1>1. task \in TaskRows /\ task # NoTask
  BY DEF IInv, TypeOK, StartRun, Exists
<1>2. TRUE \in BOOLEAN /\ GoneLabel \in Labels
  OBVIOUS
<1>3. /\ task' \in TaskRows /\ task'.id = task.id /\ task'.approved = task.approved
  BY <1>1, <1>2, MoreRowFacts DEF StartRun
<1>4. joined' \in BOOLEAN
  <2>1. joined' = (sweep.at \in {"flag", "shelve"})
    BY DEF StartRun
  <2>2. (sweep.at \in {"flag", "shelve"}) \in BOOLEAN
    OBVIOUS
  <2> QED BY <2>1, <2>2, Zenon
<1>5. sweep.at \in {"flag", "shelve"} => joined'
  BY Zenon DEF StartRun
<1> QED BY <1>1, <1>3, <1>4, <1>5, RowFacts DEF IInv, TypeOK, Room, Unspent, Noticed,
           ApprovalHolds, StartRun, background, Exists, Is

LEMMA EndStep == ASSUME IInv, NEW l \in Labels, EndRun(l) PROVE IInv'
<1>1. task \in TaskRows /\ task # NoTask
  BY DEF IInv, TypeOK, EndRun, Exists
<1>2. FALSE \in BOOLEAN
  OBVIOUS
<1>3. /\ task' \in TaskRows /\ task'.id = task.id /\ task'.approved = task.approved
      /\ task'.run = FALSE
  <2>1. task' = [task EXCEPT !.label = l, !.run = FALSE]
    BY DEF EndRun
  <2>2. /\ [task EXCEPT !.label = l, !.run = FALSE] \in TaskRows
        /\ [task EXCEPT !.label = l, !.run = FALSE].id = task.id
        /\ [task EXCEPT !.label = l, !.run = FALSE].run = FALSE
        /\ [task EXCEPT !.label = l, !.run = FALSE].approved = task.approved
    BY <1>1 DEF TaskRows
  <2> QED BY <2>1, <2>2
<1> QED BY <1>1, <1>3, RowFacts DEF IInv, TypeOK, Room, Unspent, Noticed, ApprovalHolds,
           EndRun, background, Exists, Is

LEMMA RestartStep == ASSUME IInv, Restart PROVE IInv'
<1>1. /\ task' \in TaskRows \cup {NoTask}
      /\ (task' = NoTask) <=> (task = NoTask)
      /\ task # NoTask => task'.id = task.id /\ task'.approved = task.approved
  <2>1. CASE Exists
    <3>1. task \in TaskRows /\ FALSE \in BOOLEAN /\ GoneLabel \in Labels
      BY <2>1 DEF IInv, TypeOK, Exists
    <3>2. /\ [task EXCEPT !.run = FALSE] \in TaskRows
          /\ [task EXCEPT !.run = FALSE].id = task.id
          /\ [task EXCEPT !.run = FALSE].approved = task.approved
      BY <3>1, MoreRowFacts
    <3> QED BY <2>1, <3>1, <3>2, RowFacts DEF Restart
  <2>2. CASE ~Exists
    BY <2>2 DEF Restart, Exists
  <2> QED BY <2>1, <2>2
<1>2. acts' \in 0..MaxActs
  BY DEF IInv, TypeOK, Restart
<1> QED BY <1>1, <1>2, IdleFacts DEF IInv, TypeOK, Room, Unspent, Noticed, ApprovalHolds,
           Restart, Exists, Is

-----------------------------------------------------------------------------
THEOREM Invariance == Spec => []IInv
<1>1. IInv /\ [Next]_vars => IInv'
  <2> SUFFICES ASSUME IInv, [Next]_vars PROVE IInv'
    OBVIOUS
  <2>1. CASE SweepStep
    BY <2>1, FetchStep, LookStep, ClearStep, DropStep, HistoryStep, HoldStep, WriteStep,
       CreateStep, ListStep, FlagStep, ShelveStep DEF SweepStep
  <2>2. CASE ApplyRead \/ ApplyWrite \/ ApplyClear \/ Discard
    BY <2>2, ApplyReadStep, ApplyWriteStep, ApplyClearStep, DiscardStep
  <2>3. CASE IssueChanges \/ SetArchived \/ DeleteTask \/ StartRun \/ Restart
    BY <2>3, IssueStep, ArchiveStep, DeleteStep, StartStep, RestartStep
  <2>4. CASE \E l \in Labels : HumanMove(l) \/ EndRun(l)
    BY <2>4, HumanMoveStep, EndStep
  <2>5. CASE \E x \in Texts : EditTask(x)
    BY <2>5, EditStep
  <2>6. CASE UNCHANGED vars
    BY <2>6 DEF vars, IInv, TypeOK, Room, Unspent, Noticed, ApprovalHolds, Exists, Is
  <2> QED BY <2>1, <2>2, <2>3, <2>4, <2>5, <2>6 DEF Next
<1> QED BY InitIInv, <1>1, PTL DEF Spec

\* Every row, held edit, sweep and handler keeps its form, and the newest
\* task is the one the issue has.
THEOREM TypeCorrect == Spec => []TypeOK
BY Invariance, PTL DEF IInv

\* "an upstream edit must not silently change what the agent was approved to
\* do": at most one does, and only under a sweep that asked before.
THEOREM ApprovalKept == Spec => []ApprovalHolds
BY Invariance, PTL DEF IInv

\* The importer archives or moves a task under a run only if the run began
\* after the task was listed.
THEOREM RunningLeft == Spec => RunningIsLeft
<1>1. IInv /\ [Next]_vars
        => [Shelve /\ Exists /\ task.run /\ task' # task => joined]_vars
  BY DEF IInv, Noticed, Shelve, Is
<1> QED BY Invariance, <1>1, PTL DEF Spec, RunningIsLeft

=============================================================================
