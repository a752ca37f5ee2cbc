----------------------- MODULE SideEffectOutboxProofs -----------------------
(***************************************************************************)
(* What the outbox guarantees for every number of tasks, every workflow    *)
(* and every attempt budget.                                               *)
(***************************************************************************)
EXTENDS SideEffectOutbox, TLAPS

\* A row that is not parked still has an attempt left, and a row just
\* enqueued has them all (runSideEffect, RequeueFailedTaskSideEffects).
BudgetKept ==
    \A row \in Rows :
        /\ st[row] \in {"pending", "running"} => tries[row] < MaxAttempts
        /\ st[row] = "none" => tries[row] = 0

\* The row the worker holds is the one it has marked running.
HeldIsRunning == current # NoRow => st[current] = "running"

\* Only a process that is down has no worker.
WorkerUp == step = "off" <=> mode = "down"

IInv == /\ TypeOK /\ HeldIsRunning /\ WorkerUp
        /\ EffectNotLost /\ RunningIsExplained /\ BudgetKept

USE ConstantsAssumption, NoRowAssumption

-----------------------------------------------------------------------------
LEMMA RowFacts ==
    /\ \A t \in Tasks, k \in Kinds, i \in Copies :
          /\ <<t, k, i>> \in Rows
          /\ TaskOf(<<t, k, i>>) = t /\ KindOf(<<t, k, i>>) = k
    /\ \A row \in Rows :
          /\ TaskOf(row) \in Tasks /\ KindOf(row) \in Kinds /\ row # NoRow
          /\ \E i \in Copies : row = <<TaskOf(row), KindOf(row), i>>
BY DEF Rows, TaskOf, KindOf

\* A fresh row is one its task did not use.
LEMMA FreshRowIsUnused ==
    ASSUME NEW t \in Tasks, NEW k \in Kinds, Unused(t, k) # {}
    PROVE  /\ FreshRow(t, k) \in Rows /\ st[FreshRow(t, k)] = "none"
           /\ \E i \in Copies : FreshRow(t, k) = <<t, k, i>>
BY DEF FreshRow, Unused, Rows

THEOREM InitIInv == Init => IInv
<1> SUFFICES ASSUME Init PROVE IInv
    OBVIOUS
<1>1. TypeOK
  BY RowFacts DEF Init, TypeOK, GitStates, Statuses, Steps, Passes, NoPass,
     SyncSteps, Modes, Debts
<1>2. EffectNotLost
  BY DEF Init, EffectNotLost
<1>3. RunningIsExplained /\ BudgetKept /\ HeldIsRunning /\ WorkerUp
  BY DEF Init, RunningIsExplained, BudgetKept, HeldIsRunning, WorkerUp
<1> QED BY <1>1, <1>2, <1>3 DEF IInv

-----------------------------------------------------------------------------
\* What the invariant says about rows carries over when no row loses its run
\* and no debt changes.
LEMMA MoveToStep ==
    ASSUME IInv, NEW t \in Tasks, NEW to \in Labels, MoveTo(t, to),
           UNCHANGED <<workerVars, processVars>>, sync' \in [Tasks -> Passes]
    PROVE  IInv'
<1> DEFINE kinds == EffectsOf(label[t], to)
           unmet == {k \in kinds : ~Waiting(t, k)}
           added == {FreshRow(t, k) : k \in unmet}
<1>1. kinds \subseteq Kinds
  BY DEF EffectsOf
<1>2. \A row \in added : row \in Rows /\ st[row] = "none"
  BY <1>1, FreshRowIsUnused DEF MoveTo
<1>3. /\ st' = [row \in Rows |-> IF row \in added THEN "pending" ELSE st[row]]
      /\ owed' = [owed EXCEPT ![t] = [k \in Kinds |->
                      IF k \in kinds THEN "owed" ELSE owed[t][k]]]
      /\ label' = [label EXCEPT ![t] = to]
      /\ UNCHANGED <<git, worktree, tries, stranded, step, current, mode, stops>>
  BY DEF MoveTo, workerVars, processVars
<1> HIDE DEF kinds, added
<1>4. TypeOK'
  BY <1>1, <1>3 DEF IInv, TypeOK, Statuses, Debts
<1>5. EffectNotLost'
  <2> SUFFICES ASSUME NEW u \in Tasks, NEW k \in Kinds
               PROVE  /\ owed'[u][k] = "owed" => \E i \in Copies : Carries(<<u, k, i>>)'
                      /\ owed'[u][k] = "inhand" => \E i \in Copies : Read(<<u, k, i>>)'
    BY DEF EffectNotLost
  <2>1. \A row \in Rows :
           /\ Carries(row) => Carries(row)'
           /\ Read(row) => Read(row)'
           /\ row \in added => Carries(row)'
    BY <1>2, <1>3 DEF IInv, HeldIsRunning, TypeOK, Carries, Read, Exists
  <2>2. CASE u = t /\ k \in kinds
    <3>1. owed'[u][k] = "owed"
      BY <1>3, <2>2 DEF IInv, TypeOK
    <3>2. CASE Waiting(t, k)
      <4>1. PICK i \in Copies : st[<<t, k, i>>] = "pending"
        BY <3>2 DEF Waiting
      <4>2. Carries(<<t, k, i>>)
        BY <4>1, RowFacts DEF IInv, HeldIsRunning, TypeOK, Carries, Read, Exists
      <4> QED BY <4>2, <3>1, <2>1, <2>2, RowFacts DEF Carries, Read, Exists
    <3>3. CASE ~Waiting(t, k)
      <4>1. Unused(t, k) # {} /\ FreshRow(t, k) \in added
        BY <3>3, <2>2 DEF MoveTo, kinds, added
      <4>2. \E i \in Copies : <<t, k, i>> \in added
        BY <4>1, FreshRowIsUnused
      <4> QED BY <4>2, <3>1, <2>1, <2>2, RowFacts DEF Carries, Read, Exists
    <3> QED BY <3>2, <3>3
  <2>3. CASE ~(u = t /\ k \in kinds)
    <3>1. owed'[u][k] = owed[u][k]
      BY <1>3, <2>3 DEF IInv, TypeOK
    <3>2. ASSUME NEW i \in Copies, Carries(<<u, k, i>>) PROVE Carries(<<u, k, i>>)'
      BY <3>2, <2>1, RowFacts DEF Carries, Read, Exists
    <3>3. ASSUME NEW i \in Copies, Read(<<u, k, i>>) PROVE Read(<<u, k, i>>)'
      <4>1. <<u, k, i>> \in Rows
        BY RowFacts
      <4> QED BY <3>3, <2>1, <4>1 DEF Carries, Read, Exists
    <3> QED BY <3>1, <3>2, <3>3 DEF IInv, EffectNotLost
  <2> QED BY <2>2, <2>3
<1>6. HeldIsRunning' /\ WorkerUp' /\ RunningIsExplained' /\ BudgetKept'
  BY <1>2, <1>3 DEF IInv, TypeOK, HeldIsRunning, WorkerUp, RunningIsExplained,
     BudgetKept
<1> QED BY <1>4, <1>5, <1>6 DEF IInv

\* Deleting waiting or parked rows writes off what no other row carries.
LEMMA DeleteStep ==
    ASSUME IInv, NEW doomed \in SUBSET Rows, Delete(doomed),
           \A row \in doomed : st[row] \in {"pending", "failed"},
           UNCHANGED <<taskVars, workerVars, processVars, stranded>>,
           sync' \in [Tasks -> Passes]
    PROVE  IInv'
<1> USE DEF Delete, taskVars, workerVars, processVars
<1>1. TypeOK'
  BY DEF IInv, TypeOK, Statuses, Debts
<1>2. \A row \in Rows :
         /\ Carries(row) /\ row \notin doomed => Carries(row)'
         /\ Read(row) => Read(row)'
  BY DEF IInv, TypeOK, Carries, Read, Exists
<1>3. EffectNotLost'
  <2> SUFFICES ASSUME NEW t \in Tasks, NEW k \in Kinds
               PROVE  /\ owed'[t][k] = "owed" => \E i \in Copies : Carries(<<t, k, i>>)'
                      /\ owed'[t][k] = "inhand" => \E i \in Copies : Read(<<t, k, i>>)'
    BY DEF EffectNotLost
  <2>1. CASE owed[t][k] = "owed" /\ owed'[t][k] = "owed"
    <3>1. PICK i \in Copies : Carries(<<t, k, i>>) /\ <<t, k, i>> \notin doomed
      BY <2>1
    <3> QED BY <2>1, <3>1, <1>2, RowFacts
  <2>2. CASE owed[t][k] = "inhand"
    <3>1. PICK i \in Copies : Read(<<t, k, i>>)
      BY <2>2 DEF IInv, EffectNotLost
    <3> QED BY <2>2, <3>1, <1>2, RowFacts
  <2>3. owed'[t][k] # owed[t][k] => owed'[t][k] = "no"
    OBVIOUS
  <2> QED BY <2>1, <2>2, <2>3
<1>4. HeldIsRunning' /\ WorkerUp' /\ RunningIsExplained' /\ BudgetKept'
  BY DEF IInv, TypeOK, HeldIsRunning, WorkerUp, RunningIsExplained, BudgetKept
<1> QED BY <1>1, <1>3, <1>4 DEF IInv

-----------------------------------------------------------------------------
\* Steps that touch neither rows nor the worker.
LEMMA OutsideStep ==
    ASSUME IInv, UNCHANGED <<rowVars, workerVars, processVars, owed, stranded>>,
           label' \in [Tasks -> Labels], git' \in [Tasks -> GitStates],
           worktree' \in [Tasks -> BOOLEAN], sync' \in [Tasks -> Passes]
    PROVE  IInv'
BY ZenonT(60) DEF IInv, TypeOK, HeldIsRunning, WorkerUp, EffectNotLost, Carries, Read,
   Exists, RunningIsExplained, BudgetKept, rowVars, workerVars, processVars

\* People and the dispatcher.
LEMMA PeopleStep ==
    ASSUME IInv, NEW t \in Tasks,
           \/ Move(t) \/ Provision(t) \/ RetrySideEffects(t)
           \/ DismissSideEffects(t) \/ RefreshGit(t)
    PROVE  IInv'
<1>1. CASE Move(t)
  BY <1>1, MoveToStep DEF Move, IInv, TypeOK
<1>2. CASE Provision(t)
  BY <1>2, OutsideStep DEF Provision, IInv, TypeOK
<1>3. CASE RetrySideEffects(t)
  <2> USE <1>3 DEF RetrySideEffects, taskVars, workerVars, processVars, FailedRows
  <2>1. TypeOK'
    BY DEF IInv, TypeOK, Statuses
  <2>2. \A row \in Rows : (Carries(row) => Carries(row)') /\ (Read(row) => Read(row)')
    BY DEF Carries, Read, Exists
  <2>3. EffectNotLost'
    BY <2>2, RowFacts DEF IInv, EffectNotLost
  <2>4. HeldIsRunning' /\ WorkerUp' /\ RunningIsExplained' /\ BudgetKept'
    BY DEF IInv, TypeOK, HeldIsRunning, WorkerUp, RunningIsExplained, BudgetKept
  <2> QED BY <2>1, <2>3, <2>4 DEF IInv
<1>4. CASE DismissSideEffects(t)
  BY <1>4, DeleteStep DEF DismissSideEffects, FailedRows, IInv, TypeOK
<1>5. CASE RefreshGit(t)
  BY <1>5, OutsideStep DEF RefreshGit, IInv, TypeOK
<1> QED BY <1>1, <1>2, <1>3, <1>4, <1>5

\* The forge sync.
LEMMA SyncStep ==
    ASSUME IInv, NEW t \in Tasks, SyncRecord(t) \/ SyncNext(t)
    PROVE  IInv'
<1>0. NoPass \in Passes /\ sync \in [Tasks -> Passes]
  BY DEF NoPass, Passes, SyncSteps, IInv, TypeOK
<1>1. CASE SyncRecord(t)
  BY <1>0, <1>1, OutsideStep DEF SyncRecord, IInv, TypeOK, GitStates, Passes, SyncSteps
<1>2. CASE SyncDropMoot(t)
  <2>1. sync' \in [Tasks -> Passes]
    BY <1>0, <1>2 DEF SyncDropMoot, Passes, SyncSteps
  <2> QED BY <1>2, <2>1, DeleteStep DEF SyncDropMoot, MootRows
<1>3. CASE SyncCleanUp(t)
  <2>1. sync' \in [Tasks -> Passes]
    BY <1>0, <1>3 DEF SyncCleanUp, Passes, SyncSteps
  <2> QED BY <1>3, <2>1, OutsideStep DEF SyncCleanUp, IInv, TypeOK
<1>4. CASE SyncFinish(t)
  <2>1. sync' \in [Tasks -> Passes]
    BY <1>0, <1>4 DEF SyncFinish
  <2>2. CASE \E to \in TerminalLabels : MoveTo(t, to)
    BY <1>4, <2>1, <2>2, MoveToStep DEF SyncFinish
  <2>3. CASE UNCHANGED <<taskVars, rowVars, owed, stranded>>
    BY <1>4, <2>1, <2>3, OutsideStep DEF SyncFinish, IInv, TypeOK, taskVars
  <2> QED BY <1>4, <2>2, <2>3 DEF SyncFinish
<1> QED BY <1>1, <1>2, <1>3, <1>4 DEF SyncNext

-----------------------------------------------------------------------------
\* The worker reads a task: what it owed is in hand, and stays so until the
\* row is put down or done.
LEMMA StartHookStep == IInv /\ StartHook => IInv'
<1> SUFFICES ASSUME IInv, StartHook PROVE IInv'
    OBVIOUS
<1> USE DEF StartHook, Settle, Debt, taskVars, rowVars, processVars
<1>1. current \in Rows /\ TaskOf(current) \in Tasks /\ KindOf(current) \in Kinds
  BY RowFacts DEF IInv, TypeOK
<1>2. TypeOK'
  BY <1>1 DEF IInv, TypeOK, Steps, Debts
<1>3. \A row \in Rows : Carries(row) /\ row # current => Carries(row)'
  BY DEF Carries, Read, Exists
<1>4. Read(current)'
  BY DEF Read
<1>5. EffectNotLost'
  <2> SUFFICES ASSUME NEW t \in Tasks, NEW k \in Kinds
               PROVE  /\ owed'[t][k] = "owed" => \E i \in Copies : Carries(<<t, k, i>>)'
                      /\ owed'[t][k] = "inhand" => \E i \in Copies : Read(<<t, k, i>>)'
    BY DEF EffectNotLost
  <2>1. CASE t = TaskOf(current) /\ k = KindOf(current)
    <3>1. owed'[t][k] # "owed"
      BY <2>1, <1>1 DEF IInv, TypeOK
    <3>2. PICK i \in Copies : current = <<t, k, i>>
      BY <2>1, <1>1, RowFacts
    <3> QED BY <3>1, <3>2, <1>4
  <2>2. CASE ~(t = TaskOf(current) /\ k = KindOf(current))
    <3>1. owed'[t][k] = owed[t][k]
      BY <2>2, <1>1 DEF IInv, TypeOK
    <3>2. owed[t][k] # "inhand"
      BY DEF IInv, EffectNotLost, Read
    <3>3. owed[t][k] = "owed" => \E i \in Copies : Carries(<<t, k, i>>)
      BY DEF IInv, EffectNotLost
    <3>4. \A i \in Copies : <<t, k, i>> # current /\ <<t, k, i>> \in Rows
      BY <2>2, RowFacts
    <3> QED BY <3>1, <3>2, <3>3, <3>4, <1>3
  <2> QED BY <2>1, <2>2
<1>6. HeldIsRunning' /\ WorkerUp' /\ RunningIsExplained' /\ BudgetKept'
  BY DEF IInv, HeldIsRunning, WorkerUp, RunningIsExplained, BudgetKept
<1> QED BY <1>2, <1>5, <1>6 DEF IInv

LEMMA HookSucceedsStep == IInv /\ HookSucceeds => IInv'
<1> SUFFICES ASSUME IInv, HookSucceeds PROVE IInv'
    OBVIOUS
<1> USE DEF HookSucceeds, rowVars, processVars
<1>1. TypeOK'
  BY RowFacts DEF IInv, TypeOK, Steps
<1>2. EffectNotLost'
  BY DEF IInv, EffectNotLost, Carries, Read, Exists
<1>3. HeldIsRunning' /\ WorkerUp' /\ RunningIsExplained' /\ BudgetKept'
  BY DEF IInv, HeldIsRunning, WorkerUp, RunningIsExplained, BudgetKept
<1> QED BY <1>1, <1>2, <1>3 DEF IInv

\* The worker lets go of its row: completed, parked, rescheduled or, when the
\* process stops, simply forgotten.  The row stays a carrier unless the effect
\* was in hand and is now done.
LEMMA LetGo ==
    ASSUME IInv, current \in Rows, NEW debt \in Debts,
           Settle(current, debt), debt # "inhand",
           debt = "owed" =>
              \/ st'[current] # "none"
              \/ Debt(current) = "owed" /\ step = "done",
           \A row \in Rows \ {current} : st'[row] = st[row],
           current' = NoRow
    PROVE  EffectNotLost'
<1>1. TaskOf(current) \in Tasks /\ KindOf(current) \in Kinds
  BY RowFacts
<1>2. \A row \in Rows : ~Read(row)'
  BY RowFacts DEF Read
<1>3. \A row \in Rows \ {current} : Carries(row) => Carries(row)'
  BY <1>2 DEF Carries, Exists
<1> SUFFICES ASSUME NEW t \in Tasks, NEW k \in Kinds
             PROVE  /\ owed'[t][k] = "owed" => \E i \in Copies : Carries(<<t, k, i>>)'
                    /\ owed'[t][k] # "inhand"
  BY DEF EffectNotLost
<1>4. CASE t = TaskOf(current) /\ k = KindOf(current)
  <2>1. owed'[t][k] = debt
    BY <1>1, <1>4 DEF Settle, IInv, TypeOK
  <2>2. CASE st'[current] # "none"
    <3>1. PICK i \in Copies : current = <<t, k, i>>
      BY <1>1, <1>4, RowFacts
    <3>2. Carries(<<t, k, i>>)'
      BY <2>2, <3>1, <1>2 DEF Carries, Exists
    <3> QED BY <2>1, <3>2
  <2>3. CASE Debt(current) = "owed" /\ step = "done"
    <3>1. PICK i \in Copies : Carries(<<t, k, i>>)
      BY <2>3, <1>1, <1>4 DEF IInv, EffectNotLost, Debt
    <3>2. <<t, k, i>> \in Rows \ {current}
      BY <2>3, <3>1, RowFacts DEF Carries, Read
    <3> QED BY <2>1, <3>1, <3>2, <1>3
  <2> QED BY <2>1, <2>2, <2>3
<1>5. CASE ~(t = TaskOf(current) /\ k = KindOf(current))
  <2>1. owed'[t][k] = owed[t][k]
    BY <1>1, <1>5 DEF Settle, IInv, TypeOK
  <2>2. owed[t][k] # "inhand"
    <3> SUFFICES ASSUME owed[t][k] = "inhand" PROVE FALSE
      OBVIOUS
    <3>1. PICK i \in Copies : Read(<<t, k, i>>)
      BY DEF IInv, EffectNotLost
    <3> QED BY <3>1, <1>5, RowFacts DEF Read
  <2>3. owed[t][k] = "owed" => \E i \in Copies : Carries(<<t, k, i>>)
    BY DEF IInv, EffectNotLost
  <2>4. \A i \in Copies : <<t, k, i>> \in Rows \ {current}
    BY <1>5, RowFacts
  <2> QED BY <2>1, <2>2, <2>3, <2>4, <1>3
<1> QED BY <1>4, <1>5

LEMMA CompleteStep == IInv /\ Complete => IInv'
<1> SUFFICES ASSUME IInv, Complete PROVE IInv'
    OBVIOUS
<1> USE DEF Complete, taskVars, processVars
<1>1. /\ current \in Rows /\ TaskOf(current) \in Tasks /\ KindOf(current) \in Kinds
      /\ Debt(current) \in Debts
  BY RowFacts DEF IInv, TypeOK, Debt
<1> DEFINE debt == IF Debt(current) = "inhand" THEN "no" ELSE Debt(current)
<1>2. debt \in Debts /\ debt # "inhand" /\ Settle(current, debt)
  BY <1>1 DEF Debts
<1>3. TypeOK'
  BY <1>1, <1>2 DEF IInv, TypeOK, Settle, Statuses, Steps
<1>4. EffectNotLost'
  <2>1. debt = "owed" => Debt(current) = "owed" /\ step = "done"
    OBVIOUS
  <2>2. \A row \in Rows \ {current} : st'[row] = st[row]
    BY DEF IInv, TypeOK
  <2> QED BY <1>1, <1>2, <2>1, <2>2, LetGo
<1>5. HeldIsRunning' /\ WorkerUp' /\ RunningIsExplained' /\ BudgetKept'
  BY <1>1 DEF IInv, TypeOK, HeldIsRunning, WorkerUp, RunningIsExplained, BudgetKept
<1> QED BY <1>3, <1>4, <1>5 DEF IInv

\* What the row of a failed or interrupted attempt can become.
LEMMA PutDownStep ==
    ASSUME IInv, step \in {"claimed", "hook"}, PutDown,
           UNCHANGED <<taskVars, processVars, sync>>,
           \/ Park(current, tries[current] + 1)
           \/ /\ tries[current] + 1 < MaxAttempts
              /\ Reschedule(current, tries[current] + 1)
           \/ Reschedule(current, tries[current])
    PROVE  IInv'
<1> USE DEF PutDown, taskVars, processVars
<1>1. /\ current \in Rows /\ TaskOf(current) \in Tasks /\ KindOf(current) \in Kinds
      /\ Debt(current) \in Debts /\ st[current] = "running"
      /\ tries[current] \in Nat /\ tries[current] < MaxAttempts
  BY RowFacts DEF IInv, TypeOK, Debt, HeldIsRunning, BudgetKept
<1> DEFINE RowPutDown ==
             /\ st' \in [Rows -> Statuses] /\ tries' \in [Rows -> 0..MaxAttempts]
             /\ \A row \in Rows \ {current} : st'[row] = st[row] /\ tries'[row] = tries[row]
             /\ st'[current] # "none"
             /\ st'[current] # "failed" => tries'[current] < MaxAttempts
             /\ stranded \subseteq stranded' /\ stranded' \subseteq Rows
             /\ st'[current] = "running" => current \in stranded'
<1>2. RowPutDown
  <2>1. CASE Park(current, tries[current] + 1)
    <3>1. tries[current] + 1 \in 0..MaxAttempts
      BY <1>1
    <3> QED BY <1>1, <2>1, <3>1 DEF Park, IInv, TypeOK, Statuses
  <2>2. ASSUME NEW n \in 0..MaxAttempts, n < MaxAttempts, Reschedule(current, n)
        PROVE RowPutDown
    <3>1. CASE \E r \in Twins(current) : st[r] = "pending"
      <4>1. st' = st /\ tries' = tries /\ stranded' = stranded \cup {current}
        BY <2>2, <3>1 DEF Reschedule, rowVars
      <4> QED BY <1>1, <4>1 DEF IInv, TypeOK
    <3>2. CASE ~\E r \in Twins(current) : st[r] = "pending"
      <4>1. /\ st' = [st EXCEPT ![current] = "pending"]
            /\ tries' = [tries EXCEPT ![current] = n]
            /\ stranded' = stranded
        BY <2>2, <3>2 DEF Reschedule
      <4> QED BY <1>1, <2>2, <4>1 DEF IInv, TypeOK, Statuses
    <3> QED BY <3>1, <3>2
  <2>3. CASE Reschedule(current, tries[current])
    BY <1>1, <2>2, <2>3
  <2>4. CASE tries[current] + 1 < MaxAttempts /\ Reschedule(current, tries[current] + 1)
    <3>1. tries[current] + 1 \in 0..MaxAttempts
      BY <1>1, <2>4
    <3> QED BY <2>2, <2>4, <3>1
  <2> QED BY <2>1, <2>3, <2>4
<1> DEFINE debt == IF Debt(current) = "inhand" THEN "owed" ELSE Debt(current)
<1>3. debt \in Debts /\ debt # "inhand" /\ Settle(current, debt)
  BY <1>1 DEF Debts
<1>4. TypeOK'
  BY <1>1, <1>2, <1>3 DEF IInv, TypeOK, Settle, Statuses, Steps
<1>5. EffectNotLost'
  <2>1. st'[current] # "none" /\ \A row \in Rows \ {current} : st'[row] = st[row]
    BY <1>1, <1>2 DEF IInv, TypeOK
  <2> QED BY <1>1, <1>3, <2>1, LetGo
<1>6. HeldIsRunning' /\ WorkerUp' /\ RunningIsExplained' /\ BudgetKept'
  BY <1>1, <1>2 DEF IInv, TypeOK, HeldIsRunning, WorkerUp, RunningIsExplained, BudgetKept
<1> QED BY <1>4, <1>5, <1>6 DEF IInv

\* Steps of the worker that hold no row before them.
LEMMA IdleStep ==
    ASSUME IInv, ResetRunning \/ \E row \in Rows : Claim(row)
    PROVE  IInv'
<1>0. current = NoRow
  BY DEF IInv, TypeOK, ResetRunning, Claim
<1>1. CASE ResetRunning
  <2> USE <1>1 DEF ResetRunning, taskVars, processVars
  <2>1. TypeOK'
    BY DEF IInv, TypeOK, Statuses, Steps
  <2>2. EffectNotLost'
    <3>1. \A row \in Rows : ~Read(row) /\ (Carries(row) => Carries(row)')
      BY <1>0, RowFacts DEF Carries, Read, Exists
    <3> QED BY <3>1, RowFacts DEF IInv, EffectNotLost
  <2>3. HeldIsRunning' /\ WorkerUp' /\ RunningIsExplained' /\ BudgetKept'
    BY <1>0 DEF IInv, TypeOK, HeldIsRunning, WorkerUp, RunningIsExplained, BudgetKept
  <2> QED BY <2>1, <2>2, <2>3 DEF IInv
<1>2. ASSUME NEW row \in Rows, Claim(row) PROVE IInv'
  <2> USE <1>2 DEF Claim, taskVars, processVars
  <2>1. TypeOK'
    BY RowFacts DEF IInv, TypeOK, Statuses, Steps
  <2>2. EffectNotLost'
    <3>1. \A r \in Rows : ~Read(r) /\ (Carries(r) => Carries(r)')
      BY <1>0, RowFacts DEF IInv, TypeOK, Carries, Read, Exists
    <3> QED BY <3>1, RowFacts DEF IInv, EffectNotLost
  <2>3. HeldIsRunning' /\ WorkerUp' /\ RunningIsExplained' /\ BudgetKept'
    BY <1>0 DEF IInv, TypeOK, HeldIsRunning, WorkerUp, RunningIsExplained, BudgetKept
  <2> QED BY <2>1, <2>2, <2>3 DEF IInv
<1> QED BY <1>1, <1>2

LEMMA ProcessStep == IInv /\ (Shutdown \/ Stop \/ Boot) => IInv'
<1> SUFFICES ASSUME IInv, Shutdown \/ Stop \/ Boot PROVE IInv'
    OBVIOUS
<1>1. CASE Shutdown
  BY <1>1, ZenonT(60) DEF Shutdown, IInv, TypeOK, Modes, HeldIsRunning, WorkerUp, EffectNotLost,
     Carries, Read, Exists, RunningIsExplained, BudgetKept, taskVars, rowVars, workerVars
<1>2. CASE Boot
  <2> USE <1>2 DEF Boot, taskVars, rowVars
  <2>1. step = "off" /\ current = NoRow
    BY DEF IInv, TypeOK, WorkerUp
  <2>2. TypeOK' /\ HeldIsRunning' /\ WorkerUp' /\ RunningIsExplained' /\ BudgetKept'
    BY <2>1 DEF IInv, TypeOK, Steps, Modes, HeldIsRunning, WorkerUp,
       RunningIsExplained, BudgetKept
  <2>3. EffectNotLost'
    BY <2>1 DEF IInv, EffectNotLost, Carries, Read, Exists
  <2> QED BY <2>2, <2>3 DEF IInv
<1>3. CASE Stop
  <2> USE <1>3 DEF Stop, taskVars, rowVars, Serving
  <2>1. NoPass \in Passes
    BY DEF NoPass, Passes, SyncSteps
  <2>2. HeldIsRunning' /\ WorkerUp' /\ RunningIsExplained' /\ BudgetKept'
    BY DEF IInv, HeldIsRunning, WorkerUp, RunningIsExplained, BudgetKept
  <2>3. CASE current = NoRow
    <3>1. TypeOK'
      BY <2>1, <2>3 DEF IInv, TypeOK, Steps, Modes
    <3>2. EffectNotLost'
      <4>1. \A row \in Rows : ~Read(row) /\ (Carries(row) => Carries(row)')
        BY <2>3, RowFacts DEF Carries, Read, Exists
      <4>2. owed' = owed
        BY <2>3
      <4> QED BY <4>1, <4>2, RowFacts DEF IInv, EffectNotLost
    <3> QED BY <2>2, <3>1, <3>2 DEF IInv
  <2>4. CASE current # NoRow
    <3>1. /\ current \in Rows /\ TaskOf(current) \in Tasks
          /\ KindOf(current) \in Kinds /\ Debt(current) \in Debts
          /\ st[current] = "running"
      BY <2>4, RowFacts DEF IInv, TypeOK, Debt, HeldIsRunning
    <3> DEFINE debt == IF Debt(current) = "inhand" THEN "owed" ELSE Debt(current)
    <3>2. debt \in Debts /\ debt # "inhand" /\ Settle(current, debt)
      BY <2>4, <3>1 DEF Debts
    <3>3. TypeOK'
      BY <2>1, <3>1, <3>2 DEF IInv, TypeOK, Settle, Steps, Modes
    <3>4. EffectNotLost'
      BY <3>1, <3>2, LetGo
    <3> QED BY <2>2, <3>3, <3>4 DEF IInv
  <2> QED BY <2>3, <2>4
<1> QED BY <1>1, <1>2, <1>3

-----------------------------------------------------------------------------
THEOREM Invariance == Spec => []IInv
<1>1. IInv /\ UNCHANGED vars => IInv'
  BY ZenonT(60) DEF vars, IInv, TypeOK, HeldIsRunning, WorkerUp, EffectNotLost, Carries, Read,
     Exists, RunningIsExplained, BudgetKept
<1>2. IInv /\ Next => IInv'
  <2> SUFFICES ASSUME IInv, Next PROVE IInv'
    OBVIOUS
  <2>1. CASE WorkerNext
    <3>1. CASE HookFails
      <4>1. tries[current] + 1 < MaxAttempts \/ tries[current] + 1 >= MaxAttempts
        BY <3>1 DEF HookFails, IInv, TypeOK
      <4> QED BY <3>1, <4>1, PutDownStep DEF HookFails
    <3>2. CASE Interrupted
      BY <3>2, PutDownStep DEF Interrupted
    <3> QED BY <2>1, <3>1, <3>2, IdleStep, StartHookStep, HookSucceedsStep,
               CompleteStep DEF WorkerNext
  <2> QED BY <2>1, IdleStep, PeopleStep, SyncStep, ProcessStep DEF Next
<1> QED BY InitIInv, <1>1, <1>2, PTL DEF Spec

\* The outbox's rows, the worker and the history keep their types.
THEOREM TypeCorrect == Spec => []TypeOK
BY Invariance, PTL DEF IInv

\* No effect that a committed move owes is ever lost.
THEOREM NothingLost == Spec => []EffectNotLost
BY Invariance, PTL DEF IInv

\* A row marked running is being worked on, awaits the boot's recovery, or was
\* stranded by a refused update.
THEOREM RunningExplained == Spec => []RunningIsExplained
BY Invariance, PTL DEF IInv

\* A row that may still be run has an attempt left.
THEOREM BudgetHolds == Spec => []BudgetKept
BY Invariance, PTL DEF IInv
=============================================================================
