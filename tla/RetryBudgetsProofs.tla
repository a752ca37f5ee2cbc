-------------------------- MODULE RetryBudgetsProofs --------------------------
(***************************************************************************)
(* How often the board tries a task that nobody helps, for every workflow, *)
(* every value of the budgets, and any number of tasks and runs.           *)
(***************************************************************************)
EXTENDS RetryBudgets, FiniteSetTheorems, SequenceTheorems, TLAPS

\* A lock names a run of the task's present column; a run that goes on has the
\* lock, or a person took it over.
Links ==
    /\ \A r \in Runs : at[r] # "idle" => of[r] \in Tasks /\ from[r] \in AgentLabels
    /\ \A t \in Tasks : lock[t] # NoRun =>
         /\ of[lock[t]] = t
         /\ at[lock[t]] # "idle"
         /\ from[lock[t]] = label[t]
    /\ \A r \in Runs : r \in stale => Live(r) /\ lock[of[r]] # r
    /\ \A r \in Runs : Live(r) /\ r \notin stale => lock[of[r]] = r

\* Each genuine failure stands for a full round of transient ones, and n more
\* have been spent in this round; the last round is yet to come.
Spent(t, n) ==
    /\ strikes[t] <= failures[t] * (MaxRetries + 1) + n
    /\ strikes[t] <= (MaxFailures - 1) * (MaxRetries + 1) + n

\* How much of its budget a task has spent, by what the run that has it is at:
\* a run about to write the count back goes by what it read, and a completed one
\* has thrown the count away before its move is accepted.
Budget(t) == t \notin meddled =>
    /\ lock[t] = NoRun => Spent(t, transient[t])
    /\ lock[t] # NoRun =>
         /\ at[lock[t]] \in {"running", "failed"} => Spent(t, transient[t])
         /\ at[lock[t]] = "counted" => Spent(t, seen[lock[t]])
         /\ at[lock[t]] = "finished" => Spent(t, MaxRetries)
         /\ at[lock[t]] = "waiting" => strikes[t] <= MaxFailures * (MaxRetries + 1)

Control == TypeOK /\ Links
IInv == Control /\ \A t \in Tasks : Budget(t)

USE BudgetsAssumption DEF BudgetsAssumption

-----------------------------------------------------------------------------
(* The links between tasks, locks and runs.                                *)

LEMMA RunFacts ==
    ASSUME Control, NEW r \in Runs, Live(r)
    PROVE  /\ of[r] \in Tasks /\ from[r] \in AgentLabels /\ at[r] # "idle"
           /\ Target(r) \in Labels \cup {NoLabel}
BY DEF Control, TypeOK, Links, Live, Target, Outcomes

\* The columns that hold the links.
LEMMA ColumnFacts ==
    ASSUME Control
    PROVE  /\ label \in [Tasks -> Labels] /\ lock \in [Tasks -> Runs \cup {NoRun}]
           /\ at \in [Runs -> Phases] /\ of \in [Runs -> Tasks \cup {NoTask}]
           /\ from \in [Runs -> AgentLabels \cup {NoLabel}] /\ stale \subseteq Runs
           /\ Links
BY DEF Control, TypeOK

\* A run goes from one stage of its end to the next.
LEMMA LiveStepLinks ==
    ASSUME Control, NEW r \in Runs, Live(r),
           NEW p \in {"running", "counted", "finished", "failed"}, Goto(r, p),
           UNCHANGED <<lock, of, from, label, stale>>
    PROVE  Links' /\ at' \in [Runs -> Phases]
BY DEF Control, TypeOK, Links, Live, Goto, Phases

\* A run gives its task to a person, or to nobody if it has not got the lock.
LEMMA EscalateFacts ==
    ASSUME Control, NEW r \in Runs, Live(r), Escalate(r)
    PROVE  /\ at' \in [Runs -> Phases]
           /\ of' \in [Runs -> Tasks \cup {NoTask}]
           /\ from' \in [Runs -> AgentLabels \cup {NoLabel}]
           /\ got' \in [Runs -> Outcomes]
           /\ seen' \in [Runs -> 0..MaxRetries]
           /\ stale' = stale \ {r} /\ lock' = lock
           /\ \A q \in Runs \ {r} : /\ at'[q] = at[q] /\ of'[q] = of[q]
                                    /\ from'[q] = from[q] /\ seen'[q] = seen[q]
           /\ lock[of[r]] = r => /\ at'[r] = "waiting" /\ of'[r] = of[r]
                                 /\ from'[r] = from[r]
           /\ lock[of[r]] # r => at'[r] = "idle"
<1> USE DEF Control, TypeOK, Phases, Outcomes
<1>1. CASE lock[of[r]] = r
  <2>1. /\ at' = [at EXCEPT ![r] = "waiting"] /\ got' = [got EXCEPT ![r] = "none"]
        /\ seen' = [seen EXCEPT ![r] = 0] /\ stale' = stale \ {r}
        /\ UNCHANGED <<of, from, lock>>
    BY <1>1 DEF Escalate
  <2> QED BY <1>1, <2>1
<1>2. CASE lock[of[r]] # r
  <2>1. Forget(r) /\ lock' = lock
    BY <1>2 DEF Escalate
  <2> QED BY <1>2, <2>1 DEF Forget, ForgetAll
<1> QED BY <1>1, <1>2

LEMMA EscalateLinks ==
    ASSUME Control, NEW r \in Runs, Live(r), Escalate(r), label' = label
    PROVE  Links'
<1> USE ColumnFacts DEF Live, Links
<1> at[r] # "idle" /\ of[r] \in Tasks /\ from[r] \in AgentLabels
  BY RunFacts
<1>1. CASE lock[of[r]] = r
  <2>1. /\ lock' = lock /\ of' = of /\ from' = from /\ stale' = stale \ {r}
        /\ at' = [at EXCEPT ![r] = "waiting"]
    BY <1>1 DEF Escalate
  <2>2. \A q \in Runs \ {r} : at'[q] = at[q]
    BY <2>1
  <2>3. at'[r] = "waiting"
    BY <2>1
  <2> QED BY <1>1, <2>1, <2>2, <2>3
<1>2. CASE lock[of[r]] # r
  <2>1. /\ lock' = lock /\ stale' = stale \ {r} /\ at'[r] = "idle"
        /\ \A q \in Runs \ {r} : at'[q] = at[q] /\ of'[q] = of[q] /\ from'[q] = from[q]
    BY <1>2, EscalateFacts
  <2>2. \A t \in Tasks : lock[t] # r
    BY <1>2
  <2>3. \A q \in Runs : at'[q] # "idle" => of'[q] \in Tasks /\ from'[q] \in AgentLabels
    BY <2>1
  <2>4. ASSUME NEW t \in Tasks, lock'[t] # NoRun
        PROVE  of'[lock'[t]] = t /\ at'[lock'[t]] # "idle" /\ from'[lock'[t]] = label'[t]
    <3>1. lock[t] \in Runs \ {r}
      BY <2>1, <2>2, <2>4
    <3> QED BY <2>1, <2>4, <3>1
  <2>5. ASSUME NEW q \in Runs
        PROVE  /\ q \in stale' => Live(q)' /\ lock'[of'[q]] # q
               /\ Live(q)' /\ q \notin stale' => lock'[of'[q]] = q
    <3>1. CASE q = r
      BY <2>1, <3>1
    <3>2. CASE q # r
      BY <2>1, <3>2
    <3> QED BY <3>1, <3>2
  <2> QED BY <2>3, <2>4, <2>5
<1> QED BY <1>1, <1>2

\* A run ends and gives the lock back if it has it.
LEMMA ReleaseFacts ==
    ASSUME Control, NEW r \in Runs, Live(r), ReleaseLock(r), Forget(r)
    PROVE  /\ at' \in [Runs -> Phases]
           /\ of' \in [Runs -> Tasks \cup {NoTask}]
           /\ from' \in [Runs -> AgentLabels \cup {NoLabel}]
           /\ got' \in [Runs -> Outcomes]
           /\ seen' \in [Runs -> 0..MaxRetries]
           /\ lock' \in [Tasks -> Runs \cup {NoRun}]
           /\ stale' = stale \ {r} /\ at'[r] = "idle"
           /\ \A q \in Runs \ {r} : /\ at'[q] = at[q] /\ of'[q] = of[q]
                                    /\ from'[q] = from[q] /\ seen'[q] = seen[q]
           /\ \A t \in Tasks : lock'[t] = IF lock[t] = r THEN NoRun ELSE lock[t]
BY DEF Control, TypeOK, Links, Live, ReleaseLock, Forget, ForgetAll, Phases, Outcomes

LEMMA ReleaseLinks ==
    ASSUME Control, NEW r \in Runs, Live(r), ReleaseLock(r), Forget(r), label' = label
    PROVE  Links'
<1> USE ReleaseFacts, RunFacts, ColumnFacts DEF Live
<1>1. \A q \in Runs : at'[q] # "idle" => of'[q] \in Tasks /\ from'[q] \in AgentLabels
  BY DEF Links
<1>2. ASSUME NEW t \in Tasks, lock'[t] # NoRun
      PROVE  of'[lock'[t]] = t /\ at'[lock'[t]] # "idle" /\ from'[lock'[t]] = label'[t]
  BY <1>2 DEF Links
<1>3. ASSUME NEW q \in Runs
      PROVE  /\ q \in stale' => Live(q)' /\ lock'[of'[q]] # q
             /\ Live(q)' /\ q \notin stale' => lock'[of'[q]] = q
  <2>1. CASE q = r
    BY <2>1
  <2>2. CASE q # r
    BY <2>2 DEF Links
  <2> QED BY <2>1, <2>2
<1> QED BY <1>1, <1>2, <1>3 DEF Links

\* Somebody takes a task from whatever holds it: the runs S end, with all that
\* only wait for it, and those that go on work for nobody.
Takes(t, S) ==
    /\ lock' = [lock EXCEPT ![t] = NoRun]
    /\ ForgetAll(S)
    /\ Parked(t) \subseteq S
    /\ \A r \in S : r \in Runs /\ of[r] = t
    /\ stale' = (stale \cup Overtaken(t)) \ S

LEMMA TakesFacts ==
    ASSUME Control, NEW t \in Tasks, NEW S, Takes(t, S)
    PROVE  /\ at' \in [Runs -> Phases]
           /\ of' \in [Runs -> Tasks \cup {NoTask}]
           /\ from' \in [Runs -> AgentLabels \cup {NoLabel}]
           /\ got' \in [Runs -> Outcomes]
           /\ seen' \in [Runs -> 0..MaxRetries]
           /\ lock' \in [Tasks -> Runs \cup {NoRun}]
           /\ stale' \in SUBSET Runs
           /\ lock'[t] = NoRun
           /\ \A u \in Tasks \ {t} : lock'[u] = lock[u]
           /\ \A q \in S : at'[q] = "idle"
           /\ \A q \in Runs \ S : /\ at'[q] = at[q] /\ of'[q] = of[q]
                                  /\ from'[q] = from[q] /\ seen'[q] = seen[q]
           /\ \A q \in Runs : q \in stale' <=> q \notin S /\ (q \in stale \/ (Live(q) /\ of[q] = t))
<1> USE DEF Takes
<1>1. S \subseteq Runs
  OBVIOUS
<1>2. /\ at' \in [Runs -> Phases]
      /\ of' \in [Runs -> Tasks \cup {NoTask}]
      /\ from' \in [Runs -> AgentLabels \cup {NoLabel}]
      /\ got' \in [Runs -> Outcomes]
      /\ seen' \in [Runs -> 0..MaxRetries]
  BY DEF Control, TypeOK, ForgetAll, Phases, Outcomes
<1>3. /\ \A q \in S : at'[q] = "idle"
      /\ \A q \in Runs \ S : /\ at'[q] = at[q] /\ of'[q] = of[q]
                             /\ from'[q] = from[q] /\ seen'[q] = seen[q]
  BY <1>1 DEF ForgetAll
<1>4. /\ stale' \in SUBSET Runs
      /\ \A q \in Runs : q \in stale' <=> q \notin S /\ (q \in stale \/ (Live(q) /\ of[q] = t))
  <2>1. stale \subseteq Runs
    BY DEF Control, TypeOK
  <2> QED BY <2>1 DEF Overtaken
<1>5. lock' \in [Tasks -> Runs \cup {NoRun}] /\ lock'[t] = NoRun
      /\ \A u \in Tasks \ {t} : lock'[u] = lock[u]
  BY DEF Control, TypeOK
<1> QED BY <1>2, <1>3, <1>4, <1>5

LEMMA TakesLinks ==
    ASSUME Control, NEW t \in Tasks, NEW S, Takes(t, S),
           \A u \in Tasks \ {t} : label'[u] = label[u]
    PROVE  Links'
<1> USE TakesFacts, ColumnFacts DEF Live
<1>1. \A q \in Runs : at'[q] # "idle" => of'[q] \in Tasks /\ from'[q] \in AgentLabels
  BY DEF Links
<1>2. ASSUME NEW u \in Tasks, lock'[u] # NoRun
      PROVE  of'[lock'[u]] = u /\ at'[lock'[u]] # "idle" /\ from'[lock'[u]] = label'[u]
  <2>1. u # t /\ lock'[u] = lock[u] /\ lock[u] \in Runs
    BY <1>2
  <2>2. lock[u] \notin S
    BY <1>2, <2>1 DEF Links, Takes
  <2> QED BY <1>2, <2>1, <2>2 DEF Links
<1>3. ASSUME NEW q \in Runs
      PROVE  /\ q \in stale' => Live(q)' /\ lock'[of'[q]] # q
             /\ Live(q)' /\ q \notin stale' => lock'[of'[q]] = q
  <2>1. CASE q \in S
    BY <2>1
  <2>2. CASE q \notin S /\ of[q] = t
    <3>1. at'[q] = at[q] /\ of'[q] = t /\ lock'[t] = NoRun /\ (Live(q)' <=> Live(q))
          /\ (q \in stale' <=> q \in stale \/ Live(q))
      BY <2>2
    <3> QED BY <3>1 DEF Links
  <2>3. CASE q \notin S /\ of[q] # t
    <3>1. at'[q] = at[q] /\ of'[q] = of[q] /\ (q \in stale' <=> q \in stale)
      BY <2>3
    <3>2. Live(q) => of[q] \in Tasks /\ lock'[of[q]] = lock[of[q]]
      BY <2>3 DEF Links
    <3> QED BY <3>1, <3>2 DEF Links
  <2> QED BY <2>1, <2>2, <2>3
<1> QED BY <1>1, <1>2, <1>3 DEF Links

-----------------------------------------------------------------------------
(* Every step keeps the types and the links.                               *)

\* The counters, and what else a run writes without giving its task away.
CountsOK ==
    /\ transient \in [Tasks -> 0..MaxRetries]
    /\ failures \in [Tasks -> Nat]
    /\ cooling \in [Tasks -> BOOLEAN]
    /\ paused \in [Tasks -> BOOLEAN]
    /\ broke \in [Tasks -> BOOLEAN]
    /\ recent \in 0..MemBurst
    /\ held \in BOOLEAN
    /\ rerunning \in SUBSET Tasks
    /\ acts \in Nat
    /\ shocks \in Nat
    /\ strikes \in [Tasks -> Nat]
    /\ meddled \in SUBSET Tasks

LEMMA CountFacts ==
    ASSUME Control
    PROVE  CountsOK
BY DEF Control, TypeOK, CountsOK

\* What a failure adds to the counts of a task, and what takes them back.
LEMMA FailureTypes ==
    ASSUME Control, NEW t \in Tasks, failures' = [failures EXCEPT ![t] = @ + 1]
    PROVE  failures' \in [Tasks -> Nat]
<1>1. failures \in [Tasks -> Nat]
  BY DEF Control, TypeOK
<1> QED BY <1>1

LEMMA StrikeTypes ==
    ASSUME Control, NEW r \in Runs, of[r] \in Tasks, Strike(r)
    PROVE  strikes' \in [Tasks -> Nat] /\ meddled' \in SUBSET Tasks
<1>1. strikes \in [Tasks -> Nat] /\ meddled \in SUBSET Tasks
  BY DEF Control, TypeOK
<1> QED BY <1>1 DEF Strike

LEMMA RetryTypes ==
    ASSUME Control, NEW t \in Tasks, NEW n \in 0..MaxRetries, NEW cool \in BOOLEAN,
           SetRetry(t, n, cool)
    PROVE  transient' \in [Tasks -> 0..MaxRetries] /\ cooling' \in [Tasks -> BOOLEAN]
<1>1. transient \in [Tasks -> 0..MaxRetries] /\ cooling \in [Tasks -> BOOLEAN]
  BY DEF Control, TypeOK
<1> QED BY <1>1 DEF SetRetry

LEMMA ResetTypes ==
    ASSUME Control, NEW t \in Tasks, ResetRetry(t)
    PROVE  transient' \in [Tasks -> 0..MaxRetries] /\ cooling' \in [Tasks -> BOOLEAN]
<1>1. 0 \in 0..MaxRetries
  OBVIOUS
<1> QED BY <1>1, RetryTypes DEF ResetRetry

LEMMA InitControl == Init => Control
<1> SUFFICES ASSUME Init PROVE Control
  OBVIOUS
<1>1. TypeOK
  <2>1. /\ << >> \in Seq(Moves) /\ 0 \in 0..MaxRetries /\ 0 \in 0..MemBurst
    OBVIOUS
  <2>2. CountsOK
    BY <2>1 DEF Init, CountsOK
  <2>3. moves \in [Tasks -> Seq(Moves)]
    BY <2>1 DEF Init
  <2> QED BY <2>1, <2>2, <2>3 DEF Init, TypeOK, CountsOK, Phases, Outcomes
<1>2. Links
  BY DEF Init, Links, Live
<1> QED BY <1>1, <1>2 DEF Control

\* A run goes on to the next stage of its end.
Advance(r) ==
    \/ \E o \in Outcomes : Complete(r, o)
    \/ FailGenuinely(r) /\ failures[of[r]] + 1 < MaxFailures
    \/ ReadRetries(r) \/ SpendRetry(r) \/ RateLimited(r) \/ KillForMemory(r)
    \/ CancelByUser(r)

\* It ends with a question to a person.
AsksSomebody(r) ==
    \/ FailGenuinely(r) /\ failures[of[r]] + 1 >= MaxFailures
    \/ RetriesExhausted(r) \/ AskHuman(r) \/ LandEscalated(r)
    \/ LandRefused(r) /\ failures[of[r]] + 1 >= MaxFailures

\* It ends.
LetsGo(r) ==
    \/ Release(r) \/ LandMoved(r)
    \/ LandRefused(r) /\ failures[of[r]] + 1 < MaxFailures

LEMMA RunStepKinds ==
    ASSUME Control, NEW r \in Runs, Carry(r) \/ CancelByUser(r)
    PROVE  Live(r) /\ (Advance(r) \/ AsksSomebody(r) \/ LetsGo(r) \/ LandMove(r))
<1>1. Live(r)
  BY DEF Carry, Ends, Land, Live, Complete, FailGenuinely, ReadRetries, RateLimited, AskHuman,
         KillForMemory, CancelByUser, LandMoved, LandEscalated, LandMove, LandRefused,
         SpendRetry, RetriesExhausted, Release
<1>2. failures[of[r]] \in Nat
  BY <1>1, RunFacts DEF Control, TypeOK
<1>3. failures[of[r]] + 1 >= MaxFailures \/ failures[of[r]] + 1 < MaxFailures
  BY <1>2
<1> QED BY <1>1, <1>3 DEF Carry, Ends, Land, Advance, AsksSomebody, LetsGo

\* What an advancing run leaves alone, and the stage it gets to.
Advances(r) ==
    /\ \E p \in {"running", "counted", "finished", "failed"} : Goto(r, p)
    /\ UNCHANGED <<label, lock, of, from, stale, moves, rerunning>>
    /\ got' \in [Runs -> Outcomes]
    /\ seen' \in [Runs -> 0..MaxRetries]
    /\ CountsOK'

LEMMA AdvanceFacts ==
    ASSUME Control, NEW r \in Runs, Live(r), Advance(r)
    PROVE  Advances(r)
<1> USE RunFacts
    DEF Control, TypeOK, CountsOK, Advances, taskVars, memVars, SetRetry, ResetRetry,
        Strike, NoStrike
<1>1. ASSUME NEW o \in Outcomes, Complete(r, o)
      PROVE  Advances(r)
  BY <1>1 DEF Complete
<1>2. CASE FailGenuinely(r) /\ failures[of[r]] + 1 < MaxFailures
  <2>1. ~(failures[of[r]] + 1 >= MaxFailures)
    BY <1>2
  <2>2. Goto(r, "failed") /\ UNCHANGED <<lock, of, from, got, seen, stale>>
    BY <1>2, <2>1 DEF FailGenuinely
  <2>3. failures' = [failures EXCEPT ![of[r]] = @ + 1] /\ ResetRetry(of[r]) /\ Strike(r)
        /\ UNCHANGED <<label, paused, broke, moves, memVars, rerunning, acts, shocks>>
    BY <1>2 DEF FailGenuinely
  <2>4. failures' \in [Tasks -> Nat] /\ strikes' \in [Tasks -> Nat] /\ meddled' \in SUBSET Tasks
    BY <2>3, FailureTypes, StrikeTypes
  <2>5. transient' \in [Tasks -> 0..MaxRetries] /\ cooling' \in [Tasks -> BOOLEAN]
    BY <2>3, ResetTypes
  <2> QED BY <2>2, <2>3, <2>4, <2>5
<1>3. CASE ReadRetries(r)
  BY <1>3 DEF ReadRetries
<1>4. CASE SpendRetry(r)
  <2>1. seen[r] + 1 \in 0..MaxRetries
    BY <1>4 DEF SpendRetry
  <2>2. transient' \in [Tasks -> 0..MaxRetries] /\ cooling' \in [Tasks -> BOOLEAN]
    BY <1>4, <2>1, RetryTypes DEF SpendRetry
  <2>3. strikes' \in [Tasks -> Nat] /\ meddled' \in SUBSET Tasks
    BY <1>4, StrikeTypes DEF SpendRetry
  <2>4. /\ Goto(r, "failed")
        /\ UNCHANGED <<label, lock, failures, paused, broke, moves, of, from, got, seen,
                       memVars, rerunning, acts, shocks, stale>>
    BY <1>4 DEF SpendRetry
  <2> QED BY <2>2, <2>3, <2>4
<1>5. CASE RateLimited(r)
  BY <1>5 DEF RateLimited
<1>6. CASE KillForMemory(r)
  <2>1. PICK kept \in 0..recent :
           IF kept + 1 >= MemBurst THEN recent' = 0 /\ held' = TRUE
                                   ELSE recent' = kept + 1 /\ UNCHANGED held
    BY <1>6 DEF KillForMemory
  <2>2. recent' \in 0..MemBurst
    <3>1. CASE kept + 1 >= MemBurst
      BY <2>1, <3>1
    <3>2. CASE ~(kept + 1 >= MemBurst)
      BY <2>1, <3>2
    <3> QED BY <3>1, <3>2
  <2>3. held' \in BOOLEAN
    BY <2>1
  <2>4. transient' \in [Tasks -> 0..MaxRetries] /\ cooling' \in [Tasks -> BOOLEAN]
    BY <1>6, RetryTypes DEF KillForMemory
  <2>5. strikes' \in [Tasks -> Nat] /\ meddled' \in SUBSET Tasks /\ shocks' \in Nat
    BY <1>6 DEF KillForMemory
  <2>6. /\ Goto(r, "failed")
        /\ UNCHANGED <<label, lock, failures, paused, broke, moves, of, from, got, seen,
                       rerunning, acts, stale>>
    BY <1>6 DEF KillForMemory
  <2> QED BY <2>2, <2>3, <2>4, <2>5, <2>6
<1>7. CASE CancelByUser(r)
  <2>1. meddled' \in SUBSET Tasks /\ acts' \in Nat /\ shocks' \in Nat /\ strikes' \in [Tasks -> Nat]
    BY <1>7 DEF CancelByUser
  <2>2. transient' \in [Tasks -> 0..MaxRetries] /\ cooling' \in [Tasks -> BOOLEAN]
    BY <1>7, ResetTypes DEF CancelByUser
  <2> QED BY <1>7, <2>1, <2>2 DEF CancelByUser
<1> QED BY <1>1, <1>2, <1>3, <1>4, <1>5, <1>6, <1>7 DEF Advance

LEMMA AdvanceControl ==
    ASSUME Control, NEW r \in Runs, Live(r), Advance(r)
    PROVE  Control'
<1>1. Advances(r)
  BY AdvanceFacts
<1>2. Links' /\ at' \in [Runs -> Phases]
  BY <1>1, LiveStepLinks DEF Advances
<1> QED BY <1>1, <1>2 DEF Advances, Control, TypeOK, CountsOK

LEMMA AsksFacts ==
    ASSUME Control, NEW r \in Runs, Live(r), AsksSomebody(r)
    PROVE  Escalate(r) /\ CountsOK' /\ UNCHANGED <<label, moves>>
<1> USE RunFacts, CountFacts, FailureTypes, StrikeTypes, ResetTypes DEF CountsOK, memVars
<1>1. CASE FailGenuinely(r) /\ failures[of[r]] + 1 >= MaxFailures
  BY <1>1 DEF FailGenuinely
<1>2. CASE RetriesExhausted(r)
  BY <1>2 DEF RetriesExhausted
<1>3. CASE AskHuman(r)
  BY <1>3 DEF AskHuman
<1>4. CASE LandEscalated(r)
  BY <1>4 DEF LandEscalated
<1>5. CASE LandRefused(r) /\ failures[of[r]] + 1 >= MaxFailures
  BY <1>5 DEF LandRefused
<1> QED BY <1>1, <1>2, <1>3, <1>4, <1>5 DEF AsksSomebody

LEMMA AsksControl ==
    ASSUME Control, NEW r \in Runs, Live(r), AsksSomebody(r)
    PROVE  Control'
<1>1. Escalate(r) /\ CountsOK' /\ UNCHANGED <<label, moves>>
  BY AsksFacts
<1>2. Links'
  BY <1>1, EscalateLinks
<1>3. /\ at' \in [Runs -> Phases] /\ of' \in [Runs -> Tasks \cup {NoTask}]
      /\ from' \in [Runs -> AgentLabels \cup {NoLabel}] /\ got' \in [Runs -> Outcomes]
      /\ seen' \in [Runs -> 0..MaxRetries] /\ stale' = stale \ {r} /\ lock' = lock
  BY <1>1, EscalateFacts
<1> QED BY <1>1, <1>2, <1>3 DEF Control, TypeOK, CountsOK

LEMMA LetsGoFacts ==
    ASSUME Control, NEW r \in Runs, Live(r), LetsGo(r)
    PROVE  ReleaseLock(r) /\ Forget(r) /\ CountsOK' /\ UNCHANGED <<label, moves>>
<1> USE RunFacts, CountFacts, FailureTypes, StrikeTypes DEF CountsOK, memVars
<1>1. CASE Release(r)
  BY <1>1 DEF Release
<1>2. CASE LandMoved(r)
  BY <1>2 DEF LandMoved
<1>3. CASE LandRefused(r) /\ failures[of[r]] + 1 < MaxFailures
  BY <1>3 DEF LandRefused
<1> QED BY <1>1, <1>2, <1>3 DEF LetsGo

LEMMA LetsGoControl ==
    ASSUME Control, NEW r \in Runs, Live(r), LetsGo(r)
    PROVE  Control'
<1>1. ReleaseLock(r) /\ Forget(r) /\ CountsOK' /\ UNCHANGED <<label, moves>>
  BY LetsGoFacts
<1> QED BY <1>1, ReleaseFacts, ReleaseLinks DEF Control, TypeOK, CountsOK

\* The task is taken from whatever holds it, and starts afresh.
TakesOver(t, S) ==
    /\ Takes(t, S)
    /\ CountsOK'
    /\ moves' \in [Tasks -> Seq(Moves)]
    /\ label' \in [Tasks -> Labels]
    /\ \A u \in Tasks \ {t} : label'[u] = label[u]

LEMMA TakesOverControl ==
    ASSUME Control, NEW t \in Tasks, NEW S, TakesOver(t, S)
    PROVE  Control'
<1>1. Links'
  BY TakesLinks DEF TakesOver
<1>2. /\ at' \in [Runs -> Phases] /\ of' \in [Runs -> Tasks \cup {NoTask}]
      /\ from' \in [Runs -> AgentLabels \cup {NoLabel}] /\ got' \in [Runs -> Outcomes]
      /\ seen' \in [Runs -> 0..MaxRetries] /\ lock' \in [Tasks -> Runs \cup {NoRun}]
      /\ stale' \in SUBSET Runs
  BY TakesFacts DEF TakesOver
<1> QED BY <1>1, <1>2 DEF TakesOver, Control, TypeOK, CountsOK

LEMMA ParkedNotLive ==
    ASSUME Control, NEW t \in Tasks
    PROVE  /\ Parked(t) \cap stale = {}
           /\ Parked(t) \cap Overtaken(t) = {}
           /\ \A r \in Parked(t) : r \in Runs /\ of[r] = t
BY DEF Control, Links, Parked, Overtaken, Live

LEMMA LandMoveTakes ==
    ASSUME Control, NEW r \in Runs, LandMove(r)
    PROVE  /\ of[r] \in Tasks /\ TakesOver(of[r], {r} \cup Parked(of[r]))
           /\ Helped(of[r]) /\ failures' = [failures EXCEPT ![of[r]] = 0]
           /\ UNCHANGED <<transient, acts, rerunning>>
           /\ moves' = [moves EXCEPT ![of[r]] = Append(@, [from |-> from[r], to |-> Target(r)])]
           /\ \A u \in Tasks \ {of[r]} : label'[u] = label[u]
<1> DEFINE t == of[r]
<1>1. Live(r) /\ at[r] = "finished"
  BY DEF LandMove, Live
<1>2. t \in Tasks /\ from[r] \in AgentLabels /\ Target(r) \in Labels
  BY <1>1, RunFacts DEF LandMove
<1>3. /\ label' = [label EXCEPT ![t] = Target(r)]
      /\ failures' = [failures EXCEPT ![t] = 0]
      /\ lock' = [lock EXCEPT ![t] = NoRun]
      /\ moves' = [moves EXCEPT ![t] = Append(@, [from |-> from[r], to |-> Target(r)])]
      /\ ForgetAll({r} \cup Parked(t))
      /\ stale' = (stale \cup Overtaken(t)) \ {r}
      /\ Helped(t)
      /\ UNCHANGED <<transient, cooling, paused, broke, memVars, rerunning, acts, shocks>>
  BY DEF LandMove, MoveTask
<1>4. Takes(t, {r} \cup Parked(t))
  <2>1. stale' = (stale \cup Overtaken(t)) \ ({r} \cup Parked(t))
    BY <1>2, <1>3, ParkedNotLive
  <2> QED BY <2>1, <1>2, <1>3, ParkedNotLive DEF Takes
<1>5. moves' \in [Tasks -> Seq(Moves)]
  <2>1. [from |-> from[r], to |-> Target(r)] \in Moves
    BY <1>2 DEF Moves
  <2>2. Append(moves[t], [from |-> from[r], to |-> Target(r)]) \in Seq(Moves)
    BY <2>1, <1>2, AppendProperties DEF Control, TypeOK
  <2> QED BY <2>2, <1>2, <1>3 DEF Control, TypeOK
<1>6. label' \in [Tasks -> Labels] /\ \A u \in Tasks \ {t} : label'[u] = label[u]
  BY <1>2, <1>3 DEF Control, TypeOK
<1>7. CountsOK'
  BY <1>2, <1>3 DEF Control, TypeOK, CountsOK, memVars, Helped
<1> QED BY <1>2, <1>3, <1>4, <1>5, <1>6, <1>7 DEF TakesOver

LEMMA RerunClearTakes ==
    ASSUME Control, NEW t \in Tasks, RerunClear(t)
    PROVE  TakesOver(t, Parked(t)) /\ Helped(t) /\ UNCHANGED <<transient, failures, label, moves>>
<1>1. /\ lock' = [lock EXCEPT ![t] = NoRun]
      /\ ForgetAll(Parked(t))
      /\ stale' = stale \cup Overtaken(t)
      /\ rerunning' = rerunning \cup {t}
      /\ acts' = acts + 1
      /\ Helped(t)
      /\ UNCHANGED <<label, transient, failures, cooling, paused, broke, moves, memVars, shocks>>
  BY DEF RerunClear, Act
<1>2. Takes(t, Parked(t))
  <2>1. stale' = (stale \cup Overtaken(t)) \ Parked(t)
    BY <1>1, ParkedNotLive
  <2> QED BY <2>1, <1>1, ParkedNotLive DEF Takes
<1>3. CountsOK'
  BY <1>1 DEF Control, TypeOK, CountsOK, memVars, Helped
<1> QED BY <1>1, <1>2, <1>3 DEF TakesOver, Control, TypeOK

LEMMA HumanMoveTakes ==
    ASSUME Control, NEW t \in Tasks, NEW l \in Labels, HumanMove(t, l)
    PROVE  /\ TakesOver(t, Parked(t)) /\ Helped(t) /\ transient' = transient
           /\ failures' = [failures EXCEPT ![t] = 0]
<1>1. /\ label' = [label EXCEPT ![t] = l]
      /\ failures' = [failures EXCEPT ![t] = 0]
      /\ lock' = [lock EXCEPT ![t] = NoRun]
      /\ moves' = [moves EXCEPT ![t] = << >>]
      /\ ForgetAll(Parked(t))
      /\ stale' = stale \cup Overtaken(t)
      /\ acts' = acts + 1
      /\ Helped(t)
      /\ UNCHANGED <<transient, cooling, paused, broke, memVars, rerunning, shocks>>
  BY DEF HumanMove, MoveTask, Act
<1>2. Takes(t, Parked(t))
  <2>1. stale' = (stale \cup Overtaken(t)) \ Parked(t)
    BY <1>1, ParkedNotLive
  <2> QED BY <2>1, <1>1, ParkedNotLive DEF Takes
<1>3. CountsOK'
  BY <1>1 DEF Control, TypeOK, CountsOK, memVars, Helped
<1>4. moves' \in [Tasks -> Seq(Moves)]
  <2>1. << >> \in Seq(Moves)
    OBVIOUS
  <2> QED BY <2>1, <1>1 DEF Control, TypeOK
<1>5. label' \in [Tasks -> Labels] /\ \A u \in Tasks \ {t} : label'[u] = label[u]
  BY <1>1 DEF Control, TypeOK
<1> QED BY <1>1, <1>2, <1>3, <1>4, <1>5 DEF TakesOver

\* A run starts on a task: a sweep finds it free, a reply ends what waits for it.
Starts(t, r) ==
    /\ at[r] = "idle" /\ at'[r] \in {"running", "waiting"}
    /\ of'[r] = t /\ from'[r] = label[t] /\ label[t] \in AgentLabels
    /\ lock' = [lock EXCEPT ![t] = r]
    /\ lock[t] # NoRun => at[lock[t]] = "waiting" /\ at'[lock[t]] = "idle" /\ lock[t] # r
    /\ \A q \in Runs \ {r, lock[t]} : at'[q] = at[q] /\ of'[q] = of[q] /\ from'[q] = from[q]
    /\ UNCHANGED <<label, stale>>

LEMMA StartsLinks ==
    ASSUME Control, NEW t \in Tasks, NEW r \in Runs, Starts(t, r)
    PROVE  Links'
<1> USE DEF Control, TypeOK, Live
<1>1. /\ r \notin stale /\ \A u \in Tasks : lock[u] # r
      /\ \A q \in stale : q # lock[t]
  <2>1. r \notin stale
    BY DEF Starts, Links
  <2>2. ASSUME NEW u \in Tasks, lock[u] = r PROVE FALSE
    BY <2>2 DEF Starts, Links
  <2>3. ASSUME NEW q \in stale, q = lock[t] PROVE FALSE
    <3>1. q \in Runs /\ Live(q)
      BY DEF Links
    <3> QED BY <2>3, <3>1 DEF Starts
  <2> QED BY <2>1, <2>2, <2>3
<1>2. /\ lock'[t] = r /\ lock' \in [Tasks -> Runs \cup {NoRun}]
      /\ \A u \in Tasks \ {t} : lock'[u] = lock[u]
  BY DEF Starts
<1>3. ASSUME NEW q \in Runs, at'[q] # "idle"
      PROVE  of'[q] \in Tasks /\ from'[q] \in AgentLabels
  <2>1. CASE q = r
    BY <2>1 DEF Starts
  <2>2. CASE q # r
    <3>1. q # lock[t]
      BY <1>3 DEF Starts
    <3> QED BY <1>3, <2>2, <3>1 DEF Starts, Links
  <2> QED BY <2>1, <2>2
<1>4. ASSUME NEW u \in Tasks, lock'[u] # NoRun
      PROVE  of'[lock'[u]] = u /\ at'[lock'[u]] # "idle" /\ from'[lock'[u]] = label'[u]
  <2>1. CASE u = t
    BY <1>2, <2>1 DEF Starts
  <2>2. CASE u # t
    <3>1. lock'[u] = lock[u] /\ lock[u] \in Runs \ {r, lock[t]}
      BY <1>1, <1>2, <1>4, <2>2 DEF Links
    <3> QED BY <3>1 DEF Starts, Links
  <2> QED BY <2>1, <2>2
<1>5. ASSUME NEW q \in Runs
      PROVE  /\ q \in stale' => Live(q)' /\ lock'[of'[q]] # q
             /\ Live(q)' /\ q \notin stale' => lock'[of'[q]] = q
  <2>1. CASE q = r
    BY <1>1, <1>2, <2>1 DEF Starts
  <2>2. CASE q = lock[t] /\ q # r
    BY <1>1, <2>2 DEF Starts
  <2>3. CASE q # r /\ q # lock[t]
    <3>1. at'[q] = at[q] /\ of'[q] = of[q] /\ (q \in stale' <=> q \in stale)
      BY <2>3 DEF Starts
    <3>2. Live(q) => of[q] \in Tasks
      BY DEF Links
    <3>3. Live(q) => (lock'[of[q]] = q <=> lock[of[q]] = q)
      BY <1>2, <2>3, <3>2
    <3> QED BY <3>1, <3>3 DEF Links
  <2> QED BY <2>1, <2>2, <2>3
<1> QED BY <1>3, <1>4, <1>5 DEF Links

LEMMA SweepStarts ==
    ASSUME Control, NEW t \in Tasks, NEW r \in Runs, Sweep(t, r)
    PROVE  Starts(t, r) /\ Control'
<1>1. /\ lock[t] = NoRun /\ label[t] \in AgentLabels /\ at[r] = "idle"
      /\ lock' = [lock EXCEPT ![t] = r] /\ of' = [of EXCEPT ![r] = t]
      /\ from' = [from EXCEPT ![r] = label[t]]
      /\ at' = [at EXCEPT ![r] = IF broke[t] THEN "waiting" ELSE "running"]
      /\ UNCHANGED <<label, transient, failures, cooling, paused, broke, moves, got, seen,
                     memVars, rerunning, acts, shocks, strikes, stale, meddled>>
  BY DEF Sweep, Pickup, Goto
<1>2. Starts(t, r)
  BY <1>1 DEF Starts, Control, TypeOK
<1>3. Links'
  BY <1>2, StartsLinks
<1>4. /\ at' \in [Runs -> Phases] /\ of' \in [Runs -> Tasks \cup {NoTask}]
      /\ from' \in [Runs -> AgentLabels \cup {NoLabel}]
      /\ lock' \in [Tasks -> Runs \cup {NoRun}]
  BY <1>1 DEF Control, TypeOK, Phases
<1> QED BY <1>1, <1>2, <1>3, <1>4 DEF Control, TypeOK, memVars

LEMMA ReplyStarts ==
    ASSUME Control, NEW t \in Tasks, NEW q \in Runs, Reply(t, q)
    PROVE  Starts(t, q) /\ Control'
<1>1. /\ lock[t] # NoRun /\ at[lock[t]] = "waiting" /\ at[q] = "idle"
      /\ failures' = [failures EXCEPT ![t] = 0]
      /\ lock' = [lock EXCEPT ![t] = q]
      /\ at' = [at EXCEPT ![lock[t]] = "idle", ![q] = "running"]
      /\ of' = [of EXCEPT ![lock[t]] = NoTask, ![q] = t]
      /\ from' = [from EXCEPT ![lock[t]] = NoLabel, ![q] = label[t]]
      /\ Helped(t)
      /\ acts' = acts + 1
      /\ UNCHANGED <<label, transient, cooling, paused, broke, moves, got, seen,
                     memVars, rerunning, shocks, stale>>
  BY DEF Reply, Act
<1>2. lock[t] \in Runs /\ label[t] \in AgentLabels
  BY <1>1 DEF Control, TypeOK, Links
<1>3. Starts(t, q)
  BY <1>1, <1>2 DEF Starts, Control, TypeOK
<1>4. Links'
  BY <1>3, StartsLinks
<1>5. /\ at' \in [Runs -> Phases] /\ of' \in [Runs -> Tasks \cup {NoTask}]
      /\ from' \in [Runs -> AgentLabels \cup {NoLabel}]
      /\ lock' \in [Tasks -> Runs \cup {NoRun}]
  BY <1>1, <1>2 DEF Control, TypeOK, Phases
<1>6. failures' \in [Tasks -> Nat] /\ strikes' \in [Tasks -> Nat] /\ meddled' \in SUBSET Tasks
      /\ acts' \in Nat
  BY <1>1 DEF Control, TypeOK, Helped
<1> QED BY <1>1, <1>3, <1>4, <1>5, <1>6 DEF Control, TypeOK, memVars

\* What touches neither a lock, a run, nor a task's column.
Aside ==
    \/ \E t \in Tasks : \/ BudgetRunsOut(t) \/ RerunReset(t) \/ RaiseBudget(t)
                        \/ CooldownEnds(t)
                        \/ \E p \in BOOLEAN : SetPaused(t, p)
    \/ PressureFades

LeavesRuns == CountsOK' /\ UNCHANGED <<runVars, lock, label, stale, transient, moves>>

LEMMA AsideFacts ==
    ASSUME Control, Aside
    PROVE  LeavesRuns
<1> USE DEF Control, TypeOK, runVars, taskVars, memVars, LeavesRuns
<1>1. ASSUME NEW t \in Tasks, BudgetRunsOut(t) PROVE LeavesRuns
  BY <1>1 DEF BudgetRunsOut, CountsOK
<1>2. ASSUME NEW t \in Tasks, RerunReset(t) PROVE LeavesRuns
  BY <1>2 DEF RerunReset, CountsOK, Helped
<1>3. ASSUME NEW t \in Tasks, RaiseBudget(t) PROVE LeavesRuns
  BY <1>3 DEF RaiseBudget, CountsOK
<1>4. ASSUME NEW t \in Tasks, CooldownEnds(t) PROVE LeavesRuns
  BY <1>4 DEF CooldownEnds, CountsOK
<1>5. ASSUME NEW t \in Tasks, NEW p \in BOOLEAN, SetPaused(t, p) PROVE LeavesRuns
  BY <1>5 DEF SetPaused, CountsOK, Act
<1>6. CASE PressureFades
  BY <1>6 DEF PressureFades, CountsOK
<1> HIDE DEF Control, TypeOK, runVars, taskVars, memVars, LeavesRuns
<1> QED BY <1>1, <1>2, <1>3, <1>4, <1>5, <1>6, Zenon DEF Aside

LEMMA AsideControl ==
    ASSUME Control, Aside
    PROVE  Control'
<1>1. CountsOK' /\ UNCHANGED <<runVars, lock, label, stale, transient, moves>>
  BY AsideFacts DEF LeavesRuns
<1>2. UNCHANGED <<at, of, from, got, seen, lock, label, stale, moves>>
  BY <1>1 DEF runVars
<1>3. Links'
  BY <1>2 DEF Control, Links, Live
<1> QED BY <1>1, <1>2, <1>3 DEF Control, TypeOK, CountsOK

LEMMA StepKinds ==
    ASSUME Control, Next
    PROVE  \/ \E t \in Tasks, r \in Runs : Sweep(t, r) \/ Reply(t, r)
           \/ \E r \in Runs : Live(r) /\ (Advance(r) \/ AsksSomebody(r) \/ LetsGo(r) \/ LandMove(r))
           \/ \E t \in Tasks : RerunClear(t) \/ \E l \in Labels : HumanMove(t, l)
           \/ Aside
BY RunStepKinds DEF Next, Aside

LEMMA StepControl == Control /\ [Next]_vars => Control'
<1> SUFFICES ASSUME Control, [Next]_vars PROVE Control'
  OBVIOUS
<1>1. CASE Next
  BY <1>1, StepKinds, SweepStarts, ReplyStarts, AdvanceControl, AsksControl, LetsGoControl,
     LandMoveTakes, RerunClearTakes, HumanMoveTakes, TakesOverControl, AsideControl
<1>2. CASE UNCHANGED vars
  BY <1>2 DEF vars, Control, TypeOK, Links, Live
<1> QED BY <1>1, <1>2

-----------------------------------------------------------------------------
(* The arithmetic of rounds: a genuine failure is worth MaxRetries + 1.    *)

LEMMA OneMoreRound ==
    ASSUME NEW f \in Nat, NEW k \in Nat
    PROVE  f * k \in Nat /\ (f + 1) * k = f * k + k
OBVIOUS

LEMMA NoFewerRounds ==
    ASSUME NEW f \in Nat, NEW g \in Nat, NEW k \in Nat, f <= g
    PROVE  f * k <= g * k
<1>1. PICK d \in Nat : g = f + d
  <2>1. g - f \in Nat /\ g = f + (g - f)
    OBVIOUS
  <2> QED BY <2>1
<1>2. g * k = f * k + d * k /\ d * k \in Nat /\ f * k \in Nat
  BY <1>1
<1> QED BY <1>2

\* The rounds a task has behind it, and those it has in all.
LEMMA Rounds ==
    ASSUME Control, NEW t \in Tasks
    PROVE  /\ strikes[t] \in Nat /\ failures[t] \in Nat /\ MaxFailures - 1 \in Nat
           /\ failures[t] * (MaxRetries + 1) \in Nat
           /\ (MaxFailures - 1) * (MaxRetries + 1) \in Nat
           /\ (failures[t] + 1) * (MaxRetries + 1)
                = failures[t] * (MaxRetries + 1) + MaxRetries + 1
           /\ MaxFailures * (MaxRetries + 1)
                = (MaxFailures - 1) * (MaxRetries + 1) + MaxRetries + 1
<1>1. strikes[t] \in Nat /\ failures[t] \in Nat /\ MaxFailures - 1 \in Nat /\ MaxRetries + 1 \in Nat
  BY DEF Control, TypeOK
<1>2. /\ failures[t] * (MaxRetries + 1) \in Nat
      /\ (failures[t] + 1) * (MaxRetries + 1) = failures[t] * (MaxRetries + 1) + (MaxRetries + 1)
  BY <1>1, OneMoreRound
<1>3. /\ (MaxFailures - 1) * (MaxRetries + 1) \in Nat
      /\ ((MaxFailures - 1) + 1) * (MaxRetries + 1)
           = (MaxFailures - 1) * (MaxRetries + 1) + (MaxRetries + 1)
  BY <1>1, OneMoreRound
<1>4. (MaxFailures - 1) + 1 = MaxFailures
  OBVIOUS
<1>5. MaxFailures * (MaxRetries + 1)
           = (MaxFailures - 1) * (MaxRetries + 1) + (MaxRetries + 1)
  BY <1>3, <1>4
<1> HIDE <1>3
<1>6. (MaxFailures - 1) * (MaxRetries + 1) \in Nat
  BY <1>3
<1> DEFINE F == failures[t] * (MaxRetries + 1)
           F1 == (failures[t] + 1) * (MaxRetries + 1)
           G == (MaxFailures - 1) * (MaxRetries + 1)
           G1 == MaxFailures * (MaxRetries + 1)
<1>7. F \in Nat /\ G \in Nat /\ F1 = F + (MaxRetries + 1) /\ G1 = G + (MaxRetries + 1)
  BY <1>2, <1>5, <1>6
<1>8. F1 = F + MaxRetries + 1 /\ G1 = G + MaxRetries + 1
  <2> HIDE DEF F, F1, G, G1
  <2> QED BY <1>7
<1> QED BY <1>1, <1>2, <1>6, <1>8

\* An attempt that failed is charged to the round it was part of.
LEMMA SpentMore ==
    ASSUME Control, NEW t \in Tasks, NEW n \in Nat, Spent(t, n),
           failures'[t] = failures[t], strikes'[t] = strikes[t] + 1
    PROVE  Spent(t, n + 1)'
<1> DEFINE F == failures[t] * (MaxRetries + 1)
           G == (MaxFailures - 1) * (MaxRetries + 1)
<1>1. F \in Nat /\ G \in Nat /\ strikes[t] \in Nat /\ strikes[t] <= F + n /\ strikes[t] <= G + n
  BY Rounds DEF Spent
<1>2. strikes[t] + 1 <= F + (n + 1) /\ strikes[t] + 1 <= G + (n + 1)
  <2> HIDE DEF F, G
  <2> QED BY <1>1
<1> QED BY <1>2 DEF Spent

LEMMA SpentLater ==
    ASSUME Control, NEW t \in Tasks, NEW n \in Nat, NEW m \in Nat, n <= m, Spent(t, n),
           failures'[t] = failures[t], strikes'[t] = strikes[t]
    PROVE  Spent(t, m)'
<1> DEFINE F == failures[t] * (MaxRetries + 1)
           G == (MaxFailures - 1) * (MaxRetries + 1)
<1>1. F \in Nat /\ G \in Nat /\ strikes[t] \in Nat /\ strikes[t] <= F + n /\ strikes[t] <= G + n
  BY Rounds DEF Spent
<1>2. strikes[t] <= F + m /\ strikes[t] <= G + m
  <2> HIDE DEF F, G
  <2> QED BY <1>1
<1> QED BY <1>2 DEF Spent

\* A genuine failure ends a round, with as many to come as the limit leaves.
LEMMA RoundEnds ==
    ASSUME Control, NEW t \in Tasks, NEW n \in 0..MaxRetries, NEW m \in Nat, Spent(t, n),
           failures[t] + 1 < MaxFailures,
           failures'[t] = failures[t] + 1, strikes'[t] = strikes[t] + 1
    PROVE  Spent(t, m)'
<1> DEFINE F == failures[t] * (MaxRetries + 1)
           F1 == (failures[t] + 1) * (MaxRetries + 1)
           G == (MaxFailures - 1) * (MaxRetries + 1)
<1>1. F \in Nat /\ strikes[t] \in Nat /\ strikes[t] <= F + n /\ F1 = F + MaxRetries + 1
      /\ failures[t] \in Nat
  BY Rounds DEF Spent
<1>2. F1 <= G
  <2>1. failures[t] + 1 \in Nat /\ MaxFailures - 1 \in Nat /\ failures[t] + 1 <= MaxFailures - 1
        /\ MaxRetries + 1 \in Nat
    BY <1>1
  <2> QED BY <2>1, NoFewerRounds
<1>3. G \in Nat
  BY Rounds
<1>4. strikes[t] + 1 <= F1 + m /\ strikes[t] + 1 <= G + m
  <2> HIDE DEF F, F1, G
  <2> QED BY <1>1, <1>2, <1>3
<1> QED BY <1>4 DEF Spent

\* Whoever is asked is asked within the bound, this failure included.
LEMMA AskedInTime ==
    ASSUME Control, NEW t \in Tasks, NEW n \in 0..MaxRetries, Spent(t, n),
           strikes'[t] \in {strikes[t], strikes[t] + 1}
    PROVE  strikes'[t] <= MaxFailures * (MaxRetries + 1)
<1> DEFINE G == (MaxFailures - 1) * (MaxRetries + 1)
           G1 == MaxFailures * (MaxRetries + 1)
<1>1. G \in Nat /\ strikes[t] \in Nat /\ strikes[t] <= G + n /\ G1 = G + MaxRetries + 1
  BY Rounds DEF Spent
<1>2. strikes'[t] <= G1
  <2> HIDE DEF G, G1
  <2> QED BY <1>1
<1> QED BY <1>2

LEMMA Fresh ==
    ASSUME Control', NEW t \in Tasks, strikes'[t] = 0
    PROVE  /\ \A n \in Nat : Spent(t, n)'
           /\ strikes'[t] <= MaxFailures * (MaxRetries + 1)
<1>1. failures'[t] \in Nat
  BY DEF Control, TypeOK
<1>2. /\ failures'[t] * (MaxRetries + 1) \in Nat
      /\ (MaxFailures - 1) * (MaxRetries + 1) \in Nat
      /\ MaxFailures * (MaxRetries + 1) \in Nat
  <2>1. MaxFailures - 1 \in Nat /\ MaxRetries + 1 \in Nat
    OBVIOUS
  <2> QED BY <1>1, <2>1, OneMoreRound
<1> DEFINE F == failures'[t] * (MaxRetries + 1)
           G == (MaxFailures - 1) * (MaxRetries + 1)
           G1 == MaxFailures * (MaxRetries + 1)
<1>3. /\ \A n \in Nat : 0 <= F + n /\ 0 <= G + n
      /\ 0 <= G1
  <2>1. F \in Nat /\ G \in Nat /\ G1 \in Nat
    BY <1>2
  <2> HIDE DEF F, G, G1
  <2> QED BY <2>1
<1> QED BY <1>3 DEF Spent

-----------------------------------------------------------------------------
(* Every step keeps each task within its budget.                           *)

Undisturbed(t) ==
    /\ lock'[t] = lock[t]
    /\ lock[t] # NoRun => at'[lock[t]] = at[lock[t]] /\ seen'[lock[t]] = seen[lock[t]]
    /\ transient'[t] = transient[t]
    /\ failures'[t] = failures[t]
    /\ strikes'[t] = strikes[t]
    /\ t \in meddled => t \in meddled'

LEMMA UndisturbedBudget ==
    ASSUME NEW t \in Tasks, Budget(t), Undisturbed(t)
    PROVE  Budget(t)'
BY DEF Undisturbed, Budget, Spent

\* A run writes to its own task, and leaves a mark when it works for nobody.
WritesOnly(r) ==
    /\ \A u \in Tasks \ {of[r]} : /\ transient'[u] = transient[u]
                                  /\ failures'[u] = failures[u]
                                  /\ strikes'[u] = strikes[u]
    /\ meddled \subseteq meddled'
    /\ r \in stale => \/ of[r] \in meddled'
                      \/ UNCHANGED <<transient, failures, strikes>>
    /\ \A q \in Runs \ {r} : at'[q] = at[q] /\ seen'[q] = seen[q]
    /\ \A u \in Tasks : lock[u] # r => lock'[u] = lock[u]

LEMMA AdvanceWrites ==
    ASSUME Control, NEW r \in Runs, Live(r), Advance(r)
    PROVE  WritesOnly(r)
<1>1. /\ UNCHANGED lock /\ \A q \in Runs \ {r} : at'[q] = at[q]
  BY AdvanceFacts DEF Advances, Goto, Control, TypeOK
<1> USE RunFacts
    DEF Control, TypeOK, WritesOnly, taskVars, SetRetry, ResetRetry, Strike, NoStrike
<1>2. ASSUME NEW o \in Outcomes, Complete(r, o)
      PROVE  WritesOnly(r)
  BY <1>1, <1>2 DEF Complete
<1>3. CASE FailGenuinely(r) /\ failures[of[r]] + 1 < MaxFailures
  <2>1. ~(failures[of[r]] + 1 >= MaxFailures)
    BY <1>3
  <2>2. seen' = seen
    BY <1>3, <2>1 DEF FailGenuinely
  <2> QED BY <1>1, <1>3, <2>2 DEF FailGenuinely
<1>4. CASE ReadRetries(r)
  BY <1>1, <1>4 DEF ReadRetries
<1>5. CASE SpendRetry(r)
  BY <1>1, <1>5 DEF SpendRetry
<1>6. CASE RateLimited(r)
  BY <1>1, <1>6 DEF RateLimited
<1>7. CASE KillForMemory(r)
  BY <1>1, <1>7 DEF KillForMemory
<1>8. CASE CancelByUser(r)
  BY <1>1, <1>8 DEF CancelByUser
<1> QED BY <1>2, <1>3, <1>4, <1>5, <1>6, <1>7, <1>8 DEF Advance

LEMMA AsksWrites ==
    ASSUME Control, NEW r \in Runs, Live(r), AsksSomebody(r)
    PROVE  WritesOnly(r)
<1>1. /\ UNCHANGED lock /\ \A q \in Runs \ {r} : at'[q] = at[q] /\ seen'[q] = seen[q]
  BY AsksFacts, EscalateFacts
<1> USE RunFacts
    DEF Control, TypeOK, WritesOnly, SetRetry, ResetRetry, Strike
<1>2. CASE FailGenuinely(r) /\ failures[of[r]] + 1 >= MaxFailures
  BY <1>1, <1>2 DEF FailGenuinely
<1>3. CASE RetriesExhausted(r)
  BY <1>1, <1>3 DEF RetriesExhausted
<1>4. CASE AskHuman(r)
  BY <1>1, <1>4 DEF AskHuman
<1>5. CASE LandEscalated(r)
  BY <1>1, <1>5 DEF LandEscalated
<1>6. CASE LandRefused(r) /\ failures[of[r]] + 1 >= MaxFailures
  BY <1>1, <1>6 DEF LandRefused
<1> QED BY <1>2, <1>3, <1>4, <1>5, <1>6 DEF AsksSomebody

LEMMA LetsGoWrites ==
    ASSUME Control, NEW r \in Runs, Live(r), LetsGo(r)
    PROVE  WritesOnly(r)
<1>1. /\ \A q \in Runs \ {r} : at'[q] = at[q] /\ seen'[q] = seen[q]
      /\ \A u \in Tasks : lock[u] # r => lock'[u] = lock[u]
  BY LetsGoFacts, ReleaseFacts
<1> USE RunFacts DEF Control, TypeOK, WritesOnly, Strike
<1>2. CASE Release(r)
  BY <1>1, <1>2 DEF Release
<1>3. CASE LandMoved(r)
  BY <1>1, <1>3 DEF LandMoved
<1>4. CASE LandRefused(r) /\ failures[of[r]] + 1 < MaxFailures
  BY <1>1, <1>4 DEF LandRefused
<1> QED BY <1>2, <1>3, <1>4 DEF LetsGo

LEMMA ElsewhereBudget ==
    ASSUME Control, NEW r \in Runs, Live(r), WritesOnly(r), NEW t \in Tasks,
           Budget(t), lock[t] # r
    PROVE  Budget(t)'
<1>1. t \in meddled' \/ (/\ transient'[t] = transient[t] /\ failures'[t] = failures[t]
                         /\ strikes'[t] = strikes[t])
  <2>1. CASE of[r] # t
    BY <2>1 DEF WritesOnly
  <2>2. CASE of[r] = t
    <3>1. r \in stale
      BY <2>2 DEF Control, Links
    <3> QED BY <2>2, <3>1 DEF WritesOnly
  <2> QED BY <2>1, <2>2
<1>2. t \in meddled' \/ Undisturbed(t)
  <2>1. lock[t] # NoRun => lock[t] \in Runs \ {r}
    BY DEF Control, TypeOK
  <2> QED BY <1>1, <2>1 DEF WritesOnly, Undisturbed
<1> QED BY <1>2, UndisturbedBudget DEF Budget

\* The run that has the task, for itself.
Own(r, t) == lock[t] = r /\ of[r] = t /\ r \notin stale /\ from[r] = label[t]

LEMMA OwnFacts ==
    ASSUME Control, NEW r \in Runs, Live(r), NEW t \in Tasks, lock[t] = r
    PROVE  /\ Own(r, t)
           /\ transient[t] \in 0..MaxRetries /\ seen[r] \in 0..MaxRetries
           /\ failures[t] \in Nat /\ strikes[t] \in Nat
BY DEF Control, TypeOK, Links, Own

\* What the budget says of a task whose run is at a given stage.
LEMMA OwnBudget ==
    ASSUME Control, NEW r \in Runs, Live(r), NEW t \in Tasks, lock[t] = r,
           Budget(t), t \notin meddled
    PROVE  /\ at[r] \in {"running", "failed"} => Spent(t, transient[t])
           /\ at[r] = "counted" => Spent(t, seen[r])
           /\ at[r] = "finished" => Spent(t, MaxRetries)
BY DEF Budget, Control, TypeOK

LEMMA KeepsBudget ==
    ASSUME Control, NEW r \in Runs, NEW t \in Tasks, lock'[t] = r,
           t \notin meddled' =>
               /\ at'[r] \in {"running", "failed"} => Spent(t, transient[t])'
               /\ at'[r] = "counted" => Spent(t, seen[r])'
               /\ at'[r] = "finished" => Spent(t, MaxRetries)'
               /\ at'[r] = "waiting" => strikes'[t] <= MaxFailures * (MaxRetries + 1)
    PROVE  Budget(t)'
<1>1. r # NoRun
  OBVIOUS
<1>2. Spent(t, seen[r])' = Spent(t, seen[lock[t]])'
  BY DEF Spent
<1> QED BY <1>1, <1>2 DEF Budget

LEMMA AdvanceBudget ==
    ASSUME Control, NEW r \in Runs, Live(r), Advance(r), NEW t \in Tasks, lock[t] = r, Budget(t)
    PROVE  Budget(t)'
<1>1. Own(r, t) /\ transient[t] \in 0..MaxRetries /\ seen[r] \in 0..MaxRetries
  BY OwnFacts
<1>2. /\ lock'[t] = r /\ meddled' = meddled
      /\ Control'
  <2>1. lock' = lock /\ Control'
    BY AdvanceFacts, AdvanceControl DEF Advances
  <2>2. meddled' = meddled
    BY <1>1 DEF Own, Advance, Complete, FailGenuinely, ReadRetries, SpendRetry, RateLimited,
       KillForMemory, CancelByUser, Strike, NoStrike
  <2> QED BY <2>1, <2>2
<1> SUFFICES ASSUME t \notin meddled
             PROVE  /\ at'[r] \in {"running", "failed"} => Spent(t, transient[t])'
                    /\ at'[r] = "counted" => Spent(t, seen[r])'
                    /\ at'[r] = "finished" => Spent(t, MaxRetries)'
                    /\ at'[r] = "waiting" => strikes'[t] <= MaxFailures * (MaxRetries + 1)
  BY <1>2, KeepsBudget
<1>3. of[r] = t /\ r \notin stale
  BY <1>1 DEF Own
<1>a. /\ transient[t] \in Nat /\ transient[t] <= MaxRetries /\ MaxRetries \in Nat /\ seen[r] \in Nat
  BY <1>1
<1>b. /\ at \in [Runs -> Phases] /\ transient \in [Tasks -> 0..MaxRetries]
      /\ failures \in [Tasks -> Nat] /\ strikes \in [Tasks -> Nat]
      /\ seen \in [Runs -> 0..MaxRetries]
  BY DEF Control, TypeOK
<1>4. ASSUME NEW o \in Outcomes, Complete(r, o)
      PROVE  at'[r] = "finished" /\ Spent(t, MaxRetries)'
  <2>1. at[r] = "running" /\ at'[r] = "finished" /\ failures'[t] = failures[t]
        /\ strikes'[t] = strikes[t]
    BY <1>3, <1>4, <1>b DEF Complete, Goto, NoStrike
  <2>2. Spent(t, transient[t])
    BY <2>1, OwnBudget
  <2> QED BY <1>a, <2>1, <2>2, SpentLater
<1>5. ASSUME FailGenuinely(r), failures[of[r]] + 1 < MaxFailures
      PROVE  at'[r] = "failed" /\ Spent(t, 0)' /\ transient'[t] = 0
  <2>1. ~(failures[of[r]] + 1 >= MaxFailures)
    BY <1>3, <1>5, <1>b
  <2>2. at[r] = "running" /\ at'[r] = "failed" /\ failures'[t] = failures[t] + 1
        /\ strikes'[t] = strikes[t] + 1 /\ transient'[t] = 0
    BY <1>3, <1>5, <1>b, <2>1 DEF FailGenuinely, Goto, Strike, ResetRetry, SetRetry
  <2>3. Spent(t, transient[t])
    BY <2>2, OwnBudget
  <2> QED BY <1>1, <1>3, <1>5, <2>2, <2>3, RoundEnds
<1>6. ASSUME ReadRetries(r)
      PROVE  at'[r] = "counted" /\ Spent(t, seen[r])'
  <2>1. at[r] = "running" /\ at'[r] = "counted" /\ failures'[t] = failures[t]
        /\ strikes'[t] = strikes[t] /\ seen'[r] = transient[t]
    BY <1>3, <1>6, <1>b DEF ReadRetries, Goto, taskVars
  <2>2. Spent(t, transient[t])
    BY <2>1, OwnBudget
  <2> QED BY <2>1, <2>2 DEF Spent
<1>7. ASSUME SpendRetry(r)
      PROVE  at'[r] = "failed" /\ Spent(t, transient[t])'
  <2>1. at[r] = "counted" /\ at'[r] = "failed" /\ failures'[t] = failures[t]
        /\ strikes'[t] = strikes[t] + 1 /\ transient'[t] = seen[r] + 1
    BY <1>3, <1>7, <1>b DEF SpendRetry, Goto, Strike, SetRetry
  <2>2. PICK n \in Nat : n = seen[r]
    BY <1>a
  <2>3. Spent(t, n)
    BY <2>1, <2>2, OwnBudget
  <2>4. Spent(t, n + 1)' /\ transient'[t] = n + 1
    BY <2>1, <2>2, <2>3, SpentMore
  <2> QED BY <2>1, <2>4 DEF Spent
<1>8. ASSUME RateLimited(r)
      PROVE  at'[r] = "failed" /\ Spent(t, transient[t])'
  <2>1. at[r] = "running" /\ at'[r] = "failed" /\ failures'[t] = failures[t]
        /\ strikes'[t] = strikes[t] /\ transient'[t] = transient[t]
    BY <1>3, <1>8, <1>b DEF RateLimited, Goto, taskVars
  <2>2. Spent(t, transient[t])
    BY <2>1, OwnBudget
  <2> QED BY <2>1, <2>2 DEF Spent
<1>9. ASSUME KillForMemory(r) \/ CancelByUser(r)
      PROVE  at'[r] = "failed" /\ Spent(t, transient[t])'
  <2>1. at'[r] = "failed" /\ strikes'[t] = 0 /\ transient'[t] = 0
    BY <1>3, <1>9, <1>b DEF KillForMemory, CancelByUser, Goto, SetRetry, ResetRetry
  <2>2. Spent(t, 0)'
    BY <1>2, <2>1, Fresh
  <2> QED BY <2>1, <2>2 DEF Spent
<1>10. Spent(t, 0)' /\ transient'[t] = 0 => Spent(t, transient[t])'
  BY DEF Spent
<1> QED BY <1>4, <1>5, <1>6, <1>7, <1>8, <1>9, <1>10, <1>3 DEF Advance

LEMMA AsksBudget ==
    ASSUME Control, NEW r \in Runs, Live(r), AsksSomebody(r), NEW t \in Tasks, lock[t] = r,
           Budget(t)
    PROVE  Budget(t)'
<1>1. Own(r, t) /\ transient[t] \in 0..MaxRetries /\ seen[r] \in 0..MaxRetries
      /\ strikes[t] \in Nat
  BY OwnFacts
<1>2. /\ lock'[t] = r /\ at'[r] = "waiting"
  BY <1>1, AsksFacts, EscalateFacts DEF Own
<1>3. meddled' = meddled
  BY <1>1 DEF Own, AsksSomebody, FailGenuinely, RetriesExhausted, AskHuman, LandEscalated,
     LandRefused, Strike
<1> SUFFICES ASSUME t \notin meddled
             PROVE  strikes'[t] <= MaxFailures * (MaxRetries + 1)
  BY <1>2, <1>3, KeepsBudget
<1>4. strikes'[t] \in {strikes[t], strikes[t] + 1}
  <2>1. strikes \in [Tasks -> Nat]
    BY DEF Control, TypeOK
  <2> QED BY <1>1, <2>1 DEF Own, AsksSomebody, FailGenuinely, RetriesExhausted, AskHuman,
         LandEscalated, LandRefused, Strike
<1>5. \E n \in 0..MaxRetries : Spent(t, n)
  <2>1. at[r] \in {"running", "counted", "finished"}
    BY DEF AsksSomebody, FailGenuinely, RetriesExhausted, AskHuman, LandEscalated, LandRefused
  <2>2. MaxRetries \in 0..MaxRetries
    OBVIOUS
  <2> QED BY <1>1, <2>1, <2>2, OwnBudget
<1> QED BY <1>4, <1>5, AskedInTime

LEMMA LetsGoBudget ==
    ASSUME Control, NEW r \in Runs, Live(r), LetsGo(r), NEW t \in Tasks, lock[t] = r,
           Budget(t)
    PROVE  Budget(t)'
<1>1. Own(r, t) /\ transient[t] \in 0..MaxRetries /\ strikes[t] \in Nat
  BY OwnFacts
<1>2. lock'[t] = NoRun
  BY LetsGoFacts, ReleaseFacts
<1>3. meddled' = meddled /\ transient' = transient
  BY <1>1 DEF Own, LetsGo, Release, LandMoved, LandRefused, Strike
<1> SUFFICES ASSUME t \notin meddled
             PROVE  Spent(t, transient[t])'
  BY <1>2, <1>3 DEF Budget
<1>b. failures \in [Tasks -> Nat] /\ strikes \in [Tasks -> Nat]
  BY DEF Control, TypeOK
<1>4. ASSUME Release(r) PROVE Spent(t, transient[t])'
  <2>1. Spent(t, transient[t])
    BY <1>4, OwnBudget DEF Release
  <2> QED BY <1>4, <2>1 DEF Release, Spent
<1>5. ~LandMoved(r)
  BY <1>1 DEF LandMoved, Moved, Own
<1>6. ASSUME LandRefused(r), failures[of[r]] + 1 < MaxFailures
      PROVE  Spent(t, transient[t])'
  <2>1. PICK m \in Nat : m = transient[t]
    BY <1>1
  <2>2. Spent(t, MaxRetries)
    BY <1>6, OwnBudget DEF LandRefused
  <2>3. failures[t] + 1 < MaxFailures /\ failures'[t] = failures[t] + 1
        /\ strikes'[t] = strikes[t] + 1
    BY <1>1, <1>6, <1>b DEF Own, LandRefused, Strike
  <2>4. Spent(t, m)'
    <3>1. MaxRetries \in 0..MaxRetries
      OBVIOUS
    <3> QED BY <2>2, <2>3, <3>1, RoundEnds
  <2> QED BY <1>3, <2>1, <2>4 DEF Spent
<1> QED BY <1>4, <1>5, <1>6 DEF LetsGo

\* Whoever takes a task over gives it a fresh budget.
LEMMA TakesOverBudget ==
    ASSUME Control, NEW t \in Tasks, NEW S, TakesOver(t, S), Helped(t), transient' = transient,
           failures' \in {failures, [failures EXCEPT ![t] = 0]},
           \A u \in Tasks : Budget(u), NEW u \in Tasks
    PROVE  Budget(u)'
<1>1. CASE u = t
  <2>1. lock'[t] = NoRun
    BY TakesFacts DEF TakesOver
  <2>2. strikes'[t] = 0
    BY DEF Helped, Control, TypeOK
  <2>3. PICK m \in Nat : m = transient[t]
    BY DEF Control, TypeOK
  <2>4. Spent(t, m)'
    BY <2>2, TakesOverControl, Fresh
  <2>5. Spent(t, transient[t])'
    BY <2>3, <2>4 DEF Spent
  <2> QED BY <1>1, <2>1, <2>5 DEF Budget
<1>2. CASE u # t
  <2>1. lock'[u] = lock[u]
    BY <1>2, TakesFacts DEF TakesOver
  <2>2. lock[u] # NoRun => lock[u] \in Runs \ S
    BY <1>2 DEF TakesOver, Takes, Control, TypeOK, Links
  <2>3. lock[u] # NoRun => at'[lock[u]] = at[lock[u]] /\ seen'[lock[u]] = seen[lock[u]]
    BY <2>2, TakesFacts DEF TakesOver
  <2>4. strikes'[u] = strikes[u] /\ failures'[u] = failures[u] /\ (u \in meddled => u \in meddled')
    BY <1>2 DEF Helped, Control, TypeOK
  <2> QED BY <2>1, <2>3, <2>4, UndisturbedBudget DEF Undisturbed
<1> QED BY <1>1, <1>2

LEMMA StartsElsewhere ==
    ASSUME Control, NEW t \in Tasks, NEW r \in Runs, Starts(t, r), NEW u \in Tasks, u # t
    PROVE  /\ lock'[u] = lock[u]
           /\ lock[u] # NoRun => at'[lock[u]] = at[lock[u]]
<1>1. lock'[u] = lock[u]
  BY DEF Starts, Control, TypeOK
<1>2. lock[u] # NoRun => lock[u] \in Runs \ {r, lock[t]}
  BY DEF Starts, Control, TypeOK, Links
<1> QED BY <1>1, <1>2 DEF Starts

LEMMA SweepBudget ==
    ASSUME Control, NEW t \in Tasks, NEW r \in Runs, Sweep(t, r),
           NEW u \in Tasks, Budget(u)
    PROVE  Budget(u)'
<1>1. /\ Starts(t, r) /\ lock[t] = NoRun
      /\ UNCHANGED <<transient, failures, seen, strikes, meddled>>
      /\ at' = [at EXCEPT ![r] = IF broke[t] THEN "waiting" ELSE "running"]
  BY SweepStarts DEF Sweep, Pickup, Goto
<1>2. CASE u = t
  <2>1. lock'[t] = r /\ at'[r] \in {"waiting", "running"}
    BY <1>1 DEF Starts, Control, TypeOK
  <2>2. ASSUME t \notin meddled
        PROVE  Spent(t, transient[t])' /\ strikes'[t] <= MaxFailures * (MaxRetries + 1)
    <3>1. Spent(t, transient[t])
      BY <1>1, <1>2, <2>2 DEF Budget
    <3>2. Spent(t, transient[t])'
      BY <1>1, <3>1 DEF Spent
    <3>3. transient[t] \in 0..MaxRetries
      BY DEF Control, TypeOK
    <3> QED BY <1>1, <3>1, <3>2, <3>3, AskedInTime
  <2> QED BY <1>1, <1>2, <2>1, <2>2, KeepsBudget
<1>3. CASE u # t
  BY <1>1, <1>3, StartsElsewhere, UndisturbedBudget DEF Undisturbed
<1> QED BY <1>2, <1>3

LEMMA ReplyBudget ==
    ASSUME Control, NEW t \in Tasks, NEW q \in Runs, Reply(t, q),
           NEW u \in Tasks, Budget(u)
    PROVE  Budget(u)'
<1>1. /\ Starts(t, q) /\ Helped(t) /\ Control'
      /\ UNCHANGED <<transient, seen>> /\ failures' = [failures EXCEPT ![t] = 0]
      /\ at' = [at EXCEPT ![lock[t]] = "idle", ![q] = "running"]
  BY ReplyStarts DEF Reply
<1>2. CASE u = t
  <2>1. lock'[t] = q /\ at'[q] = "running" /\ strikes'[t] = 0
    BY <1>1 DEF Starts, Helped, Control, TypeOK
  <2>2. PICK m \in Nat : m = transient[t]
    BY DEF Control, TypeOK
  <2>3. Spent(t, m)'
    BY <1>1, <2>1, Fresh
  <2>4. Spent(t, transient[t])'
    BY <1>1, <2>2, <2>3 DEF Spent
  <2> QED BY <1>2, <2>1, <2>4, KeepsBudget
<1>3. CASE u # t
  <2>1. strikes'[u] = strikes[u] /\ failures'[u] = failures[u] /\ (u \in meddled => u \in meddled')
    BY <1>1, <1>3 DEF Helped, Control, TypeOK
  <2> QED BY <1>1, <1>3, <2>1, StartsElsewhere, UndisturbedBudget DEF Undisturbed
<1> QED BY <1>2, <1>3

LEMMA AsideBudget ==
    ASSUME Control, Aside, NEW u \in Tasks, Budget(u)
    PROVE  Budget(u)'
<1>1. /\ UNCHANGED <<at, seen, lock, transient>> /\ Control'
  BY AsideFacts, AsideControl DEF LeavesRuns, runVars
<1>2. CASE UNCHANGED <<failures, strikes, meddled>>
  BY <1>1, <1>2, UndisturbedBudget DEF Undisturbed
<1>3. ASSUME NEW t \in Tasks, RerunReset(t)
      PROVE  Budget(u)'
  <2>1. failures' = [failures EXCEPT ![t] = 0] /\ Helped(t)
    BY <1>3 DEF RerunReset
  <2>2. CASE u # t
    <3>1. strikes'[u] = strikes[u] /\ failures'[u] = failures[u] /\ (u \in meddled => u \in meddled')
      BY <2>1, <2>2 DEF Helped, Control, TypeOK
    <3> QED BY <1>1, <3>1, UndisturbedBudget DEF Undisturbed
  <2>3. CASE u = t
    <3>1. strikes'[u] = 0
      BY <2>1, <2>3 DEF Helped, Control, TypeOK
    <3>2. \A n \in Nat : Spent(u, n)'
      BY <1>1, <3>1, Fresh
    <3>3. strikes'[u] <= MaxFailures * (MaxRetries + 1)
      BY <1>1, <3>1, Fresh
    <3>4. PICK m \in Nat, k \in Nat : m = transient[u] /\ (lock[u] # NoRun => k = seen[lock[u]])
      BY DEF Control, TypeOK
    <3>5. Spent(u, m)' /\ Spent(u, k)' /\ Spent(u, MaxRetries)'
      BY <3>2
    <3>6. Spent(u, transient[u])' /\ (lock[u] # NoRun => Spent(u, seen[lock[u]])')
      BY <1>1, <3>4, <3>5 DEF Spent
    <3> QED BY <1>1, <3>3, <3>5, <3>6 DEF Budget
  <2> QED BY <2>2, <2>3
<1>4. ASSUME NEW t \in Tasks, NEW p \in BOOLEAN,
             BudgetRunsOut(t) \/ RaiseBudget(t) \/ CooldownEnds(t) \/ SetPaused(t, p)
      PROVE  UNCHANGED <<failures, strikes, meddled>>
  BY <1>4 DEF BudgetRunsOut, RaiseBudget, CooldownEnds, SetPaused
<1>5. PressureFades => UNCHANGED <<failures, strikes, meddled>>
  BY DEF PressureFades, taskVars
<1> QED BY <1>2, <1>3, <1>4, <1>5 DEF Aside

LEMMA StepBudget ==
    ASSUME Control, [Next]_vars, \A t \in Tasks : Budget(t), NEW u \in Tasks
    PROVE  Budget(u)'
<1>1. ASSUME NEW t \in Tasks, NEW r \in Runs, Sweep(t, r) \/ Reply(t, r)
      PROVE  Budget(u)'
  BY <1>1, SweepBudget, ReplyBudget
<1>2. ASSUME NEW r \in Runs, Live(r), Advance(r) \/ AsksSomebody(r) \/ LetsGo(r)
      PROVE  Budget(u)'
  <2>1. WritesOnly(r)
    BY <1>2, AdvanceWrites, AsksWrites, LetsGoWrites
  <2>2. CASE lock[u] = r
    BY <1>2, <2>2, AdvanceBudget, AsksBudget, LetsGoBudget
  <2>3. CASE lock[u] # r
    BY <1>2, <2>1, <2>3, ElsewhereBudget
  <2> QED BY <2>2, <2>3
<1>3. ASSUME NEW r \in Runs, LandMove(r)
      PROVE  Budget(u)'
  BY <1>3, LandMoveTakes, TakesOverBudget
<1>4. ASSUME NEW t \in Tasks, RerunClear(t)
      PROVE  Budget(u)'
  BY <1>4, RerunClearTakes, TakesOverBudget
<1>5. ASSUME NEW t \in Tasks, NEW l \in Labels, HumanMove(t, l)
      PROVE  Budget(u)'
  BY <1>5, HumanMoveTakes, TakesOverBudget
<1>6. CASE Aside
  BY <1>6, AsideBudget
<1>7. CASE UNCHANGED vars
  BY <1>7, UndisturbedBudget DEF vars, Undisturbed
<1> QED BY <1>1, <1>2, <1>3, <1>4, <1>5, <1>6, <1>7, StepKinds

-----------------------------------------------------------------------------
\* The invariant of the budgets: the links, and each task within its budget.
THEOREM Inductive == Spec => []IInv
<1>1. Init => IInv
  <2>1. ASSUME Init, NEW t \in Tasks PROVE Budget(t)
    <3>1. lock[t] = NoRun /\ strikes[t] = 0 /\ failures[t] = 0 /\ transient[t] = 0
      BY <2>1 DEF Init
    <3>2. 0 * (MaxRetries + 1) = 0 /\ (MaxFailures - 1) * (MaxRetries + 1) \in Nat
      <4>1. Control
        BY <2>1, InitControl
      <4> QED BY <4>1, Rounds
    <3> QED BY <3>1, <3>2 DEF Budget, Spent
  <2> QED BY <2>1, InitControl DEF IInv
<1>2. IInv /\ [Next]_vars => IInv'
  BY StepControl, StepBudget DEF IInv
<1> QED BY <1>1, <1>2, PTL DEF Spec

\* Tasks, locks, counters and runs stay what the tables and the pool can hold,
\* the transient count within max_retries among them.
THEOREM TypeCorrect == Spec => []TypeOK
<1>1. IInv => TypeOK
  BY DEF IInv, Control
<1> QED BY <1>1, Inductive, PTL

\* However its failures alternate, a task that nobody helps fails at most
\* MaxFailures * (MaxRetries + 1) times before it waits for a person.
THEOREM StrikesAreBounded == Spec => []StrikesBounded
<1>1. ASSUME IInv, NEW t \in Tasks, t \notin meddled
      PROVE  strikes[t] <= MaxFailures * (MaxRetries + 1)
  <2>1. Control /\ Budget(t)
    BY <1>1 DEF IInv
  <2>2. CASE lock[t] # NoRun /\ at[lock[t]] = "waiting"
    BY <1>1, <2>1, <2>2 DEF Budget
  <2>3. CASE ~(lock[t] # NoRun /\ at[lock[t]] = "waiting")
    <3>1. \E n \in 0..MaxRetries : Spent(t, n)
      <4>1. transient[t] \in 0..MaxRetries /\ MaxRetries \in 0..MaxRetries
            /\ (lock[t] # NoRun => /\ seen[lock[t]] \in 0..MaxRetries
                                   /\ at[lock[t]] \in Phases \ {"idle"})
        BY <2>1 DEF Control, TypeOK, Links
      <4> QED BY <1>1, <2>1, <2>3, <4>1 DEF Budget, Phases
    <3>2. PICK n \in 0..MaxRetries : Spent(t, n)
      BY <3>1
    <3> DEFINE G == (MaxFailures - 1) * (MaxRetries + 1)
               G1 == MaxFailures * (MaxRetries + 1)
    <3>3. G \in Nat /\ strikes[t] \in Nat /\ strikes[t] <= G + n /\ G1 = G + MaxRetries + 1
      BY <2>1, <3>2, Rounds DEF Spent
    <3> HIDE DEF G
    <3>4. strikes[t] <= G1
      BY <3>3
    <3> QED BY <3>4
  <2> QED BY <2>2, <2>3
<1>2. IInv => StrikesBounded
  BY <1>1 DEF StrikesBounded
<1> QED BY <1>2, Inductive, PTL

-----------------------------------------------------------------------------
(* The ladder.                                                             *)

LEMMA BouncesNat ==
    ASSUME Control, NEW t \in Tasks
    PROVE  Bounces(moves[t], label[t]) \in Nat
<1> DEFINE h == moves[t]
           B == {i \in DOMAIN h : /\ h[i].to = label[t]
                                  /\ \A j \in DOMAIN h : (j >= i /\ h[j].to = label[t])
                                                            => IsFailureEdge(h[j])}
<1>1. h \in Seq(Moves)
  BY DEF Control, TypeOK
<1>2. DOMAIN h = 1..Len(h) /\ Len(h) \in Nat
  BY <1>1
<1>3. IsFiniteSet(1..Len(h)) /\ B \subseteq 1..Len(h)
  BY <1>2, FS_Interval
<1>4. Cardinality(B) \in Nat
  BY <1>3, FS_Subset, FS_CardinalityType
<1> QED BY <1>4 DEF Bounces

\* A task that keeps its column and loses no failure keeps its rung.
LEMMA RungKept ==
    ASSUME Control, NEW t \in Tasks, moves'[t] = moves[t], label'[t] = label[t],
           failures'[t] \in Nat, failures'[t] >= failures[t]
    PROVE  Rung(t)' >= Rung(t)
<1> DEFINE b == Bounces(moves[t], label[t])
<1>1. b \in Nat /\ Bounces(moves[t], label[t])' = b
  BY BouncesNat
<1>2. failures[t] \in Nat
  BY DEF Control, TypeOK
<1>3. /\ Rung(t) = IF failures[t] + b > LadderLen THEN LadderLen ELSE failures[t] + b
      /\ Rung(t)' = IF failures'[t] + b > LadderLen THEN LadderLen ELSE failures'[t] + b
  BY <1>1 DEF Rung
<1> HIDE DEF b
<1> QED BY <1>1, <1>2, <1>3

LEMMA FailuresKept ==
    ASSUME Control, [Next]_vars, NEW t \in Tasks,
           moves'[t] = moves[t], acts' = acts, rerunning' = rerunning
    PROVE  label'[t] = label[t] /\ failures'[t] \in Nat /\ failures'[t] >= failures[t]
<1>1. failures \in [Tasks -> Nat] /\ failures[t] \in Nat /\ acts \in Nat /\ rerunning \subseteq Tasks
  BY DEF Control, TypeOK
<1>2. acts + 1 # acts
  BY <1>1
<1>3. CASE UNCHANGED <<label, failures>>
  BY <1>1, <1>3
<1>4. ASSUME NEW u \in Tasks, NEW r \in Runs, Sweep(u, r)
      PROVE  UNCHANGED <<label, failures>>
  BY <1>4 DEF Sweep
<1>6. ASSUME NEW r \in Runs, Live(r), Advance(r) \/ AsksSomebody(r) \/ LetsGo(r)
      PROVE  label' = label /\ failures' \in {failures, [failures EXCEPT ![of[r]] = @ + 1]}
  <2>1. label' = label
    BY <1>6, AdvanceFacts, AsksFacts, LetsGoFacts DEF Advances
  <2>2. failures' \in {failures, [failures EXCEPT ![of[r]] = @ + 1]}
    BY <1>6 DEF Advance, Complete, FailGenuinely, ReadRetries, SpendRetry, RateLimited,
       KillForMemory, CancelByUser, AsksSomebody, RetriesExhausted, AskHuman, LandEscalated,
       LandRefused, LetsGo, Release, LandMoved, taskVars
  <2> QED BY <2>1, <2>2
<1>7. ASSUME NEW r \in Runs, failures' \in {failures, [failures EXCEPT ![of[r]] = @ + 1]}
      PROVE  failures'[t] \in Nat /\ failures'[t] >= failures[t]
  BY <1>1, <1>7
<1>8. ASSUME NEW r \in Runs, LandMove(r)
      PROVE  label'[t] = label[t] /\ failures'[t] = failures[t]
  <2>1. /\ moves' = [moves EXCEPT ![of[r]] = Append(@, [from |-> from[r], to |-> Target(r)])]
        /\ failures' = [failures EXCEPT ![of[r]] = 0]
        /\ \A u \in Tasks \ {of[r]} : label'[u] = label[u]
    BY <1>8, LandMoveTakes
  <2>2. of[r] # t
    <3> SUFFICES ASSUME of[r] = t PROVE FALSE
      OBVIOUS
    <3>1. moves[t] \in Seq(Moves) /\ moves \in [Tasks -> Seq(Moves)]
      BY DEF Control, TypeOK
    <3>2. moves'[t] = Append(moves[t], [from |-> from[r], to |-> Target(r)])
      BY <2>1, <3>1
    <3>3. Len(moves'[t]) = Len(moves[t]) + 1 /\ Len(moves[t]) \in Nat
      BY <3>1, <3>2
    <3> QED BY <3>3
  <2> QED BY <1>1, <2>1, <2>2
<1>9. CASE Aside
  <2>1. ASSUME NEW u \in Tasks, RerunReset(u) PROVE FALSE
    BY <2>1 DEF RerunReset
  <2>2. label' = label
    BY <1>9, AsideFacts DEF LeavesRuns
  <2>3. ASSUME NEW u \in Tasks, BudgetRunsOut(u) \/ RaiseBudget(u) \/ CooldownEnds(u)
        PROVE  failures' = failures
    BY <2>3 DEF BudgetRunsOut, RaiseBudget, CooldownEnds
  <2>4. ASSUME NEW u \in Tasks, NEW p \in BOOLEAN, SetPaused(u, p)
        PROVE  failures' = failures
    BY <2>4 DEF SetPaused
  <2>5. PressureFades => failures' = failures
    BY DEF PressureFades, taskVars
  <2>6. failures' = failures
    BY <1>9, <2>1, <2>3, <2>4, <2>5, Zenon DEF Aside
  <2> QED BY <1>3, <2>2, <2>6
<1>10. CASE UNCHANGED vars
  BY <1>3, <1>10 DEF vars
<1>11. CASE Next
  <2>1. ASSUME NEW r \in Runs, Live(r), Advance(r) \/ AsksSomebody(r) \/ LetsGo(r)
        PROVE  label'[t] = label[t] /\ failures'[t] \in Nat /\ failures'[t] >= failures[t]
    BY <2>1, <1>6, <1>7
  <2>2. ASSUME NEW r \in Runs, LandMove(r)
        PROVE  label'[t] = label[t] /\ failures'[t] \in Nat /\ failures'[t] >= failures[t]
    BY <1>1, <1>8, <2>2
  <2>3. ASSUME NEW u \in Tasks, NEW r \in Runs, Sweep(u, r) \/ Reply(u, r)
        PROVE  label'[t] = label[t] /\ failures'[t] \in Nat /\ failures'[t] >= failures[t]
    <3>1. ~Reply(u, r)
      BY <1>2 DEF Reply, Act
    <3> QED BY <1>3, <1>4, <2>3, <3>1
  <2>4. ASSUME NEW u \in Tasks, RerunClear(u) \/ \E l \in Labels : HumanMove(u, l)
        PROVE  FALSE
    BY <1>2, <2>4 DEF RerunClear, HumanMove, Act
  <2> HIDE BudgetsAssumption
  <2> QED BY <1>9, <1>11, <2>1, <2>2, <2>3, <2>4, StepKinds
<1> QED BY <1>10, <1>11

\* No run is started on a cheaper rung than the one before, unless somebody
\* helped the task or it moved.
THEOREM RungsClimb == Spec => RungNeverDrops
<1>1. IInv /\ [Next]_vars =>
        [\A t \in Tasks : (moves'[t] = moves[t] /\ acts' = acts /\ rerunning' = rerunning)
                             => Rung(t)' >= Rung(t)]_vars
  BY FailuresKept, RungKept DEF IInv
<1> QED BY <1>1, Inductive, PTL DEF Spec, RungNeverDrops

=============================================================================
