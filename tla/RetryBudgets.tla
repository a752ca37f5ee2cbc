---------------------------- MODULE RetryBudgets ----------------------------
(***************************************************************************)
(* How often the board tries a task on its own: the transient-retry count, *)
(* the consecutive-failure count, the rework-loop threshold, the cost      *)
(* budget and the memory guard's pause (agent/pool_failure.go, ladder.go,  *)
(* mempressure.go, the guards of dispatcher.go), against the people who    *)
(* reply, rerun, move, pause and raise budgets.                            *)
(*                                                                         *)
(* A run here is the goroutine that carries it; one step is what happens   *)
(* between two points at which somebody else's write can fall.  A run slot *)
(* is used again once its run holds nothing.  Durations are abstracted:    *)
(* next_retry_at is "cooling" and ends at any time; so does the memory     *)
(* guard's pause.  A task's spend is abstracted to whether its cost budget *)
(* still allows a run.  The history of a task's labels is kept back to the *)
(* last move of a person, behind which nothing looks.  Accounts that are   *)
(* rate limited are in UsageLimits, and the race for the dispatch lock in  *)
(* RunLifecycle: here the claim is one step.                               *)
(***************************************************************************)
EXTENDS Naturals, Sequences, FiniteSets

CONSTANTS
    Tasks, Runs,
    Labels,
    AgentLabels,   \* columns an agent picks tasks from
    SuccessOf,     \* column -> where an agent's success leads (NoLabel: nowhere)
    FailureOf,     \* column -> where its failure leads
    FirstLabel,
    MaxRetries,    \* agent_configs.max_retries
    MaxFailures,   \* maxConsecutiveFailures
    MaxLoops,      \* failureLoopThreshold
    MemBurst,      \* memBurstThreshold
    LadderLen,     \* rungs of the escalation ladder above the first
    MaxActs,       \* bound: what people do to one task
    MaxShocks,     \* bound: memory-guard cancels and rate limits
    NoRun, NoTask, NoLabel

ASSUME BudgetsAssumption ==
    /\ AgentLabels \subseteq Labels
    /\ FirstLabel \in Labels
    /\ SuccessOf \in [AgentLabels -> Labels \cup {NoLabel}]
    /\ FailureOf \in [AgentLabels -> Labels \cup {NoLabel}]
    /\ NoRun \notin Runs
    /\ NoTask \notin Tasks
    /\ NoLabel \notin Labels
    /\ MaxRetries \in Nat
    /\ MaxFailures \in Nat \ {0}
    /\ MaxLoops \in Nat \ {0}
    /\ MemBurst \in Nat \ {0}
    /\ LadderLen \in Nat
    /\ MaxActs \in Nat
    /\ MaxShocks \in Nat

VARIABLES
    \* database: tasks
    label, lock, transient, failures, cooling, paused, broke,
    moves,        \* task_label_history since the last move of a person
    \* the goroutines of the runs
    at, of, from, got, seen,
    \* memory: memPressureTracker
    recent, held,
    \* memory: a rerun request between its two writes
    rerunning,
    \* bounds
    acts, shocks,
    \* history, read by the properties only
    strikes,      \* attempts that failed since somebody last helped the task
    stale,        \* runs whose task a person took over while they ran
    meddled       \* tasks whose counters a stale run wrote since then

taskVars == <<label, lock, transient, failures, cooling, paused, broke, moves>>
runVars  == <<at, of, from, got, seen>>
memVars  == <<recent, held>>
vars == <<label, lock, transient, failures, cooling, paused, broke, moves,
          at, of, from, got, seen, recent, held, rerunning, acts, shocks,
          strikes, stale, meddled>>

-----------------------------------------------------------------------------
Outcomes == {"none", "success", "failure"}
Phases   == {"idle", "running", "counted", "finished", "failed", "waiting"}
Moves    == [from : Labels, to : Labels]

Live(r) == at[r] \in {"running", "counted", "finished", "failed"}

Init ==
    /\ label = [t \in Tasks |-> FirstLabel]
    /\ lock = [t \in Tasks |-> NoRun]
    /\ transient = [t \in Tasks |-> 0]
    /\ failures = [t \in Tasks |-> 0]
    /\ cooling = [t \in Tasks |-> FALSE]
    /\ paused = [t \in Tasks |-> FALSE]
    /\ broke = [t \in Tasks |-> FALSE]
    /\ moves = [t \in Tasks |-> << >>]
    /\ at = [r \in Runs |-> "idle"]
    /\ of = [r \in Runs |-> NoTask]
    /\ from = [r \in Runs |-> NoLabel]
    /\ got = [r \in Runs |-> "none"]
    /\ seen = [r \in Runs |-> 0]
    /\ recent = 0
    /\ held = FALSE
    /\ rerunning = {}
    /\ acts = 0
    /\ shocks = 0
    /\ strikes = [t \in Tasks |-> 0]
    /\ stale = {}
    /\ meddled = {}

-----------------------------------------------------------------------------
(* What the handlers are built from.                                       *)

\* Runs that end leave no goroutine and give their slots back.
ForgetAll(S) ==
    /\ at' = [r \in Runs |-> IF r \in S THEN "idle" ELSE at[r]]
    /\ of' = [r \in Runs |-> IF r \in S THEN NoTask ELSE of[r]]
    /\ from' = [r \in Runs |-> IF r \in S THEN NoLabel ELSE from[r]]
    /\ got' = [r \in Runs |-> IF r \in S THEN "none" ELSE got[r]]
    /\ seen' = [r \in Runs |-> IF r \in S THEN 0 ELSE seen[r]]
Forget(r) == ForgetAll({r}) /\ stale' = stale \ {r}

\* The runs of t that only wait: whoever clears the lock ends their wait.
Parked(t) == {r \in Runs : at[r] = "waiting" /\ of[r] = t}

\* Owner-scoped release of the dispatch lock.
ReleaseLock(r) ==
    lock' = [t \in Tasks |-> IF t = of[r] /\ lock[t] = r THEN NoRun ELSE lock[t]]

\* The run goes on to wait for a person; it keeps the lock if it has it, and
\* matters to nobody if it has not.
Escalate(r) ==
    /\ IF lock[of[r]] = r
       THEN /\ at' = [at EXCEPT ![r] = "waiting"]
            /\ got' = [got EXCEPT ![r] = "none"]
            /\ seen' = [seen EXCEPT ![r] = 0]
            /\ stale' = stale \ {r}
            /\ UNCHANGED <<of, from>>
       ELSE Forget(r)
    /\ UNCHANGED lock

Goto(r, p) == at' = [at EXCEPT ![r] = p]

SetRetry(t, n, cool) ==
    /\ transient' = [transient EXCEPT ![t] = n]
    /\ cooling' = [cooling EXCEPT ![t] = cool]
ResetRetry(t) == SetRetry(t, 0, FALSE)

\* The history of a failed attempt of r, and of a write by a run whose task a
\* person has taken over.
Strike(r) ==
    /\ strikes' = IF r \in stale THEN strikes
                  ELSE [strikes EXCEPT ![of[r]] = @ + 1]
    /\ meddled' = IF r \in stale THEN meddled \cup {of[r]} ELSE meddled
NoStrike(r) ==
    /\ meddled' = IF r \in stale THEN meddled \cup {of[r]} ELSE meddled
    /\ UNCHANGED strikes
\* Somebody, or a move, gives the task a fresh start.
Helped(t) ==
    /\ strikes' = [strikes EXCEPT ![t] = 0]
    /\ meddled' = meddled \ {t}
\* From here on the runs of t that go on, but for r, work for nobody.
Overtaken(t) == {r \in Runs : Live(r) /\ of[r] = t}

-----------------------------------------------------------------------------
(* The rework loop and the ladder, over the task's label history.          *)

\* failureLoopExceeded: exits from a to b since the last exit to elsewhere.
Repeats(hist, a, b) ==
    Cardinality({i \in DOMAIN hist :
        /\ hist[i].from = a
        /\ \A j \in DOMAIN hist : (j >= i /\ hist[j].from = a) => hist[j].to = b})

IsFailureEdge(m) == m.from \in AgentLabels /\ FailureOf[m.from] = m.to

\* reworkBounces: arrivals in l along a failure path since the last other one.
Bounces(hist, l) ==
    Cardinality({i \in DOMAIN hist :
        /\ hist[i].to = l
        /\ \A j \in DOMAIN hist : (j >= i /\ hist[j].to = l) => IsFailureEdge(hist[j])})

\* The rung of the ladder the next run of t is started on.
Rung(t) ==
    LET failed == failures[t] + Bounces(moves[t], label[t])
    IN  IF failed > LadderLen THEN LadderLen ELSE failed

\* resolveOutcome: where the run's outcome leads from the column it was
\* dispatched on; no outcome leads nowhere.
Target(r) ==
    CASE got[r] = "success" -> SuccessOf[from[r]]
      [] got[r] = "failure" -> FailureOf[from[r]]
      [] OTHER              -> NoLabel

-----------------------------------------------------------------------------
(* The dispatcher.                                                         *)

Pickup(t) ==
    /\ label[t] \in AgentLabels
    /\ lock[t] = NoRun
    /\ ~paused[t]
    /\ ~cooling[t]

\* One task of a sweep.  A task whose cost budget is exhausted, or cannot be
\* known, gets a phantom run that waits for a person.
Sweep(t, r) ==
    /\ ~held
    /\ Pickup(t)
    /\ at[r] = "idle"
    /\ lock' = [lock EXCEPT ![t] = r]
    /\ of' = [of EXCEPT ![r] = t]
    /\ from' = [from EXCEPT ![r] = label[t]]
    /\ Goto(r, IF broke[t] THEN "waiting" ELSE "running")
    /\ UNCHANGED <<label, transient, failures, cooling, paused, broke, moves,
                   got, seen, memVars, rerunning, acts, shocks, strikes,
                   stale, meddled>>

-----------------------------------------------------------------------------
(* How a run ends.                                                         *)

\* While a run works its cost is recorded, or turns out to be unknown.
BudgetRunsOut(t) ==
    /\ \E r \in Runs : at[r] = "running" /\ of[r] = t
    /\ ~broke[t]
    /\ acts < MaxActs
    /\ broke' = [broke EXCEPT ![t] = TRUE]
    /\ acts' = acts + 1
    /\ UNCHANGED <<label, lock, transient, failures, cooling, paused, moves,
                   runVars, memVars, rerunning, shocks, strikes, stale, meddled>>

\* Mutant: a completed run clears the failure streak.
Complete_ClearsStreak(r, o) ==
    /\ at[r] = "running"
    /\ Goto(r, "finished")
    /\ got' = [got EXCEPT ![r] = o]
    /\ failures' = [failures EXCEPT ![of[r]] = 0]
    /\ ResetRetry(of[r])
    /\ NoStrike(r)
    /\ UNCHANGED <<label, lock, paused, broke, moves, of, from, seen,
                   memVars, rerunning, acts, shocks, stale>>

\* persistRunResult of a completed run.  The failure streak is kept: only the
\* move that follows clears it.
Complete(r, o) ==
    /\ at[r] = "running"
    /\ Goto(r, "finished")
    /\ got' = [got EXCEPT ![r] = o]
    /\ ResetRetry(of[r])
    /\ NoStrike(r)
    /\ UNCHANGED <<label, lock, failures, paused, broke, moves, of, from, seen,
                   memVars, rerunning, acts, shocks, stale>>

\* persistRunResult of a genuine failure: counted, and escalated at the limit.
FailGenuinely(r) ==
    /\ at[r] = "running"
    /\ failures' = [failures EXCEPT ![of[r]] = @ + 1]
    /\ IF failures[of[r]] + 1 >= MaxFailures
       THEN Escalate(r)
       ELSE Goto(r, "failed") /\ UNCHANGED <<lock, of, from, got, seen, stale>>
    /\ ResetRetry(of[r])
    /\ Strike(r)
    /\ UNCHANGED <<label, paused, broke, moves, memVars, rerunning, acts, shocks>>

\* The release that ends a failed run.
Release(r) ==
    /\ at[r] = "failed"
    /\ ReleaseLock(r)
    /\ Forget(r)
    /\ UNCHANGED <<label, transient, failures, cooling, paused, broke, moves,
                   memVars, rerunning, acts, shocks, strikes, meddled>>

\* handleTransientFailure (and a provider that fails before it produced
\* anything): the count is read here and written back later.
ReadRetries(r) ==
    /\ at[r] = "running"
    /\ Goto(r, "counted")
    /\ seen' = [seen EXCEPT ![r] = transient[of[r]]]
    /\ UNCHANGED <<taskVars, of, from, got, memVars, rerunning, acts, shocks,
                   strikes, stale, meddled>>

\* Mutant: one retry too many.
SpendRetry_OffByOne(r) ==
    /\ at[r] = "counted"
    /\ seen[r] <= MaxRetries
    /\ SetRetry(of[r], seen[r] + 1, TRUE)
    /\ Goto(r, "failed")
    /\ Strike(r)
    /\ UNCHANGED <<label, lock, failures, paused, broke, moves, of, from, got,
                   seen, memVars, rerunning, acts, shocks, stale>>

\* Within the budget: the count and the cooldown go in before the release.
SpendRetry(r) ==
    /\ at[r] = "counted"
    /\ seen[r] < MaxRetries
    /\ SetRetry(of[r], seen[r] + 1, TRUE)
    /\ Goto(r, "failed")
    /\ Strike(r)
    /\ UNCHANGED <<label, lock, failures, paused, broke, moves, of, from, got,
                   seen, memVars, rerunning, acts, shocks, stale>>

\* Mutant: the budget starts again without anybody being asked.
RetriesExhausted_Releases(r) ==
    /\ at[r] = "counted"
    /\ seen[r] >= MaxRetries
    /\ ResetRetry(of[r])
    /\ Goto(r, "failed")
    /\ Strike(r)
    /\ UNCHANGED <<label, lock, failures, paused, broke, moves, of, from, got,
                   seen, memVars, rerunning, acts, shocks, stale>>

\* Spent: the task waits for a person, who finds a fresh budget.
RetriesExhausted(r) ==
    /\ at[r] = "counted"
    /\ seen[r] >= MaxRetries
    /\ ResetRetry(of[r])
    /\ Escalate(r)
    /\ Strike(r)
    /\ UNCHANGED <<label, failures, paused, broke, moves, memVars, rerunning,
                   acts, shocks>>

\* handleRateLimited: released for another account; no budget is spent.
RateLimited(r) ==
    /\ at[r] = "running"
    /\ shocks < MaxShocks
    /\ shocks' = shocks + 1
    /\ Goto(r, "failed")
    /\ UNCHANGED <<taskVars, of, from, got, seen, memVars, rerunning, acts,
                   strikes, stale, meddled>>

\* A question, a login error, the turn limit, the mid-run cost stop.
AskHuman(r) ==
    /\ at[r] = "running"
    /\ Escalate(r)
    /\ UNCHANGED <<label, transient, failures, cooling, paused, broke, moves,
                   memVars, rerunning, acts, shocks, strikes, meddled>>

\* handleCancelled for the memory guard: a cooldown, no attempt spent, and
\* after a burst of them no new dispatch for a while (recordCancel first forgets
\* the cancels that have left the burst's window).
KillForMemory(r) ==
    /\ at[r] = "running"
    /\ shocks < MaxShocks
    /\ shocks' = shocks + 1
    /\ SetRetry(of[r], 0, TRUE)
    /\ Goto(r, "failed")
    /\ \E kept \in 0..recent :
         IF kept + 1 >= MemBurst
         THEN recent' = 0 /\ held' = TRUE
         ELSE recent' = kept + 1 /\ UNCHANGED held
    /\ strikes' = [strikes EXCEPT ![of[r]] = 0]
    /\ meddled' = IF r \in stale THEN meddled \cup {of[r]} ELSE meddled
    /\ UNCHANGED <<label, lock, failures, paused, broke, moves, of, from, got,
                   seen, rerunning, acts, stale>>

\* handleCancelled for a person: the budget is reset and the task paused.
CancelByUser(r) ==
    /\ at[r] = "running"
    /\ acts < MaxActs
    /\ acts' = acts + 1
    /\ ResetRetry(of[r])
    /\ paused' = [paused EXCEPT ![of[r]] = TRUE]
    /\ Goto(r, "failed")
    /\ strikes' = [strikes EXCEPT ![of[r]] = 0]
    /\ meddled' = IF r \in stale THEN meddled \cup {of[r]} ELSE meddled
    /\ UNCHANGED <<label, lock, failures, broke, moves, of, from, got, seen,
                   memVars, rerunning, shocks, stale>>

-----------------------------------------------------------------------------
(* applyTerminalTransition of a completed run.                             *)

Moved(r) == label[of[r]] # from[r]
Looping(r) ==
    /\ got[r] = "failure"
    /\ Repeats(moves[of[r]], from[r], Target(r)) >= MaxLoops

\* The engine's move clears the lock, whoever holds it, and the streak.
MoveTask(t, to) ==
    /\ label' = [label EXCEPT ![t] = to]
    /\ failures' = [failures EXCEPT ![t] = 0]
    /\ lock' = [lock EXCEPT ![t] = NoRun]

\* A person moved the task meanwhile: the outcome is dropped.
LandMoved(r) ==
    /\ at[r] = "finished"
    /\ Target(r) # NoLabel
    /\ Moved(r)
    /\ ReleaseLock(r)
    /\ Forget(r)
    /\ UNCHANGED <<label, transient, failures, cooling, paused, broke, moves,
                   memVars, rerunning, acts, shocks, strikes, meddled>>

\* No usable outcome, or the same rework edge once too often.
LandEscalated(r) ==
    /\ at[r] = "finished"
    /\ \/ Target(r) = NoLabel
       \/ Target(r) # NoLabel /\ ~Moved(r) /\ Looping(r)
    /\ Escalate(r)
    /\ UNCHANGED <<label, transient, failures, cooling, paused, broke, moves,
                   memVars, rerunning, acts, shocks, strikes, meddled>>

LandMove(r) ==
    LET t == of[r] IN
    /\ at[r] = "finished"
    /\ Target(r) # NoLabel
    /\ ~Moved(r)
    /\ ~Looping(r)
    /\ MoveTask(t, Target(r))
    /\ moves' = [moves EXCEPT ![t] = Append(@, [from |-> from[r], to |-> Target(r)])]
    /\ ForgetAll({r} \cup Parked(t))
    /\ stale' = (stale \cup Overtaken(t)) \ {r}
    /\ Helped(t)
    /\ UNCHANGED <<transient, cooling, paused, broke, memVars, rerunning, acts,
                   shocks>>

\* Mutant: a refused move is only released.
LandRefused_Uncounted(r) ==
    /\ at[r] = "finished"
    /\ Target(r) # NoLabel
    /\ ~Moved(r)
    /\ ~Looping(r)
    /\ ReleaseLock(r)
    /\ Forget(r)
    /\ UNCHANGED <<label, transient, failures, cooling, paused, broke, moves,
                   memVars, rerunning, acts, shocks, strikes, meddled>>

\* handleRejectedTransition: a refused move is a failed attempt.
LandRefused(r) ==
    /\ at[r] = "finished"
    /\ Target(r) # NoLabel
    /\ ~Moved(r)
    /\ ~Looping(r)
    /\ failures' = [failures EXCEPT ![of[r]] = @ + 1]
    /\ IF failures[of[r]] + 1 >= MaxFailures
       THEN Escalate(r)
       ELSE ReleaseLock(r) /\ Forget(r)
    /\ Strike(r)
    /\ UNCHANGED <<label, transient, cooling, paused, broke, moves, memVars,
                   rerunning, acts, shocks>>

-----------------------------------------------------------------------------
(* People, and time.                                                       *)

Act == acts < MaxActs /\ acts' = acts + 1

\* Rerun clears the lock, even of a run that goes on, and then the streak.
RerunClear(t) ==
    /\ Act
    /\ t \notin rerunning
    /\ lock' = [lock EXCEPT ![t] = NoRun]
    /\ ForgetAll(Parked(t))
    /\ stale' = stale \cup Overtaken(t)
    /\ rerunning' = rerunning \cup {t}
    /\ Helped(t)
    /\ UNCHANGED <<label, transient, failures, cooling, paused, broke, moves,
                   memVars, shocks>>

RerunReset(t) ==
    /\ t \in rerunning
    /\ failures' = [failures EXCEPT ![t] = 0]
    /\ rerunning' = rerunning \ {t}
    /\ Helped(t)
    /\ UNCHANGED <<label, lock, transient, cooling, paused, broke, moves,
                   runVars, memVars, acts, shocks, stale>>

\* DispatchReply: the answer starts run q in place of the one that asked.
Reply(t, q) ==
    /\ Act
    /\ lock[t] # NoRun
    /\ at[lock[t]] = "waiting"
    /\ at[q] = "idle"
    /\ failures' = [failures EXCEPT ![t] = 0]
    /\ lock' = [lock EXCEPT ![t] = q]
    /\ at' = [at EXCEPT ![lock[t]] = "idle", ![q] = "running"]
    /\ of' = [of EXCEPT ![lock[t]] = NoTask, ![q] = t]
    /\ from' = [from EXCEPT ![lock[t]] = NoLabel, ![q] = label[t]]
    /\ Helped(t)
    /\ UNCHANGED <<label, transient, cooling, paused, broke, moves, got, seen,
                   memVars, rerunning, shocks, stale>>

\* A move by a person is refused while a run works under the lock.
HumanMove(t, l) ==
    /\ Act
    /\ l # label[t]
    /\ ~(lock[t] # NoRun /\ Live(lock[t]))
    /\ MoveTask(t, l)
    /\ moves' = [moves EXCEPT ![t] = << >>]
    /\ ForgetAll(Parked(t))
    /\ stale' = stale \cup Overtaken(t)
    /\ Helped(t)
    /\ UNCHANGED <<transient, cooling, paused, broke, memVars, rerunning, shocks>>

SetPaused(t, p) ==
    /\ Act
    /\ paused[t] # p
    /\ paused' = [paused EXCEPT ![t] = p]
    /\ UNCHANGED <<label, lock, transient, failures, cooling, broke, moves,
                   runVars, memVars, rerunning, shocks, strikes, stale, meddled>>

\* Undoes what BudgetRunsOut did, so it is bounded by that action's acts.
RaiseBudget(t) ==
    /\ broke[t]
    /\ broke' = [broke EXCEPT ![t] = FALSE]
    /\ UNCHANGED <<label, lock, transient, failures, cooling, paused, moves,
                   runVars, memVars, rerunning, acts, shocks, strikes, stale,
                   meddled>>

\* next_retry_at passes.
CooldownEnds(t) ==
    /\ cooling[t]
    /\ cooling' = [cooling EXCEPT ![t] = FALSE]
    /\ UNCHANGED <<label, lock, transient, failures, paused, broke, moves,
                   runVars, memVars, rerunning, acts, shocks, strikes, stale,
                   meddled>>

\* The memory guard's pause passes.
PressureFades ==
    /\ held
    /\ held' = FALSE
    /\ UNCHANGED <<taskVars, runVars, recent, rerunning, acts, shocks, strikes, stale,
                   meddled>>

-----------------------------------------------------------------------------
Ends(r) ==
    \/ \E o \in Outcomes : Complete(r, o)
    \/ FailGenuinely(r)
    \/ ReadRetries(r)
    \/ RateLimited(r)
    \/ AskHuman(r)
    \/ KillForMemory(r)
Land(r) == LandMoved(r) \/ LandEscalated(r) \/ LandMove(r) \/ LandRefused(r)
Carry(r) == Ends(r) \/ Land(r) \/ SpendRetry(r) \/ RetriesExhausted(r) \/ Release(r)

Next ==
    \/ \E t \in Tasks, r \in Runs : Sweep(t, r) \/ Reply(t, r)
    \/ \E r \in Runs : Carry(r) \/ CancelByUser(r)
    \/ \E t \in Tasks :
         \/ BudgetRunsOut(t) \/ RerunClear(t) \/ RerunReset(t) \/ RaiseBudget(t)
         \/ CooldownEnds(t)
         \/ \E l \in Labels : HumanMove(t, l)
         \/ \E p \in BOOLEAN : SetPaused(t, p)
    \/ PressureFades

Spec == Init /\ [][Next]_vars

\* The sweep ticks, a run's goroutine goes on (providers have a timeout), an
\* HTTP handler that began finishes, and time passes; people owe nothing, and
\* how a run ends is left open.
FairSpec ==
    /\ Spec
    /\ \A t \in Tasks : WF_vars(\E r \in Runs : Sweep(t, r))
    /\ \A r \in Runs : WF_vars(Carry(r))
    /\ \A t \in Tasks : WF_vars(RerunReset(t)) /\ WF_vars(CooldownEnds(t))
    /\ WF_vars(PressureFades)

-----------------------------------------------------------------------------
TypeOK ==
    /\ label \in [Tasks -> Labels]
    /\ lock \in [Tasks -> Runs \cup {NoRun}]
    /\ transient \in [Tasks -> 0..MaxRetries]
    /\ failures \in [Tasks -> Nat]
    /\ cooling \in [Tasks -> BOOLEAN]
    /\ paused \in [Tasks -> BOOLEAN]
    /\ broke \in [Tasks -> BOOLEAN]
    /\ moves \in [Tasks -> Seq(Moves)]
    /\ at \in [Runs -> Phases]
    /\ of \in [Runs -> Tasks \cup {NoTask}]
    /\ from \in [Runs -> AgentLabels \cup {NoLabel}]
    /\ got \in [Runs -> Outcomes]
    /\ seen \in [Runs -> 0..MaxRetries]
    /\ recent \in 0..MemBurst
    /\ held \in BOOLEAN
    /\ rerunning \in SUBSET Tasks
    /\ acts \in Nat
    /\ shocks \in Nat
    /\ strikes \in [Tasks -> Nat]
    /\ stale \in SUBSET Runs
    /\ meddled \in SUBSET Tasks

\* However transient and genuine failures, pre-stream errors and refused moves
\* alternate, a task that nobody helps fails at most this often before it waits
\* for a person (the argument in persistRunResult's comment).
StrikesBounded ==
    \A t \in Tasks : t \notin meddled =>
        strikes[t] <= MaxFailures * (MaxRetries + 1)

\* While a task stays in its column and nobody acts, no run is started on a
\* cheaper rung of the ladder than the one before.
RungNeverDrops ==
    [][\A t \in Tasks :
         (moves'[t] = moves[t] /\ acts' = acts /\ rerunning' = rerunning)
             => Rung(t)' >= Rung(t)]_vars

\* A task left to the agents comes to rest, whatever they answer: it leaves
\* their columns, or waits for a person.  (failure loops are otherwise
\* unbounded, pool_failure.go:389.)
Resting(t) ==
    \/ label[t] \notin AgentLabels
    \/ paused[t]
    \/ lock[t] # NoRun /\ at[lock[t]] = "waiting"
ComesToRest == \A t \in Tasks : <>[]Resting(t)
=============================================================================
