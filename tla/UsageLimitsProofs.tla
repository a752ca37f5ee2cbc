-------------------------- MODULE UsageLimitsProofs --------------------------
(***************************************************************************)
(* What the registry keeps, for every set of providers and accounts, any   *)
(* sharing of accounts between providers, and any number of runs.          *)
(***************************************************************************)
EXTENDS UsageLimits, TLAPS

USE LimitsAssumption DEF LimitsAssumption

-----------------------------------------------------------------------------
\* Whoever is stamped goes on.
LEMMA StampFacts ==
    ASSUME TypeOK, NEW a, NEW r \in Runs, Stamp(a, {r}), Leaves(r)
    PROVE  newer' \in SUBSET {q \in Runs : on'[q] # NoProvider}
BY DEF TypeOK, Stamp, Leaves, RunsOn, Busy

\* The account of a run that goes on.
LEMMA RunHasPool ==
    ASSUME TypeOK, NEW r \in Runs, on[r] # NoProvider
    PROVE  /\ on[r] \in Providers
           /\ PoolOf[on[r]] \in Pools
           /\ KindOf[on[r]] \in Kinds
BY DEF TypeOK

LEMMA BlockType ==
    ASSUME TypeOK, NEW a \in Pools,
           NEW gone,
           Block(a, gone) \/ BlockUnknownReset(a, gone) \/ Unblock(a, gone) \/ StillLimited(a)
    PROVE  block' \in [Pools -> Blocks]
BY DEF TypeOK, Blocks, Block, BlockUnknownReset, Unblock, StillLimited

\* A run that ends lifts the block of its own account, if it may.
LEMMA UnblockFacts ==
    ASSUME TypeOK, NEW r \in Runs, on[r] # NoProvider,
           UnblockIfNotBlockedSince(r), Leaves(r)
    PROVE  /\ block' \in [Pools -> Blocks]
           /\ newer' \in SUBSET {q \in Runs : on'[q] # NoProvider}
           /\ on' \in [Runs -> Providers \cup {NoProvider}]
           /\ \A a \in Pools : Blocked(a) /\ ~Blocked(a)' => r \in RunsOn(a) \ newer
<1> USE DEF TypeOK, Leaves, Blocks
<1>1. CASE r \in newer
  BY <1>1 DEF UnblockIfNotBlockedSince, Blocked, Busy
<1>2. CASE r \notin newer
  <2>1. Unblock(PoolOf[on[r]], {r})
    BY <1>2 DEF UnblockIfNotBlockedSince
  <2>2. newer' \in SUBSET {q \in Runs : on'[q] # NoProvider}
    BY <2>1 DEF Unblock, RunsOn, Busy
  <2>3. \A a \in Pools : Blocked(a) /\ ~Blocked(a)' => r \in RunsOn(a) \ newer
    BY <1>2, <2>1 DEF Unblock, Blocked, RunsOn
  <2> QED BY <2>1, <2>2, <2>3, BlockType, RunHasPool
<1> QED BY <1>1, <1>2

-----------------------------------------------------------------------------
LEMMA InitType == Init => TypeOK
BY DEF Init, TypeOK, Blocks, Answers, Busy

\* Every step of a run, of a goroutine, of the world, and a restart keep the types.
LEMMA RunStepType ==
    ASSUME TypeOK, NEW r \in Runs,
           Dispatch(r) \/ EndRun(r) \/ \E p \in Providers : Reply(r, p)
    PROVE  TypeOK'
<1> USE DEF worldVars, limitVars, checkVars, pauseVars
<1>1. CASE Dispatch(r) \/ \E p \in Providers : Reply(r, p)
  BY <1>1 DEF Dispatch, Reply, TypeOK, Busy, Blocks
<1>2. CASE Ends(r)
  BY <1>2, UnblockFacts DEF Ends, TypeOK, Busy
<1>3. CASE EndsTransient(r)
  BY <1>3 DEF EndsTransient, TypeOK, Leaves, Busy
<1>4. CASE EndsLoggedOut(r)
  <2>1. paused' \in [Kinds -> {"no", "young", "old"}]
    BY <1>4 DEF EndsLoggedOut, TypeOK
  <2> QED BY <1>4, <2>1, UnblockFacts DEF EndsLoggedOut, TypeOK, Busy
<1>5. ASSUME NEW known \in BOOLEAN, EndsLimited(r, known)
      PROVE  TypeOK'
  <2>1. PoolOf[on[r]] \in Pools
    BY <1>5, RunHasPool DEF EndsLimited
  <2>2. block' \in [Pools -> Blocks]
    BY <1>5, <2>1, BlockType DEF EndsLimited
  <2>3. newer' \in SUBSET {q \in Runs : on'[q] # NoProvider}
    BY <1>5, StampFacts DEF EndsLimited, Block, BlockUnknownReset
  <2> QED BY <1>5, <2>2, <2>3 DEF EndsLimited, Leaves, TypeOK, Busy
<1> QED BY <1>1, <1>2, <1>3, <1>4, <1>5 DEF EndRun

LEMMA CheckerStepType ==
    ASSUME TypeOK,
           \/ \E a \in Pools : BlockPasses(a)
           \/ EnableResetChecks
           \/ \E S \in SUBSET Pools : CheckPass(S)
           \/ Check
    PROVE  TypeOK'
<1> USE DEF worldVars, limitVars, checkVars, pauseVars
<1>1. ASSUME NEW a \in Pools, BlockPasses(a)
      PROVE  TypeOK'
  BY <1>1 DEF BlockPasses, TypeOK, Blocks, Busy
<1>2. CASE EnableResetChecks
  BY <1>2 DEF EnableResetChecks, TypeOK, Busy
<1>3. ASSUME NEW S \in SUBSET Pools, CheckPass(S)
      PROVE  TypeOK'
  BY <1>3 DEF CheckPass, TypeOK, Blocks, Busy
<1>4. ASSUME NEW a \in Pools, Probe(a)
      PROVE  TypeOK'
  BY <1>4 DEF Probe, TypeOK, Answers, Busy
<1>5. CASE CheckKnown \/ CheckStill \/ CheckUsable
  <2> USE <1>5 DEF CheckKnown, CheckStill, CheckUsable, ProbeDone
  <2>1. probing \in Pools
    BY DEF TypeOK
  <2>2. block' \in [Pools -> Blocks]
    BY <2>1, BlockType
  <2>3. newer' \in SUBSET {q \in Runs : on'[q] # NoProvider}
    BY DEF TypeOK, Block, Unblock, Stamp, RunsOn, Busy
  <2> QED BY <2>2, <2>3 DEF TypeOK, Answers, Busy
<1> QED BY <1>1, <1>2, <1>3, <1>4, <1>5 DEF Check

LEMMA PauseStepType ==
    ASSUME TypeOK,
           (\E k \in Kinds : PauseAges(k) \/ ResumeProvider(k)) \/ Recheck
    PROVE  TypeOK'
BY DEF TypeOK, PauseAges, ResumeProvider, Recheck, RecheckTick, RecheckAsk, RecheckResume,
       worldVars, limitVars, checkVars, pauseVars, Busy

LEMMA OtherStepType ==
    ASSUME TypeOK, World \/ Restart
    PROVE  TypeOK'
<1> USE DEF worldVars, limitVars, checkVars, pauseVars
<1>1. CASE World
  BY <1>1 DEF World, LimitHits, LimitLifts, LogsOut, LogsIn, TypeOK, Busy
<1>2. CASE Restart
  BY <1>2 DEF Restart, TypeOK, Blocks, Answers, Busy
<1> QED BY <1>1, <1>2

LEMMA StepType == TypeOK /\ [Next]_vars => TypeOK'
<1> SUFFICES ASSUME TypeOK, [Next]_vars PROVE TypeOK'
  OBVIOUS
<1>1. CASE Next
  BY <1>1, RunStepType, CheckerStepType, PauseStepType, OtherStepType DEF Next
<1>2. CASE UNCHANGED vars
  BY <1>2 DEF vars, TypeOK, Busy
<1> QED BY <1>1, <1>2

\* Whatever the runs, the checker and the breaker do in whatever order, a probe
\* has its answer, and only runs that go on are taken for older than a block:
\* a slot is never refused the right to lift a block for what its last run was.
THEOREM TypeCorrect == Spec => []TypeOK
<1>1. Init => TypeOK
  BY InitType
<1>2. TypeOK /\ [Next]_vars => TypeOK'
  BY StepType
<1> QED BY <1>1, <1>2, PTL DEF Spec

-----------------------------------------------------------------------------
\* What may lift the block of a.
Lifts(a) ==
    \/ BlockPasses(a)
    \/ CheckUsable /\ probing = a
    \/ \E r \in RunsOn(a) \ newer : Leaves(r)

LEMMA BlockStays ==
    ASSUME TypeOK, [Next]_vars, NEW a \in Pools, Blocked(a), ~Blocked(a)'
    PROVE  Lifts(a)
<1> USE DEF worldVars, limitVars, checkVars, pauseVars, Blocked
<1>1. ASSUME NEW b \in Pools, BlockPasses(b)
      PROVE  Lifts(a)
  BY <1>1 DEF BlockPasses, TypeOK, Lifts
<1>2. ASSUME NEW r \in Runs, Ends(r) \/ EndsLoggedOut(r)
      PROVE  Lifts(a)
  BY <1>2, UnblockFacts DEF Ends, EndsLoggedOut, Lifts
<1>3. ASSUME NEW r \in Runs, NEW known \in BOOLEAN, EndsLimited(r, known)
      PROVE  FALSE
  BY <1>3 DEF EndsLimited, Block, BlockUnknownReset, TypeOK
<1>4. CASE Check
  BY <1>4 DEF Check, CheckKnown, CheckStill, CheckUsable, ProbeDone, Probe, Block, Unblock,
              StillLimited, Lifts, TypeOK
<1>5. ASSUME NEW S \in SUBSET Pools, CheckPass(S)
      PROVE  FALSE
  BY <1>5 DEF CheckPass
<1>6. CASE Restart
  BY <1>6 DEF Restart
<1>7. CASE UNCHANGED block
  BY <1>7
<1> QED
  BY <1>1, <1>2, <1>3, <1>4, <1>5, <1>6, <1>7
     DEF Next, EndRun, Dispatch, Reply, EndsTransient, EnableResetChecks, PauseAges,
         ResumeProvider, Recheck, RecheckTick, RecheckAsk, RecheckResume, World, vars

\* An account stays blocked until its time has passed, its own check has found
\* it usable, or a run on it has ended that was started after the block:
\* whatever older runs report, in whatever order, and through a restart.
THEOREM FreshBlock == Spec => FreshBlockStays
<1>1. ASSUME TypeOK, [Next]_vars
      PROVE  [\A a \in Pools : Blocked(a) /\ ~Blocked(a)' =>
                \/ BlockPasses(a)
                \/ CheckUsable /\ probing = a
                \/ \E r \in RunsOn(a) \ newer : Leaves(r)]_vars
  BY <1>1, BlockStays DEF Lifts
<1> QED BY <1>1, TypeCorrect, PTL DEF Spec, FreshBlockStays

=============================================================================
