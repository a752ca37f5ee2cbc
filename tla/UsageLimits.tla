---------------------------- MODULE UsageLimits ----------------------------
(***************************************************************************)
(* Which provider account the next run goes to: the rate-limit registry    *)
(* (agent/ratelimit.go), the checks that find out when a limit without a   *)
(* reset time is over (resetcheck.go), the circuit breaker of providers    *)
(* whose login broke (providerpause.go), and the dispatcher's walk over an *)
(* agent's providers, against the runs that end meanwhile.                 *)
(*                                                                         *)
(* Whether an account is limited, and whether a login works, changes at    *)
(* any time.  Durations are abstracted: a block with a time ends at any    *)
(* time; a pass of the checker finds any of the blocks under a check due;  *)
(* the grace of such a block may pass before its check has answered.  The  *)
(* attempts counter only sets the length of a backoff and is left out.     *)
(* The dispatcher's walk over the candidates is one step.  There is always *)
(* a task for it, and a run slot is used again once its run has ended.     *)
(***************************************************************************)
EXTENDS Naturals, Sequences, FiniteSets

CONSTANTS
    Runs,
    Providers,     \* provider configs
    Order,         \* an agent's providers, primary first
    Pools,         \* accounts
    PoolOf,        \* provider -> account whose limit it shares
    Kinds,         \* kinds of provider: what a login is for
    KindOf,        \* provider -> kind
    Limitable,     \* bound: the accounts that may go over their limit
    Breakable,     \* bound: the kinds whose login may break
    NoProvider, NoPool, NoKind

ASSUME LimitsAssumption ==
    /\ Order \in Seq(Providers)
    /\ PoolOf \in [Providers -> Pools]
    /\ KindOf \in [Providers -> Kinds]
    /\ NoProvider \notin Providers
    /\ NoPool \notin Pools
    /\ NoKind \notin Kinds
    /\ Limitable \subseteq Pools
    /\ Breakable \subseteq Kinds

VARIABLES
    \* the world
    limited,    \* accounts that are over their limit
    loggedOut,  \* kinds whose login is broken
    \* memory: RateLimitRegistry
    block,      \* account -> its block and pending check
    checksOn,   \* resetChecks
    newer,      \* runs that started before blockedAt of their account
    \* memory: ProviderPauseRegistry
    paused,     \* kind -> "no", "young" (paused for less than the interval), "old"
    \* goroutines: runs
    on,         \* run -> its provider
    \* goroutine: ResetChecker
    due, probing, answer,
    \* goroutine: RunRecheck
    listed, asking

worldVars == <<limited, loggedOut>>
limitVars == <<block, checksOn, newer>>
checkVars == <<due, probing, answer>>
pauseVars == <<paused, listed, asking>>
vars == <<limited, loggedOut, block, checksOn, newer, paused, on, due,
          probing, answer, listed, asking>>

-----------------------------------------------------------------------------
\* "timed": blocked until a time.  "checked": blocked, and a check is pending.
\* "lapsed": the grace of such a block is over, but its check is not: the
\* account is not blocked and resetCheckState is still there.
Blocks  == {"free", "timed", "checked", "lapsed"}
Answers == {"none", "usable", "known", "still"}

Blocked(a) == block[a] \in {"timed", "checked"}
RunsOn(a) == {r \in Runs : on[r] # NoProvider /\ PoolOf[on[r]] = a}

Init ==
    /\ limited = {}
    /\ loggedOut = {}
    /\ block = [a \in Pools |-> "free"]
    /\ checksOn = FALSE
    /\ newer = {}
    /\ paused = [k \in Kinds |-> "no"]
    /\ on = [r \in Runs |-> NoProvider]
    /\ due = {}
    /\ probing = NoPool
    /\ answer = "none"
    /\ listed = {}
    /\ asking = NoKind

-----------------------------------------------------------------------------
(* The registry's operations, each under its mutex.                        *)

\* blockedAt is now: the runs of the account that go on started before it.
Stamp(a, gone) == newer' = (newer \cup RunsOn(a)) \ gone

Block(a, gone) ==
    /\ block' = [block EXCEPT ![a] = "timed"]
    /\ Stamp(a, gone)

\* Without a reset time.  A pending check goes on as scheduled, and the block
\* is set by that schedule, which may be over.
BlockUnknownReset(a, gone) ==
    /\ block' = [block EXCEPT ![a] = IF ~checksOn THEN "timed"
                                     ELSE IF @ = "lapsed" THEN @ ELSE "checked"]
    /\ Stamp(a, gone)

\* blocked, blockedAt and the pending check are deleted.
Unblock(a, gone) ==
    /\ block' = [block EXCEPT ![a] = "free"]
    /\ newer' = newer \ (RunsOn(a) \cup gone)

\* Mutant: whatever landed since the run started.
UnblockIfNotBlockedSince_Always(r) == Unblock(PoolOf[on[r]], {r})

\* A block that is not older than the run stays.
UnblockIfNotBlockedSince(r) ==
    IF r \in newer THEN UNCHANGED block /\ newer' = newer \ {r}
                   ELSE Unblock(PoolOf[on[r]], {r})

StillLimited(a) ==
    block' = [block EXCEPT ![a] = IF @ \in {"checked", "lapsed"} THEN "checked" ELSE @]

\* A block passes.  Nobody is told: IsBlocked finds out.
BlockPasses(a) ==
    /\ Blocked(a)
    /\ block' = [block EXCEPT ![a] = IF @ = "timed" THEN "free" ELSE "lapsed"]
    /\ UNCHANGED <<worldVars, checksOn, newer, on, checkVars, pauseVars>>

-----------------------------------------------------------------------------
(* The dispatcher.                                                         *)

Busy == {r \in Runs : on[r] # NoProvider}

\* Mutant: a provider that is paused ends the walk.
Skipped_PauseEnds(i) ==
    /\ Blocked(PoolOf[Order[i]])
    /\ paused[KindOf[Order[i]]] = "no"

\* The i-th candidate is passed over.
Skipped(i) == Blocked(PoolOf[Order[i]]) \/ paused[KindOf[Order[i]]] # "no"

Chosen(i) ==
    /\ ~Blocked(PoolOf[Order[i]])
    /\ paused[KindOf[Order[i]]] = "no"
    /\ \A j \in 1..(i - 1) : Skipped(j)

\* The walk of one task over its candidates; with none left it stays queued.
Dispatch(r) ==
    /\ on[r] = NoProvider
    /\ \E i \in DOMAIN Order : Chosen(i) /\ on' = [on EXCEPT ![r] = Order[i]]
    /\ UNCHANGED <<worldVars, limitVars, checkVars, pauseVars>>

\* DispatchReply is gated by neither registry.
Reply(r, p) ==
    /\ on[r] = NoProvider
    /\ on' = [on EXCEPT ![r] = p]
    /\ UNCHANGED <<worldVars, limitVars, checkVars, pauseVars>>

-----------------------------------------------------------------------------
(* The ends of a run.                                                      *)

Leaves(r) == on' = [on EXCEPT ![r] = NoProvider]

\* It completed, failed for a reason of its own, or was cancelled by a person
\* or the memory guard.
Ends(r) ==
    /\ on[r] # NoProvider
    /\ UnblockIfNotBlockedSince(r)
    /\ Leaves(r)
    /\ UNCHANGED <<worldVars, checksOn, checkVars, pauseVars>>

\* Mutant: the slot's next run is taken for an older one.
EndsTransient_KeepsStamp(r) ==
    /\ on[r] # NoProvider
    /\ Leaves(r)
    /\ UNCHANGED <<worldVars, limitVars, checkVars, pauseVars>>

\* A transient error says nothing about the account.
EndsTransient(r) ==
    /\ on[r] # NoProvider
    /\ newer' = newer \ {r}
    /\ Leaves(r)
    /\ UNCHANGED <<worldVars, block, checksOn, checkVars, pauseVars>>

\* handleProviderError on a limit: the block goes in before the release.
EndsLimited(r, known) ==
    /\ on[r] # NoProvider
    /\ PoolOf[on[r]] \in limited
    /\ IF known THEN Block(PoolOf[on[r]], {r})
                ELSE BlockUnknownReset(PoolOf[on[r]], {r})
    /\ Leaves(r)
    /\ UNCHANGED <<worldVars, checksOn, checkVars, pauseVars>>

\* persistRunResult on a login error: the kind is paused, unless it is already.
EndsLoggedOut(r) ==
    /\ on[r] # NoProvider
    /\ KindOf[on[r]] \in loggedOut
    /\ paused' = [paused EXCEPT ![KindOf[on[r]]] = IF @ = "no" THEN "young" ELSE @]
    /\ UnblockIfNotBlockedSince(r)
    /\ Leaves(r)
    /\ UNCHANGED <<worldVars, checksOn, checkVars, listed, asking>>

-----------------------------------------------------------------------------
(* ResetChecker.Run.                                                       *)

EnableResetChecks ==
    /\ ~checksOn
    /\ checksOn' = TRUE
    /\ UNCHANGED <<worldVars, block, newer, on, checkVars, pauseVars>>

\* dueResetChecks: the checks whose block has lapsed are dropped, and some of
\* the others are due.
CheckPass(S) ==
    /\ checksOn
    /\ due = {}
    /\ probing = NoPool
    /\ S \subseteq {a \in Pools : block[a] = "checked"}
    /\ due' = S
    /\ block' = [a \in Pools |-> IF block[a] = "lapsed" THEN "free" ELSE block[a]]
    /\ block' # block \/ S # {}
    /\ UNCHANGED <<worldVars, checksOn, newer, on, probing, answer, pauseVars>>

\* The probe's prompt is answered: the account works, or it says until when it
\* is limited, or only that it is (or there was a network error).
Probe(a) ==
    /\ probing = NoPool
    /\ a \in due
    /\ due' = due \ {a}
    /\ probing' = a
    /\ answer' \in IF a \in limited THEN {"known", "still"} ELSE {"usable", "still"}
    /\ UNCHANGED <<worldVars, limitVars, on, pauseVars>>

ProbeDone(b) ==
    /\ probing # NoPool
    /\ b
    /\ probing' = NoPool
    /\ answer' = "none"
    /\ UNCHANGED <<worldVars, checksOn, on, due, pauseVars>>

CheckKnown  == ProbeDone(answer = "known") /\ Block(probing, {})
CheckStill  == ProbeDone(answer = "still") /\ StillLimited(probing) /\ UNCHANGED newer
CheckUsable == ProbeDone(answer = "usable") /\ Unblock(probing, {})

-----------------------------------------------------------------------------
(* The circuit breaker.                                                    *)

PauseAges(k) ==
    /\ paused[k] = "young"
    /\ paused' = [paused EXCEPT ![k] = "old"]
    /\ UNCHANGED <<worldVars, limitVars, on, checkVars, listed, asking>>

\* Mutant: what was paused only now is asked about, the rest is not.
RecheckTick_Reversed ==
    /\ listed = {}
    /\ asking = NoKind
    /\ listed' = {k \in Kinds : paused[k] = "young"}
    /\ listed' # {}
    /\ UNCHANGED <<worldVars, limitVars, paused, on, checkVars, asking>>

\* A tick of RunRecheck: the list is read once, and what was paused for less
\* than the interval is passed over.
RecheckTick ==
    /\ listed = {}
    /\ asking = NoKind
    /\ listed' = {k \in Kinds : paused[k] = "old"}
    /\ listed' # {}
    /\ UNCHANGED <<worldVars, limitVars, paused, on, checkVars, asking>>

\* The health check of a kind answers; its resumption comes later.
RecheckAsk(k) ==
    /\ asking = NoKind
    /\ k \in listed
    /\ listed' = listed \ {k}
    /\ asking' = IF k \in loggedOut THEN NoKind ELSE k
    /\ UNCHANGED <<worldVars, limitVars, paused, on, checkVars>>

RecheckResume ==
    /\ asking # NoKind
    /\ paused' = [paused EXCEPT ![asking] = "no"]
    /\ asking' = NoKind
    /\ UNCHANGED <<worldVars, limitVars, on, checkVars, listed>>

\* A person resumes the provider.
ResumeProvider(k) ==
    /\ paused[k] # "no"
    /\ paused' = [paused EXCEPT ![k] = "no"]
    /\ UNCHANGED <<worldVars, limitVars, on, checkVars, listed, asking>>

-----------------------------------------------------------------------------
(* The world, and a restart.                                               *)

LimitHits(a)  == a \notin limited /\ limited' = limited \cup {a} /\ UNCHANGED loggedOut
LimitLifts(a) == a \in limited /\ limited' = limited \ {a} /\ UNCHANGED loggedOut
LogsOut(k)    == k \notin loggedOut /\ loggedOut' = loggedOut \cup {k} /\ UNCHANGED limited
LogsIn(k)     == k \in loggedOut /\ loggedOut' = loggedOut \ {k} /\ UNCHANGED limited

World ==
    /\ \/ \E a \in Limitable : LimitHits(a) \/ LimitLifts(a)
       \/ \E k \in Breakable : LogsOut(k) \/ LogsIn(k)
    /\ UNCHANGED <<limitVars, on, checkVars, pauseVars>>

\* The store gives back the blocks that have not passed, without their checks;
\* pauses are not stored.
Restart ==
    /\ block' = [a \in Pools |-> IF Blocked(a) THEN "timed" ELSE "free"]
    /\ checksOn' = FALSE
    /\ newer' = {}
    /\ paused' = [k \in Kinds |-> "no"]
    /\ on' = [r \in Runs |-> NoProvider]
    /\ due' = {}
    /\ probing' = NoPool
    /\ answer' = "none"
    /\ listed' = {}
    /\ asking' = NoKind
    /\ UNCHANGED worldVars

-----------------------------------------------------------------------------
EndRun(r) ==
    \/ Ends(r) \/ EndsTransient(r) \/ EndsLoggedOut(r)
    \/ \E known \in BOOLEAN : EndsLimited(r, known)
Check == CheckKnown \/ CheckStill \/ CheckUsable \/ \E a \in Pools : Probe(a)
Recheck == RecheckTick \/ RecheckResume \/ \E k \in Kinds : RecheckAsk(k)

Next ==
    \/ \E r \in Runs : Dispatch(r) \/ EndRun(r) \/ \E p \in Providers : Reply(r, p)
    \/ \E a \in Pools : BlockPasses(a)
    \/ EnableResetChecks
    \/ \E S \in SUBSET Pools : CheckPass(S)
    \/ Check
    \/ \E k \in Kinds : PauseAges(k) \/ ResumeProvider(k)
    \/ Recheck
    \/ World
    \/ Restart

Spec == Init /\ [][Next]_vars

\* Each goroutine goes on, a run ends (providers have a timeout), and time
\* passes; nobody resumes, replies or restarts by duty.
FairSpec ==
    /\ Spec
    /\ WF_vars(\E r \in Runs : Dispatch(r))
    /\ \A r \in Runs : WF_vars(EndRun(r))
    /\ \A a \in Pools : WF_vars(BlockPasses(a))
    /\ WF_vars(EnableResetChecks)
    /\ WF_vars(Check)
    /\ \A k \in Kinds : WF_vars(PauseAges(k))
    /\ WF_vars(Recheck)
-----------------------------------------------------------------------------
\* Besides the types: an answer belongs to a probe, and only a run that goes on
\* is older than a block.
TypeOK ==
    /\ limited \in SUBSET Pools
    /\ loggedOut \in SUBSET Kinds
    /\ block \in [Pools -> Blocks]
    /\ checksOn \in BOOLEAN
    /\ newer \in SUBSET Busy
    /\ paused \in [Kinds -> {"no", "young", "old"}]
    /\ on \in [Runs -> Providers \cup {NoProvider}]
    /\ due \in SUBSET Pools
    /\ probing \in Pools \cup {NoPool}
    /\ answer \in Answers
    /\ answer = "none" <=> probing = NoPool
    /\ listed \in SUBSET Kinds
    /\ asking \in Kinds \cup {NoKind}

\* The only ways in which an account's block ends: its time passes, its check
\* finds the account usable, or a run on the account ends that was started after
\* the block.  A run from before the block cannot know the account any better
\* than the run that was refused (issue 344, ratelimit.go:358), whatever it ends
\* with, and neither a pass of the checker nor a restart drops a block.
FreshBlockStays ==
    [][\A a \in Pools : Blocked(a) /\ ~Blocked(a)' =>
         \/ BlockPasses(a)
         \/ CheckUsable /\ probing = a
         \/ \E r \in RunsOn(a) \ newer : Leaves(r)]_vars

\* The provider works, and no network error spoils a check of its account.
Usable(p) ==
    /\ PoolOf[p] \notin limited
    /\ KindOf[p] \notin loggedOut
    /\ ~(probing = PoolOf[p] /\ answer = "still")

\* While one of an agent's accounts stays usable, runs keep being started:
\* blocks, checks that get lost and pauses end by themselves, and one account's
\* trouble does not hold up the walk to the others.
Served ==
    (\E p \in Providers : <>[]Usable(p)) => []<>(Busy # {})

\* Once a kind's login works for good, its pause ends for good, whatever runs
\* reported late.
LoginHeals ==
    \A k \in Kinds : <>[](k \notin loggedOut) => <>[](paused[k] = "no")
=============================================================================
