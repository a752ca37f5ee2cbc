-------------------------- MODULE FeedbackHandoff --------------------------
(***************************************************************************)
(* How a change request reaches the agent that has to act on it.  Feedback *)
(* is the column agent_runs.feedback of the task's current run: the forge  *)
(* sync appends what reviewers and checks say (ghsync/pr_review.go), a     *)
(* person's rejection and a failing agent's findings replace it            *)
(* (api/handlers/tasks.go, agent/pool.go), the next run is created with a  *)
(* copy (agent/dispatcher.go), and a run that succeeds drops what it was   *)
(* handed (agent/feedback.go).  Nobody holds a lock over two of these.     *)
(*                                                                         *)
(* One task with an open pull request.  One step is one statement, or one  *)
(* answer of the forge.  The text of the column is the sequence of its     *)
(* paragraphs.  The dispatch lock is here as far as it decides which run   *)
(* is current; its own correctness is RunLifecycle's, so a run's status    *)
(* and lock change in one step.                                            *)
(***************************************************************************)
EXTENDS Naturals, Sequences, SequencesExt

CONSTANTS
    Runs,
    Labels, AgentLabels,
    SuccessOf,       \* where an agent's success leads from a column,
    FailureOf,       \* ... and its failure, NoLabel if there is no such path
    BackOf,          \* where a person's rejection, or the sync, sends it
    Moves,           \* the workflow's transitions
    FirstLabels,     \* where the task is at first
    Trusted,         \* the reviews whose author may write to the repository
    Syncs,           \* the sweep, and the refreshes that webhooks ask for
    MaxPasses,       \* bound: times the sync looks at the task
    MaxPosts,        \* bound: what happens on the forge
    MaxActs,         \* bound: requests of people, and crashes
    NoRun, NoLabel

ASSUME ConstantsAssumption ==
    /\ Runs # {} /\ NoRun \notin Runs
    /\ NoLabel \notin Labels
    /\ AgentLabels \subseteq Labels
    /\ FirstLabels \subseteq Labels
    /\ {SuccessOf, FailureOf, BackOf} \subseteq [Labels -> Labels \cup {NoLabel}]
    /\ Moves \subseteq Labels \X Labels
    /\ Trusted \subseteq Nat \ {0}
    /\ {MaxPasses, MaxPosts, MaxActs} \subseteq Nat

VARIABLES
    \* database: the task, its runs, the sync's cursor, the inline comments
    label, active, current,
    fb,
    cursor, comments,
    forge,
    \* goroutines: the runs, the two ways to start one, a request, the syncs
    phase, mem, st, req, sy,
    \* bounds
    passes, posts, acts,
    \* history, read by the properties only
    told,        \* paragraphs that were put to the task
    addressed,   \* those handed to a run that succeeded
    waived,      \* those that another write displaced
    again,       \* those that stay, come back or are told twice
    unsaved      \* those whose cursor was not saved

taskVars == <<label, active, current>>
syncVars == <<cursor, comments, sy>>
goVars   == <<phase, mem, st>>
bounds   == <<passes, posts, acts>>
history  == <<told, addressed, waived, again, unsaved>>
vars == <<label, active, current, fb, cursor, comments, forge, phase, mem,
          st, req, sy, passes, posts, acts, told, addressed, waived, again, unsaved>>

-----------------------------------------------------------------------------
Phases == {"none", "working", "starting", "phantom", "consuming", "dropping",
           "finding", "writing", "moving", "swapping", "waiting", "over"}
\* agent_runs.status is pending or running, or waiting_human.
Live    == {"starting", "working"}
Waiting == {"phantom", "waiting"}

Starters == {"sweep", "reply"}

NoMem  == [inh |-> <<>>, seen |-> <<>>, from |-> NoLabel, to |-> NoLabel,
           cur |-> NoRun]
NoSt   == [at |-> "idle", label |-> NoLabel, held |-> NoRun, cur |-> NoRun,
           fb |-> <<>>, run |-> NoRun]
NoReq  == [at |-> "idle", cur |-> NoRun, from |-> NoLabel, to |-> NoLabel]
NoSync == [at |-> "idle", cur |-> NoRun, label |-> NoLabel, head |-> <<>>,
           next |-> <<>>, parts |-> <<>>, base |-> <<>>, changed |-> FALSE,
           from |-> NoLabel]

\* The task has had a run, which opened the pull request, and there is a review.
Init ==
    /\ label \in FirstLabels /\ active = NoRun
    /\ current = CHOOSE r \in Runs : TRUE
    /\ phase = [r \in Runs |-> IF r = current THEN "over" ELSE "none"]
    /\ fb = [r \in Runs |-> <<>>]
    /\ cursor = [sha |-> 0, review |-> 0, checks |-> 0, conflict |-> 0, ver |-> 0]
    /\ comments = 0
    /\ forge = [ver |-> 1, sha |-> 1, reviews |-> 1, comments |-> 0,
                red |-> FALSE, merge |-> "clean"]
    /\ mem = [r \in Runs |-> NoMem]
    /\ st = [s \in Starters |-> NoSt]
    /\ req = NoReq
    /\ sy = [s \in Syncs |-> NoSync]
    /\ passes = 0 /\ posts = 0 /\ acts = 0
    /\ told = {} /\ addressed = {} /\ waived = {} /\ again = {} /\ unsaved = {}

\* What is in the feedback of a row.
On(r) == ToSet(fb[r])

\* A start has read the feedback it is going to copy, and not yet claimed.
HasRead(r) == \E s \in Starters : st[s].at = "claim" /\ st[s].cur = r
InFlight == UNION {ToSet(st[s].fb) : s \in {x \in Starters : st[x].at = "claim"}}

\* A writer makes r current because it was when the writer looked.  What the row
\* has gained since a start read it does not reach that start.
PutBack(r) ==
    /\ current' = r
    /\ waived' = IF current = r THEN waived
                 ELSE waived \cup (On(current) \ (IF HasRead(r) THEN {} ELSE On(r)))
    /\ again' = IF current = r THEN again ELSE again \cup On(r)

\* An ended run gives the lock back, if it is still the one that holds it.
Release(r) == active' = IF active = r THEN NoRun ELSE active

Asked == acts < MaxActs /\ acts' = acts + 1

-----------------------------------------------------------------------------
(* Starting a run: the sweep finds the task free, a reply finds it held by *)
(* a run that waits.                                                       *)

Unused == {r \in Runs : phase[r] = "none"}

\* startRun reads the feedback of the run that was current when it read the task ...
Read(s, held) ==
    /\ st[s].at = "idle"
    /\ st' = [st EXCEPT ![s] = [NoSt EXCEPT !.at = "claim", !.label = label,
                 !.held = held, !.cur = current, !.fb = fb[current]]]
    /\ UNCHANGED <<taskVars, fb, syncVars, forge, phase, mem, req, passes, posts,
                   history>>

SweepRead ==
    /\ label \in AgentLabels /\ active = NoRun
    /\ Read("sweep", NoRun)
    /\ UNCHANGED acts

ReplyRead ==
    /\ Asked
    /\ active # NoRun /\ phase[active] \in Waiting
    /\ Read("reply", active)

Copy(s) == st[s].fb

\* ... and writes the new row with a copy in the transaction that claims the
\* task, if its label and lock are still those that were read.  The run goes to
\* the pool, which may refuse it (it ends as in Die), or there is nothing to run
\* it with.
Claim(s, runs) ==
    /\ st[s].at = "claim"
    /\ label = st[s].label /\ active = st[s].held
    /\ \E r \in Unused :
         /\ r = CHOOSE q \in Unused : TRUE
         /\ fb' = [fb EXCEPT ![r] = Copy(s)]
         /\ mem' = [mem EXCEPT ![r] = [NoMem EXCEPT !.inh = Copy(s),
                                          !.from = label]]
         /\ phase' = [phase EXCEPT ![r] = IF runs THEN "working" ELSE "starting"]
         /\ current' = r /\ active' = r
         /\ st' = [st EXCEPT ![s] = IF runs THEN NoSt
                        ELSE [NoSt EXCEPT !.at = "escalate", !.cur = st[s].cur,
                                          !.run = r]]
    /\ waived' = IF current # st[s].cur THEN waived \cup On(current) ELSE waived
    /\ UNCHANGED <<label, syncVars, forge, req, bounds, told, addressed, again,
                   unsaved>>

Conflict(s) ==
    /\ st[s].at = "claim"
    /\ label = st[s].label /\ active = st[s].held => Unused = {}
    /\ st' = [st EXCEPT ![s] = NoSt]
    /\ UNCHANGED <<taskVars, fb, syncVars, forge, phase, mem, req, bounds, history>>

\* No runner for the provider, or no toolchain: the run waits for a human ...
Escalate(s) ==
    /\ st[s].at = "escalate"
    /\ phase' = [phase EXCEPT ![st[s].run] = "phantom"]
    /\ st' = [st EXCEPT ![s].at = "restore"]
    /\ UNCHANGED <<taskVars, fb, syncVars, forge, mem, req, bounds, history>>

\* ... and the task's current run is again the one before.
Restore(s) ==
    /\ st[s].at = "restore"
    /\ active' = st[s].run
    /\ PutBack(st[s].cur)
    /\ phase' = [phase EXCEPT ![st[s].run] = "waiting"]
    /\ mem' = [mem EXCEPT ![st[s].run] = NoMem]
    /\ st' = [st EXCEPT ![s] = NoSt]
    /\ UNCHANGED <<label, fb, syncVars, forge, req, bounds, told, addressed,
                   unsaved>>

-----------------------------------------------------------------------------
(* How a run ends.                                                         *)

\* A success, with a column to go to.
Succeed(r) ==
    /\ phase[r] = "working" /\ SuccessOf[mem[r].from] # NoLabel
    /\ phase' = [phase EXCEPT ![r] = IF mem[r].inh = <<>> THEN "moving"
                                    ELSE "consuming"]
    /\ mem' = [mem EXCEPT ![r].to = SuccessOf[mem[r].from]]
    /\ addressed' = addressed \cup ToSet(mem[r].inh)
    /\ UNCHANGED <<taskVars, fb, syncVars, forge, st, req, bounds, told, waived,
                   again, unsaved>>

\* A failure by verdict, which sends the task back, as a rule with findings.
Fail(r) ==
    /\ phase[r] = "working" /\ FailureOf[mem[r].from] # NoLabel
    /\ \E next \in {"finding", "moving"} : phase' = [phase EXCEPT ![r] = next]
    /\ mem' = [mem EXCEPT ![r].to = FailureOf[mem[r].from]]
    /\ UNCHANGED <<taskVars, fb, syncVars, forge, st, req, bounds, history>>

\* A question, no outcome, or a budget that is used up: the lock is kept.
Ask(r) ==
    /\ phase[r] = "working"
    /\ phase' = [phase EXCEPT ![r] = "waiting"]
    /\ mem' = [mem EXCEPT ![r] = NoMem]
    /\ UNCHANGED <<taskVars, fb, syncVars, forge, st, req, bounds, history>>

\* An error, a cancel, a crash of the provider: the task may be picked up again.
Die(r) ==
    /\ phase[r] = "working"
    /\ phase' = [phase EXCEPT ![r] = "over"]
    /\ mem' = [mem EXCEPT ![r] = NoMem]
    /\ Release(r)
    /\ UNCHANGED <<label, current, fb, syncVars, forge, st, req, bounds, history>>

\* Mutant: a row that no longer holds just what was handed is left alone.
ConsumeRead_OnlyEqual(r) ==
    /\ phase[r] = "consuming"
    /\ phase' = [phase EXCEPT ![r] = IF fb[r] = mem[r].inh THEN "dropping"
                                    ELSE "moving"]
    /\ mem' = [mem EXCEPT ![r].seen = IF fb[r] = mem[r].inh THEN fb[r] ELSE <<>>]
    /\ UNCHANGED <<taskVars, fb, syncVars, forge, st, req, bounds, told, addressed,
                   waived, again, unsaved>>

\* consumeInheritedFeedback reads the row ...
ConsumeRead(r) ==
    /\ phase[r] = "consuming"
    /\ LET mine == IsPrefix(mem[r].inh, fb[r])
       IN  /\ phase' = [phase EXCEPT ![r] = IF mine THEN "dropping" ELSE "moving"]
           /\ mem' = [mem EXCEPT ![r].seen = IF mine THEN fb[r] ELSE <<>>]
           /\ again' = IF mine THEN again ELSE again \cup ToSet(mem[r].inh)
    /\ UNCHANGED <<taskVars, fb, syncVars, forge, st, req, bounds, told, addressed,
                   waived, unsaved>>

\* Mutant: what was appended meanwhile goes with it.
Rest_Nothing(r) == <<>>

\* What the run was not handed.
Rest(r) == SubSeq(mem[r].seen, Len(mem[r].inh) + 1, Len(mem[r].seen))

\* ... and takes off what it starts with, if nobody has written it since.
ConsumeSwap(r) ==
    /\ phase[r] = "dropping"
    /\ phase' = [phase EXCEPT ![r] = "moving"]
    /\ mem' = [mem EXCEPT ![r].seen = <<>>]
    /\ fb' = IF fb[r] = mem[r].seen THEN [fb EXCEPT ![r] = Rest(r)] ELSE fb
    /\ again' = again \cup IF fb[r] = mem[r].seen /\ current = r
                          THEN ToSet(mem[r].inh) \cap InFlight
                          ELSE ToSet(mem[r].inh)
    /\ waived' = IF fb[r] = mem[r].seen THEN waived \cup ((ToSet(mem[r].inh) \ addressed) \ ToSet(Rest(r)))
                 ELSE waived
    /\ UNCHANGED <<taskVars, syncVars, forge, st, req, bounds, told, addressed,
                   unsaved>>

\* A person has not moved the task ...
FindsInPlace(r) ==
    /\ phase[r] = "finding" /\ label = mem[r].from
    /\ phase' = [phase EXCEPT ![r] = "writing"]
    /\ UNCHANGED <<taskVars, fb, syncVars, forge, mem, st, req, bounds, history>>

\* ... so the findings replace the feedback.
WriteFindings(r) ==
    /\ phase[r] = "writing"
    /\ fb' = [fb EXCEPT ![r] = << <<"findings", r>> >>]
    /\ phase' = [phase EXCEPT ![r] = "moving"]
    /\ told' = told \cup {<<"findings", r>>}
    /\ waived' = waived \cup On(r)
           \cup (IF current = r /\ ~HasRead(r) THEN {} ELSE {<<"findings", r>>})
    /\ UNCHANGED <<taskVars, syncVars, forge, mem, st, req, bounds, addressed,
                   again, unsaved>>

\* A task that keeps coming back: a human has to look.
LoopExceeded(r) ==
    /\ phase[r] = "moving" /\ mem[r].to = FailureOf[mem[r].from]
    /\ phase' = [phase EXCEPT ![r] = "waiting"]
    /\ mem' = [mem EXCEPT ![r] = NoMem]
    /\ UNCHANGED <<taskVars, fb, syncVars, forge, st, req, bounds, history>>

\* The engine reads the task ...
RunMoveRead(r) ==
    /\ phase[r] = "moving" /\ label = mem[r].from
    /\ phase' = [phase EXCEPT ![r] = "swapping"]
    /\ mem' = [mem EXCEPT ![r].cur = current]
    /\ UNCHANGED <<taskVars, fb, syncVars, forge, st, req, bounds, history>>

\* ... and moves it if its label is unchanged, writing back the current run
\* that it read.
MoveTask(from, to, cur) ==
    /\ label = from
    /\ label' = to /\ active' = NoRun
    /\ PutBack(cur)

RunMove(r) ==
    /\ phase[r] = "swapping"
    /\ MoveTask(mem[r].from, mem[r].to, mem[r].cur)
    /\ phase' = [phase EXCEPT ![r] = "over"]
    /\ mem' = [mem EXCEPT ![r] = NoMem]
    /\ UNCHANGED <<fb, syncVars, forge, st, req, bounds, told, addressed, unsaved>>

\* A person has moved the task.
RunGivesUp(r) ==
    /\ phase[r] \in {"finding", "moving", "swapping"}
    /\ label # mem[r].from
    /\ phase' = [phase EXCEPT ![r] = "over"]
    /\ mem' = [mem EXCEPT ![r] = NoMem]
    /\ Release(r)
    /\ UNCHANGED <<label, current, fb, syncVars, forge, st, req, bounds, history>>

-----------------------------------------------------------------------------
(* People.                                                                 *)

NotLive == active # NoRun => phase[active] \notin Live

\* A rejection with a note reads the task ...
RejectRead ==
    /\ req.at = "idle" /\ Asked
    /\ BackOf[label] # NoLabel /\ NotLive
    /\ req' = [NoReq EXCEPT !.at = "note", !.cur = current, !.to = BackOf[label]]
    /\ UNCHANGED <<taskVars, fb, syncVars, forge, goVars, passes, posts, history>>

\* ... writes the note over the current run's feedback ...
RejectNote ==
    /\ req.at = "note"
    /\ req' = [req EXCEPT !.at = "move", !.cur = NoRun]
    /\ LET note == <<"note", acts>> IN
       /\ fb' = [fb EXCEPT ![req.cur] = <<note>>]
       /\ told' = told \cup {note}
       /\ waived' = waived \cup On(req.cur)
              \cup (IF req.cur = current /\ ~HasRead(current) THEN {} ELSE {note})
    /\ UNCHANGED <<taskVars, syncVars, forge, goVars, bounds, addressed, again,
                   unsaved>>

\* ... and moves the task.  Other moves come without a note.
MoveRequest ==
    /\ req.at = "idle" /\ Asked
    /\ NotLive
    /\ \E m \in Moves : m[1] = label
                      /\ req' = [NoReq EXCEPT !.at = "move", !.to = m[2]]
    /\ UNCHANGED <<taskVars, fb, syncVars, forge, goVars, passes, posts, history>>

ReqMoveRead ==
    /\ req.at = "move"
    /\ req' = IF <<label, req.to>> \in Moves
              THEN [req EXCEPT !.at = "swap", !.from = label, !.cur = current]
              ELSE NoReq
    /\ UNCHANGED <<taskVars, fb, syncVars, forge, goVars, bounds, history>>

ReqMove ==
    /\ req.at = "swap"
    /\ req' = NoReq
    /\ IF label = req.from THEN MoveTask(req.from, req.to, req.cur)
       ELSE UNCHANGED <<taskVars, waived, again>>
    /\ UNCHANGED <<fb, syncVars, forge, goVars, bounds, told, addressed, unsaved>>

\* A rerun takes the lock off whatever holds it.
Rerun ==
    /\ Asked
    /\ active # NoRun /\ active' = NoRun
    /\ UNCHANGED <<label, current, fb, syncVars, forge, goVars, req, passes, posts,
                   history>>

-----------------------------------------------------------------------------
(* The forge sync: a poll and a webhook refresh, one at a time under       *)
(* syncMu, but each with the task as it was before it got there.           *)

Locked(s) == sy[s].at \notin {"idle", "snapped"}

\* What has been read from the forge and is about to be written to a row.
Appending == UNION {ToSet(sy[s].parts) : s \in {x \in Syncs : sy[x].at = "append"}}

SyncSnap(s) ==
    /\ sy[s].at = "idle"
    /\ passes < MaxPasses /\ passes' = passes + 1
    /\ sy' = [sy EXCEPT ![s].at = "snapped", ![s].cur = current, ![s].label = label]
    /\ UNCHANGED <<taskVars, fb, cursor, comments, forge, goVars, req, posts,
                   acts, history>>

SyncNoHead(s) ==
    /\ sy[s].at = "snapped"
    /\ sy' = [sy EXCEPT ![s] = NoSync]
    /\ UNCHANGED <<taskVars, fb, cursor, comments, forge, goVars, req, bounds,
                   history>>

\* Mutant: nothing keeps a poll and a webhook apart.
SyncHead_Unlocked(s) ==
    /\ sy[s].at = "snapped"
    /\ sy' = [sy EXCEPT ![s].at = "fetch", ![s].head = [ver |-> forge.ver,
                 sha |-> forge.sha, merge |-> forge.merge]]
    /\ UNCHANGED <<taskVars, fb, cursor, comments, forge, goVars, req, bounds,
                   history>>

SyncHead(s) ==
    /\ sy[s].at = "snapped"
    /\ \A t \in Syncs : ~Locked(t)
    /\ sy' = [sy EXCEPT ![s].at = "fetch", ![s].head = [ver |-> forge.ver,
                 sha |-> forge.sha, merge |-> forge.merge]]
    /\ UNCHANGED <<taskVars, fb, cursor, comments, forge, goVars, req, bounds,
                   history>>

PRChanged(s) == sy[s].head.ver # cursor.ver

\* Mutant: a push starts the reviews again (issue #340).
Seen_Reset(s) == IF sy[s].head.sha # cursor.sha THEN 0 ELSE cursor.review

\* Reviews up to the watermark have been seen; failed checks are seen once for
\* a commit, as is a conflict while it lasts.
Seen(s) == cursor.review
SeenChecks(s) == IF sy[s].head.sha # cursor.sha THEN 0 ELSE cursor.checks

\* Mutant: the cursor moves on though a fetch failed.
Ver_Burnt(s, ok) == sy[s].head.ver
Ver(s, ok) == IF PRChanged(s) /\ ok THEN sy[s].head.ver ELSE cursor.ver

\* What the forge may be asked for: a pull request that has not changed only for
\* its checks, once checkPollFloor has passed.
Tried(s) == IF PRChanged(s) THEN {{"reviews", "comments", "checks"}}
            ELSE {{}, {"checks"}}

\* Of what is tried "got" is answered; then appendRunFeedback reads the row ...
SyncFetch(s, tried, got) ==
    /\ LET h    == sy[s].head
           \* in the order of the forge, which no property is about
           new  == SetToSeq({k \in Trusted : Seen(s) < k /\ k <= forge.reviews})
           red  == "checks" \in got /\ forge.red /\ SeenChecks(s) # h.sha
           conf == h.merge = "conflicting" /\ cursor.conflict # h.sha
           talk == "comments" \in got /\ comments < forge.comments
           parts == (IF "reviews" \in got
                       THEN [i \in DOMAIN new |-> <<"review", new[i]>>] ELSE <<>>)
                    \o (IF red THEN << <<"checks", h.sha>> >> ELSE <<>>)
                    \o (IF conf THEN << <<"conflict", h.sha>> >> ELSE <<>>)
           next == [sha      |-> h.sha,
                    review   |-> IF "reviews" \in got THEN forge.reviews
                                 ELSE Seen(s),
                    checks   |-> IF red THEN h.sha ELSE SeenChecks(s),
                    conflict |-> IF h.merge = "clean" THEN 0
                                 ELSE IF conf THEN h.sha ELSE cursor.conflict,
                    ver      |-> Ver(s, got = tried)]
       IN  /\ sy' = [sy EXCEPT ![s] =
                 IF next = cursor /\ ~talk /\ parts = <<>> THEN NoSync
                 ELSE [NoSync EXCEPT
                    !.at = IF parts = <<>> THEN "save" ELSE "append",
                    !.next = next, !.parts = parts,
                    !.label = IF talk \/ parts # <<>> THEN sy[s].label ELSE NoLabel,
                    !.cur = IF parts = <<>> THEN NoRun ELSE sy[s].cur,
                    !.base = IF parts = <<>> THEN <<>> ELSE fb[sy[s].cur],
                    !.changed = talk \/ parts # <<>>]]
           /\ comments' = IF talk THEN forge.comments ELSE comments
           /\ told' = told \cup ToSet(parts)
           /\ addressed' = addressed \ ToSet(parts)
           /\ again' = again \cup (ToSet(parts) \cap told)
           /\ unsaved' = unsaved \ ToSet(parts)
           /\ waived' = waived \ ToSet(parts)
    /\ UNCHANGED <<taskVars, fb, cursor, forge, goVars, req, bounds>>

\* ... and writes it back, longer.
SyncAppend(s) ==
    /\ sy[s].at = "append"
    /\ LET r == sy[s].cur IN
       /\ fb' = [fb EXCEPT ![r] = sy[s].base \o sy[s].parts]
       /\ waived' = waived \cup (On(r) \ ToSet(sy[s].base))
             \cup (IF r = current /\ ~HasRead(r) THEN {} ELSE ToSet(sy[s].parts))
       /\ again' = again \cup (ToSet(sy[s].base) \ On(r))
    /\ sy' = [sy EXCEPT ![s].at = "save", ![s].cur = NoRun, ![s].base = <<>>]
    /\ UNCHANGED <<taskVars, cursor, comments, forge, goVars, req, bounds, told,
                   addressed, unsaved>>

SyncSave(s) ==
    /\ sy[s].at = "save"
    /\ \E ok \in BOOLEAN :
         /\ cursor' = IF ok THEN sy[s].next ELSE cursor
         /\ unsaved' = IF ok THEN unsaved ELSE unsaved \cup ToSet(sy[s].parts)
    /\ \/ /\ sy[s].changed /\ BackOf[sy[s].label] # NoLabel
          /\ sy' = [sy EXCEPT ![s] = [NoSync EXCEPT !.at = "move",
                                          !.label = sy[s].label]]
       \/ sy' = [sy EXCEPT ![s] = NoSync]
    /\ UNCHANGED <<taskVars, fb, comments, forge, goVars, req, bounds, told,
                   addressed, waived, again>>

\* The repository wants its tasks sent back on feedback: along the failure path
\* of the column the task was on.
SyncMoveRead(s) ==
    /\ sy[s].at = "move"
    /\ sy' = [sy EXCEPT ![s] =
                IF <<label, BackOf[@.label]>> \in Moves
                THEN [@ EXCEPT !.at = "swap", !.from = label, !.cur = current]
                ELSE NoSync]
    /\ UNCHANGED <<taskVars, fb, cursor, comments, forge, goVars, req, bounds,
                   history>>

SyncMove(s) ==
    /\ sy[s].at = "swap"
    /\ IF label = sy[s].from
       THEN MoveTask(sy[s].from, BackOf[sy[s].label], sy[s].cur)
       ELSE UNCHANGED <<taskVars, waived, again>>
    /\ sy' = [sy EXCEPT ![s] = NoSync]
    /\ UNCHANGED <<fb, cursor, comments, forge, goVars, req, bounds, told,
                   addressed, unsaved>>

-----------------------------------------------------------------------------
(* The forge, and the process.                                             *)

Post(new) ==
    /\ posts < MaxPosts /\ posts' = posts + 1
    /\ forge' = new
    /\ UNCHANGED <<taskVars, fb, syncVars, goVars, req, passes, acts,
                   history>>

\* A review and a comment, and a push, move the pull request's updated_at;
\* the end of a check and the base branch do not.
Review  == Post([forge EXCEPT !.ver = @ + 1, !.reviews = @ + 1])
Comment == Post([forge EXCEPT !.ver = @ + 1, !.comments = @ + 1])
Push    == Post([forge EXCEPT !.ver = @ + 1, !.sha = @ + 1, !.red = FALSE])
Check   == Post([forge EXCEPT !.red = ~@])
Base    == \E m \in {"clean", "conflicting", "unknown"} \ {forge.merge} :
              Post([forge EXCEPT !.merge = m])

Crash ==
    /\ Asked
    /\ active' = NoRun
    /\ phase' = [r \in Runs |-> CASE phase[r] = "none" -> "none"
                                  [] phase[r] \in Waiting -> "waiting"
                                  [] OTHER -> "over"]
    /\ mem' = [r \in Runs |-> NoMem]
    /\ st' = [s \in Starters |-> NoSt]
    /\ req' = NoReq
    /\ sy' = [s \in Syncs |-> NoSync]
    /\ told' = told \ Appending
    /\ unsaved' = unsaved \cup UNION {ToSet(sy[s].parts) : s \in Syncs}
    /\ again' = again \cup UNION {ToSet(mem[r].inh) :
                   r \in {q \in Runs : phase[q] \in {"consuming", "dropping"}}}
    /\ UNCHANGED <<label, current, fb, cursor, comments, forge, passes, posts,
                   addressed, waived>>

-----------------------------------------------------------------------------
Start(s) ==
    \/ \E runs \in BOOLEAN : Claim(s, runs)
    \/ Conflict(s) \/ Escalate(s) \/ Restore(s)

Run(r) ==
    \/ Succeed(r) \/ Fail(r) \/ Ask(r) \/ Die(r)
    \/ ConsumeRead(r) \/ ConsumeSwap(r)
    \/ FindsInPlace(r) \/ WriteFindings(r) \/ LoopExceeded(r)
    \/ RunMoveRead(r) \/ RunMove(r) \/ RunGivesUp(r)

People == RejectRead \/ RejectNote \/ MoveRequest \/ ReqMoveRead \/ ReqMove \/ Rerun

SyncFetchSome(s) ==
    /\ sy[s].at = "fetch"
    /\ \E tried \in Tried(s) : \E got \in SUBSET tried : SyncFetch(s, tried, got)

SyncGoesOn(s) ==
    \/ SyncHead(s) \/ SyncNoHead(s) \/ SyncFetchSome(s)
    \/ SyncAppend(s) \/ SyncSave(s)
    \/ SyncMoveRead(s) \/ SyncMove(s)

Forge == Review \/ Comment \/ Push \/ Check \/ Base

Next ==
    \/ SweepRead
    \/ ReplyRead
    \/ \E s \in Starters : Start(s)
    \/ \E r \in Runs : Run(r)
    \/ People
    \/ \E s \in Syncs : SyncSnap(s) \/ SyncGoesOn(s)
    \/ Forge
    \/ Crash

Spec == Init /\ [][Next]_vars

-----------------------------------------------------------------------------
Items == {"review", "checks", "conflict"} \X (1..(MaxPosts + 1))
            \cup {"note"} \X (1..MaxActs) \cup {"findings"} \X Runs

TypeOK ==
    /\ label \in Labels /\ active \in Runs \cup {NoRun} /\ current \in Runs
    /\ fb \in [Runs -> Seq(Items)]
    /\ cursor \in [sha : Nat, review : Nat, checks : Nat, conflict : Nat, ver : Nat]
    /\ comments \in 0..forge.comments
    /\ phase \in [Runs -> Phases]
    /\ told \cup addressed \cup waived \cup again \cup unsaved \subseteq Items
    /\ addressed \subseteq told \cup unsaved
    /\ active # NoRun => phase[active] # "none"
    /\ phase[current] # "none"
    /\ \A s, t \in Syncs : Locked(s) /\ Locked(t) => s = t

\* Feedback that was put to a task stays in its current run's row, the one the
\* next run copies (agent/dispatcher.go:950-954), until a run it was handed to
\* succeeds (agent/feedback.go:10-13).  The exceptions are the writes that
\* displace it.
KeptUntilAddressed ==
    told \subseteq On(current) \cup addressed \cup waived \cup Appending

\* "so the next dispatch ... does not re-send it" (agent/feedback.go:11-12):
\* what a run has addressed is not copied again once the run is past dropping
\* it, unless somebody wrote the row at the same time or brought an older row
\* back.
NoReplay ==
    [][SweepRead \/ ReplyRead =>
         \A i \in (On(current) \cap addressed) \ again :
            \E r \in Runs : phase[r] \in {"consuming", "dropping"}
                            /\ i \in ToSet(mem[r].inh)]_vars

\* "re-sweeps never duplicate feedback already surfaced" (ghsync/pr_review.go:71):
\* a review, or the failed checks of a commit, are put to the task once, unless
\* the cursor could not be saved.
OnceEach ==
    [][\A s \in Syncs : SyncFetchSome(s) =>
         \A i \in ToSet(sy'[s].parts) \cap told :
            i[1] = "conflict" \/ i \in unsaved]_vars

\* A failed fetch must not "burn the cursor and permanently lose whatever
\* review/comment arrived in that window" (ghsync/pr_review.go:175-178): when the
\* sync takes the pull request for unchanged, every review of a writer was put to
\* the task and every inline comment is on its record.
CaughtUp ==
    cursor.ver = forge.ver =>
        /\ comments = forge.comments
        /\ \A k \in Trusted : k <= forge.reviews => <<"review", k>> \in told

=============================================================================
