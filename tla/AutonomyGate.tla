---------------------------- MODULE AutonomyGate ----------------------------
(***************************************************************************)
(* One human gate under an autonomy policy (internal/autonomy).  When a    *)
(* task lands on the gate, the policy service decides whether a person is  *)
(* asked or the task is approved after a hold; people hold, undo, report   *)
(* and reject; every bad approval is an escape, and enough of them lower   *)
(* the gate's mode one notch.                                              *)
(*                                                                         *)
(* One step is one statement or transaction with the reads next to it.     *)
(* Time is abstracted: any hold may be over, no escape leaves the counting *)
(* window.  What the policy looks at beside the mode and an undo (flags,   *)
(* rules, cost, verification) may always make it ask.                      *)
(***************************************************************************)
EXTENDS Integers, Sequences, FiniteSets

CONSTANTS
    Tasks,
    Decisions,        \* ids of autonomy_decisions rows
    Clients,          \* HTTP requests under way at a time (a bound)
    Service,          \* the policy service's goroutine
    FirstMode,        \* the gate's mode at the start
    StepDownEscapes,  \* settings: escapes that lower the gate
    QueueCap,         \* queueCap of the service
    MaxStops,         \* how often the process may stop (a bound)
    NoTask, NoRow

\* Mode by rank: ask 0, on_flags 1, auto 2.
Modes == 0..2
Ask == 0

ASSUME ConstantsAssumption ==
    /\ Service \notin Clients
    /\ NoTask \notin Tasks
    /\ NoRow \notin Decisions
    /\ FirstMode \in Modes
    /\ StepDownEscapes \in Nat \ {0}
    /\ QueueCap \in Nat
    /\ MaxStops \in Nat

Procs == Clients \cup {Service}

VARIABLES
    \* database: tasks (label), the newest label history row, the actor of
    \* the last exit from the gate
    label, last, exit,
    \* database: the gate's mode; autonomy_escapes, per decision
    mode, esc,
    \* database: autonomy_decisions (outcome, task), and those the policy
    \* approved, per task in order of outcome_at
    st, owner, approvals,
    \* memory: the service's queue and place, requests, step-down checks
    queue, svc, req, chk,
    stops,
    \* history, read by the properties only
    stopped,   \* decisions held by a person or cancelled by a step-down
    stale,     \* pending decisions whose task has moved since
    lost       \* has an event been dropped?

taskVars  == <<label, last, exit>>
gateVars  == <<mode, esc>>
rowVars   == <<st, owner, approvals>>
memVars   == <<queue, svc, req, chk>>
histVars  == <<stopped, stale, lost>>
vars == <<label, last, exit, mode, esc, st, owner, approvals, queue, svc, req,
          chk, stops, stopped, stale, lost>>

-----------------------------------------------------------------------------
\* An agent's column, the gate (success to "done", failure to "work"), and a
\* terminal column.
Labels == {"work", "gate", "done"}
Actors == {"agent", "human", "policy", "undo"}
\* "ask" has no outcome; "dropped" stands for superseded, skipped and failed.
Outcomes == {"none", "ask", "pending", "approved", "held", "dropped", "undone"}

\* The service: at rest, in an event (step-down check, superseding, gate
\* read), or at a due row (read, to be dropped, to be claimed, claimed).
SvcIdle == [at |-> "idle", task |-> NoTask, to |-> "work", here |-> FALSE,
            may |-> FALSE, row |-> NoRow]
SvcSteps == {"idle", "checking", "supersede", "decide", "due", "drop", "claim",
             "claimed"}
ReqAt(at, task, row) == [at |-> at, task |-> task, row |-> row]
ReqIdle == ReqAt("idle", NoTask, NoRow)
ReqSteps == {"idle", "undo", "sendback", "checking", "mark"}
\* A step-down check: the mode it read and the decisions it counted.
NoCheck == [at |-> "none", from |-> 0, got |-> {}]
ChkSteps == {"none", "read", "count", "step", "reset", "cancel"}

Init ==
    /\ label = [t \in Tasks |-> "work"]
    /\ last = [t \in Tasks |-> [from |-> "work", by |-> "agent"]]
    /\ exit = [t \in Tasks |-> "none"]
    /\ mode = FirstMode
    /\ esc = [d \in Decisions |-> "none"]
    /\ st = [d \in Decisions |-> "none"]
    /\ owner = [d \in Decisions |-> NoTask]
    /\ approvals = [t \in Tasks |-> <<>>]
    /\ queue = <<>>
    /\ svc = SvcIdle
    /\ req = [c \in Clients |-> ReqIdle]
    /\ chk = [p \in Procs |-> NoCheck]
    /\ stops = 0
    /\ stopped = {} /\ stale = {}
    /\ lost = FALSE

-----------------------------------------------------------------------------
(* Moves.  The transition commits, then its event is queued for the service *)
(* unless the queue is full.                                               *)

PendingOf(t) == {d \in Decisions : owner[d] = t /\ st[d] = "pending"}

MoveTo(t, to, by) ==
    /\ label' = [label EXCEPT ![t] = to]
    /\ last' = [last EXCEPT ![t] = [from |-> label[t], by |-> by]]
    /\ exit' = [exit EXCEPT ![t] = IF label[t] = "gate" THEN by ELSE @]
    /\ stale' = {d \in stale : st[d] = "pending"} \cup PendingOf(t)
    /\ IF Len(queue) < QueueCap
       THEN queue' = Append(queue, [task |-> t, to |-> to]) /\ UNCHANGED lost
       ELSE UNCHANGED queue /\ lost' = TRUE

\* A finished run brings the task to the gate.
AgentMove(t) ==
    /\ label[t] = "work"
    /\ MoveTo(t, "gate", "agent")
    /\ UNCHANGED <<gateVars, rowVars, svc, req, chk, stops, stopped>>

\* Approve, reject and reopen by a person.
HumanMove(t) ==
    /\ \/ label[t] = "gate" /\ MoveTo(t, "done", "human")
       \/ label[t] # "work" /\ MoveTo(t, "work", "human")
    /\ UNCHANGED <<gateVars, rowVars, svc, req, chk, stops, stopped>>

\* A workflow update is one transaction: it writes the gate's autonomy and
\* restarts its counter.
SetMode(m) ==
    /\ mode' = m
    /\ m # mode
    /\ esc' = [d \in Decisions |-> IF esc[d] = "open" THEN "counted" ELSE esc[d]]
    /\ UNCHANGED <<taskVars, rowVars, memVars, stops, stopped, stale, lost>>

\* HoldAutonomy: a compare-and-swap on the outcome.
Hold(t) ==
    /\ label[t] = "gate"
    /\ PendingOf(t) # {}
    /\ st' = [d \in Decisions |-> IF d \in PendingOf(t) THEN "held" ELSE st[d]]
    /\ stopped' = stopped \cup PendingOf(t)
    /\ UNCHANGED <<taskVars, gateVars, owner, approvals, memVars, stops, stale, lost>>

-----------------------------------------------------------------------------
(* The step-down check: six statements, no transaction.                    *)

Open == {d \in Decisions : esc[d] = "open"}

\* An escape is inserted for a decision, and a check begins.
Escaped(d) == esc' = [esc EXCEPT ![d] = "open"]
CheckIs(p, at, from, got) ==
    chk' = [chk EXCEPT ![p] = [at |-> at, from |-> from, got |-> got]]
StartCheck(p) == CheckIs(p, "read", 0, {})
EndCheck(p) == chk' = [chk EXCEPT ![p] = NoCheck]

\* Mutant: a gate that asks is lowered too.
CheckRead_NoFloor(p) ==
    /\ chk[p].at = "read"
    /\ CheckIs(p, "count", mode, {})
    /\ UNCHANGED <<taskVars, gateVars, rowVars, queue, svc, req, stops, histVars>>

\* A gate that asks cannot be lowered.
CheckRead(p) ==
    /\ chk[p].at = "read"
    /\ IF mode = Ask THEN EndCheck(p)
       ELSE CheckIs(p, "count", mode, {})
    /\ UNCHANGED <<taskVars, gateVars, rowVars, queue, svc, req, stops, histVars>>

CheckCount(p) ==
    /\ chk[p].at = "count"
    /\ IF Cardinality(Open) < StepDownEscapes THEN EndCheck(p)
       ELSE CheckIs(p, "step", chk[p].from, Open)
    /\ UNCHANGED <<taskVars, gateVars, rowVars, queue, svc, req, stops, histVars>>

\* StepDownLabelAutonomy: only if the mode is still the one read.
StepDown(p) ==
    /\ chk[p].at = "step"
    /\ IF mode = chk[p].from
       THEN /\ mode' = mode - 1
            /\ CheckIs(p, "reset", 0, chk[p].got)
       ELSE EndCheck(p) /\ UNCHANGED mode
    /\ UNCHANGED <<taskVars, esc, rowVars, queue, svc, req, stops, stopped,
                   stale, lost>>

\* CreateAutonomyChange and ResetCounter: every open escape is consumed.
CheckReset(p) ==
    /\ chk[p].at = "reset"
    /\ esc' = [d \in Decisions |-> IF esc[d] = "open" THEN "counted" ELSE esc[d]]
    /\ CheckIs(p, "cancel", 0, {})
    /\ UNCHANGED <<taskVars, mode, rowVars, queue, svc, req, stops, histVars>>

\* SupersedePendingAtGate: the gate's pending approvals are cancelled.
AllPending == {d \in Decisions : st[d] = "pending"}
CheckCancel(p) ==
    /\ chk[p].at = "cancel"
    /\ st' = [d \in Decisions |-> IF d \in AllPending THEN "dropped" ELSE st[d]]
    /\ stopped' = stopped \cup AllPending
    /\ EndCheck(p)
    /\ UNCHANGED <<taskVars, gateVars, owner, approvals, queue, svc, req,
                   stops, stale, lost>>

CheckNext(p) ==
    \/ CheckRead(p) \/ CheckCount(p) \/ StepDown(p)
    \/ CheckReset(p) \/ CheckCancel(p)

-----------------------------------------------------------------------------
(* Undo and "should have asked".                                           *)

\* The task's latest approved decision with one of these outcomes, if any.
LatestOf(t, outcomes) ==
    LET fits == {i \in DOMAIN approvals[t] : st[approvals[t][i]] \in outcomes}
    IN {approvals[t][i] : i \in {i \in fits : \A j \in fits : j <= i}}

\* CanUndo and MoveBack.
UndoMove(c, t) ==
    /\ req[c] = ReqIdle
    /\ exit[t] = "policy" /\ label[t] # "gate"
    /\ MoveTo(t, "gate", "undo")
    /\ req' = [req EXCEPT ![c] = ReqAt("undo", t, NoRow)]
    /\ UNCHANGED <<gateVars, rowVars, svc, chk, stops, stopped>>

\* The escape of an undo.
UndoReport(c) ==
    /\ req[c].at = "undo"
    /\ \E d \in LatestOf(req[c].task, {"approved"}) :
          /\ Escaped(d)
          /\ req' = [req EXCEPT ![c] = ReqAt("mark", NoTask, d)]
    /\ StartCheck(c)
    /\ UNCHANGED <<taskVars, mode, rowVars, queue, svc, stops, stopped,
                   stale, lost>>

\* SetAutonomyOutcome, after the check.
UndoMark(c) ==
    /\ req[c].at = "mark" /\ chk[c] = NoCheck
    /\ st' = [st EXCEPT ![req[c].row] = "undone"]
    /\ approvals' = [approvals EXCEPT ![owner[req[c].row]] = Append(@, req[c].row)]
    /\ req' = [req EXCEPT ![c] = ReqIdle]
    /\ UNCHANGED <<taskVars, gateVars, owner, queue, svc, chk, stops, histVars>>

\* ShouldHaveAsked: the escape is inserted,
Report(c, t) ==
    /\ req[c] = ReqIdle
    /\ \E d \in LatestOf(t, {"approved", "undone"}) : Escaped(d)
    /\ req' = [req EXCEPT ![c] = ReqAt("sendback", t, NoRow)]
    /\ UNCHANGED <<taskVars, mode, rowVars, queue, svc, chk, stops, stopped,
                   stale, lost>>

\* the task is perhaps sent back along the failure path of a gate, and then
\* the check runs.
SendBack(c) ==
    /\ req[c].at = "sendback"
    /\ \/ label[req[c].task] = "gate" /\ MoveTo(req[c].task, "work", "human")
       \/ UNCHANGED <<taskVars, queue, stale, lost>>
    /\ StartCheck(c)
    /\ req' = [req EXCEPT ![c] = ReqAt("checking", NoTask, NoRow)]
    /\ UNCHANGED <<gateVars, rowVars, svc, stops, stopped>>

Answered(c) ==
    /\ req[c].at = "checking" /\ chk[c] = NoCheck
    /\ req' = [req EXCEPT ![c] = ReqIdle]
    /\ UNCHANGED <<taskVars, gateVars, rowVars, queue, svc, chk, stops, histVars>>

\* The client goes away: the statements left run under a dead context.
HangUp(c) ==
    /\ req[c] # ReqIdle
    /\ req' = [req EXCEPT ![c] = ReqIdle]
    /\ chk' = [chk EXCEPT ![c] = NoCheck]
    /\ UNCHANGED <<taskVars, gateVars, rowVars, queue, svc, stops, histVars>>

-----------------------------------------------------------------------------
(* The policy service.                                                     *)

\* doDetectEscape: a person has just rejected or reopened a task that the
\* policy approved, and nobody has reported that approval yet.
DetectedEscape(t, to) ==
    {d \in LatestOf(t, {"approved"}) :
        /\ label[t] = to
        /\ last[t].by = "human"
        /\ last[t].from \in {"gate", "done"} /\ to = "work"
        /\ esc[d] = "none"}

\* handle: the task is read, an escape is recorded.
Receive ==
    /\ svc = SvcIdle /\ queue # <<>>
    /\ LET e == Head(queue)
           found == DetectedEscape(e.task, e.to)
       IN /\ queue' = Tail(queue)
          /\ svc' = [SvcIdle EXCEPT !.at = IF found = {} THEN "supersede"
                                           ELSE "checking",
                        !.task = e.task, !.to = e.to, !.here = label[e.task] = e.to]
          /\ \/ found = {} /\ UNCHANGED <<esc, chk>>
             \/ \E d \in found : Escaped(d) /\ StartCheck(Service)
    /\ UNCHANGED <<taskVars, mode, rowVars, req, stops, stopped, stale, lost>>

Checked ==
    /\ svc.at = "checking" /\ chk[Service] = NoCheck
    /\ svc' = [svc EXCEPT !.at = "supersede"]
    /\ UNCHANGED <<taskVars, gateVars, rowVars, queue, req, chk, stops, histVars>>

\* Mutant: the undo is not looked at.
Supersede_UndoForgotten ==
    /\ svc.at = "supersede"
    /\ st' = [d \in Decisions |->
                IF d \in PendingOf(svc.task) /\ svc.to # "gate"
                THEN "dropped" ELSE st[d]]
    /\ svc' = IF svc.to = "gate" /\ svc.here /\ mode # Ask
              THEN [SvcIdle EXCEPT !.at = "decide", !.task = svc.task,
                                       !.may = TRUE]
              ELSE SvcIdle
    /\ UNCHANGED <<taskVars, gateVars, owner, approvals, queue, req, chk, stops,
                   histVars>>

\* Mutant: the task's leaving drops nothing.
Supersede_KeepsPending ==
    /\ svc.at = "supersede"
    /\ svc' = IF svc.to = "gate" /\ svc.here /\ mode # Ask
              THEN [SvcIdle EXCEPT !.at = "decide", !.task = svc.task,
                                       !.may = last[svc.task].by # "undo"]
              ELSE SvcIdle
    /\ UNCHANGED <<taskVars, gateVars, rowVars, queue, req, chk, stops, histVars>>

\* Pending approvals for any other column are dropped; on the gate, its mode
\* and the task's history are read.
Supersede ==
    /\ svc.at = "supersede"
    /\ st' = [d \in Decisions |->
                IF d \in PendingOf(svc.task) /\ svc.to # "gate"
                THEN "dropped" ELSE st[d]]
    /\ svc' = IF svc.to = "gate" /\ svc.here /\ mode # Ask
              THEN [SvcIdle EXCEPT !.at = "decide", !.task = svc.task,
                                       !.may = last[svc.task].by # "undo"]
              ELSE SvcIdle
    /\ UNCHANGED <<taskVars, gateVars, owner, approvals, queue, req, chk, stops,
                   histVars>>

Unused == {d \in Decisions : st[d] = "none"}

\* CreateAutonomyDecision: a person is asked, or the task is to be approved.  An
\* evaluation that fails asks a person and records nothing.
Decide ==
    /\ svc.at = "decide"
    /\ \/ \E d \in Unused, verdict \in {"ask", "pending"} :
             /\ verdict = "pending" => svc.may
             /\ st' = [st EXCEPT ![d] = verdict]
             /\ owner' = [owner EXCEPT ![d] = svc.task]
       \/ UNCHANGED <<st, owner>>
    /\ svc' = SvcIdle
    /\ UNCHANGED <<taskVars, gateVars, approvals, queue, req, chk, stops, histVars>>

\* Sweep and process: a due row is listed,
Due(d) ==
    /\ svc = SvcIdle
    /\ st[d] = "pending"
    /\ svc' = [SvcIdle EXCEPT !.at = "due", !.row = d]
    /\ UNCHANGED <<taskVars, gateVars, rowVars, queue, req, chk, stops, histVars>>

\* its task is read (paused tasks and tasks with a run are skipped),
ReadDue ==
    /\ svc.at = "due"
    /\ \E at \in {"drop", "claim"} :
          /\ at = "claim" => label[owner[svc.row]] = "gate"
          /\ svc' = [svc EXCEPT !.at = at]
    /\ UNCHANGED <<taskVars, gateVars, rowVars, queue, req, chk, stops, histVars>>

\* Mutant: a task found paused keeps its row pending.
Drop_Forgotten ==
    /\ svc.at = "drop"
    /\ svc' = SvcIdle
    /\ UNCHANGED <<taskVars, gateVars, rowVars, queue, req, chk, stops, histVars>>

\* and the row is dropped, whatever its outcome is by now,
Drop ==
    /\ svc.at = "drop"
    /\ st' = [st EXCEPT ![svc.row] = "dropped"]
    /\ svc' = SvcIdle
    /\ UNCHANGED <<taskVars, gateVars, owner, approvals, queue, req, chk, stops,
                   histVars>>

\* Mutant: the claim does not look at the outcome.
Claim_Unconditional ==
    /\ svc.at = "claim"
    /\ st' = [st EXCEPT ![svc.row] = "approved"]
    /\ approvals' = [approvals EXCEPT ![owner[svc.row]] = Append(@, svc.row)]
    /\ svc' = [svc EXCEPT !.at = "claimed"]
    /\ UNCHANGED <<taskVars, gateVars, owner, queue, req, chk, stops, histVars>>

\* or claimed: ClaimAutonomyApproval, a compare-and-swap on the outcome,
Claim ==
    /\ svc.at = "claim"
    /\ IF st[svc.row] = "pending"
       THEN /\ st' = [st EXCEPT ![svc.row] = "approved"]
            /\ approvals' = [approvals EXCEPT ![owner[svc.row]] = Append(@, svc.row)]
            /\ svc' = [svc EXCEPT !.at = "claimed"]
       ELSE svc' = SvcIdle /\ UNCHANGED <<st, approvals>>
    /\ UNCHANGED <<taskVars, gateVars, owner, queue, req, chk, stops, histVars>>

\* after which the task moves on if it is still on the gate.
Approve ==
    LET t == owner[svc.row] IN
    /\ svc.at = "claimed"
    /\ \/ /\ label[t] = "gate"
          /\ MoveTo(t, "done", "policy")
          /\ UNCHANGED st
       \/ /\ st' = [st EXCEPT ![svc.row] = "dropped"]
          /\ UNCHANGED <<taskVars, queue, stale, lost>>
    /\ svc' = SvcIdle
    /\ UNCHANGED <<gateVars, owner, approvals, req, chk, stops, stopped>>

SvcNext ==
    \/ Receive \/ Checked \/ Supersede \/ Decide
    \/ ReadDue \/ Drop \/ Claim \/ Approve

-----------------------------------------------------------------------------
\* The process stops and starts again: what was in memory is gone.
Restart ==
    /\ stops < MaxStops
    /\ stops' = stops + 1
    /\ queue' = <<>>
    /\ svc' = SvcIdle
    /\ req' = [c \in Clients |-> ReqIdle]
    /\ chk' = [p \in Procs |-> NoCheck]
    /\ lost' = TRUE
    /\ UNCHANGED <<taskVars, gateVars, rowVars, stopped, stale>>

Next ==
    \/ SvcNext \/ \E d \in Decisions : Due(d)
    \/ \E p \in Procs : CheckNext(p)
    \/ \E c \in Clients :
          \/ UndoReport(c) \/ UndoMark(c) \/ SendBack(c) \/ Answered(c) \/ HangUp(c)
          \/ \E t \in Tasks : UndoMove(c, t) \/ Report(c, t)
    \/ \E t \in Tasks : AgentMove(t) \/ HumanMove(t) \/ Hold(t)
    \/ \E m \in Modes : SetMode(m)
    \/ Restart

Spec == Init /\ [][Next]_vars

\* The service's goroutine runs, and a sweep reaches every due row: Go's select
\* takes the tick as well as the queue.
FairSpec ==
    /\ Spec
    /\ WF_vars(SvcNext)
    /\ WF_vars(CheckNext(Service))
    /\ \A d \in Decisions : SF_vars(Due(d))

-----------------------------------------------------------------------------
(* Properties.                                                             *)

TypeOK ==
    /\ label \in [Tasks -> Labels]
    /\ last \in [Tasks -> [from : Labels, by : Actors]]
    /\ exit \in [Tasks -> Actors \cup {"none"}]
    /\ mode \in Modes
    /\ esc \in [Decisions -> {"none", "open", "counted"}]
    /\ st \in [Decisions -> Outcomes]
    /\ owner \in [Decisions -> Tasks \cup {NoTask}]
    /\ approvals \in [Tasks -> Seq(Decisions)]
    /\ queue \in Seq([task : Tasks, to : Labels])
    /\ svc \in [at : SvcSteps, task : Tasks \cup {NoTask}, to : Labels,
               here : BOOLEAN, may : BOOLEAN, row : Decisions \cup {NoRow}]
    /\ req \in [Clients -> [at : ReqSteps, task : Tasks \cup {NoTask},
                           row : Decisions \cup {NoRow}]]
    /\ chk \in [Procs -> [at : ChkSteps, from : Modes, got : SUBSET Decisions]]
    /\ stops \in 0..MaxStops
    /\ stopped \subseteq Decisions /\ stale \subseteq Decisions
    /\ lost \in BOOLEAN

\* The policy moves a task.
PolicyMoves(t) == label'[t] # label[t] /\ last'[t].by = "policy"

\* An approval that a person has held, or that a step-down has cancelled, never
\* moves the task (HoldAutonomy, SupersedePendingAtGate against
\* ClaimAutonomyApproval).
HoldWins == [][\A t \in Tasks : PolicyMoves(t) => svc.row \notin stopped]_vars

\* A task that was brought back by an undo waits for a person: the policy does
\* not approve it again, unless an event was dropped (evaluate, Undone).
UndoneStays ==
    [][\A t \in Tasks :
          PolicyMoves(t) /\ last[t].by = "undo" => lost]_vars

\* What the events still to be handled say of the task.
LeftGate(t) == \E i \in DOMAIN queue : queue[i].task = t /\ queue[i].to # "gate"

\* A due row approves the visit to the gate it was made for.  The row of an
\* earlier visit is taken up only while the event of the task's leaving waits
\* in the queue, or when events were lost (process compares labels only).
ApprovesThisVisit ==
    [][svc.at = "due" /\ svc'.at = "claim" /\ svc.row \in stale
          => lost \/ LeftGate(owner[svc.row])]_vars

\* A decision to approve does not stay pending for ever: it is carried out,
\* held, or dropped, through restarts and lost events (Sweep).
PendingSettles ==
    \A d \in Decisions : st[d] = "pending" ~> st[d] # "pending"

=============================================================================
