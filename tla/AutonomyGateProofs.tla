------------------------- MODULE AutonomyGateProofs -------------------------
(***************************************************************************)
(* What the autonomy of a gate guarantees for any number of tasks,         *)
(* decisions and requests, and any threshold.                              *)
(***************************************************************************)
EXTENDS AutonomyGate, TLAPS

\* A decision belongs to a task from the start.
Owned == \A d \in Decisions : st[d] # "none" => owner[d] \in Tasks

\* What each goroutine knows at its place.
ServiceKnows ==
    /\ svc.at \in {"checking", "supersede", "decide"} => svc.task \in Tasks
    /\ svc.at \in {"due", "drop", "claim", "claimed"} =>
          svc.row \in Decisions /\ st[svc.row] # "none"
    /\ svc.at = "claimed" => st[svc.row] \in {"approved", "undone"}
RequestsKnow ==
    \A c \in Clients :
        /\ req[c].at \in {"undo", "sendback"} => req[c].task \in Tasks
        /\ req[c].at = "mark" =>
              req[c].row \in Decisions
              /\ st[req[c].row] \in {"approved", "undone", "dropped"}
              /\ req[c].row \notin stopped
ChecksKnow == \A p \in Procs : chk[p].at \in {"count", "step"} => chk[p].from # Ask

\* A decision that was stopped stays so.
StoppedIsFinal == \A d \in stopped : st[d] \in {"held", "dropped"}

IInv == TypeOK /\ Owned /\ ServiceKnows /\ RequestsKnow /\ ChecksKnow /\ StoppedIsFinal

USE ConstantsAssumption

-----------------------------------------------------------------------------
LEMMA IdleFacts ==
    /\ SvcIdle \in [at : SvcSteps, task : Tasks \cup {NoTask}, to : Labels,
                   here : BOOLEAN, may : BOOLEAN, row : Decisions \cup {NoRow}]
    /\ ReqIdle \in [at : ReqSteps, task : Tasks \cup {NoTask},
                   row : Decisions \cup {NoRow}]
    /\ NoCheck \in [at : ChkSteps, from : Modes, got : SUBSET Decisions]
BY DEF SvcIdle, SvcSteps, Labels, ReqIdle, ReqAt, ReqSteps, NoCheck, ChkSteps, Modes

THEOREM InitIInv == Init => IInv
<1> SUFFICES ASSUME Init PROVE IInv
    OBVIOUS
<1>1. TypeOK
  <2>1. /\ label \in [Tasks -> Labels]
        /\ last \in [Tasks -> [from : Labels, by : Actors]]
        /\ exit \in [Tasks -> Actors \cup {"none"}]
        /\ stops \in 0..MaxStops
    BY DEF Init, Labels, Actors
  <2>2. /\ mode \in Modes
        /\ esc \in [Decisions -> {"none", "open", "counted"}]
        /\ st \in [Decisions -> Outcomes]
        /\ owner \in [Decisions -> Tasks \cup {NoTask}]
    BY DEF Init, Outcomes
  <2>3. /\ approvals \in [Tasks -> Seq(Decisions)]
        /\ queue \in Seq([task : Tasks, to : Labels])
    BY DEF Init
  <2> QED BY <2>1, <2>2, <2>3, IdleFacts DEF Init, TypeOK
<1>2. Owned /\ ServiceKnows /\ RequestsKnow /\ ChecksKnow /\ StoppedIsFinal
  BY DEF Init, Owned, ServiceKnows, RequestsKnow, ChecksKnow, StoppedIsFinal,
     SvcIdle, ReqIdle, ReqAt, NoCheck, Procs
<1> QED BY <1>1, <1>2 DEF IInv

-----------------------------------------------------------------------------
\* A move keeps the types of what it writes.
LEMMA MoveTypes ==
    ASSUME TypeOK, NEW t \in Tasks, NEW to \in Labels, NEW by \in Actors,
           MoveTo(t, to, by)
    PROVE  /\ label' \in [Tasks -> Labels]
           /\ last' \in [Tasks -> [from : Labels, by : Actors]]
           /\ exit' \in [Tasks -> Actors \cup {"none"}]
           /\ queue' \in Seq([task : Tasks, to : Labels])
           /\ stale' \subseteq Decisions
           /\ lost' \in BOOLEAN
           /\ \A u \in Tasks : label'[u] # label[u] => last'[u].by = by
<1>1. /\ label' \in [Tasks -> Labels]
      /\ last' \in [Tasks -> [from : Labels, by : Actors]]
      /\ exit' \in [Tasks -> Actors \cup {"none"}]
  BY DEF TypeOK, MoveTo
<1>2. [task |-> t, to |-> to] \in [task : Tasks, to : Labels]
  OBVIOUS
<1>3. queue' \in Seq([task : Tasks, to : Labels]) /\ lost' \in BOOLEAN
  <2> DEFINE Events == [task : Tasks, to : Labels]
             e == [task |-> t, to |-> to]
  <2>1. e \in Events /\ queue \in Seq(Events)
    BY <1>2 DEF TypeOK
  <2>2. /\ queue' = Append(queue, e) \/ queue' = queue
        /\ lost' = lost \/ lost' = TRUE
    BY DEF MoveTo
  <2> HIDE DEF Events, e
  <2>3. queue' \in Seq(Events)
    BY <2>1, <2>2
  <2> QED BY <2>2, <2>3 DEF Events, TypeOK
<1>4. stale' \subseteq Decisions
  BY DEF TypeOK, MoveTo, PendingOf
<1>5. \A u \in Tasks : label'[u] # label[u] => last'[u].by = by
  BY DEF TypeOK, MoveTo
<1> QED BY <1>1, <1>3, <1>4, <1>5

\* The latest approved decision is a decision with one of the outcomes.
LEMMA LatestFacts ==
    ASSUME TypeOK, NEW t \in Tasks, NEW outcomes, NEW d \in LatestOf(t, outcomes)
    PROVE  d \in Decisions /\ st[d] \in outcomes
<1>1. PICK i \in DOMAIN approvals[t] : d = approvals[t][i] /\ st[d] \in outcomes
  BY DEF LatestOf
<1>2. approvals[t] \in Seq(Decisions)
  BY DEF TypeOK
<1> QED BY <1>1, <1>2

-----------------------------------------------------------------------------
LEMMA PeopleStep ==
    ASSUME IInv, NEW t \in Tasks, AgentMove(t) \/ HumanMove(t) \/ Hold(t)
    PROVE  IInv'
<1> USE DEF IInv
<1>1. CASE AgentMove(t) \/ HumanMove(t)
  <2>1. PICK to \in Labels, by \in Actors : MoveTo(t, to, by)
    BY <1>1 DEF AgentMove, HumanMove, Labels, Actors
  <2>2. UNCHANGED <<gateVars, rowVars, svc, req, chk, stops, stopped>>
    BY <1>1 DEF AgentMove, HumanMove
  <2>3. TypeOK'
    BY <2>1, <2>2, MoveTypes DEF TypeOK, gateVars, rowVars
  <2> QED BY <2>2, <2>3 DEF gateVars, rowVars, Owned, ServiceKnows, RequestsKnow,
             ChecksKnow, StoppedIsFinal
<1>2. CASE Hold(t)
  <2>1. TypeOK'
    BY <1>2 DEF Hold, TypeOK, Outcomes, PendingOf, taskVars, gateVars, memVars
  <2>2. /\ \A d \in Decisions : st'[d] = IF st[d] = "pending" /\ owner[d] = t
                                       THEN "held" ELSE st[d]
        /\ stopped' = stopped \cup PendingOf(t)
        /\ UNCHANGED <<owner, svc, req, chk>>
    BY <1>2 DEF Hold, PendingOf, memVars
  <2>3. Owned' /\ ServiceKnows' /\ ChecksKnow'
    BY <2>2 DEF Owned, ServiceKnows, ChecksKnow
  <2>4. StoppedIsFinal'
    BY <2>2 DEF StoppedIsFinal, PendingOf, TypeOK
  <2>5. RequestsKnow'
    BY <2>2 DEF RequestsKnow, PendingOf
  <2> QED BY <2>1, <2>3, <2>4, <2>5
<1> QED BY <1>1, <1>2

LEMMA SetModeStep ==
    ASSUME IInv, NEW m \in Modes, SetMode(m)
    PROVE  IInv'
<1>1. TypeOK'
  BY DEF IInv, TypeOK, SetMode, taskVars, rowVars, memVars
<1> QED BY <1>1 DEF IInv, SetMode, rowVars, memVars, Owned, ServiceKnows,
           RequestsKnow, ChecksKnow, StoppedIsFinal

-----------------------------------------------------------------------------
LEMMA CheckTypes ==
    ASSUME TypeOK, ChecksKnow, NEW p \in Procs,
           \/ EndCheck(p)
           \/ \E at \in ChkSteps, from \in Modes, got \in SUBSET Decisions :
                 CheckIs(p, at, from, got) /\ (at \in {"count", "step"} => from # Ask)
    PROVE  /\ chk' \in [Procs -> [at : ChkSteps, from : Modes, got : SUBSET Decisions]]
           /\ ChecksKnow'
<1>1. CASE EndCheck(p)
  BY <1>1, IdleFacts DEF EndCheck, TypeOK, ChecksKnow, NoCheck
<1>2. ASSUME NEW at \in ChkSteps, NEW from \in Modes, NEW got \in SUBSET Decisions,
             CheckIs(p, at, from, got), at \in {"count", "step"} => from # Ask
      PROVE  /\ chk' \in [Procs -> [at : ChkSteps, from : Modes, got : SUBSET Decisions]]
             /\ ChecksKnow'
  BY <1>2 DEF CheckIs, TypeOK, ChecksKnow
<1> QED BY <1>1, <1>2

LEMMA CheckStep ==
    ASSUME IInv, NEW p \in Procs, CheckNext(p)
    PROVE  IInv'
<1> USE DEF IInv
<1>0. /\ chk[p].from \in Modes /\ chk[p].got \in SUBSET Decisions
      /\ Open \in SUBSET Decisions /\ {} \in SUBSET Decisions
      /\ mode \in Modes /\ 0 \in Modes
      /\ {"read", "count", "step", "reset", "cancel"} \subseteq ChkSteps
  BY DEF TypeOK, Open, Modes, ChkSteps
<1>1. CASE CheckRead(p) \/ CheckCount(p)
  <2>1. UNCHANGED <<taskVars, gateVars, rowVars, queue, svc, req, stops, histVars>>
    BY <1>1 DEF CheckRead, CheckCount
  <2>2. \/ EndCheck(p)
        \/ mode # Ask /\ CheckIs(p, "count", mode, {})
        \/ chk[p].at = "count" /\ CheckIs(p, "step", chk[p].from, Open)
    BY <1>1 DEF CheckRead, CheckCount
  <2>3. /\ chk' \in [Procs -> [at : ChkSteps, from : Modes, got : SUBSET Decisions]]
        /\ ChecksKnow'
    <3>1. chk[p].at = "count" => chk[p].from # Ask
      BY DEF ChecksKnow
    <3> QED BY <1>0, <2>2, <3>1, CheckTypes
  <2>4. TypeOK'
    BY <2>1, <2>3 DEF TypeOK, taskVars, gateVars, rowVars, histVars
  <2> QED BY <2>1, <2>3, <2>4 DEF rowVars, histVars, Owned, ServiceKnows,
             RequestsKnow, StoppedIsFinal
<1>2. CASE StepDown(p)
  <2>1. UNCHANGED <<taskVars, esc, rowVars, queue, svc, req, stops, stopped, stale, lost>>
    BY <1>2 DEF StepDown
  <2>2. mode' \in Modes
    BY <1>0, <1>2 DEF StepDown, TypeOK, ChecksKnow, Modes, Ask
  <2>3. EndCheck(p) \/ CheckIs(p, "reset", 0, chk[p].got)
    BY <1>2 DEF StepDown
  <2>4. /\ chk' \in [Procs -> [at : ChkSteps, from : Modes, got : SUBSET Decisions]]
        /\ ChecksKnow'
    BY <1>0, <2>3, CheckTypes
  <2>5. TypeOK'
    BY <2>1, <2>2, <2>4 DEF TypeOK, taskVars, rowVars
  <2> QED BY <2>1, <2>4, <2>5 DEF rowVars, Owned, ServiceKnows, RequestsKnow,
             StoppedIsFinal
<1>3. CASE CheckReset(p)
  <2>1. /\ UNCHANGED <<taskVars, mode, rowVars, queue, svc, req, stops, histVars>>
        /\ CheckIs(p, "cancel", 0, {})
    BY <1>3 DEF CheckReset
  <2>2. /\ chk' \in [Procs -> [at : ChkSteps, from : Modes, got : SUBSET Decisions]]
        /\ ChecksKnow'
    BY <1>0, <2>1, CheckTypes
  <2>3. esc' \in [Decisions -> {"none", "open", "counted"}]
    BY <1>3 DEF CheckReset, TypeOK
  <2>4. TypeOK'
    BY <2>1, <2>2, <2>3 DEF TypeOK, taskVars, rowVars, histVars
  <2> QED BY <2>1, <2>2, <2>4 DEF rowVars, histVars, Owned, ServiceKnows,
             RequestsKnow, StoppedIsFinal
<1>4. CASE CheckCancel(p)
  <2>1. /\ UNCHANGED <<taskVars, gateVars, owner, approvals, queue, svc, req, stops,
                       stale, lost>>
        /\ st' = [d \in Decisions |-> IF st[d] = "pending" THEN "dropped" ELSE st[d]]
        /\ stopped' = stopped \cup AllPending
        /\ EndCheck(p)
    BY <1>4 DEF CheckCancel, AllPending
  <2>2. /\ chk' \in [Procs -> [at : ChkSteps, from : Modes, got : SUBSET Decisions]]
        /\ ChecksKnow'
    BY <2>1, CheckTypes
  <2>3. TypeOK'
    BY <2>1, <2>2 DEF TypeOK, AllPending, Outcomes, taskVars, gateVars
  <2>4. Owned' /\ ServiceKnows'
    BY <2>1 DEF Owned, ServiceKnows, TypeOK
  <2>5. StoppedIsFinal'
    BY <2>1 DEF StoppedIsFinal, AllPending, TypeOK
  <2>6. RequestsKnow'
    BY <2>1 DEF RequestsKnow, AllPending
  <2> QED BY <2>2, <2>3, <2>4, <2>5, <2>6
<1> QED BY <1>1, <1>2, <1>3, <1>4 DEF CheckNext
-----------------------------------------------------------------------------
\* What a request knows after one of its own steps.
LEMMA RequestTypes ==
    ASSUME TypeOK, RequestsKnow, NEW c \in Clients,
           NEW at \in ReqSteps, NEW t \in Tasks \cup {NoTask}, NEW d \in Decisions \cup {NoRow},
           at \in {"undo", "sendback"} => t \in Tasks,
           at = "mark" => d \in Decisions /\ st[d] = "approved" /\ d \notin stopped,
           req' = [req EXCEPT ![c] = ReqAt(at, t, d)],
           UNCHANGED <<st, stopped>>
    PROVE  /\ req' \in [Clients -> [at : ReqSteps, task : Tasks \cup {NoTask},
                                   row : Decisions \cup {NoRow}]]
           /\ RequestsKnow'
BY DEF TypeOK, RequestsKnow, ReqAt

LEMMA RequestStep ==
    ASSUME IInv, NEW c \in Clients,
           \/ UndoReport(c) \/ UndoMark(c) \/ SendBack(c) \/ Answered(c) \/ HangUp(c)
           \/ \E t \in Tasks : UndoMove(c, t) \/ Report(c, t)
    PROVE  IInv'
<1> USE DEF IInv
<1>0. /\ c \in Procs
      /\ {"idle", "undo", "sendback", "checking", "mark"} \subseteq ReqSteps
      /\ NoTask \in Tasks \cup {NoTask} /\ NoRow \in Decisions \cup {NoRow}
      /\ "read" \in ChkSteps /\ 0 \in Modes /\ {} \in SUBSET Decisions
  BY DEF Procs, ReqSteps, ChkSteps, Modes
<1>1. ASSUME NEW t \in Tasks, UndoMove(c, t)
      PROVE  IInv'
  <2>1. /\ MoveTo(t, "gate", "undo")
        /\ req' = [req EXCEPT ![c] = ReqAt("undo", t, NoRow)]
        /\ UNCHANGED <<gateVars, rowVars, svc, chk, stops, stopped>>
    BY <1>1 DEF UndoMove
  <2>2. /\ req' \in [Clients -> [at : ReqSteps, task : Tasks \cup {NoTask},
                                row : Decisions \cup {NoRow}]]
        /\ RequestsKnow'
    BY <1>0, <2>1, RequestTypes DEF rowVars
  <2>3. "gate" \in Labels /\ "undo" \in Actors
    BY DEF Labels, Actors
  <2>4. TypeOK'
    BY <2>1, <2>2, <2>3, MoveTypes DEF TypeOK, gateVars, rowVars
  <2> QED BY <2>1, <2>2, <2>4 DEF gateVars, rowVars, Owned, ServiceKnows, ChecksKnow,
             StoppedIsFinal
<1>2. CASE UndoReport(c)
  <2>1. PICK d \in LatestOf(req[c].task, {"approved"}) :
           Escaped(d) /\ req' = [req EXCEPT ![c] = ReqAt("mark", NoTask, d)]
    BY <1>2 DEF UndoReport
  <2>2. /\ CheckIs(c, "read", 0, {})
        /\ UNCHANGED <<taskVars, mode, rowVars, queue, svc, stops, stopped, stale, lost>>
    BY <1>2 DEF UndoReport, StartCheck
  <2>3. d \in Decisions /\ st[d] = "approved"
    <3>1. req[c].task \in Tasks
      BY <1>2 DEF UndoReport, RequestsKnow
    <3> QED BY <2>1, <3>1, LatestFacts
  <2>4. d \notin stopped
    BY <2>3 DEF StoppedIsFinal
  <2>5. /\ req' \in [Clients -> [at : ReqSteps, task : Tasks \cup {NoTask},
                                row : Decisions \cup {NoRow}]]
        /\ RequestsKnow'
    BY <1>0, <2>1, <2>2, <2>3, <2>4, RequestTypes DEF rowVars
  <2>6. /\ chk' \in [Procs -> [at : ChkSteps, from : Modes, got : SUBSET Decisions]]
        /\ ChecksKnow'
    BY <1>0, <2>2, CheckTypes
  <2>7. esc' \in [Decisions -> {"none", "open", "counted"}]
    BY <2>1, <2>3 DEF Escaped, TypeOK
  <2>8. TypeOK'
    BY <2>2, <2>5, <2>6, <2>7 DEF TypeOK, taskVars, rowVars
  <2> QED BY <2>2, <2>5, <2>6, <2>8 DEF rowVars, Owned, ServiceKnows, StoppedIsFinal
<1>3. CASE UndoMark(c)
  <2> DEFINE d == req[c].row
  <2>1. d \in Decisions /\ st[d] \in {"approved", "undone", "dropped"} /\ d \notin stopped
    BY <1>3 DEF UndoMark, RequestsKnow
  <2>2. /\ st' = [st EXCEPT ![d] = "undone"]
        /\ approvals' = [approvals EXCEPT ![owner[d]] = Append(approvals[owner[d]], d)]
        /\ req' = [req EXCEPT ![c] = ReqIdle]
        /\ UNCHANGED <<taskVars, gateVars, owner, queue, svc, chk, stops, histVars>>
    BY <1>3 DEF UndoMark
  <2>3. owner[d] \in Tasks
    BY <2>1 DEF Owned
  <2>4. approvals' \in [Tasks -> Seq(Decisions)]
    <3>1. Append(approvals[owner[d]], d) \in Seq(Decisions)
      BY <2>1, <2>3 DEF TypeOK
    <3> HIDE DEF d
    <3> QED BY <2>2, <2>3, <3>1 DEF TypeOK
  <2>5. TypeOK'
    <3>1. st' \in [Decisions -> Outcomes]
      BY <2>1, <2>2 DEF TypeOK, Outcomes
    <3>2. req' \in [Clients -> [at : ReqSteps, task : Tasks \cup {NoTask},
                               row : Decisions \cup {NoRow}]]
      BY <2>2, IdleFacts DEF TypeOK
    <3> QED BY <2>2, <2>4, <3>1, <3>2 DEF TypeOK, taskVars, gateVars, histVars
  <2>6. Owned' /\ ServiceKnows' /\ StoppedIsFinal'
    BY <2>1, <2>2, <2>3 DEF Owned, ServiceKnows, StoppedIsFinal, TypeOK, histVars
  <2>7. RequestsKnow'
    BY <2>1, <2>2 DEF RequestsKnow, ReqIdle, ReqAt, TypeOK, histVars
  <2> QED BY <2>2, <2>5, <2>6, <2>7 DEF ChecksKnow
<1>4. ASSUME NEW t \in Tasks, Report(c, t)
      PROVE  IInv'
  <2>1. PICK d \in LatestOf(t, {"approved", "undone"}) : Escaped(d)
    BY <1>4 DEF Report
  <2>2. /\ req' = [req EXCEPT ![c] = ReqAt("sendback", t, NoRow)]
        /\ UNCHANGED <<taskVars, mode, rowVars, queue, svc, chk, stops, stopped,
                       stale, lost>>
    BY <1>4 DEF Report
  <2>3. /\ req' \in [Clients -> [at : ReqSteps, task : Tasks \cup {NoTask},
                                row : Decisions \cup {NoRow}]]
        /\ RequestsKnow'
    BY <1>0, <2>2, RequestTypes DEF rowVars
  <2>4. esc' \in [Decisions -> {"none", "open", "counted"}]
    BY <2>1, LatestFacts DEF Escaped, TypeOK
  <2>5. TypeOK'
    BY <2>2, <2>3, <2>4 DEF TypeOK, taskVars, rowVars
  <2> QED BY <2>2, <2>3, <2>5 DEF rowVars, Owned, ServiceKnows, ChecksKnow,
             StoppedIsFinal
<1>5. CASE SendBack(c)
  <2>1. /\ CheckIs(c, "read", 0, {})
        /\ req' = [req EXCEPT ![c] = ReqAt("checking", NoTask, NoRow)]
        /\ UNCHANGED <<gateVars, rowVars, svc, stops, stopped>>
        /\ \/ MoveTo(req[c].task, "work", "human")
           \/ UNCHANGED <<taskVars, queue, stale, lost>>
    BY <1>5 DEF SendBack, StartCheck
  <2>2. /\ req' \in [Clients -> [at : ReqSteps, task : Tasks \cup {NoTask},
                                row : Decisions \cup {NoRow}]]
        /\ RequestsKnow'
    BY <1>0, <2>1, RequestTypes DEF rowVars
  <2>3. /\ chk' \in [Procs -> [at : ChkSteps, from : Modes, got : SUBSET Decisions]]
        /\ ChecksKnow'
    BY <1>0, <2>1, CheckTypes
  <2>4. req[c].task \in Tasks /\ "work" \in Labels /\ "human" \in Actors
    BY <1>5 DEF SendBack, RequestsKnow, Labels, Actors
  <2>5. /\ label' \in [Tasks -> Labels]
        /\ last' \in [Tasks -> [from : Labels, by : Actors]]
        /\ exit' \in [Tasks -> Actors \cup {"none"}]
        /\ queue' \in Seq([task : Tasks, to : Labels])
        /\ stale' \subseteq Decisions
        /\ lost' \in BOOLEAN
    <3>1. CASE MoveTo(req[c].task, "work", "human")
      BY <2>4, <3>1, MoveTypes
    <3>2. CASE UNCHANGED <<taskVars, queue, stale, lost>>
      BY <3>2 DEF TypeOK, taskVars
    <3> QED BY <2>1, <3>1, <3>2
  <2>6. TypeOK'
    BY <2>1, <2>2, <2>3, <2>5 DEF TypeOK, gateVars, rowVars
  <2> QED BY <2>1, <2>2, <2>3, <2>6 DEF rowVars, Owned, ServiceKnows, StoppedIsFinal
<1>6. CASE Answered(c) \/ HangUp(c)
  <2>1. /\ req' = [req EXCEPT ![c] = ReqAt("idle", NoTask, NoRow)]
        /\ chk' = chk \/ EndCheck(c)
        /\ UNCHANGED <<taskVars, gateVars, rowVars, queue, svc, stops, histVars>>
    BY <1>6 DEF Answered, HangUp, ReqIdle, EndCheck
  <2>2. /\ req' \in [Clients -> [at : ReqSteps, task : Tasks \cup {NoTask},
                                row : Decisions \cup {NoRow}]]
        /\ RequestsKnow'
    BY <1>0, <2>1, RequestTypes DEF rowVars, histVars
  <2>3. /\ chk' \in [Procs -> [at : ChkSteps, from : Modes, got : SUBSET Decisions]]
        /\ ChecksKnow'
    <3>1. CASE chk' = chk
      BY <3>1 DEF TypeOK, ChecksKnow
    <3>2. CASE EndCheck(c)
      BY <1>0, <3>2, CheckTypes
    <3> QED BY <2>1, <3>1, <3>2
  <2>4. TypeOK'
    BY <2>1, <2>2, <2>3 DEF TypeOK, taskVars, gateVars, rowVars, histVars
  <2> QED BY <2>1, <2>2, <2>3, <2>4 DEF rowVars, histVars, Owned, ServiceKnows,
             StoppedIsFinal
<1> QED BY <1>1, <1>2, <1>3, <1>4, <1>5, <1>6

-----------------------------------------------------------------------------
Places == [at : SvcSteps, task : Tasks \cup {NoTask}, to : Labels,
           here : BOOLEAN, may : BOOLEAN, row : Decisions \cup {NoRow}]

\* The service reads an event or a due row.
LEMMA ListenStep ==
    ASSUME IInv, Receive \/ Checked \/ ReadDue \/ \E d \in Decisions : Due(d)
    PROVE  IInv'
<1> USE DEF IInv
<1>0. svc \in Places
  BY DEF TypeOK, Places
<1>1. CASE Receive
  <2> DEFINE Events == [task : Tasks, to : Labels]
             e == Head(queue)
             found == DetectedEscape(e.task, e.to)
  <2>1. e \in Events /\ Tail(queue) \in Seq(Events)
    <3>1. queue \in Seq(Events) /\ queue # <<>>
      BY <1>1 DEF Receive, TypeOK
    <3> HIDE DEF Events
    <3> QED BY <3>1
  <2>2. /\ queue' = Tail(queue)
        /\ svc' = [SvcIdle EXCEPT !.at = IF found = {} THEN "supersede" ELSE "checking",
                      !.task = e.task, !.to = e.to, !.here = (label[e.task] = e.to)]
        /\ \/ UNCHANGED <<esc, chk>>
           \/ \E d \in found : Escaped(d) /\ CheckIs(Service, "read", 0, {})
        /\ UNCHANGED <<taskVars, mode, rowVars, req, stops, stopped, stale, lost>>
    BY <1>1 DEF Receive, StartCheck
  <2>3. /\ svc' \in Places
        /\ svc'.at \in {"supersede", "checking"} /\ svc'.task \in Tasks
    BY <2>1, <2>2 DEF SvcIdle, Places, SvcSteps, Labels
  <2>4. /\ esc' \in [Decisions -> {"none", "open", "counted"}]
        /\ chk' \in [Procs -> [at : ChkSteps, from : Modes, got : SUBSET Decisions]]
        /\ ChecksKnow'
    <3>1. CASE UNCHANGED <<esc, chk>>
      BY <3>1 DEF TypeOK, ChecksKnow
    <3>2. ASSUME NEW d \in found, Escaped(d), CheckIs(Service, "read", 0, {})
          PROVE  /\ esc' \in [Decisions -> {"none", "open", "counted"}]
                 /\ chk' \in [Procs -> [at : ChkSteps, from : Modes,
                                       got : SUBSET Decisions]]
                 /\ ChecksKnow'
      <4>1. esc' \in [Decisions -> {"none", "open", "counted"}]
        BY <3>2 DEF Escaped, TypeOK
      <4>2. Service \in Procs /\ "read" \in ChkSteps /\ 0 \in Modes
        BY DEF Procs, ChkSteps, Modes
      <4> QED BY <3>2, <4>1, <4>2, CheckTypes
    <3> QED BY <2>2, <3>1, <3>2
  <2>5. queue' \in Seq([task : Tasks, to : Labels])
    BY <2>1, <2>2
  <2> HIDE DEF e, found, Events
  <2>6. TypeOK'
    BY <2>2, <2>3, <2>4, <2>5 DEF TypeOK, taskVars, rowVars, Places
  <2> QED BY <2>2, <2>3, <2>4, <2>6 DEF rowVars, Owned, ServiceKnows, RequestsKnow,
             StoppedIsFinal
<1>2. ASSUME NEW d \in Decisions, Due(d)
      PROVE  IInv'
  <2>1. /\ svc' = [SvcIdle EXCEPT !.at = "due", !.row = d]
        /\ st[d] = "pending"
        /\ UNCHANGED <<taskVars, gateVars, rowVars, queue, req, chk, stops, histVars>>
    BY <1>2 DEF Due
  <2>2. svc' \in Places /\ svc'.at = "due" /\ svc'.row = d
    BY <2>1 DEF SvcIdle, Places, SvcSteps, Labels
  <2>3. TypeOK'
    BY <2>1, <2>2 DEF TypeOK, Places, taskVars, gateVars, rowVars, histVars
  <2> QED BY <2>1, <2>2, <2>3 DEF rowVars, histVars, Owned, ServiceKnows, RequestsKnow,
             ChecksKnow, StoppedIsFinal
<1>3. CASE Checked \/ ReadDue
  <2>1. PICK at \in {"supersede", "drop", "claim"} :
           /\ svc' = [svc EXCEPT !.at = at]
           /\ at = "supersede" <=> svc.at = "checking"
           /\ at # "supersede" <=> svc.at = "due"
    BY <1>3 DEF Checked, ReadDue
  <2>2. UNCHANGED <<taskVars, gateVars, rowVars, queue, req, chk, stops, histVars>>
    BY <1>3 DEF Checked, ReadDue
  <2>3. /\ svc' \in Places
        /\ svc'.at = at /\ svc'.row = svc.row /\ svc'.task = svc.task
    BY <1>0, <2>1 DEF Places, SvcSteps
  <2>4. TypeOK'
    BY <2>2, <2>3 DEF TypeOK, Places, taskVars, gateVars, rowVars, histVars
  <2>5. ServiceKnows'
    BY <2>1, <2>2, <2>3 DEF rowVars, ServiceKnows
  <2> QED BY <2>2, <2>4, <2>5 DEF rowVars, histVars, Owned, RequestsKnow,
             ChecksKnow, StoppedIsFinal
<1> QED BY <1>1, <1>2, <1>3

\* The service decides or acts on a row.
LEMMA ActStep ==
    ASSUME IInv, Supersede \/ Decide \/ Drop \/ Claim \/ Approve
    PROVE  IInv'
<1> USE DEF IInv
<1>0. svc \in Places
  BY DEF TypeOK, Places
<1>1. SvcIdle \in Places /\ SvcIdle.at = "idle"
  BY DEF SvcIdle, Places, SvcSteps, Labels
<1>2. CASE Supersede
  <2>0. /\ st' = [d \in Decisions |->
                     IF d \in PendingOf(svc.task) /\ svc.to # "gate"
                     THEN "dropped" ELSE st[d]]
        /\ UNCHANGED <<taskVars, gateVars, owner, approvals, queue, req, chk, stops,
                       histVars>>
        /\ \/ svc' = [SvcIdle EXCEPT !.at = "decide", !.task = svc.task,
                        !.may = (last[svc.task].by # "undo")]
           \/ svc' = SvcIdle
    BY <1>2 DEF Supersede
  <2>1. /\ \A d \in Decisions : st'[d] = st[d] \/ (st[d] = "pending" /\ st'[d] = "dropped")
        /\ st' \in [Decisions -> Outcomes]
    BY <2>0 DEF PendingOf, TypeOK, Outcomes
  <2>2. svc.task \in Tasks
    BY <1>2 DEF Supersede, ServiceKnows
  <2>3. /\ svc' \in Places
        /\ svc'.at = "idle" \/ (svc'.at = "decide" /\ svc'.task = svc.task)
    <3>1. CASE svc' = SvcIdle
      BY <1>1, <3>1
    <3>2. CASE svc' = [SvcIdle EXCEPT !.at = "decide", !.task = svc.task,
                          !.may = (last[svc.task].by # "undo")]
      BY <2>2, <3>2 DEF SvcIdle, Places, SvcSteps, Labels
    <3> QED BY <2>0, <3>1, <3>2
  <2>4. TypeOK'
    BY <2>0, <2>1, <2>3 DEF TypeOK, Places, taskVars, gateVars, histVars
  <2>5. Owned' /\ ServiceKnows' /\ StoppedIsFinal'
    BY <2>0, <2>1, <2>2, <2>3 DEF Owned, ServiceKnows, StoppedIsFinal, TypeOK, histVars
  <2>6. RequestsKnow'
    BY <2>0, <2>1 DEF RequestsKnow, histVars
  <2> QED BY <2>0, <2>4, <2>5, <2>6 DEF ChecksKnow
<1>3. CASE Decide
  <2>1. /\ svc' = SvcIdle
        /\ UNCHANGED <<taskVars, gateVars, approvals, queue, req, chk, stops, histVars>>
    BY <1>3 DEF Decide
  <2>2. svc.task \in Tasks
    BY <1>3 DEF Decide, ServiceKnows
  <2>3. /\ st' \in [Decisions -> Outcomes]
        /\ owner' \in [Decisions -> Tasks \cup {NoTask}]
        /\ \A d \in Decisions : \/ st'[d] = st[d] /\ owner'[d] = owner[d]
                                \/ st[d] = "none" /\ owner'[d] \in Tasks
    <3>1. CASE UNCHANGED <<st, owner>>
      BY <3>1 DEF TypeOK
    <3>2. ASSUME NEW d \in Unused, NEW verdict \in {"ask", "pending"},
                 st' = [st EXCEPT ![d] = verdict],
                 owner' = [owner EXCEPT ![d] = svc.task]
          PROVE  /\ st' \in [Decisions -> Outcomes]
                 /\ owner' \in [Decisions -> Tasks \cup {NoTask}]
                 /\ \A e \in Decisions : \/ st'[e] = st[e] /\ owner'[e] = owner[e]
                                         \/ st[e] = "none" /\ owner'[e] \in Tasks
      BY <2>2, <3>2 DEF Unused, TypeOK, Outcomes
    <3> QED BY <1>3, <3>1, <3>2 DEF Decide
  <2>4. TypeOK'
    BY <1>1, <2>1, <2>3 DEF TypeOK, Places, taskVars, gateVars, histVars
  <2>5. Owned' /\ ServiceKnows' /\ StoppedIsFinal'
    BY <1>1, <2>1, <2>3 DEF Owned, ServiceKnows, StoppedIsFinal, TypeOK, histVars
  <2>6. RequestsKnow'
    BY <2>1, <2>3 DEF RequestsKnow, histVars
  <2> QED BY <2>1, <2>4, <2>5, <2>6 DEF ChecksKnow
<1>4. CASE Drop
  <2>1. /\ svc' = SvcIdle
        /\ st' = [st EXCEPT ![svc.row] = "dropped"]
        /\ UNCHANGED <<taskVars, gateVars, owner, approvals, queue, req, chk, stops,
                       histVars>>
    BY <1>4 DEF Drop
  <2>2. svc.row \in Decisions /\ st[svc.row] # "none"
    BY <1>4 DEF Drop, ServiceKnows
  <2>3. /\ st' \in [Decisions -> Outcomes]
        /\ \A d \in Decisions : st'[d] = st[d] \/ (st[d] # "none" /\ st'[d] = "dropped")
    BY <2>1, <2>2 DEF TypeOK, Outcomes
  <2>4. TypeOK'
    BY <1>1, <2>1, <2>3 DEF TypeOK, Places, taskVars, gateVars, histVars
  <2>5. Owned' /\ ServiceKnows' /\ StoppedIsFinal'
    BY <1>1, <2>1, <2>3 DEF Owned, ServiceKnows, StoppedIsFinal, TypeOK, histVars
  <2>6. RequestsKnow'
    BY <2>1, <2>3 DEF RequestsKnow, histVars
  <2> QED BY <2>1, <2>4, <2>5, <2>6 DEF ChecksKnow
<1>5. CASE Claim
  <2> DEFINE d == svc.row
  <2>1. d \in Decisions /\ owner[d] \in Tasks
    BY <1>5 DEF Claim, ServiceKnows, Owned
  <2>2. UNCHANGED <<taskVars, gateVars, owner, queue, req, chk, stops, histVars>>
    BY <1>5 DEF Claim
  <2>3. CASE st[d] = "pending"
    <3>1. /\ st' = [st EXCEPT ![d] = "approved"]
          /\ approvals' = [approvals EXCEPT ![owner[d]] = Append(approvals[owner[d]], d)]
          /\ svc' = [svc EXCEPT !.at = "claimed"]
      BY <1>5, <2>3 DEF Claim
    <3>2. approvals' \in [Tasks -> Seq(Decisions)]
      <4>1. Append(approvals[owner[d]], d) \in Seq(Decisions)
        BY <2>1 DEF TypeOK
      <4> HIDE DEF d
      <4> QED BY <2>1, <3>1, <4>1 DEF TypeOK
    <3>3. svc' \in Places /\ svc'.at = "claimed" /\ svc'.row = d
      BY <1>0, <3>1 DEF Places, SvcSteps
    <3>4. st' \in [Decisions -> Outcomes]
      BY <3>1 DEF TypeOK, Outcomes
    <3>5. TypeOK'
      BY <2>2, <3>2, <3>3, <3>4 DEF TypeOK, Places, taskVars, gateVars, histVars
    <3>6. Owned' /\ ServiceKnows' /\ StoppedIsFinal'
      BY <2>1, <2>2, <2>3, <3>1, <3>3
         DEF Owned, ServiceKnows, StoppedIsFinal, TypeOK, histVars
    <3>7. RequestsKnow'
      BY <2>2, <2>3, <3>1 DEF RequestsKnow, histVars, TypeOK
    <3> QED BY <2>2, <3>5, <3>6, <3>7 DEF ChecksKnow
  <2>4. CASE st[d] # "pending"
    <3>1. svc' = SvcIdle /\ UNCHANGED <<st, approvals>>
      BY <1>5, <2>4 DEF Claim
    <3>2. TypeOK'
      BY <1>1, <2>2, <3>1 DEF TypeOK, Places, taskVars, gateVars, histVars
    <3> QED BY <1>1, <2>2, <3>1, <3>2 DEF Owned, ServiceKnows, RequestsKnow, ChecksKnow,
               StoppedIsFinal, histVars
  <2> QED BY <2>3, <2>4
<1>6. CASE Approve
  <2> DEFINE d == svc.row
             t == owner[d]
  <2>1. d \in Decisions /\ t \in Tasks /\ st[d] \in {"approved", "undone"}
    BY <1>6 DEF Approve, ServiceKnows, Owned
  <2>2. /\ svc' = SvcIdle
        /\ UNCHANGED <<gateVars, owner, approvals, req, chk, stops, stopped>>
        /\ \/ MoveTo(t, "done", "policy") /\ UNCHANGED st
           \/ /\ st' = [st EXCEPT ![d] = "dropped"]
              /\ UNCHANGED <<taskVars, queue, stale, lost>>
    BY <1>6 DEF Approve
  <2> HIDE DEF t
  <2>3. /\ label' \in [Tasks -> Labels]
        /\ last' \in [Tasks -> [from : Labels, by : Actors]]
        /\ exit' \in [Tasks -> Actors \cup {"none"}]
        /\ queue' \in Seq([task : Tasks, to : Labels])
        /\ stale' \subseteq Decisions
        /\ lost' \in BOOLEAN
    <3>1. CASE MoveTo(t, "done", "policy")
      <4>1. "done" \in Labels /\ "policy" \in Actors
        BY DEF Labels, Actors
      <4> QED BY <2>1, <3>1, <4>1, MoveTypes
    <3>2. CASE UNCHANGED <<taskVars, queue, stale, lost>>
      BY <3>2 DEF TypeOK, taskVars
    <3> QED BY <2>2, <3>1, <3>2
  <2>4. /\ st' \in [Decisions -> Outcomes]
        /\ \A e \in Decisions : st'[e] = st[e] \/ (st[e] # "none" /\ st'[e] = "dropped")
    <3> HIDE DEF d
    <3>1. CASE UNCHANGED st
      BY <3>1 DEF TypeOK
    <3>2. CASE st' = [st EXCEPT ![d] = "dropped"]
      BY <2>1, <3>2 DEF TypeOK, Outcomes
    <3> QED BY <2>2, <3>1, <3>2
  <2>5. TypeOK'
    BY <1>1, <2>2, <2>3, <2>4 DEF TypeOK, Places, gateVars
  <2>6. Owned' /\ ServiceKnows' /\ StoppedIsFinal'
    BY <1>1, <2>2, <2>4 DEF Owned, ServiceKnows, StoppedIsFinal, TypeOK
  <2>7. RequestsKnow'
    BY <2>2, <2>4 DEF RequestsKnow
  <2> QED BY <2>2, <2>5, <2>6, <2>7 DEF ChecksKnow
<1> QED BY <1>2, <1>3, <1>4, <1>5, <1>6

LEMMA RestartStep ==
    ASSUME IInv, Restart
    PROVE  IInv'
<1>1. TypeOK'
  BY IdleFacts DEF IInv, TypeOK, Restart, taskVars, gateVars, rowVars
<1> QED BY <1>1 DEF IInv, Restart, rowVars, Owned, ServiceKnows, RequestsKnow,
           ChecksKnow, StoppedIsFinal, SvcIdle, ReqIdle, ReqAt, NoCheck

-----------------------------------------------------------------------------
\* The inductive invariant holds in every reachable state.
THEOREM Invariance == Spec => []IInv
<1>1. ASSUME IInv, [Next]_vars PROVE IInv'
  <2>1. CASE UNCHANGED vars
    BY <1>1, <2>1 DEF vars, IInv, TypeOK, Owned, ServiceKnows, RequestsKnow, ChecksKnow,
       StoppedIsFinal
  <2>2. CASE \E p \in Procs : CheckNext(p)
    BY <1>1, <2>2, CheckStep
  <2>3. CASE \E t \in Tasks : AgentMove(t) \/ HumanMove(t) \/ Hold(t)
    BY <1>1, <2>3, PeopleStep
  <2>4. CASE \E m \in Modes : SetMode(m)
    BY <1>1, <2>4, SetModeStep
  <2>5. CASE \E c \in Clients :
                \/ UndoReport(c) \/ UndoMark(c) \/ SendBack(c) \/ Answered(c) \/ HangUp(c)
                \/ \E t \in Tasks : UndoMove(c, t) \/ Report(c, t)
    BY <1>1, <2>5, RequestStep
  <2>6. CASE SvcNext \/ \E d \in Decisions : Due(d)
    BY <1>1, <2>6, ListenStep, ActStep DEF SvcNext
  <2>7. CASE Restart
    BY <1>1, <2>7, RestartStep
  <2> QED BY <1>1, <2>1, <2>2, <2>3, <2>4, <2>5, <2>6, <2>7 DEF Next
<1> QED BY InitIInv, <1>1, PTL DEF Spec

\* Every variable keeps its type; in particular the gate's mode never falls below
\* "ask", however many step-down checks run at a time.
THEOREM TypeCorrect == Spec => []TypeOK
BY Invariance, PTL DEF IInv

\* Only the policy's own approval moves a task in the policy's name.
LEMMA PolicyApproves ==
    ASSUME IInv, Next, NEW t \in Tasks, PolicyMoves(t)
    PROVE  Approve
<1> USE DEF IInv
<1>1. label'[t] # label[t] /\ last'[t].by = "policy"
  BY DEF PolicyMoves
<1>2. ASSUME NEW u \in Tasks, NEW to \in Labels, NEW by \in Actors, MoveTo(u, to, by),
             by # "policy"
      PROVE  FALSE
  BY <1>1, <1>2, MoveTypes
<1>3. {"gate", "done", "work"} \subseteq Labels /\ {"agent", "human", "undo"} \subseteq Actors
  BY DEF Labels, Actors
<1>4. ~ \E u \in Tasks : AgentMove(u) \/ HumanMove(u) \/ Hold(u)
  <2>1. ASSUME NEW u \in Tasks, AgentMove(u) \/ HumanMove(u)
        PROVE  FALSE
    BY <1>2, <1>3, <2>1 DEF AgentMove, HumanMove
  <2>2. ASSUME NEW u \in Tasks, Hold(u)
        PROVE  FALSE
    BY <1>1, <2>2 DEF Hold, taskVars
  <2> QED BY <2>1, <2>2
<1>5. ~ \E m \in Modes : SetMode(m)
  BY <1>1 DEF SetMode, taskVars
<1>6. ~ \E p \in Procs : CheckNext(p)
  BY <1>1 DEF CheckNext, CheckRead, CheckCount, StepDown, CheckReset, CheckCancel, taskVars
<1>7. ~ \E c \in Clients : UndoReport(c) \/ UndoMark(c) \/ Answered(c) \/ HangUp(c)
  BY <1>1 DEF UndoReport, UndoMark, Answered, HangUp, taskVars
<1>8. ~ \E c \in Clients : SendBack(c)
  <2>1. ASSUME NEW c \in Clients, SendBack(c)
        PROVE  FALSE
    <3>1. req[c].task \in Tasks
      BY <2>1 DEF SendBack, RequestsKnow
    <3>2. MoveTo(req[c].task, "work", "human") \/ UNCHANGED label
      BY <2>1 DEF SendBack, taskVars
    <3> QED BY <1>1, <1>2, <1>3, <3>1, <3>2
  <2> QED BY <2>1
<1>9. ~ \E c \in Clients : \E u \in Tasks : UndoMove(c, u) \/ Report(c, u)
  <2>1. ASSUME NEW c \in Clients, NEW u \in Tasks, UndoMove(c, u)
        PROVE  FALSE
    BY <1>2, <1>3, <2>1 DEF UndoMove
  <2>2. ASSUME NEW c \in Clients, NEW u \in Tasks, Report(c, u)
        PROVE  FALSE
    BY <1>1, <2>2 DEF Report, taskVars
  <2> QED BY <2>1, <2>2
<1>10. /\ ~ (Receive \/ Checked \/ Supersede \/ Decide \/ ReadDue \/ Drop \/ Claim)
       /\ ~ \E d \in Decisions : Due(d)
       /\ ~ Restart
  BY <1>1 DEF Receive, Checked, Supersede, Decide, ReadDue, Drop, Claim, Due, Restart,
     taskVars
<1> QED BY <1>4, <1>5, <1>6, <1>7, <1>8, <1>9, <1>10 DEF Next, SvcNext

\* An approval that was held, or cancelled by a step-down, never moves its task:
\* the claim takes pending rows only, and a stopped row is never pending again.
THEOREM HoldsWin == Spec => HoldWins
<1>1. ASSUME IInv, [Next]_vars
      PROVE  [\A t \in Tasks : PolicyMoves(t) => svc.row \notin stopped]_vars
  <2> SUFFICES ASSUME Next, NEW t \in Tasks, PolicyMoves(t)
               PROVE  svc.row \notin stopped
    BY <1>1
  <2>1. Approve
    BY <1>1, PolicyApproves
  <2>2. st[svc.row] \in {"approved", "undone"}
    BY <1>1, <2>1 DEF Approve, IInv, ServiceKnows
  <2> QED BY <1>1, <2>2 DEF IInv, StoppedIsFinal
<1> QED BY Invariance, <1>1, PTL DEF Spec, HoldWins

-----------------------------------------------------------------------------
(* Visits.  While no event was lost, the queue tells the service of a       *)
(* task's visits to the gate in turn: between two arrivals it hears of a    *)
(* leaving, and only one visit of a task has a decision under way.          *)

Arrives(i, t) == queue[i].task = t /\ queue[i].to = "gate"
Leaves(i, t)  == queue[i].task = t /\ queue[i].to # "gate"

Listening       == svc.at \in {"checking", "supersede"}
HearsLeave(t)   == Listening /\ svc.task = t /\ svc.to # "gate"
HearsArrival(t) == Listening /\ svc.task = t /\ svc.to = "gate"
Deciding(t)     == svc.at = "decide" /\ svc.task = t
Claimed(t)      == svc.at = "claimed" /\ owner[svc.row] = t

\* The service has an arrival in hand, or has taken a decision after one.
Opened(t) == HearsArrival(t) \/ Deciding(t) \/ PendingOf(t) # {}
\* It hears, or will hear, that the task has left.
WillHear(t) == HearsLeave(t) \/ \E j \in DOMAIN queue : Leaves(j, t)

InTurn(t) ==
    /\ \A k, i \in DOMAIN queue : k < i /\ Arrives(k, t) /\ Arrives(i, t) =>
          \E j \in DOMAIN queue : k < j /\ j < i /\ Leaves(j, t)
    /\ \A i \in DOMAIN queue : Opened(t) /\ Arrives(i, t) =>
          HearsLeave(t) \/ \E j \in DOMAIN queue : j < i /\ Leaves(j, t)
    /\ \A k \in DOMAIN queue : label[t] # "gate" /\ Arrives(k, t) =>
          \E j \in DOMAIN queue : k < j /\ Leaves(j, t)
    /\ label[t] # "gate" /\ Opened(t) => WillHear(t)

OneVisit(t) ==
    /\ HearsArrival(t) \/ Deciding(t) \/ Claimed(t) => PendingOf(t) = {}
    /\ \A d, e \in PendingOf(t) : d = e

\* The policy has let the task go, and has nothing more in hand for it.
LetGo(t) == exit[t] = "policy" /\ label[t] # "gate" =>
    /\ PendingOf(t) = {} /\ ~Claimed(t) /\ ~Deciding(t)
    /\ ~(HearsArrival(t) /\ svc.here)

\* After an undo nothing leads to another approval.
AfterUndo(t) == last[t].by = "undo" =>
    PendingOf(t) = {} /\ ~Claimed(t) /\ ~(Deciding(t) /\ svc.may)

StaleOnes ==
    \A d \in stale : st[d] = "pending" \/ (svc.at = "due" /\ svc.row = d) =>
        WillHear(owner[d])

Visits ==
    /\ \A t \in Tasks : InTurn(t) /\ OneVisit(t) /\ LetGo(t) /\ AfterUndo(t)
    /\ StaleOnes
StaleOnesExist == \A d \in stale : st[d] # "none"
VInv == StaleOnesExist /\ (~lost => Visits)

\* A task's turns are kept when it has no more under way than before, and what it
\* is about to hear is not forgotten.
LEMMA TurnsKept ==
    ASSUME NEW t, InTurn(t), UNCHANGED <<label, queue>>,
           Opened(t)' => Opened(t) /\ (HearsLeave(t) => HearsLeave(t)')
    PROVE  InTurn(t)'
BY DEF InTurn, WillHear, Arrives, Leaves

LEMMA StaleKept ==
    ASSUME StaleOnes, UNCHANGED <<stale, queue>>,
           \A d \in stale : st'[d] = "pending" \/ (svc'.at = "due" /\ svc'.row = d) =>
                /\ st[d] = "pending" \/ (svc.at = "due" /\ svc.row = d)
                /\ owner'[d] = owner[d]
                /\ HearsLeave(owner[d]) => HearsLeave(owner[d])'
    PROVE  StaleOnes'
BY DEF StaleOnes, WillHear, Leaves

\* No decision becomes pending.
Settling == \A d \in Decisions : /\ st'[d] = "pending" => st[d] = "pending"
                                 /\ st[d] # "none" => st'[d] # "none"

LEMMA QuietVisits ==
    ASSUME TypeOK, VInv, Settling, UNCHANGED <<taskVars, owner, queue, svc, stale, lost>>
    PROVE  VInv'
<1>1. UNCHANGED <<label, last, exit>> /\ stale \subseteq Decisions
  BY DEF TypeOK, taskVars
<1>2. \A t \in Tasks : /\ PendingOf(t)' \subseteq PendingOf(t)
                       /\ Opened(t)' => Opened(t)
                       /\ HearsLeave(t)' = HearsLeave(t)
                       /\ HearsArrival(t)' = HearsArrival(t)
                       /\ Deciding(t)' = Deciding(t) /\ Claimed(t)' = Claimed(t)
  BY DEF Settling, PendingOf, Opened, HearsLeave, HearsArrival, Listening, Deciding, Claimed
<1>3. StaleOnesExist'
  BY <1>1 DEF VInv, StaleOnesExist, Settling
<1>4. ASSUME ~lost, NEW t \in Tasks
      PROVE  InTurn(t)' /\ OneVisit(t)' /\ LetGo(t)' /\ AfterUndo(t)'
  <2>1. InTurn(t)'
    BY <1>1, <1>2, <1>4, TurnsKept DEF VInv, Visits
  <2> QED BY <1>1, <1>2, <1>4, <2>1 DEF VInv, Visits, OneVisit, LetGo, AfterUndo
<1>5. ~lost => StaleOnes'
  <2>1. \A u : HearsLeave(u) => HearsLeave(u)'
    BY DEF HearsLeave, Listening
  <2> QED BY <1>1, <2>1, StaleKept DEF VInv, Visits, Settling
<1> QED BY <1>3, <1>4, <1>5 DEF VInv, Visits

-----------------------------------------------------------------------------
\* A move, and the event it puts in the queue.
Queued(t, to) ==
    /\ queue' = Append(queue, [task |-> t, to |-> to])
    /\ \A i \in DOMAIN queue : i \in DOMAIN queue' /\ queue'[i] = queue[i]
    /\ Len(queue) + 1 \in DOMAIN queue'
    /\ queue'[Len(queue) + 1] = [task |-> t, to |-> to]
    /\ \A i \in DOMAIN queue' : i \in DOMAIN queue \/ i = Len(queue) + 1
    /\ DOMAIN queue = 1..Len(queue) /\ Len(queue) \in Nat

LEMMA MoveQueues ==
    ASSUME TypeOK, NEW t \in Tasks, NEW to \in Labels, NEW by, MoveTo(t, to, by), ~lost'
    PROVE  ~lost /\ Queued(t, to)
<1>1. ~lost /\ queue' = Append(queue, [task |-> t, to |-> to])
  BY DEF MoveTo
<1> DEFINE e == [task |-> t, to |-> to]
<1>2. queue \in Seq([task : Tasks, to : Labels])
  BY DEF TypeOK
<1> HIDE DEF e
<1>3. /\ DOMAIN queue = 1..Len(queue) /\ Len(queue) \in Nat
      /\ DOMAIN Append(queue, e) = 1..(Len(queue) + 1)
      /\ \A i \in 1..Len(queue) : Append(queue, e)[i] = queue[i]
      /\ Append(queue, e)[Len(queue) + 1] = e
  BY <1>2
<1> QED BY <1>1, <1>3 DEF Queued, e

\* Which moves there are, and what the service is at.
Moving(t, to, by) ==
    /\ MoveTo(t, to, by)
    /\ label[t] = "gate" => to # "gate"
    /\ by = "undo" => exit[t] = "policy" /\ label[t] # "gate"
    /\ UNCHANGED <<st, owner>>
    /\ \/ svc' = svc /\ by # "policy"
       \/ svc' = SvcIdle /\ by = "policy" /\ Claimed(t)

LEMMA MoveWrites ==
    ASSUME TypeOK, NEW t \in Tasks, NEW to \in Labels, NEW by, Moving(t, to, by)
    PROVE  /\ label'[t] = to /\ last'[t].by = by
           /\ exit'[t] = (IF label[t] = "gate" THEN by ELSE exit[t])
           /\ \A u \in Tasks \ {t} : label'[u] = label[u] /\ last'[u] = last[u]
                                     /\ exit'[u] = exit[u]
           /\ stale' = {d \in stale : st[d] = "pending"} \cup PendingOf(t)
BY DEF TypeOK, Moving, MoveTo

\* What the service has in hand after a move.
LEMMA MoveHands ==
    ASSUME NEW t \in Tasks, NEW to \in Labels, NEW by, Moving(t, to, by), NEW u
    PROVE  /\ PendingOf(u)' = PendingOf(u)
           /\ HearsLeave(u)' = HearsLeave(u) /\ HearsArrival(u)' = HearsArrival(u)
           /\ Deciding(u)' = Deciding(u) /\ Opened(u)' = Opened(u)
           /\ Claimed(u)' => Claimed(u)
           /\ HearsArrival(u)' => svc' = svc
           /\ Deciding(u)' => svc' = svc
<1>1. PendingOf(u)' = PendingOf(u)
  BY DEF Moving, PendingOf
<1>2. CASE svc' = svc
  BY <1>1, <1>2 DEF Moving, HearsLeave, HearsArrival, Listening, Deciding, Opened, Claimed
<1>3. CASE svc' = SvcIdle /\ Claimed(t)
  BY <1>1, <1>3 DEF HearsLeave, HearsArrival, Listening, Deciding, Opened, Claimed, SvcIdle
<1> QED BY <1>2, <1>3 DEF Moving

LEMMA MoveTurns ==
    ASSUME TypeOK, NEW t \in Tasks, NEW to \in Labels, NEW by, Moving(t, to, by),
           Queued(t, to), NEW u \in Tasks, InTurn(u)
    PROVE  InTurn(u)'
<1>0. PICK n \in Nat : n = Len(queue)
  BY DEF Queued
<1>1. /\ \A i \in DOMAIN queue : /\ i \in DOMAIN queue' /\ i \in 1..n
                                 /\ Arrives(i, u)' = Arrives(i, u) /\ Leaves(i, u)' = Leaves(i, u)
      /\ n \in Nat /\ n + 1 \in DOMAIN queue'
      /\ \A i \in DOMAIN queue' : i \in DOMAIN queue \/ i = n + 1
      /\ Arrives(n + 1, u)' <=> u = t /\ to = "gate"
      /\ Leaves(n + 1, u)' <=> u = t /\ to # "gate"
  BY <1>0 DEF Queued, Arrives, Leaves
<1>2. /\ HearsLeave(u)' = HearsLeave(u) /\ Opened(u)' = Opened(u)
  BY MoveHands
<1>3. Arrives(n + 1, u)' => label[u] # "gate"
  BY <1>1 DEF Moving
<1>4. label'[u] # "gate" /\ u = t => Leaves(n + 1, u)'
  BY <1>1, MoveWrites
<1>5. u # t => label'[u] = label[u]
  BY MoveWrites
<1> HIDE DEF Arrives, Leaves, HearsLeave, Opened
<1>6. ASSUME NEW k \in DOMAIN queue', NEW i \in DOMAIN queue', k < i, Arrives(k, u)', Arrives(i, u)'
      PROVE  \E j \in DOMAIN queue' : k < j /\ j < i /\ Leaves(j, u)'
  <2>1. k \in DOMAIN queue /\ Arrives(k, u)
    BY <1>1, <1>6
  <2>2. CASE i \in DOMAIN queue
    <3>1. PICK j \in DOMAIN queue : k < j /\ j < i /\ Leaves(j, u)
      BY <1>1, <1>6, <2>1, <2>2 DEF InTurn
    <3> QED BY <1>1, <3>1
  <2>3. CASE i = n + 1
    <3>1. PICK j \in DOMAIN queue : k < j /\ Leaves(j, u)
      BY <1>3, <1>6, <2>1, <2>3 DEF InTurn
    <3> QED BY <1>1, <2>3, <3>1
  <2> QED BY <1>1, <2>2, <2>3
<1>7. ASSUME NEW i \in DOMAIN queue', Opened(u)', Arrives(i, u)', ~HearsLeave(u)'
      PROVE  \E j \in DOMAIN queue' : j < i /\ Leaves(j, u)'
  <2>1. CASE i \in DOMAIN queue
    <3>1. PICK j \in DOMAIN queue : j < i /\ Leaves(j, u)
      BY <1>1, <1>2, <1>7, <2>1 DEF InTurn
    <3> QED BY <1>1, <3>1
  <2>2. CASE i = n + 1
    <3>1. PICK j \in DOMAIN queue : Leaves(j, u)
      BY <1>2, <1>3, <1>7, <2>2 DEF InTurn, WillHear
    <3> QED BY <1>1, <2>2, <3>1
  <2> QED BY <1>1, <2>1, <2>2
<1>8. ASSUME NEW k \in DOMAIN queue', label'[u] # "gate", Arrives(k, u)'
      PROVE  \E j \in DOMAIN queue' : k < j /\ Leaves(j, u)'
  <2>1. CASE u = t
    <3>1. Leaves(n + 1, u)'
      BY <1>4, <1>8, <2>1
    <3>2. k \in DOMAIN queue
      BY <1>1, <1>8, <2>1, MoveWrites
    <3> QED BY <1>1, <3>1, <3>2
  <2>2. CASE u # t
    <3>1. k \in DOMAIN queue /\ Arrives(k, u) /\ label[u] # "gate"
      BY <1>1, <1>5, <1>8, <2>2
    <3>2. PICK j \in DOMAIN queue : k < j /\ Leaves(j, u)
      BY <3>1 DEF InTurn
    <3> QED BY <1>1, <3>2
  <2> QED BY <2>1, <2>2
<1>9. ASSUME label'[u] # "gate", Opened(u)' PROVE WillHear(u)'
  <2>1. CASE u = t
    BY <1>1, <1>4, <1>9, <2>1 DEF WillHear
  <2>2. CASE u # t
    <3>1. WillHear(u)
      BY <1>2, <1>5, <1>9, <2>2 DEF InTurn
    <3> QED BY <1>1, <1>2, <3>1 DEF WillHear
  <2> QED BY <2>1, <2>2
<1> QED BY <1>6, <1>7, <1>8, <1>9 DEF InTurn

LEMMA MoveVisits ==
    ASSUME TypeOK, VInv, NEW t \in Tasks, NEW to \in Labels, NEW by, Moving(t, to, by)
    PROVE  VInv'
<1>1. StaleOnesExist'
  BY MoveWrites DEF VInv, StaleOnesExist, Moving, PendingOf
<1> SUFFICES ASSUME ~lost' PROVE Visits'
  BY <1>1 DEF VInv
<1>2. ~lost /\ Queued(t, to) /\ Visits
  BY MoveQueues DEF Moving, VInv
<1>3. ASSUME NEW u \in Tasks
      PROVE  InTurn(u)' /\ OneVisit(u)' /\ LetGo(u)' /\ AfterUndo(u)'
  <2>1. InTurn(u)' /\ OneVisit(u)'
    BY <1>2, MoveTurns, MoveHands DEF Visits, OneVisit
  <2>2. CASE u # t
    <3>1. label'[u] = label[u] /\ last'[u] = last[u] /\ exit'[u] = exit[u]
      BY <2>2, MoveWrites
    <3>2. /\ PendingOf(u)' = PendingOf(u) /\ (Claimed(u)' => Claimed(u))
          /\ Deciding(u)' = Deciding(u) /\ HearsArrival(u)' = HearsArrival(u)
          /\ HearsArrival(u)' \/ Deciding(u)' => svc' = svc
      BY MoveHands
    <3>3. LetGo(u)'
      BY <1>2, <3>1, <3>2 DEF Visits, LetGo
    <3>4. AfterUndo(u)'
      BY <1>2, <3>1, <3>2 DEF Visits, AfterUndo
    <3> QED BY <2>1, <3>3, <3>4
  <2>3. CASE u = t
    <3>1. LetGo(u) /\ AfterUndo(u) /\ OneVisit(u)
      BY <1>2 DEF Visits
    <3>2. LetGo(u)'
      <4>1. CASE label[t] = "gate" /\ by = "policy"
        <5>1. Claimed(t) /\ svc' = SvcIdle /\ PendingOf(t) = {}
          BY <2>3, <3>1, <4>1 DEF Moving, OneVisit, Claimed
        <5> QED BY <2>3, <5>1, MoveHands
                DEF LetGo, SvcIdle, Claimed, Deciding, HearsArrival, Listening
      <4>2. CASE ~(label[t] = "gate" /\ by = "policy")
        <5>1. exit'[t] = "policy" => exit[t] = "policy" /\ label[t] # "gate"
          BY <4>2, MoveWrites
        <5> QED BY <2>3, <3>1, <5>1, MoveHands DEF LetGo
      <4> QED BY <4>1, <4>2
    <3>3. AfterUndo(u)'
      <4>1. last'[t].by = by
        BY MoveWrites
      <4>2. by = "undo" => PendingOf(t) = {} /\ ~Claimed(t) /\ ~Deciding(t)
        BY <2>3, <3>1 DEF Moving, LetGo
      <4> QED BY <2>3, <4>1, <4>2, MoveHands DEF AfterUndo
    <3> QED BY <2>1, <3>2, <3>3
  <2> QED BY <2>1, <2>2, <2>3
<1>4. \A u : WillHear(u) => WillHear(u)'
  BY <1>2, MoveHands DEF WillHear, Queued, Leaves
<1>5. ASSUME NEW d \in stale' PROVE WillHear(owner[d])'
  <2>1. st[d] = "pending" /\ (d \in stale \/ d \in PendingOf(t))
    BY <1>5, MoveWrites DEF PendingOf
  <2>2. CASE d \in stale
    BY <1>2, <1>4, <2>1, <2>2 DEF Visits, StaleOnes, Moving
  <2>3. CASE d \in PendingOf(t)
    <3>1. owner'[d] = t
      BY <2>3 DEF PendingOf, Moving
    <3>2. CASE to # "gate"
      <4>1. \E i \in DOMAIN queue' : Leaves(i, t)'
        BY <1>2, <3>2 DEF Queued, Leaves
      <4> QED BY <3>1, <4>1 DEF WillHear
    <3>3. CASE to = "gate"
      <4>1. label[t] # "gate" /\ Opened(t)
        BY <2>3, <3>3 DEF Moving, Opened
      <4>2. WillHear(t)
        BY <1>2, <4>1 DEF Visits, InTurn
      <4> QED BY <1>4, <3>1, <4>2
    <3> QED BY <3>2, <3>3
  <2> QED BY <2>1, <2>2, <2>3
<1> QED BY <1>3, <1>5 DEF Visits, StaleOnes

-----------------------------------------------------------------------------
\* The service takes the next event.
Taken(e) ==
    /\ e = queue[1] /\ 1 \in DOMAIN queue
    /\ \A i \in DOMAIN queue' : /\ i \in Nat \ {0} /\ i + 1 \in DOMAIN queue
                                /\ queue'[i] = queue[i + 1]
    /\ \A i \in DOMAIN queue : i \in Nat \ {0} /\ (i # 1 => i - 1 \in DOMAIN queue')

LEMMA ReceiveFacts ==
    ASSUME TypeOK, Receive
    PROVE  \E e \in [task : Tasks, to : Labels] :
             /\ Taken(e)
             /\ svc = SvcIdle
             /\ svc'.at \in {"checking", "supersede"} /\ svc'.task = e.task /\ svc'.to = e.to
             /\ svc'.here => label[e.task] = e.to
             /\ UNCHANGED <<label, last, exit, st, owner, stale, lost>>
<1> DEFINE E == [task : Tasks, to : Labels]
<1>1. queue \in Seq(E) /\ queue # <<>>
  BY DEF TypeOK, Receive
<1> HIDE DEF E
<1>2. /\ Head(queue) \in E /\ Head(queue) = queue[1] /\ 1 \in DOMAIN queue
      /\ DOMAIN queue = 1..Len(queue) /\ Len(queue) \in Nat \ {0}
      /\ DOMAIN Tail(queue) = 1..(Len(queue) - 1)
      /\ \A i \in 1..(Len(queue) - 1) : Tail(queue)[i] = queue[i + 1]
  BY <1>1
<1>3. queue' = Tail(queue)
  BY DEF Receive
<1>4. Taken(Head(queue))
  BY <1>2, <1>3 DEF Taken
<1>5. /\ svc'.at \in {"checking", "supersede"} /\ svc'.task = Head(queue).task
      /\ svc'.to = Head(queue).to /\ (svc'.here => label[Head(queue).task] = Head(queue).to)
  BY DEF Receive, SvcIdle
<1>6. svc = SvcIdle /\ UNCHANGED <<label, last, exit, st, owner, stale, lost>>
  BY DEF Receive, taskVars, rowVars
<1> QED BY <1>2, <1>4, <1>5, <1>6 DEF E

LEMMA ReceiveVisits ==
    ASSUME TypeOK, VInv, Receive
    PROVE  VInv'
<1>1. PICK e \in [task : Tasks, to : Labels] :
             /\ Taken(e)
             /\ svc = SvcIdle
             /\ svc'.at \in {"checking", "supersede"} /\ svc'.task = e.task /\ svc'.to = e.to
             /\ svc'.here => label[e.task] = e.to
             /\ UNCHANGED <<label, last, exit, st, owner, stale, lost>>
  BY ReceiveFacts
<1>2. StaleOnesExist'
  BY <1>1 DEF VInv, StaleOnesExist
<1> SUFFICES ASSUME ~lost' PROVE Visits'
  BY <1>2 DEF VInv
<1>3. ~lost /\ Visits
  BY <1>1 DEF VInv
<1>4. \A u : /\ ~HearsLeave(u) /\ ~HearsArrival(u) /\ ~Deciding(u) /\ ~Claimed(u)
             /\ ~Deciding(u)' /\ ~Claimed(u)'
             /\ HearsLeave(u)' <=> u = e.task /\ e.to # "gate"
             /\ HearsArrival(u)' <=> u = e.task /\ e.to = "gate"
             /\ PendingOf(u)' = PendingOf(u)
  BY <1>1 DEF HearsLeave, HearsArrival, Listening, Deciding, Claimed, SvcIdle, PendingOf
<1>5. /\ \A i \in DOMAIN queue' : \A u : /\ Arrives(i, u)' = Arrives(i + 1, u)
                                         /\ Leaves(i, u)' = Leaves(i + 1, u)
      /\ \A u : Leaves(1, u) <=> u = e.task /\ e.to # "gate"
      /\ \A u : Arrives(1, u) <=> u = e.task /\ e.to = "gate"
  BY <1>1 DEF Taken, Arrives, Leaves
<1>6. \A j \in DOMAIN queue : \A u : j # 1 /\ Leaves(j, u) => j - 1 \in DOMAIN queue' /\ Leaves(j - 1, u)'
  BY <1>1, <1>5 DEF Taken
<1>7. \A u : WillHear(u) => WillHear(u)'
  <2>1. ASSUME NEW u, NEW j \in DOMAIN queue, Leaves(j, u) PROVE WillHear(u)'
    <3>1. CASE j = 1
      BY <1>4, <1>5, <2>1, <3>1 DEF WillHear
    <3>2. CASE j # 1
      BY <1>6, <2>1, <3>2 DEF WillHear
    <3> QED BY <3>1, <3>2
  <2> QED BY <1>4, <2>1 DEF WillHear
<1>8. ASSUME NEW u \in Tasks
      PROVE  InTurn(u)' /\ OneVisit(u)' /\ LetGo(u)' /\ AfterUndo(u)'
  <2> USE DEF Taken
  <2>0. InTurn(u) /\ OneVisit(u) /\ LetGo(u) /\ AfterUndo(u)
    BY <1>3 DEF Visits
  <2>1. ASSUME NEW k \in DOMAIN queue', NEW i \in DOMAIN queue', k < i, Arrives(k, u)', Arrives(i, u)'
        PROVE  \E j \in DOMAIN queue' : k < j /\ j < i /\ Leaves(j, u)'
    <3>1. k + 1 \in DOMAIN queue /\ i + 1 \in DOMAIN queue /\ k + 1 < i + 1
          /\ Arrives(k + 1, u) /\ Arrives(i + 1, u)
      BY <1>1, <1>5, <2>1
    <3>2. PICK j \in DOMAIN queue : k + 1 < j /\ j < i + 1 /\ Leaves(j, u)
      BY <2>0, <3>1 DEF InTurn
    <3>3. j # 1 /\ k < j - 1 /\ j - 1 < i
      BY <1>1, <3>2
    <3> QED BY <1>6, <3>2, <3>3
  <2>2. ASSUME NEW i \in DOMAIN queue', Opened(u)', Arrives(i, u)', ~HearsLeave(u)'
        PROVE  \E j \in DOMAIN queue' : j < i /\ Leaves(j, u)'
    <3>1. i + 1 \in DOMAIN queue /\ Arrives(i + 1, u) /\ i \in Nat \ {0}
      BY <1>1, <1>5, <2>2
    <3>2. PICK j \in DOMAIN queue : j < i + 1 /\ j # 1 /\ Leaves(j, u)
      <4>1. CASE HearsArrival(u)'
        <5>1. Arrives(1, u) /\ 1 \in DOMAIN queue /\ 1 < i + 1
          BY <1>1, <1>4, <1>5, <3>1, <4>1
        <5>2. PICK j \in DOMAIN queue : 1 < j /\ j < i + 1 /\ Leaves(j, u)
          BY <2>0, <3>1, <5>1 DEF InTurn
        <5> QED BY <5>2
      <4>2. CASE PendingOf(u) # {}
        <5>1. PICK j \in DOMAIN queue : j < i + 1 /\ Leaves(j, u)
          BY <1>4, <2>0, <3>1, <4>2 DEF InTurn, Opened
        <5>2. j # 1
          BY <1>4, <1>5, <2>2, <5>1
        <5> QED BY <5>1, <5>2
      <4> QED BY <1>4, <2>2, <4>1, <4>2 DEF Opened
    <3>3. j - 1 < i
      BY <1>1, <3>1, <3>2
    <3> QED BY <1>6, <3>2, <3>3
  <2>3. ASSUME NEW k \in DOMAIN queue', label'[u] # "gate", Arrives(k, u)'
        PROVE  \E j \in DOMAIN queue' : k < j /\ Leaves(j, u)'
    <3>1. k + 1 \in DOMAIN queue /\ Arrives(k + 1, u) /\ label[u] # "gate" /\ k \in Nat \ {0}
      BY <1>1, <1>5, <2>3
    <3>2. PICK j \in DOMAIN queue : k + 1 < j /\ Leaves(j, u)
      BY <2>0, <3>1 DEF InTurn
    <3>3. j # 1 /\ k < j - 1
      BY <1>1, <3>1, <3>2
    <3> QED BY <1>6, <3>2, <3>3
  <2>4. ASSUME label'[u] # "gate", Opened(u)' PROVE WillHear(u)'
    <3>1. CASE HearsArrival(u)'
      <4>1. Arrives(1, u) /\ 1 \in DOMAIN queue /\ label[u] # "gate"
        BY <1>1, <1>4, <1>5, <2>4, <3>1
      <4>2. PICK j \in DOMAIN queue : 1 < j /\ Leaves(j, u)
        BY <2>0, <4>1 DEF InTurn
      <4> QED BY <1>6, <4>2 DEF WillHear
    <3>2. CASE PendingOf(u) # {}
      BY <1>1, <1>7, <2>0, <2>4, <3>2 DEF InTurn, Opened
    <3> QED BY <1>4, <2>4, <3>1, <3>2 DEF Opened
  <2>5. OneVisit(u)'
    <3>1. ASSUME HearsArrival(u)' PROVE PendingOf(u) = {}
      <4>1. Arrives(1, u) /\ 1 \in DOMAIN queue
        BY <1>1, <1>4, <1>5, <3>1
      <4>2. Opened(u) => \E j \in DOMAIN queue : j < 1 /\ Leaves(j, u)
        BY <1>4, <2>0, <4>1 DEF InTurn
      <4> QED BY <1>1, <4>2 DEF Opened
    <3> QED BY <1>4, <2>0, <3>1 DEF OneVisit
  <2>6. LetGo(u)' /\ AfterUndo(u)'
    BY <1>1, <1>4, <2>0 DEF LetGo, AfterUndo
  <2> QED BY <2>1, <2>2, <2>3, <2>4, <2>5, <2>6 DEF InTurn
<1>9. StaleOnes'
  <2>1. ~(svc.at = "due") /\ ~(svc'.at = "due")
    BY <1>1 DEF SvcIdle
  <2> QED BY <1>1, <1>3, <1>7, <2>1 DEF Visits, StaleOnes
<1> QED BY <1>8, <1>9 DEF Visits

-----------------------------------------------------------------------------
\* The service goes on, and moves nothing.
LEMMA ServiceVisits ==
    ASSUME IInv, VInv,
           Checked \/ Supersede \/ Decide \/ ReadDue \/ Drop \/ Claim \/ \E d \in Decisions : Due(d)
    PROVE  VInv'
<1>1. UNCHANGED <<label, last, exit, queue, stale, lost>>
  BY DEF Checked, Supersede, Decide, ReadDue, Drop, Claim, Due, taskVars, histVars
<1>2. /\ svc.at \in {"due", "drop", "claim"} => svc.row \in Decisions /\ st[svc.row] # "none"
      /\ stale \subseteq Decisions /\ st \in [Decisions -> Outcomes]
      /\ owner \in [Decisions -> Tasks \cup {NoTask}]
      /\ Owned
  BY DEF IInv, ServiceKnows, TypeOK
<1>3. /\ \A d \in Decisions : st[d] # "none" => owner'[d] = owner[d] /\ st'[d] # "none"
      /\ ~Decide => owner' = owner /\ Settling
  <2>1. ASSUME Decide
        PROVE  \A d \in Decisions : st[d] # "none" => owner'[d] = owner[d] /\ st'[d] # "none"
    BY <1>2, <2>1 DEF Decide, Unused
  <2>2. ASSUME Checked \/ Supersede \/ ReadDue \/ Drop \/ Claim \/ \E d \in Decisions : Due(d)
        PROVE  owner' = owner /\ Settling
    BY <1>2, <2>2 DEF Checked, Supersede, ReadDue, Drop, Claim, Due, rowVars, Settling, PendingOf
  <2>3. owner' = owner /\ Settling =>
          \A d \in Decisions : st[d] # "none" => owner'[d] = owner[d] /\ st'[d] # "none"
    BY DEF Settling
  <2> QED BY <2>1, <2>2, <2>3
<1>4. StaleOnesExist'
  BY <1>1, <1>2, <1>3 DEF VInv, StaleOnesExist
<1> SUFFICES ASSUME ~lost PROVE Visits'
  BY <1>1, <1>4 DEF VInv
<1>5. StaleOnes /\ \A t \in Tasks : InTurn(t) /\ OneVisit(t) /\ LetGo(t) /\ AfterUndo(t)
  BY DEF VInv, Visits
<1>6. ASSUME Checked PROVE Visits'
  <2>1. \A t : /\ PendingOf(t)' = PendingOf(t) /\ HearsLeave(t)' = HearsLeave(t)
               /\ HearsArrival(t)' = HearsArrival(t) /\ ~Deciding(t)' /\ ~Claimed(t)'
               /\ svc'.here = svc.here /\ svc'.at # "due"
    BY <1>6 DEF Checked, rowVars, PendingOf, HearsLeave, HearsArrival, Listening, Deciding,
       Claimed, IInv, TypeOK
  <2>2. \A t \in Tasks : Opened(t)' => Opened(t)
    BY <2>1 DEF Opened
  <2>3. \A t \in Tasks : InTurn(t)'
    BY <1>1, <1>5, <2>1, <2>2, TurnsKept
  <2>4. \A t \in Tasks : OneVisit(t)' /\ LetGo(t)' /\ AfterUndo(t)'
    BY <1>1, <1>5, <2>1 DEF OneVisit, LetGo, AfterUndo
  <2>5. StaleOnes'
    BY <1>1, <1>3, <1>5, <1>6, <2>1, StaleKept DEF Checked, rowVars
  <2> QED BY <2>3, <2>4, <2>5 DEF Visits
<1>7. ASSUME Supersede PROVE Visits'
  <2>1. /\ Listening /\ owner' = owner /\ svc'.at \in {"decide", "idle"}
        /\ svc'.at = "decide" => /\ svc'.task = svc.task /\ svc.to = "gate" /\ svc.here
                                 /\ svc'.may = (last[svc.task].by # "undo")
        /\ \A d \in Decisions : st'[d] = IF owner[d] = svc.task /\ st[d] = "pending" /\ svc.to # "gate"
                                         THEN "dropped" ELSE st[d]
    BY <1>7 DEF Supersede, SvcIdle, Listening, PendingOf
  <2>2. \A t : /\ PendingOf(t)' \subseteq PendingOf(t)
               /\ HearsLeave(t) => PendingOf(t)' = {}
               /\ ~HearsLeave(t)' /\ ~HearsArrival(t)' /\ ~Claimed(t)' /\ ~Claimed(t)
               /\ ~Deciding(t)
               /\ Deciding(t)' => /\ HearsArrival(t) /\ svc.here /\ ~HearsLeave(t)
                                  /\ svc'.may = (last[t].by # "undo")
    BY <2>1 DEF PendingOf, HearsLeave, HearsArrival, Listening, Deciding, Claimed
  <2>3. \A t \in Tasks : Opened(t)' => Opened(t) /\ ~HearsLeave(t)
    BY <2>2 DEF Opened
  <2>4. \A t \in Tasks : InTurn(t)'
    BY <1>1, <1>5, <2>3, TurnsKept
  <2>5. \A t \in Tasks : OneVisit(t)' /\ LetGo(t)' /\ AfterUndo(t)'
    BY <1>1, <1>5, <2>2 DEF OneVisit, LetGo, AfterUndo
  <2>6. StaleOnes'
    <3>1. ASSUME NEW d \in stale, st'[d] = "pending"
          PROVE  st[d] = "pending" /\ ~HearsLeave(owner[d])
      BY <1>2, <2>1, <3>1 DEF HearsLeave
    <3> QED BY <1>1, <1>5, <2>1, <3>1, StaleKept
  <2> QED BY <2>4, <2>5, <2>6 DEF Visits
<1>8. ASSUME Decide PROVE Visits'
  <2>0. PICK v \in Tasks : v = svc.task
    BY <1>8 DEF Decide, IInv, ServiceKnows
  <2>1. svc.at = "decide" /\ svc' = SvcIdle /\ Deciding(v)
    BY <1>8, <2>0 DEF Decide, Deciding
  <2>2. \/ UNCHANGED <<st, owner>>
        \/ \E d \in Unused, verdict \in {"ask", "pending"} :
             /\ verdict = "pending" => svc.may
             /\ st' = [st EXCEPT ![d] = verdict]
             /\ owner' = [owner EXCEPT ![d] = v]
    BY <1>8, <2>0 DEF Decide
  <2>3. \A t : /\ ~HearsLeave(t)' /\ ~HearsArrival(t)' /\ ~Deciding(t)' /\ ~Claimed(t)'
               /\ ~HearsLeave(t) /\ svc'.at # "due"
    BY <2>1 DEF SvcIdle, HearsLeave, HearsArrival, Listening, Deciding, Claimed
  <2>4. \A t \in Tasks : /\ t # v => PendingOf(t)' = PendingOf(t)
                         /\ t = v => PendingOf(t) = {}
    <3>1. ASSUME NEW t \in Tasks, t # v PROVE PendingOf(t)' = PendingOf(t)
      BY <1>2, <2>2, <3>1 DEF PendingOf, Unused
    <3> QED BY <1>5, <2>1, <3>1 DEF OneVisit
  <2>5. /\ \A d, e \in PendingOf(v)' : d = e
        /\ PendingOf(v)' # {} => svc.may
    <3>1. \A d \in Decisions : ~(owner[d] = v /\ st[d] = "pending")
      BY <2>1, <2>4 DEF PendingOf
    <3>2. CASE UNCHANGED <<st, owner>>
      BY <3>1, <3>2 DEF PendingOf
    <3>3. ASSUME NEW d \in Unused, NEW verdict \in {"ask", "pending"},
                 verdict = "pending" => svc.may,
                 st' = [st EXCEPT ![d] = verdict], owner' = [owner EXCEPT ![d] = v]
          PROVE  /\ PendingOf(v)' \subseteq {d}
                 /\ PendingOf(v)' # {} => svc.may
      <4>1. \A e \in Decisions \ {d} : st'[e] = st[e] /\ owner'[e] = owner[e]
        BY <3>3
      <4>2. d \in Decisions /\ st'[d] = verdict
        BY <1>2, <3>3 DEF Unused
      <4>3. PendingOf(v)' \subseteq {d}
        BY <2>1, <3>1, <4>1 DEF PendingOf, SvcIdle
      <4>4. PendingOf(v)' # {} => verdict = "pending"
        BY <4>2, <4>3 DEF PendingOf
      <4> QED BY <3>3, <4>3, <4>4
    <3> QED BY <2>2, <3>2, <3>3
  <2>6. \A t \in Tasks : Opened(t)' => Opened(t)
    BY <2>1, <2>3, <2>4 DEF Opened
  <2>7. \A t \in Tasks : InTurn(t)'
    BY <1>1, <1>5, <2>3, <2>6, TurnsKept
  <2>8. \A t \in Tasks : OneVisit(t)' /\ LetGo(t)' /\ AfterUndo(t)'
    BY <1>1, <1>5, <2>1, <2>3, <2>4, <2>5 DEF OneVisit, LetGo, AfterUndo
  <2>9. StaleOnes'
    <3>1. ASSUME NEW d \in stale, st'[d] = "pending"
          PROVE  st[d] = "pending" /\ owner'[d] = owner[d]
      <4>1. d \in Decisions /\ d \notin Unused
        BY <1>2 DEF VInv, StaleOnesExist, Unused
      <4>2. CASE UNCHANGED <<st, owner>>
        BY <3>1, <4>2
      <4>3. ASSUME NEW x \in Unused, NEW verdict \in {"ask", "pending"},
                   st' = [st EXCEPT ![x] = verdict], owner' = [owner EXCEPT ![x] = v]
            PROVE  st'[d] = st[d] /\ owner'[d] = owner[d]
        <5>1. d # x
          BY <4>1
        <5> QED BY <1>2, <4>1, <4>3, <5>1
      <4> QED BY <2>2, <3>1, <4>2, <4>3
    <3> QED BY <1>1, <1>5, <2>3, <3>1, StaleKept
  <2> QED BY <2>7, <2>8, <2>9 DEF Visits
<1>9. ASSUME NEW d \in Decisions, Due(d) PROVE Visits'
  <2>1. svc = SvcIdle /\ st[d] = "pending" /\ svc'.at = "due" /\ svc'.row = d /\ st' = st
        /\ owner' = owner
    BY <1>9 DEF Due, SvcIdle, rowVars
  <2>2. \A t : /\ PendingOf(t)' = PendingOf(t)
               /\ ~HearsLeave(t) /\ ~HearsArrival(t)' /\ ~Deciding(t)' /\ ~Claimed(t)'
    BY <2>1 DEF PendingOf, HearsLeave, HearsArrival, Listening, Deciding, Claimed, SvcIdle
  <2>3. \A t \in Tasks : InTurn(t)'
    BY <1>1, <1>5, <2>2, TurnsKept DEF Opened
  <2>4. \A t \in Tasks : OneVisit(t)' /\ LetGo(t)' /\ AfterUndo(t)'
    BY <1>1, <1>5, <2>2 DEF OneVisit, LetGo, AfterUndo
  <2>5. StaleOnes'
    BY <1>1, <1>5, <2>1, <2>2, StaleKept
  <2> QED BY <2>3, <2>4, <2>5 DEF Visits
<1>10. ASSUME ReadDue \/ Drop PROVE Visits'
  <2>1. /\ svc.at \in {"due", "drop"} /\ svc'.at \in {"drop", "claim", "idle"}
        /\ owner' = owner /\ Settling
    BY <1>2, <1>3, <1>10 DEF ReadDue, Drop, SvcIdle, IInv, TypeOK, Decide
  <2>2. \A t : /\ PendingOf(t)' \subseteq PendingOf(t)
               /\ ~HearsLeave(t) /\ ~HearsArrival(t)' /\ ~Deciding(t)' /\ ~Claimed(t)'
    BY <2>1 DEF Settling, PendingOf, HearsLeave, HearsArrival, Listening, Deciding, Claimed
  <2>3. \A t \in Tasks : InTurn(t)'
    BY <1>1, <1>5, <2>2, TurnsKept DEF Opened
  <2>4. \A t \in Tasks : OneVisit(t)' /\ LetGo(t)' /\ AfterUndo(t)'
    BY <1>1, <1>5, <2>2 DEF OneVisit, LetGo, AfterUndo
  <2>5. StaleOnes'
    BY <1>1, <1>2, <1>5, <2>1, <2>2, StaleKept DEF Settling
  <2> QED BY <2>3, <2>4, <2>5 DEF Visits
<1>11. ASSUME Claim PROVE Visits'
  <2>1. svc.at = "claim" /\ svc'.at \in {"claimed", "idle"} /\ owner' = owner /\ Settling
    BY <1>2, <1>3, <1>11 DEF Claim, SvcIdle, IInv, TypeOK, Decide
  <2>2. \A t : /\ PendingOf(t)' \subseteq PendingOf(t)
               /\ ~HearsLeave(t) /\ ~HearsArrival(t)' /\ ~Deciding(t)'
    BY <2>1 DEF Settling, PendingOf, HearsLeave, HearsArrival, Listening, Deciding
  <2>3. \A t \in Tasks : InTurn(t)'
    BY <1>1, <1>5, <2>2, TurnsKept DEF Opened
  <2>4. ASSUME NEW t \in Tasks, Claimed(t)'
        PROVE  PendingOf(t) # {} /\ PendingOf(t)' = {}
    <3>1. st[svc.row] = "pending" /\ svc'.row = svc.row /\ st' = [st EXCEPT ![svc.row] = "approved"]
      <4>1. svc'.at = "claimed"
        BY <2>4 DEF Claimed
      <4>2. st[svc.row] = "pending"
        BY <1>11, <4>1 DEF Claim, SvcIdle
      <4>3. svc' = [svc EXCEPT !.at = "claimed"] /\ st' = [st EXCEPT ![svc.row] = "approved"]
        BY <1>11, <4>2 DEF Claim
      <4> QED BY <4>2, <4>3 DEF IInv, TypeOK
    <3>2. svc.row \in PendingOf(t)
      BY <1>2, <2>1, <2>4, <3>1 DEF PendingOf, Claimed
    <3>3. \A d \in PendingOf(t) : d = svc.row
      BY <1>5, <3>2 DEF OneVisit
    <3>4. ASSUME NEW d \in Decisions, owner'[d] = t, st'[d] = "pending" PROVE FALSE
      <4>1. d # svc.row /\ d \in PendingOf(t)
        BY <1>2, <2>1, <3>1, <3>4 DEF PendingOf
      <4> QED BY <3>3, <4>1
    <3> QED BY <3>2, <3>4 DEF PendingOf
  <2>5. \A t \in Tasks : OneVisit(t)' /\ LetGo(t)' /\ AfterUndo(t)'
    BY <1>1, <1>5, <2>2, <2>4 DEF OneVisit, LetGo, AfterUndo
  <2>6. StaleOnes'
    BY <1>1, <1>2, <1>5, <2>1, <2>2, StaleKept DEF Settling
  <2> QED BY <2>3, <2>5, <2>6 DEF Visits
<1> QED BY <1>6, <1>7, <1>8, <1>9, <1>10, <1>11

\* The approval itself: the claimed row's task leaves the gate, or the row is dropped.
LEMMA ApproveVisits ==
    ASSUME IInv, VInv, Approve
    PROVE  VInv'
<1>1. PICK t \in Tasks : t = owner[svc.row]
  BY DEF Approve, IInv, ServiceKnows, Owned
<1>2. Claimed(t) /\ svc' = SvcIdle /\ owner' = owner /\ svc.row \in Decisions
  BY <1>1 DEF Approve, Claimed, IInv, ServiceKnows
<1>3. CASE label[t] = "gate" /\ MoveTo(t, "done", "policy") /\ UNCHANGED st
  <2>1. Moving(t, "done", "policy")
    BY <1>2, <1>3 DEF Moving
  <2> QED BY <2>1, MoveVisits DEF IInv, Labels
<1>4. CASE st' = [st EXCEPT ![svc.row] = "dropped"] /\ UNCHANGED <<taskVars, queue, stale, lost>>
  <2>1. UNCHANGED <<label, last, exit, queue, stale, lost>>
    BY <1>4 DEF taskVars
  <2>2. /\ stale \subseteq Decisions /\ st \in [Decisions -> Outcomes]
        /\ svc.at = "claimed"
    BY <1>2 DEF Claimed, IInv, TypeOK
  <2>3. \A d \in Decisions : /\ st'[d] = "pending" => st[d] = "pending"
                             /\ st[d] # "none" => st'[d] # "none"
    BY <1>4, <2>2
  <2>4. StaleOnesExist'
    BY <2>1, <2>2, <2>3 DEF VInv, StaleOnesExist
  <2>5. \A u : /\ PendingOf(u)' \subseteq PendingOf(u)
               /\ ~HearsLeave(u) /\ ~HearsArrival(u)' /\ ~Deciding(u)' /\ ~Claimed(u)'
    BY <1>2, <2>2, <2>3
       DEF PendingOf, HearsLeave, HearsArrival, Listening, Deciding, Claimed, SvcIdle
  <2>6. ASSUME ~lost PROVE Visits'
    <3>1. StaleOnes /\ \A u \in Tasks : InTurn(u) /\ OneVisit(u) /\ LetGo(u) /\ AfterUndo(u)
      BY <2>6 DEF VInv, Visits
    <3>2. \A u \in Tasks : InTurn(u)'
      BY <2>1, <2>5, <3>1, TurnsKept DEF Opened
    <3>3. \A u \in Tasks : OneVisit(u)' /\ LetGo(u)' /\ AfterUndo(u)'
      BY <2>1, <2>5, <3>1 DEF OneVisit, LetGo, AfterUndo
    <3>4. svc'.at # "due"
      BY <1>2 DEF SvcIdle
    <3>5. StaleOnes'
      BY <1>2, <2>1, <2>2, <2>3, <2>5, <3>1, <3>4, StaleKept
    <3> QED BY <3>2, <3>3, <3>5 DEF Visits
  <2> QED BY <2>1, <2>4, <2>6 DEF VInv
<1> QED BY <1>1, <1>3, <1>4 DEF Approve

\* The steps of people and of requests: some move a task,
LEMMA PeopleVisits ==
    ASSUME IInv, VInv, NEW t \in Tasks,
           AgentMove(t) \/ HumanMove(t) \/ \E c \in Clients : UndoMove(c, t)
    PROVE  VInv'
<1>1. {"gate", "done", "work"} \subseteq Labels /\ TypeOK
  BY DEF Labels, IInv
<1>2. ASSUME AgentMove(t) PROVE Moving(t, "gate", "agent")
  BY <1>2 DEF AgentMove, Moving, rowVars
<1>3. ASSUME HumanMove(t) PROVE Moving(t, "done", "human") \/ Moving(t, "work", "human")
  BY <1>3 DEF HumanMove, Moving, rowVars
<1>4. ASSUME NEW c \in Clients, UndoMove(c, t) PROVE Moving(t, "gate", "undo")
  BY <1>4 DEF UndoMove, Moving, rowVars
<1> QED BY <1>1, <1>2, <1>3, <1>4, MoveVisits

LEMMA SendBackVisits ==
    ASSUME IInv, VInv, NEW c \in Clients, SendBack(c)
    PROVE  VInv'
<1>1. PICK t \in Tasks : t = req[c].task
  BY DEF SendBack, IInv, RequestsKnow
<1>2. UNCHANGED <<st, owner, svc>>
  BY DEF SendBack, rowVars
<1>3. CASE label[t] = "gate" /\ MoveTo(t, "work", "human")
  <2>1. Moving(t, "work", "human")
    BY <1>2, <1>3 DEF Moving
  <2> QED BY <2>1, MoveVisits DEF IInv, Labels
<1>4. CASE UNCHANGED <<taskVars, queue, stale, lost>>
  BY <1>2, <1>4, QuietVisits DEF Settling, IInv
<1> QED BY <1>1, <1>3, <1>4 DEF SendBack

\* and the others leave the queue and the service alone, and settle rows only.
LEMMA QuietSteps ==
    ASSUME IInv, VInv,
           \/ UNCHANGED vars
           \/ \E p \in Procs : CheckNext(p)
           \/ \E t \in Tasks : Hold(t)
           \/ \E m \in Modes : SetMode(m)
           \/ \E c \in Clients :
                \/ UndoReport(c) \/ UndoMark(c) \/ Answered(c) \/ HangUp(c)
                \/ \E t \in Tasks : Report(c, t)
    PROVE  VInv'
<1>0. TypeOK /\ st \in [Decisions -> Outcomes]
  BY DEF IInv, TypeOK
<1> SUFFICES Settling /\ UNCHANGED <<taskVars, owner, queue, svc, stale, lost>>
  BY <1>0, QuietVisits
<1>1. CASE UNCHANGED vars
  BY <1>1 DEF vars, taskVars, Settling
<1>2. ASSUME NEW p \in Procs, CheckNext(p)
      PROVE  Settling /\ UNCHANGED <<taskVars, owner, queue, svc, stale, lost>>
  <2>1. CASE CheckCancel(p)
    BY <1>0, <2>1 DEF CheckCancel, Settling, AllPending
  <2>2. CASE CheckRead(p) \/ CheckCount(p) \/ StepDown(p) \/ CheckReset(p)
    BY <2>2 DEF CheckRead, CheckCount, StepDown, CheckReset, Settling, rowVars, histVars
  <2> QED BY <1>2, <2>1, <2>2 DEF CheckNext
<1>3. ASSUME NEW t \in Tasks, Hold(t)
      PROVE  Settling /\ UNCHANGED <<taskVars, owner, queue, svc, stale, lost>>
  BY <1>0, <1>3 DEF Hold, Settling, memVars
<1>4. ASSUME NEW m \in Modes, SetMode(m)
      PROVE  Settling /\ UNCHANGED <<taskVars, owner, queue, svc, stale, lost>>
  BY <1>4 DEF SetMode, Settling, memVars, rowVars
<1>5. ASSUME NEW c \in Clients, UndoReport(c) \/ Answered(c) \/ HangUp(c)
      PROVE  Settling /\ UNCHANGED <<taskVars, owner, queue, svc, stale, lost>>
  BY <1>5 DEF UndoReport, Answered, HangUp, Settling, rowVars, histVars
<1>6. ASSUME NEW c \in Clients, UndoMark(c)
      PROVE  Settling /\ UNCHANGED <<taskVars, owner, queue, svc, stale, lost>>
  <2>1. req[c].row \in Decisions /\ st' = [st EXCEPT ![req[c].row] = "undone"]
    BY <1>6 DEF UndoMark, IInv, RequestsKnow
  <2>2. Settling
    BY <1>0, <2>1 DEF Settling
  <2> QED BY <1>6, <2>2 DEF UndoMark, histVars
<1>7. ASSUME NEW c \in Clients, NEW t \in Tasks, Report(c, t)
      PROVE  Settling /\ UNCHANGED <<taskVars, owner, queue, svc, stale, lost>>
  BY <1>7 DEF Report, Settling, rowVars
<1> QED BY <1>1, <1>2, <1>3, <1>4, <1>5, <1>6, <1>7

LEMMA RestartVisits ==
    ASSUME VInv, Restart
    PROVE  VInv'
BY DEF Restart, VInv, StaleOnesExist, rowVars

\* At the start the queue is empty and nothing is under way.
LEMMA InitVisits == Init => VInv
<1> SUFFICES ASSUME Init PROVE StaleOnesExist /\ Visits
  BY DEF VInv
<1>1. /\ queue = <<>> /\ svc = SvcIdle /\ stale = {}
      /\ \A t : PendingOf(t) = {}
      /\ \A t \in Tasks : exit[t] = "none" /\ last[t].by = "agent"
  BY DEF Init, PendingOf
<1>2. \A t : ~HearsLeave(t) /\ ~HearsArrival(t) /\ ~Deciding(t) /\ ~Claimed(t)
  BY <1>1 DEF HearsLeave, HearsArrival, Listening, Deciding, Claimed, SvcIdle
<1>3. DOMAIN queue = {}
  BY <1>1
<1> QED BY <1>1, <1>2, <1>3 DEF Visits, StaleOnes, StaleOnesExist, InTurn, OneVisit, LetGo,
        AfterUndo, Opened

\* The second invariant holds in every reachable state.
THEOREM VisitsHold == Spec => []VInv
<1>1. ASSUME IInv, VInv, [Next]_vars PROVE VInv'
  <2>1. CASE SvcNext \/ \E d \in Decisions : Due(d)
    BY <1>1, <2>1, ReceiveVisits, ServiceVisits, ApproveVisits DEF SvcNext, IInv
  <2>2. CASE \E t \in Tasks : AgentMove(t) \/ HumanMove(t) \/ \E c \in Clients : UndoMove(c, t)
    BY <1>1, <2>2, PeopleVisits
  <2>3. CASE \E c \in Clients : SendBack(c)
    BY <1>1, <2>3, SendBackVisits
  <2>4. CASE \/ UNCHANGED vars
             \/ \E p \in Procs : CheckNext(p)
             \/ \E t \in Tasks : Hold(t)
             \/ \E m \in Modes : SetMode(m)
             \/ \E c \in Clients :
                  \/ UndoReport(c) \/ UndoMark(c) \/ Answered(c) \/ HangUp(c)
                  \/ \E t \in Tasks : Report(c, t)
    BY <1>1, <2>4, QuietSteps
  <2>5. CASE Restart
    BY <1>1, <2>5, RestartVisits
  <2> QED BY <1>1, <2>1, <2>2, <2>3, <2>4, <2>5, Zenon DEF Next
<1> QED BY InitVisits, Invariance, <1>1, PTL DEF Spec

\* A task that was brought back by an undo waits for a person: nothing that could
\* lead to another approval is under way, and the next decision reads the undo.
THEOREM UndoIsFinal == Spec => UndoneStays
<1>1. ASSUME IInv, VInv, [Next]_vars
      PROVE  [\A t \in Tasks : PolicyMoves(t) /\ last[t].by = "undo" => lost]_vars
  <2> SUFFICES ASSUME Next, NEW t \in Tasks, PolicyMoves(t), last[t].by = "undo", ~lost
               PROVE  FALSE
    BY <1>1
  <2>1. Approve
    BY <1>1, PolicyApproves
  <2>2. ~Claimed(t)
    BY <1>1 DEF VInv, Visits, AfterUndo
  <2>3. PICK u \in Tasks : u = owner[svc.row]
    BY <1>1, <2>1 DEF Approve, IInv, ServiceKnows, Owned
  <2>4. MoveTo(u, "done", "policy")
    <3>1. ~UNCHANGED label
      BY DEF PolicyMoves
    <3> QED BY <2>1, <2>3, <3>1 DEF Approve, taskVars
  <2>5. u # t
    BY <2>1, <2>2, <2>3 DEF Approve, Claimed
  <2>6. label'[t] = label[t]
    BY <1>1, <2>4, <2>5 DEF MoveTo, IInv, TypeOK
  <2> QED BY <2>6 DEF PolicyMoves
<1> QED BY Invariance, VisitsHold, <1>1, PTL DEF Spec, UndoneStays

\* A due row approves the visit it was made for: the row of an earlier visit is
\* taken up only while the event of the task's leaving is still in the queue.
THEOREM ThisVisit == Spec => ApprovesThisVisit
<1>1. ASSUME IInv, VInv, [Next]_vars
      PROVE  [svc.at = "due" /\ svc'.at = "claim" /\ svc.row \in stale
                => lost \/ LeftGate(owner[svc.row])]_vars
  <2> SUFFICES ASSUME svc.at = "due", svc.row \in stale, ~lost
               PROVE  LeftGate(owner[svc.row])
    OBVIOUS
  <2>1. WillHear(owner[svc.row])
    BY <1>1 DEF VInv, Visits, StaleOnes
  <2>2. ~HearsLeave(owner[svc.row])
    BY DEF HearsLeave, Listening
  <2> QED BY <2>1, <2>2 DEF WillHear, Leaves, LeftGate
<1> QED BY Invariance, VisitsHold, <1>1, PTL DEF Spec, ApprovesThisVisit

=============================================================================
