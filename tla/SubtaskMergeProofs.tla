-------------------------- MODULE SubtaskMergeProofs --------------------------
(***************************************************************************)
(* What the merge columns say of the parent's branch, for any number of    *)
(* children, runs, and acts of people.                                     *)
(***************************************************************************)
EXTENDS SubtaskMerge, TLAPS

\* A run that is over keeps the lock only to wait for a person.
LockKnown == \A r \in Runs : phase[r] = "after" /\ active = r => result[r] = "none"

\* The holder of the mutex works on a child, or for a run, or both.
CoKnown ==
    /\ co.at \in {"read", "merge", "record"} => co.child \in Children
    /\ co.at \in {"loop", "finish"} => co.run # NoRun
    /\ co.at # "free" /\ co.run = NoRun => co.child \in Children

\* Whatever was ever to be merged of a child that nobody moved back, its work
\* is over: nobody commits to its branch any more.
WorkIsOver ==
    \A c \in Children \ waived :
        merge[c] # "unset" \/ c \in due \/ c = co.child \/ c \in co.flush => col[c] = "done"

\* Between the merge and the write of its result the commits stay in.
RecordKnows ==
    co.at = "record" /\ co.ok /\ co.child \notin waived => ref[co.child] = "landed"

IInv == TypeOK /\ LockKnown /\ CoKnown /\ WorkIsOver /\ RecordKnows /\ MergedIsIn

\* The part of it that is about the locks and the mutex.
Control == TypeOK /\ LockKnown /\ CoKnown

USE SubtasksAssumption DEF SubtasksAssumption

-----------------------------------------------------------------------------
\* The records the coordinator builds.
LEMMA IdleFacts ==
    /\ Idle \in Coordinators
    /\ Idle.at = "free" /\ Idle.child = NoChild /\ Idle.run = NoRun /\ Idle.flush = {}
BY DEF Idle, Coordinators, Steps

LEMMA GotoFacts ==
    ASSUME NEW k \in Coordinators, NEW s \in Steps
    PROVE  /\ [k EXCEPT !.at = s] \in Coordinators
           /\ [k EXCEPT !.at = s].at = s
           /\ [k EXCEPT !.at = s].child = k.child
           /\ [k EXCEPT !.at = s].run = k.run
           /\ [k EXCEPT !.at = s].flush = k.flush
           /\ [k EXCEPT !.at = s].ok = k.ok
BY DEF Coordinators

LEMMA CoTypes ==
    ASSUME TypeOK
    PROVE  /\ co.at \in Steps /\ co.child \in Children \cup {NoChild}
           /\ co.run \in Runs \cup {NoRun} /\ co.flush \in SUBSET Children
           /\ co.resolve \in SUBSET Children
BY DEF TypeOK, Coordinators

\* What the holder of the mutex has in hand after the steps that write a record.
LEMMA CoIsRecord ==
    ASSUME TypeOK
    PROVE  co \in Coordinators
BY DEF TypeOK

LEMMA MergeFacts ==
    ASSUME TypeOK, Merge
    PROVE  /\ co.at = "merge" /\ co' \in Coordinators /\ co'.at = "record"
           /\ co'.child = co.child /\ co'.run = co.run /\ co'.flush = co.flush
<1>1. PICK b \in BOOLEAN : co' = [co EXCEPT !.at = "record", !.ok = b]
  BY DEF Merge
<1> QED BY <1>1, CoIsRecord DEF Merge, At, Coordinators, Steps

LEMMA ReadyFacts ==
    ASSUME TypeOK, IsReady
    PROVE  /\ co.at = "eval" /\ co' \in Coordinators /\ co'.at = "set"
           /\ co'.child = co.child /\ co'.run = co.run /\ co'.flush = co.flush
<1>1. PICK b \in BOOLEAN : co' = [co EXCEPT !.at = "set", !.ok = b]
  BY DEF IsReady
<1> QED BY <1>1, CoIsRecord DEF IsReady, At, Coordinators, Steps

LEMMA AfterRunFacts ==
    ASSUME TypeOK, NEW r \in Runs, AfterParentRun(r)
    PROVE  co' \in Coordinators /\ co'.at = "loop" /\ co'.run = r
<1> DEFINE f == {c \in Present : merge[c] = "pending"}
           s == IF result[r] = "failed" THEN {} ELSE Conflicted
           w == integration = "pending"
<1>1. f \in SUBSET Children /\ s \in SUBSET Children /\ w \in BOOLEAN
  BY DEF Present, Conflicted
<1>2. co' = [Idle EXCEPT !.at = "loop", !.run = r, !.flush = f, !.resolve = s,
                         !.wasPending = w]
  BY DEF AfterParentRun
<1> HIDE DEF f, s, w
<1>3. co' = [at |-> "loop", child |-> NoChild, run |-> r, flush |-> f, resolve |-> s,
             wasPending |-> w, ok |-> FALSE]
  BY <1>2 DEF Idle
<1> QED BY <1>1, <1>3 DEF Coordinators, Steps

\* The coordinator lets the mutex go: the run it heard of is over, or waits
\* with the lock.
LEMMA LeaveFacts ==
    ASSUME Control, Leave, active' = active
    PROVE  /\ co' = Idle
           /\ phase' \in [Runs -> Phases]
           /\ result' \in [Runs -> Results]
           /\ brief' \in [Runs -> SUBSET Children]
           /\ active' # NoRun => phase'[active'] # "idle"
           /\ LockKnown'
<1> USE DEF Control, TypeOK, Leave, LockKnown, Phases, Results, runVars
<1>1. CASE co.run = NoRun
  BY <1>1
<1>2. CASE co.run # NoRun /\ result[co.run] = "none" /\ active = co.run
  BY <1>2
<1>3. CASE co.run # NoRun /\ ~(result[co.run] = "none" /\ active = co.run)
  <2>1. co.run \in Runs /\ active # co.run
    BY <1>3, CoTypes
  <2>2. Forget(co.run)
    BY <1>3
  <2> QED BY <2>1, <2>2 DEF Forget
<1> QED BY <1>1, <1>2, <1>3

-----------------------------------------------------------------------------
LEMMA InitInv == Init => IInv
<1> SUFFICES ASSUME Init PROVE IInv
  OBVIOUS
<1>1. TypeOK
  <2>1. co \in Coordinators /\ co = Idle /\ co.run = NoRun
    BY IdleFacts DEF Init
  <2>2. acts \in 0..MaxActs
    BY DEF Init
  <2> QED BY <2>1, <2>2 DEF Init, TypeOK, ParentCols, ChildCols, Merges, Refs, Phases, Results
<1>2. LockKnown /\ CoKnown /\ RecordKnows
  BY IdleFacts DEF Init, LockKnown, CoKnown, RecordKnows
<1>3. WorkIsOver /\ MergedIsIn
  BY IdleFacts DEF Init, WorkIsOver, MergedIsIn
<1> QED BY <1>1, <1>2, <1>3 DEF IInv

\* What people and agents do to a child leaves locks and mutex alone.
LEMMA ChildStepControl ==
    ASSUME Control, NEW c \in Children,
           \/ Create(c) \/ Release(c) \/ ChildWorks(c) \/ ChildFinishes(c)
           \/ Reopen(c) \/ Stale(c)
    PROVE  Control'
<1> USE DEF parentVars, childVars, runVars, MoveChild, Act
<1>1. UNCHANGED <<pcol, active, hasBranch, merge, runVars, co>>
  BY DEF Create, Release, ChildWorks, ChildFinishes, Reopen, Stale
<1>2. col' \in [Children -> ChildCols] /\ ref' \in [Children -> Refs]
      /\ due' \in SUBSET Children /\ waived' \in SUBSET Children
      /\ acts' \in 0..MaxActs /\ integration' \in {"unset", "pending", "done"}
  BY DEF Control, TypeOK, Create, Release, ChildWorks, ChildFinishes, Reopen, Stale, ChildCols, Refs
<1> QED BY <1>1, <1>2 DEF Control, TypeOK, LockKnown, CoKnown

LEMMA RunStepControl ==
    ASSUME Control, NEW r \in Runs, Start(r) \/ RunStep(r) \/ Reply(r)
    PROVE  Control'
<1> USE DEF Control, parentVars, childVars, runVars, Phases, Results, Act
<1>1. CASE Start(r) \/ Reply(r)
  <2>1. /\ phase[r] = "idle" /\ active' = r
        /\ phase' \in [Runs -> Phases] /\ phase'[r] = "going"
        /\ \A q \in Runs : phase[q] = "after" <=> phase'[q] = "after"
    BY <1>1 DEF TypeOK, Start, Reply, Begin
  <2>2. brief' \in [Runs -> SUBSET Children]
    BY <1>1 DEF TypeOK, Start, Reply, Begin, Conflicted, Present
  <2>3. UNCHANGED <<pcol, integration, childVars, result, co, waived>>
        /\ hasBranch' = TRUE /\ acts' \in 0..MaxActs
    BY <1>1 DEF TypeOK, Start, Reply, Begin
  <2> QED BY <2>1, <2>2, <2>3, CoTypes DEF TypeOK, LockKnown, CoKnown
<1>2. CASE RunStep(r)
  <2>1. phase[r] = "going" /\ (co.run # NoRun => co.run # r)
    BY <1>2 DEF RunStep, Land, LandNowhere, Fails, EndsEarly, Asks, TypeOK
  <2>2. UNCHANGED <<hasBranch, integration, col, merge, due, co, acts, waived>>
    BY <1>2 DEF RunStep, Land, LandNowhere, Fails, EndsEarly, Asks
  <2>3. pcol' \in ParentCols /\ ref' \in [Children -> Refs]
    BY <1>2 DEF TypeOK, RunStep, Land, LandNowhere, Fails, EndsEarly, Asks, Resolves, Refs,
                ParentCols
  <2>4. /\ phase' \in [Runs -> Phases] /\ result' \in [Runs -> Results]
        /\ brief' \in [Runs -> SUBSET Children]
        /\ \A q \in Runs \ {r} : phase'[q] = phase[q] /\ result'[q] = result[q]
    BY <1>2 DEF TypeOK, RunStep, Land, LandNowhere, Fails, EndsEarly, Asks, Finish, Forget
  <2>5. /\ active' \in Runs \cup {NoRun}
        /\ active' # NoRun => active' = active
        /\ active' = r => /\ phase'[r] # "idle"
                          /\ phase'[r] = "after" => result'[r] = "none"
    BY <1>2 DEF TypeOK, RunStep, Land, LandNowhere, Fails, EndsEarly, Asks, Finish, Forget,
                Unlock
  <2> QED BY <2>1, <2>2, <2>3, <2>4, <2>5, CoTypes DEF TypeOK, LockKnown, CoKnown
<1> QED BY <1>1, <1>2

LEMMA PeopleStepControl ==
    ASSUME Control, Rerun \/ (\E to \in ParentCols : MoveParent(to)) \/ Restart
    PROVE  Control'
<1> USE DEF Control, parentVars, childVars, runVars, Phases, Act
<1>1. CASE Rerun \/ \E to \in ParentCols : MoveParent(to)
  <2>1. /\ active' = NoRun /\ phase' \in [Runs -> Phases]
        /\ \A q \in Runs : phase[q] = "after" <=> phase'[q] = "after"
    BY <1>1 DEF TypeOK, Rerun, MoveParent, Settle
  <2>2. UNCHANGED <<hasBranch, integration, childVars, result, brief, co, waived>>
        /\ pcol' \in ParentCols /\ acts' \in 0..MaxActs
    BY <1>1 DEF TypeOK, Rerun, MoveParent
  <2> QED BY <2>1, <2>2, CoTypes DEF TypeOK, LockKnown, CoKnown
<1>2. CASE Restart
  BY <1>2, IdleFacts DEF Restart, TypeOK, LockKnown, CoKnown, Coordinators, Results
<1> QED BY <1>1, <1>2

-----------------------------------------------------------------------------
\* A step of the coordinator, seen from the locks: what it reads and writes of
\* the children does not matter.
LEMMA MutexTaken ==
    ASSUME Control,
           (\E c \in Children : ChildTerminal(c)) \/ (\E r \in Runs : AfterParentRun(r))
    PROVE  Control'
<1> USE DEF Control, parentVars, childVars, runVars
<1>1. ASSUME NEW c \in Children, ChildTerminal(c)
      PROVE  Control'
  <2>1. /\ co' \in Coordinators /\ co'.at = "read" /\ co'.child = c
        /\ co'.run = NoRun
    BY <1>1, IdleFacts DEF ChildTerminal, Coordinators, Steps
  <2> QED BY <1>1, <2>1 DEF ChildTerminal, TypeOK, LockKnown, CoKnown
<1>2. ASSUME NEW r \in Runs, AfterParentRun(r)
      PROVE  Control'
  <2>1. /\ co' \in Coordinators /\ co'.at = "loop" /\ co'.run = r
    BY <1>2, AfterRunFacts DEF Control
  <2>2. co'.run # NoRun
    BY <2>1
  <2> QED BY <1>2, <2>1, <2>2 DEF AfterParentRun, TypeOK, LockKnown, CoKnown
<1> QED BY <1>1, <1>2

\* A step at which the holder keeps the mutex and its run.
Holds ==
    /\ UNCHANGED <<active, phase, result, brief>>
    /\ co' \in Coordinators /\ co'.run = co.run
    /\ co'.at # "free"
    /\ co.at # "free"

LEMMA CoordinateHolds ==
    ASSUME Control, Coordinate
    PROVE  \/ Leave /\ active' = active /\ co.at # "free"
           \/ Holds /\ CoKnown'
<1> USE CoTypes DEF Control, parentVars, childVars, runVars, Holds, CoKnown, At, Goto
<1>1. CASE Defer \/ NotReady \/ MarkPending \/ AutoAdvance \/ StayPut
  BY <1>1 DEF Defer, NotReady, MarkPending, AutoAdvance, StayPut
<1> co \in Coordinators
  BY DEF TypeOK
<1>2. CASE GoAhead
  BY <1>2, GotoFacts DEF GoAhead, Steps
<1>3. CASE LoopEnds
  <2> DEFINE s == IF co.wasPending /\ result[co.run] = "success" /\ Conflicted = {}
                  THEN "finish" ELSE "eval"
  <2>1. s \in Steps /\ co' = [co EXCEPT !.at = s] /\ co.at = "loop"
        /\ s \in {"finish", "eval"}
    BY <1>3 DEF LoopEnds, Steps
  <2> HIDE DEF s
  <2> QED BY <1>3, <2>1, GotoFacts DEF LoopEnds
<1>4. CASE MarkDone
  BY <1>4, GotoFacts DEF MarkDone, Steps
<1>5. ASSUME NEW c \in Children, LoopFlush(c)
      PROVE  Holds /\ CoKnown'
  BY <1>5 DEF LoopFlush, Coordinators, Steps
<1>6. ASSUME NEW c \in Children, LoopResolve(c)
      PROVE  Holds /\ CoKnown'
  <2>1. co' = [co EXCEPT !.resolve = co.resolve \ {c}] /\ co.at = "loop"
        /\ co.resolve \ {c} \in SUBSET Children
    BY <1>6 DEF LoopResolve
  <2>2. /\ co' \in Coordinators /\ co'.at = co.at /\ co'.run = co.run
        /\ co'.child = co.child
    BY <2>1 DEF Coordinators
  <2> QED BY <1>6, <2>1, <2>2 DEF LoopResolve
<1>7. ASSUME NextChild, co.at \in {"merge", "record"}
      PROVE  /\ co' \in Coordinators /\ co'.run = co.run /\ co'.at # "free"
             /\ CoKnown'
  <2>1. CASE co.run = NoRun
    BY <1>7, <2>1 DEF NextChild, Coordinators, Steps
  <2>2. CASE co.run # NoRun
    BY <1>7, <2>2 DEF NextChild, Coordinators, Steps
  <2> QED BY <2>1, <2>2
<1>8. CASE MergeNothing \/ MergeNowhere \/ Record
  BY <1>7, <1>8 DEF MergeNothing, MergeNowhere, Record
<1>9. CASE Merge
  BY <1>9, MergeFacts DEF Merge
<1>10. CASE IsReady
  BY <1>10, ReadyFacts DEF IsReady
<1> QED
  BY <1>1, <1>2, <1>3, <1>4, <1>5, <1>6, <1>8, <1>9, <1>10 DEF Coordinate

LEMMA CoordinateControl ==
    ASSUME Control, Coordinate
    PROVE  Control'
<1> USE CoTypes DEF parentVars, childVars, runVars
<1>1. /\ pcol' \in ParentCols /\ integration' \in {"unset", "pending", "done"}
      /\ UNCHANGED <<active, hasBranch, col, due, acts>>
  BY DEF Control, TypeOK, ParentCols, Coordinate, Defer, GoAhead, LoopFlush, LoopResolve,
         LoopEnds, MarkDone, MergeNothing, MergeNowhere, Merge, Record, NotReady, IsReady,
         MarkPending, AutoAdvance, StayPut
<1> DEFINE Typed == /\ merge' \in [Children -> Merges] /\ ref' \in [Children -> Refs]
                    /\ waived' \in SUBSET Children
<1>2. Typed
  <2> USE DEF Control, TypeOK, Merges, Refs, TearDown
  <2>1. ASSUME NEW c \in Children, LoopFlush(c) \/ LoopResolve(c)
        PROVE  Typed
    BY <2>1 DEF LoopFlush, LoopResolve
  <2>2. CASE Defer \/ MergeNothing \/ Record
    BY <2>2 DEF Defer, MergeNothing, Record
  <2>3. CASE Merge
    <3>1. PICK ok \in BOOLEAN :
             ref' = [ref EXCEPT ![co.child] = IF ok /\ @ = "open" THEN "landed" ELSE @]
      BY <2>3 DEF Merge
    <3>2. ref' \in [Children -> Refs]
      BY <3>1
    <3> QED BY <2>3, <3>2 DEF Merge
  <2>4. CASE UNCHANGED <<merge, ref, waived>>
    BY <2>4
  <2> QED BY <2>1, <2>2, <2>3, <2>4
         DEF Coordinate, GoAhead, LoopEnds, MarkDone, MergeNowhere, NotReady, IsReady,
             MarkPending, AutoAdvance, StayPut
<1>3. CASE Leave
  BY <1>1, <1>2, <1>3, LeaveFacts, IdleFacts DEF Control, TypeOK, CoKnown
<1>4. CASE Holds /\ CoKnown'
  BY <1>1, <1>2, <1>4 DEF Holds, Control, TypeOK, LockKnown
<1> QED BY <1>1, <1>3, <1>4, CoordinateHolds

LEMMA StepControl == Control /\ [Next]_vars => Control'
<1> SUFFICES ASSUME Control, [Next]_vars PROVE Control'
  OBVIOUS
<1>1. CASE Next
  BY <1>1, ChildStepControl, RunStepControl, PeopleStepControl, MutexTaken, CoordinateControl
     DEF Next
<1>2. CASE UNCHANGED vars
  BY <1>2 DEF vars, Control, TypeOK, LockKnown, CoKnown
<1> QED BY <1>1, <1>2

-----------------------------------------------------------------------------
\* The part of it that is about the branches.
Data == WorkIsOver /\ RecordKnows /\ MergedIsIn

\* An agent commits, and a person moves a child on, only where nothing has been
\* merged yet; whoever moves a child back waives it.
LEMMA ChildStepData ==
    ASSUME Control, Data, NEW c \in Children,
           \/ Create(c) \/ Release(c) \/ ChildWorks(c) \/ ChildFinishes(c)
           \/ Reopen(c) \/ Stale(c)
    PROVE  Data'
<1> USE CoTypes DEF Control, TypeOK, Data, parentVars, childVars, runVars, MoveChild
<1>1. UNCHANGED <<merge, co>>
  BY DEF Create, Release, ChildWorks, ChildFinishes, Reopen, Stale
<1>2. WorkIsOver'
  BY <1>1 DEF WorkIsOver, Create, Release, ChildWorks, ChildFinishes, Reopen, Stale
<1>3. CASE ChildWorks(c)
  <2>1. c \in waived \/ (merge[c] = "unset" /\ c # co.child)
    BY <1>3 DEF ChildWorks, WorkIsOver, Merges
  <2>2. /\ UNCHANGED <<merge, co, waived>>
        /\ \A d \in Children : d # c => ref'[d] = ref[d]
    BY <1>3 DEF ChildWorks
  <2>3. co.at = "record" => co.child \in Children
    BY DEF CoKnown
  <2>4. RecordKnows'
    BY <2>1, <2>2, <2>3 DEF RecordKnows
  <2>5. MergedIsIn'
    BY <2>1, <2>2 DEF MergedIsIn
  <2> QED BY <1>2, <2>4, <2>5
<1>4. CASE ~ChildWorks(c)
  <2>1. ref' = ref /\ waived \subseteq waived'
    BY <1>4 DEF Create, Release, ChildFinishes, Reopen, Stale
  <2> QED BY <1>1, <1>2, <2>1 DEF RecordKnows, MergedIsIn
<1> QED BY <1>3, <1>4

\* A run of the parent only brings commits in.
LEMMA RunStepData ==
    ASSUME Control, Data, NEW r \in Runs, Start(r) \/ RunStep(r) \/ Reply(r)
    PROVE  Data'
<1> USE CoTypes DEF Control, TypeOK, Data, parentVars, childVars, runVars
<1>1. UNCHANGED <<col, merge, due, co, waived>>
  BY DEF Start, RunStep, Reply, Land, LandNowhere, Fails, EndsEarly, Asks
<1>2. \A c \in Children : ref'[c] = ref[c] \/ (ref[c] = "open" /\ ref'[c] = "landed")
  BY DEF Start, RunStep, Reply, Land, LandNowhere, Fails, EndsEarly, Asks, Resolves
<1> QED BY <1>1, <1>2 DEF WorkIsOver, RecordKnows, MergedIsIn, CoKnown

LEMMA PeopleStepData ==
    ASSUME Control, Data, Rerun \/ (\E to \in ParentCols : MoveParent(to)) \/ Restart
    PROVE  Data'
<1> USE CoTypes, IdleFacts
    DEF Control, TypeOK, Data, CoKnown, parentVars, childVars, runVars, WorkIsOver,
        RecordKnows, MergedIsIn
<1>1. CASE Rerun \/ \E to \in ParentCols : MoveParent(to)
  BY <1>1 DEF Rerun, MoveParent
<1>2. CASE Restart
  BY <1>2 DEF Restart
<1> QED BY <1>1, <1>2

LEMMA MutexTakenData ==
    ASSUME Control, Data,
           (\E c \in Children : ChildTerminal(c)) \/ (\E r \in Runs : AfterParentRun(r))
    PROVE  Data'
<1> USE DEF Control, TypeOK, Data, parentVars, childVars, runVars, WorkIsOver,
            RecordKnows, MergedIsIn
<1>1. ASSUME NEW c \in Children, ChildTerminal(c)
      PROVE  Data'
  <2>1. co'.at = "read" /\ co'.child = c /\ co'.flush = {}
    BY <1>1, IdleFacts DEF ChildTerminal, Coordinators
  <2> QED BY <1>1, <2>1 DEF ChildTerminal
<1>2. ASSUME NEW r \in Runs, AfterParentRun(r)
      PROVE  Data'
  <2>1. /\ co'.at = "loop" /\ co'.child = NoChild
        /\ co'.flush = {c \in Present : merge[c] = "pending"}
    BY <1>2, IdleFacts DEF AfterParentRun, Coordinators
  <2> QED BY <1>2, <2>1 DEF AfterParentRun
<1> QED BY <1>1, <1>2

\* A step of the coordinator that writes no branch, and no status but one it
\* just learned nothing about.
LEMMA QuietStep ==
    ASSUME Control, Data,
           UNCHANGED <<col, merge, ref, due, waived>>,
           co'.at # "record",
           co'.child \in {co.child, NoChild} \/ co'.child \in co.flush,
           co'.flush \subseteq co.flush
    PROVE  Data'
BY DEF Control, TypeOK, Data, WorkIsOver, RecordKnows, MergedIsIn

LEMMA CoordinateData ==
    ASSUME Control, Data, Coordinate
    PROVE  Data'
<1> USE CoTypes, IdleFacts
    DEF Control, Data, parentVars, childVars, runVars, At, Goto
<1> co \in Coordinators /\ (co.at \in {"read", "merge", "record"} => co.child \in Children)
  BY DEF TypeOK, CoKnown
<1>1. CASE NotReady \/ MarkPending \/ AutoAdvance \/ StayPut
  BY <1>1, QuietStep DEF NotReady, MarkPending, AutoAdvance, StayPut, Leave
<1>2. CASE GoAhead \/ LoopEnds \/ MarkDone \/ IsReady
  <2>1. /\ co'.at # "record" /\ co'.child = co.child /\ co'.flush = co.flush
        /\ UNCHANGED <<col, merge, ref, due, waived>>
    <3>1. CASE IsReady
      BY <3>1, ReadyFacts DEF IsReady
    <3>2. CASE GoAhead \/ LoopEnds \/ MarkDone
      <4>1. PICK x \in Steps \ {"record"} : co' = [co EXCEPT !.at = x]
        BY <3>2 DEF GoAhead, LoopEnds, MarkDone, Steps
      <4> QED BY <3>2, <4>1, GotoFacts DEF GoAhead, LoopEnds, MarkDone
    <3> QED BY <1>2, <3>1, <3>2
  <2> QED BY <2>1, QuietStep
<1>3. ASSUME NEW c \in Children, LoopFlush(c)
      PROVE  Data'
  <2>1. /\ co'.at # "record" /\ co'.child \in co.flush /\ co'.flush \subseteq co.flush
        /\ UNCHANGED <<col, merge, ref, due, waived>>
    BY <1>3 DEF LoopFlush, Coordinators
  <2> QED BY <2>1, QuietStep
<1>4. ASSUME NEW c \in Children, LoopResolve(c)
      PROVE  Data'
  <2>1. /\ co'.at = "loop" /\ co'.child = co.child /\ co'.flush = co.flush
        /\ UNCHANGED <<col, due>> /\ waived' = waived \cup {c}
        /\ \A d \in Children \ {c} : merge'[d] = merge[d] /\ ref'[d] = ref[d]
    BY <1>4 DEF LoopResolve, TearDown, Coordinators, TypeOK
  <2> QED BY <2>1 DEF WorkIsOver, RecordKnows, MergedIsIn
<1>5. ASSUME NextChild
      PROVE  co'.at # "record" /\ co'.child \in {co.child, NoChild} /\ co'.flush = co.flush
  BY <1>5 DEF NextChild, Coordinators
<1>6. CASE MergeNowhere
  BY <1>5, <1>6, QuietStep DEF MergeNowhere
\* The status of a child whose work is over is written by itself ...
<1>7. CASE Defer
  <2>1. /\ co' = Idle /\ co.child \in Children
        /\ UNCHANGED <<col, ref, due, waived>>
        /\ merge' = [merge EXCEPT ![co.child] = "pending"]
    BY <1>7 DEF Defer, Leave
  <2> QED BY <2>1 DEF WorkIsOver, RecordKnows, MergedIsIn, TypeOK
\* ... as merged only if there was nothing to merge ...
<1>8. CASE MergeNothing
  <2>1. /\ co.child \in Children /\ ref[co.child] = "none"
        /\ UNCHANGED <<col, ref, due, waived>>
        /\ merge' = [merge EXCEPT ![co.child] = "merged"]
    BY <1>8 DEF MergeNothing
  <2> QED BY <1>5, <1>8, <2>1 DEF MergeNothing, WorkIsOver, RecordKnows, MergedIsIn, TypeOK
\* ... or what git said it merged is still there.
<1>9. CASE Merge
  <2>1. PICK ok \in BOOLEAN :
           /\ ref[co.child] \in {"gone", "lost"} => ~ok
           /\ ref' = [ref EXCEPT ![co.child] = IF ok /\ @ = "open" THEN "landed" ELSE @]
           /\ co' = [co EXCEPT !.at = "record", !.ok = ok]
    BY <1>9 DEF Merge
  <2>2. /\ co'.child = co.child /\ co'.flush = co.flush /\ co'.ok = ok
        /\ co.child \in Children /\ ref[co.child] # "none"
        /\ UNCHANGED <<col, merge, due, waived>>
    BY <1>9, <2>1 DEF Merge, Coordinators
  <2>3. ok => ref'[co.child] = "landed"
    BY <2>1, <2>2 DEF TypeOK, Refs
  <2>4. \A c \in Children : ref'[c] = ref[c] \/ ref'[c] = "landed"
    BY <2>1 DEF TypeOK
  <2> QED BY <2>2, <2>3, <2>4 DEF WorkIsOver, RecordKnows, MergedIsIn
<1>10. CASE Record
  <2>1. /\ co.child \in Children /\ co.at = "record"
        /\ UNCHANGED <<col, due, waived>>
        /\ \A d \in Children \ {co.child} : merge'[d] = merge[d] /\ ref'[d] = ref[d]
    BY <1>10 DEF Record, TearDown, TypeOK
  <2>2. WorkIsOver' /\ RecordKnows'
    BY <1>5, <1>10, <2>1 DEF Record, WorkIsOver, RecordKnows
  <2>3. CASE co.ok
    <3>1. ref[co.child] = "landed" \/ co.child \in waived
      BY <2>1, <2>3 DEF RecordKnows
    <3>2. ref'[co.child] = "gone" \/ co.child \in waived'
      BY <1>10, <2>1, <2>3, <3>1 DEF Record, TearDown, TypeOK
    <3> QED BY <2>1, <2>2, <3>2 DEF MergedIsIn
  <2>4. CASE ~co.ok
    <3>1. merge'[co.child] = "merge_conflict"
      BY <1>10, <2>1, <2>4 DEF Record, TypeOK
    <3> QED BY <2>1, <2>2, <3>1 DEF MergedIsIn
  <2> QED BY <2>3, <2>4
<1> QED
  BY <1>1, <1>2, <1>3, <1>4, <1>6, <1>7, <1>8, <1>9, <1>10 DEF Coordinate

LEMMA StepInv == IInv /\ [Next]_vars => IInv'
<1> SUFFICES ASSUME IInv, [Next]_vars PROVE IInv'
  OBVIOUS
<1>1. Control /\ Data
  BY DEF IInv, Control, Data
<1>2. CASE Next
  <2>1. Data'
    BY <1>1, <1>2, ChildStepData, RunStepData, PeopleStepData, MutexTakenData, CoordinateData
       DEF Next
  <2> QED BY <1>1, <2>1, StepControl DEF IInv, Control, Data
<1>3. CASE UNCHANGED vars
  BY <1>1, <1>3, StepControl
     DEF vars, IInv, Control, Data, WorkIsOver, RecordKnows, MergedIsIn
<1> QED BY <1>2, <1>3

THEOREM Inductive == Spec => []IInv
<1>1. Init => IInv
  BY InitInv
<1>2. IInv /\ [Next]_vars => IInv'
  BY StepInv
<1> QED BY <1>1, <1>2, PTL DEF Spec

\* The mutex has one holder, which works for a run that is over, and no lock
\* stays behind a run that has been forgotten (OnChildTerminal, AfterParentRun).
THEOREM TypeCorrect == Spec => []TypeOK
<1>1. IInv => TypeOK
  BY DEF IInv
<1> QED BY <1>1, Inductive, PTL

\* Whatever children finish, conflict or are put off, and whenever the process
\* stops: what the columns call merged is in the parent's branch.
THEOREM MergedStays == Spec => []MergedIsIn
<1>1. IInv => MergedIsIn
  BY DEF IInv
<1> QED BY <1>1, Inductive, PTL

\* The dependency gate lets the parent run only when every child's work is in
\* its branch, or named in the run's brief.
THEOREM EveryChildSeen == Spec => SeesEveryChild
<1>1. ASSUME IInv
      PROVE  \A r \in Runs : Start(r) =>
               \A c \in Present \ waived : ref[c] = "open" => c \in brief'[r]
  <2> SUFFICES ASSUME NEW r \in Runs, Start(r),
                      NEW c \in Present \ waived, ref[c] = "open"
               PROVE  c \in brief'[r]
    OBVIOUS
  <2>1. c \in Children /\ merge[c] = "merge_conflict"
    BY <1>1 DEF Start, Satisfied, IInv, MergedIsIn, Present
  <2> QED BY <1>1, <2>1 DEF Start, Begin, Conflicted, IInv, TypeOK
<1>2. IInv => [\A r \in Runs : Start(r) =>
                 \A c \in Present \ waived : ref[c] = "open" => c \in brief'[r]]_vars
  BY <1>1
<1> QED BY <1>2, Inductive, PTL DEF SeesEveryChild

=============================================================================
