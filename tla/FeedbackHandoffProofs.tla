----------------------- MODULE FeedbackHandoffProofs -----------------------
(***************************************************************************)
(* What the hand-off of feedback guarantees for any workflow, any runs and *)
(* syncs, and any number of passes, posts and requests.                    *)
(***************************************************************************)
EXTENDS FeedbackHandoff, SequenceTheorems, FiniteSetTheorems, TLAPS

Used == {r \in Runs : phase[r] # "none"}
SomeRun   == Runs \cup {NoRun}
SomeLabel == Labels \cup {NoLabel}

\* What is on the forge, and what the cursor and a pass hold of it.
Marks  == [sha : Nat, review : Nat, checks : Nat, conflict : Nat, ver : Nat]
Merges == {"clean", "conflicting", "unknown"}
Heads  == [ver : Nat, sha : 1..(MaxPosts + 1), merge : Merges]
Posts  == {"review", "checks", "conflict"} \X (1..(MaxPosts + 1))

TaskTyped ==
    /\ label \in Labels /\ active \in Used \cup {NoRun} /\ current \in Used
    /\ phase \in [Runs -> Phases]
RowsTyped == fb \in [Runs -> Seq(Items)]
HistoryTyped == told \cup addressed \cup waived \cup again \cup unsaved \subseteq Items
ForgeTyped ==
    /\ cursor \in Marks /\ comments \in 0..forge.comments
    /\ forge \in [ver : Nat, sha : Nat, reviews : Nat, comments : Nat,
                  red : BOOLEAN, merge : Merges]
    /\ posts \in 0..MaxPosts /\ acts \in 0..MaxActs
    /\ forge.reviews \in 1..(posts + 1) /\ forge.sha \in 1..(posts + 1)

-----------------------------------------------------------------------------
(* What each goroutine knows at its place.                                 *)

Mems == [inh : Seq(Items), seen : Seq(Items), from : SomeLabel, to : SomeLabel,
         cur : SomeRun]
Ending == {"consuming", "dropping", "finding", "writing", "moving", "swapping"}
RunsKnow ==
    /\ mem \in [Runs -> Mems]
    /\ \A r \in Runs :
        /\ phase[r] \in Ending \cup {"working"} => mem[r].from \in Labels
        /\ phase[r] \in Ending => mem[r].to \in Labels
        /\ phase[r] = "swapping" => mem[r].cur \in Used
        /\ phase[r] = "dropping" => IsPrefix(mem[r].inh, mem[r].seen)

StPlaces == {"idle", "claim", "escalate", "restore"}
StartsKnow ==
    /\ st \in [Starters -> [at : StPlaces, label : SomeLabel, held : SomeRun,
                            cur : SomeRun, fb : Seq(Items), run : SomeRun]]
    /\ \A s \in Starters :
        /\ st[s].at # "idle" => st[s].cur \in Used
        /\ st[s].at \in {"escalate", "restore"} => st[s].run \in Used

ReqPlaces == {"idle", "note", "move", "swap"}
RequestKnows ==
    /\ req \in [at : ReqPlaces, cur : SomeRun, from : SomeLabel, to : SomeLabel]
    /\ req.at \in {"note", "swap"} => req.cur \in Used
    /\ req.at # "idle" => req.to \in Labels
    /\ req.at = "note" => acts # 0

SyPlaces == {"idle", "snapped", "fetch", "append", "save", "move", "swap"}
SyncsKnow ==
    /\ sy \in [Syncs -> [at : SyPlaces, cur : SomeRun, label : SomeLabel,
                         head : Heads \cup {<<>>}, next : Marks \cup {<<>>},
                         parts : Seq(Posts), base : Seq(Items), changed : BOOLEAN,
                         from : SomeLabel]]
    /\ \A s, t \in Syncs : Locked(s) /\ Locked(t) => s = t
    /\ \A s \in Syncs :
        /\ sy[s].at \in {"snapped", "fetch", "append", "swap"} => sy[s].cur \in Used
        /\ sy[s].at \in {"snapped", "fetch"} => sy[s].label \in Labels
        /\ sy[s].at = "save" /\ sy[s].changed => sy[s].label \in Labels
        /\ sy[s].at = "append" => sy[s].label \in Labels
        /\ sy[s].at \in {"move", "swap"} => sy[s].label \in Labels /\ BackOf[sy[s].label] \in Labels
        /\ sy[s].at = "fetch" => sy[s].head \in Heads
        /\ sy[s].at \in {"append", "save"} => sy[s].next \in Marks
        /\ sy[s].at \notin {"append", "save"} => sy[s].parts = <<>>

Typed ==
    /\ TaskTyped /\ RowsTyped /\ HistoryTyped /\ ForgeTyped
    /\ RunsKnow /\ StartsKnow /\ RequestKnows /\ SyncsKnow

-----------------------------------------------------------------------------
(* The cursor: nothing is taken for seen that was not told.                *)

Telling(s) == sy[s].at \in {"append", "save"}
ToldUpTo(n) == \A k \in Trusted : k <= n => <<"review", k>> \in told
AllTold == comments = forge.comments /\ ToldUpTo(forge.reviews)

CursorBehind ==
    /\ cursor.ver <= forge.ver /\ cursor.sha <= forge.sha
    /\ cursor.review <= forge.reviews /\ ToldUpTo(cursor.review)
PassBehind(s) ==
    /\ sy[s].at = "fetch" =>
          /\ cursor.ver <= sy[s].head.ver /\ sy[s].head.ver <= forge.ver
          /\ cursor.sha <= sy[s].head.sha /\ sy[s].head.sha <= forge.sha
    /\ Telling(s) =>
          /\ sy[s].next.ver <= forge.ver
          /\ cursor.sha <= sy[s].next.sha /\ sy[s].next.sha <= forge.sha
          /\ cursor.review <= sy[s].next.review /\ sy[s].next.review <= forge.reviews
          /\ ToldUpTo(sy[s].next.review)
          /\ sy[s].next.ver = forge.ver => AllTold
    /\ sy[s].at = "append" =>
          \A i \in ToSet(sy[s].parts) : i[1] = "review" =>
              cursor.review < i[2] /\ cursor.ver < forge.ver
Behind == CursorBehind /\ \A s \in Syncs : PassBehind(s)

\* What was told is below the cursor, or below the one about to be saved.
Below(i, mark) ==
    /\ i[1] = "review" => i[2] <= mark.review
    /\ i[1] = "checks" => i[2] < mark.sha \/ (i[2] = mark.sha /\ mark.checks = i[2])
BelowCursor(i) == Below(i, cursor) \/ \E s \in Syncs : Telling(s) /\ i \in ToSet(sy[s].parts)
BelowNext(i) == \A s \in Syncs : Telling(s) => Below(i, sy[s].next)
Once == \A i \in Posts \cap (told \ unsaved) : BelowCursor(i) /\ BelowNext(i)

-----------------------------------------------------------------------------
(* Nothing that was told disappears.                                       *)

Gone == addressed \cup waived \cup Appending
KeptByStart ==
    \A s \in Starters : st[s].at = "claim" /\ st[s].cur = current =>
        On(current) \cap told \subseteq ToSet(st[s].fb) \cup Gone
KeptBySync ==
    \A s \in Syncs : sy[s].at = "append" =>
        ToSet(sy[s].base) \cap told \subseteq On(sy[s].cur) \cup Gone
Kept == KeptUntilAddressed /\ KeptByStart /\ KeptBySync

-----------------------------------------------------------------------------
(* Nothing that was addressed is told again.                               *)

\* Everything that is kept anywhere.
OnRows  == UNION {On(r) : r \in Runs}
InHand  == UNION {ToSet(mem[r].inh) : r \in Runs}
InBases == UNION {ToSet(sy[s].base) : s \in Syncs}
Texts   == OnRows \cup InHand \cup InFlight \cup addressed \cup InBases
Known == Texts \subseteq told \cup (again \cap unsaved)
FreshParts == Appending \subseteq told /\ Appending \cap Texts \subseteq again

\* A text that stands twice is told again.
OnceBut(q, A) == \A i, j \in DOMAIN q : q[i] = q[j] => i = j \/ q[i] \in A
Single(q) == OnceBut(q, again)
Singles ==
    /\ \A r \in Runs : Single(fb[r])
    /\ \A s \in Starters : st[s].at = "claim" => Single(st[s].fb)
    /\ \A s \in Syncs : sy[s].at = "append" => Single(sy[s].base) /\ Single(sy[s].parts)

\* The next note, and the findings of a run that has none yet, are new.
NewNotes ==
    \A n \in 1..MaxActs : <<"note", n>> \in told \cup again =>
        n <= acts /\ (req.at = "note" => n < acts)
NewFindings ==
    \A r \in Runs : <<"findings", r>> \in told \cup again =>
        phase[r] \in {"moving", "swapping", "waiting", "over"}

\* A start that could not run it is alone with the run it made.
Failing(s) == st[s].at \in {"escalate", "restore"}
Owned ==
    /\ \A s \in Starters :
          /\ st[s].at = "escalate" => phase[st[s].run] = "starting"
          /\ st[s].at = "restore" => phase[st[s].run] = "phantom"
    /\ \A s, t \in Starters : Failing(s) /\ Failing(t) /\ st[s].run = st[t].run => s = t

Covered(i) == \E r \in Runs : phase[r] \in {"consuming", "dropping"}
                              /\ i \in ToSet(mem[r].inh)
Stale == addressed \cap (On(current) \cup InFlight)
NotAgain == \A i \in Stale \ again : Covered(i)

Handed == Known /\ FreshParts /\ Singles /\ NewNotes /\ NewFindings /\ Owned /\ NotAgain

-----------------------------------------------------------------------------
(* Sequences of paragraphs.                                                *)

LEMMA SetOfSeq ==
    ASSUME NEW S, NEW q \in Seq(S)
    PROVE  ToSet(q) \subseteq S /\ DOMAIN q = 1..Len(q) /\ Len(q) \in Nat
BY DEF ToSet

LEMMA SetOfEmpty == ToSet(<<>>) = {}
BY DEF ToSet

LEMMA SetOfOne == \A x : ToSet(<<x>>) = {x} /\ DOMAIN <<x>> = {1} /\ <<x>>[1] = x
BY DEF ToSet

LEMMA SetOfBoth ==
    ASSUME NEW S, NEW p \in Seq(S), NEW q \in Seq(S)
    PROVE  p \o q \in Seq(S) /\ ToSet(p \o q) = ToSet(p) \cup ToSet(q)
<1>1. /\ p \o q \in Seq(S) /\ DOMAIN (p \o q) = 1..(Len(p) + Len(q))
      /\ \A i \in 1..(Len(p) + Len(q)) : (p \o q)[i] = IF i <= Len(p) THEN p[i] ELSE q[i - Len(p)]
  BY ConcatProperties
<1>2. DOMAIN p = 1..Len(p) /\ DOMAIN q = 1..Len(q) /\ Len(p) \in Nat /\ Len(q) \in Nat
  OBVIOUS
<1>3. ASSUME NEW x \in ToSet(p \o q) PROVE x \in ToSet(p) \cup ToSet(q)
  <2>1. PICK i \in 1..(Len(p) + Len(q)) : x = (p \o q)[i]
    BY <1>1, <1>3 DEF ToSet
  <2>2. CASE i <= Len(p)
    BY <1>1, <1>2, <2>1, <2>2 DEF ToSet
  <2>3. CASE ~(i <= Len(p))
    <3>1. x = q[i - Len(p)] /\ i - Len(p) \in DOMAIN q
      BY <1>1, <1>2, <2>1, <2>3
    <3> QED BY <3>1 DEF ToSet
  <2> QED BY <2>2, <2>3
<1>4. ASSUME NEW i \in DOMAIN p PROVE p[i] \in ToSet(p \o q)
  <2>1. i \in 1..(Len(p) + Len(q)) /\ (p \o q)[i] = p[i]
    BY <1>1, <1>2
  <2> QED BY <1>1, <2>1 DEF ToSet
<1>5. ASSUME NEW i \in DOMAIN q PROVE q[i] \in ToSet(p \o q)
  <2>1. i + Len(p) \in 1..(Len(p) + Len(q)) /\ ~(i + Len(p) <= Len(p)) /\ (i + Len(p)) - Len(p) = i
    BY <1>2
  <2>2. (p \o q)[i + Len(p)] = q[i]
    BY <1>1, <2>1
  <2> QED BY <1>1, <2>1, <2>2 DEF ToSet
<1>6. ToSet(p) \subseteq ToSet(p \o q) /\ ToSet(q) \subseteq ToSet(p \o q)
  <2>1. ASSUME NEW x \in ToSet(p) PROVE x \in ToSet(p \o q)
    <3>1. PICK i \in DOMAIN p : x = p[i]
      BY <2>1 DEF ToSet
    <3> QED BY <1>4, <3>1
  <2>2. ASSUME NEW x \in ToSet(q) PROVE x \in ToSet(p \o q)
    <3>1. PICK i \in DOMAIN q : x = q[i]
      BY <2>2 DEF ToSet
    <3> QED BY <1>5, <3>1
  <2> QED BY <2>1, <2>2
<1>7. ToSet(p \o q) \subseteq ToSet(p) \cup ToSet(q)
  BY <1>3
<1> QED BY <1>1, <1>6, <1>7

\* What is left of a text when the paragraphs that it starts with are taken off.
LEMMA SetOfRest ==
    ASSUME NEW S, NEW p \in Seq(S), NEW q \in Seq(S), IsPrefix(p, q)
    PROVE  LET rest == SubSeq(q, Len(p) + 1, Len(q)) IN
           /\ rest \in Seq(S)
           /\ ToSet(q) = ToSet(p) \cup ToSet(rest)
           /\ \A k \in DOMAIN rest : k + Len(p) \in DOMAIN q /\ rest[k] = q[k + Len(p)]
           /\ \A j \in DOMAIN p : j \in DOMAIN q /\ p[j] = q[j] /\ j <= Len(p)
           /\ DOMAIN rest \subseteq Nat \ {0} /\ Len(p) \in Nat
<1> DEFINE rest == SubSeq(q, Len(p) + 1, Len(q))
<1>1. /\ Len(p) \in Nat /\ Len(q) \in Nat /\ Len(p) <= Len(q)
      /\ DOMAIN p = 1..Len(p) /\ DOMAIN q = 1..Len(q)
      /\ SubSeq(p, 1, Len(p)) = SubSeq(q, 1, Len(p))
  BY DEF IsPrefix
<1>2. \A i \in 1..Len(p) : SubSeq(p, 1, Len(p))[i] = p[i] /\ SubSeq(q, 1, Len(p))[i] = q[i]
  <2>1. \A i \in 1..Len(p) : p[i] \in S /\ q[i] \in S
    BY <1>1
  <2>2. \A i \in 1..(Len(p) - 1 + 1) : SubSeq(p, 1, Len(p))[i] = p[1 + i - 1]
    BY <1>1, <2>1, SubSeqProperties
  <2>3. \A i \in 1..(Len(p) - 1 + 1) : SubSeq(q, 1, Len(p))[i] = q[1 + i - 1]
    BY <1>1, <2>1, SubSeqProperties
  <2> QED BY <1>1, <2>2, <2>3
<1>3. /\ rest \in Seq(S) /\ DOMAIN rest = 1..(Len(q) - Len(p))
      /\ \A k \in 1..(Len(q) - Len(p)) : rest[k] = q[k + Len(p)]
  <2>1. \A i \in (Len(p) + 1)..Len(q) : q[i] \in S
    BY <1>1
  <2>2. /\ rest \in Seq(S)
        /\ Len(rest) = IF Len(p) + 1 <= Len(q) THEN Len(q) - (Len(p) + 1) + 1 ELSE 0
        /\ \A i \in 1..(Len(q) - (Len(p) + 1) + 1) : rest[i] = q[(Len(p) + 1) + i - 1]
    BY <1>1, <2>1, SubSeqProperties
  <2>3. \A a, b \in Nat : a <= b =>
          b - (a + 1) + 1 = b - a /\ (~(a + 1 <= b) => b - a = 0)
    OBVIOUS
  <2> HIDE DEF rest
  <2>4. Len(rest) = Len(q) - Len(p)
    <3>1. CASE Len(p) + 1 <= Len(q)
      BY <1>1, <2>2, <2>3, <3>1
    <3>2. CASE ~(Len(p) + 1 <= Len(q))
      BY <1>1, <2>2, <2>3, <3>2
    <3> QED BY <3>1, <3>2
  <2>5. \A k \in 1..(Len(q) - Len(p)) : (Len(p) + 1) + k - 1 = k + Len(p)
    BY <1>1
  <2>6. DOMAIN rest = 1..(Len(q) - Len(p))
    BY <2>2, <2>4
  <2> QED BY <2>2, <2>3, <2>5, <2>6
<1> HIDE DEF rest
<1>4. \A k \in DOMAIN rest : k + Len(p) \in DOMAIN q /\ rest[k] = q[k + Len(p)]
  BY <1>1, <1>3
<1>5. \A j \in DOMAIN p : j \in DOMAIN q /\ p[j] = q[j] /\ j <= Len(p)
  BY <1>1, <1>2
<1>6. \A i \in DOMAIN q : i \in DOMAIN p \/ (i - Len(p) \in DOMAIN rest /\ rest[i - Len(p)] = q[i])
  BY <1>1, <1>3
<1>7. ToSet(q) = ToSet(p) \cup ToSet(rest)
  BY <1>4, <1>5, <1>6 DEF ToSet
<1> QED BY <1>1, <1>3, <1>4, <1>5, <1>7 DEF rest

\* A finite set as a sequence: every member once.
LEMMA SeqOfSet ==
    ASSUME NEW S, IsFiniteSet(S)
    PROVE  /\ SetToSeq(S) \in Seq(S) /\ ToSet(SetToSeq(S)) = S
           /\ \A i, j \in DOMAIN SetToSeq(S) : SetToSeq(S)[i] = SetToSeq(S)[j] => i = j
<1> DEFINE n == Cardinality(S)
<1>1. n \in Nat /\ ExistsBijection(1..n, S)
  BY FS_CardinalityType
<1>2. \E f \in [1..n -> S] : IsInjective(f)
  BY <1>1 DEF ExistsBijection, Bijection, Injection
<1>3. SetToSeq(S) \in [1..n -> S] /\ IsInjective(SetToSeq(S))
  BY <1>2 DEF SetToSeq
<1>4. IsFiniteSet(1..n) /\ Cardinality(1..n) = n
  BY <1>1, FS_Interval
<1>5. SetToSeq(S) \in Surjection(1..n, S)
  BY <1>3, <1>4, FS_Injection DEF Injection
<1>6. SetToSeq(S) \in Seq(S)
  BY <1>1, <1>3
<1>7. ToSet(SetToSeq(S)) = S
  BY <1>3, <1>5 DEF Surjection, ToSet
<1> QED BY <1>3, <1>6, <1>7 DEF IsInjective

-----------------------------------------------------------------------------
(* The constants, the items, and values at rest.                           *)

LEMMA ConstantFacts ==
    /\ Runs # {} /\ NoRun \notin Runs
    /\ NoLabel \notin Labels /\ FirstLabels \subseteq Labels
    /\ \A l \in Labels : {SuccessOf[l], FailureOf[l], BackOf[l]} \subseteq SomeLabel
    /\ \A m \in Moves : m[1] \in Labels /\ m[2] \in Labels
    /\ \A l, k : <<l, k>> \in Moves => l \in Labels /\ k \in Labels
    /\ Trusted \subseteq Nat \ {0}
    /\ MaxPasses \in Nat /\ MaxPosts \in Nat /\ MaxActs \in Nat
<1>1. /\ SuccessOf \in [Labels -> SomeLabel] /\ FailureOf \in [Labels -> SomeLabel]
      /\ BackOf \in [Labels -> SomeLabel]
  BY ConstantsAssumption DEF SomeLabel
<1>2. \A l \in Labels : {SuccessOf[l], FailureOf[l], BackOf[l]} \subseteq SomeLabel
  BY <1>1
<1> QED BY <1>2, ConstantsAssumption

LEMMA ItemFacts ==
    /\ Posts \subseteq Items
    /\ \A r \in Runs : <<"findings", r>> \in Items /\ <<"findings", r>> \notin Posts
    /\ \A n \in 1..MaxActs : <<"note", n>> \in Items /\ <<"note", n>> \notin Posts
    /\ \A n : <<"note", n>> \notin Posts
    /\ \A k \in 1..(MaxPosts + 1) : /\ <<"review", k>> \in Posts
                                    /\ <<"checks", k>> \in Posts
                                    /\ <<"conflict", k>> \in Posts
BY DEF Items, Posts

LEMMA IdleFacts ==
    /\ NoMem \in Mems
    /\ NoSt \in [at : StPlaces, label : SomeLabel, held : SomeRun, cur : SomeRun,
                 fb : Seq(Items), run : SomeRun]
    /\ NoReq \in [at : ReqPlaces, cur : SomeRun, from : SomeLabel, to : SomeLabel]
    /\ NoSync \in [at : SyPlaces, cur : SomeRun, label : SomeLabel,
                   head : Heads \cup {<<>>}, next : Marks \cup {<<>>},
                   parts : Seq(Posts), base : Seq(Items), changed : BOOLEAN,
                   from : SomeLabel]
<1>1. <<>> \in Seq(Items) /\ <<>> \in Seq(Posts)
  OBVIOUS
<1> QED BY <1>1 DEF NoMem, Mems, NoSt, StPlaces, NoReq, ReqPlaces, NoSync, SyPlaces, SomeRun,
           SomeLabel

-----------------------------------------------------------------------------
(* What a step leaves alone keeps its type.                                *)

LEMMA StartsFrame ==
    ASSUME StartsKnow, UNCHANGED st, Used \subseteq Used'
    PROVE  StartsKnow'
BY DEF StartsKnow

LEMMA RequestFrame ==
    ASSUME RequestKnows, UNCHANGED req, Used \subseteq Used', acts # 0 => acts' # 0
    PROVE  RequestKnows'
BY DEF RequestKnows

LEMMA SyncsFrame ==
    ASSUME SyncsKnow, UNCHANGED sy, Used \subseteq Used'
    PROVE  SyncsKnow'
BY DEF SyncsKnow, Locked

LEMMA ForgeFrame ==
    ASSUME ForgeTyped, UNCHANGED <<cursor, comments, forge, posts>>, acts' \in 0..MaxActs
    PROVE  ForgeTyped'
BY DEF ForgeTyped

LEMMA RunsFrame ==
    ASSUME RunsKnow, UNCHANGED <<phase, mem>>
    PROVE  RunsKnow' /\ Used' = Used
BY DEF RunsKnow, Used

\* One run goes on to phase p with m in its memory.
LEMMA RunsStep ==
    ASSUME RunsKnow, phase \in [Runs -> Phases], NEW r \in Used,
           NEW p \in Phases \ {"none"}, NEW m \in Mems,
           phase' = [phase EXCEPT ![r] = p], mem' = [mem EXCEPT ![r] = m],
           p \in Ending \cup {"working"} => m.from \in Labels,
           p \in Ending => m.to \in Labels,
           p = "swapping" => m.cur \in Used,
           p = "dropping" => IsPrefix(m.inh, m.seen)
    PROVE  RunsKnow' /\ Used' = Used /\ phase' \in [Runs -> Phases]
<1>1. r \in Runs /\ mem \in [Runs -> Mems]
  BY DEF Used, RunsKnow
<1>2. /\ phase' \in [Runs -> Phases] /\ mem' \in [Runs -> Mems]
      /\ phase'[r] = p /\ mem'[r] = m
      /\ \A q \in Runs \ {r} : phase'[q] = phase[q] /\ mem'[q] = mem[q]
  BY <1>1
<1>3. Used' = Used
  BY <1>2 DEF Used
<1>4. ASSUME NEW q \in Runs
      PROVE  /\ phase'[q] \in Ending \cup {"working"} => mem'[q].from \in Labels
             /\ phase'[q] \in Ending => mem'[q].to \in Labels
             /\ phase'[q] = "swapping" => mem'[q].cur \in Used'
             /\ phase'[q] = "dropping" => IsPrefix(mem'[q].inh, mem'[q].seen)
  <2>1. CASE q = r
    BY <1>2, <1>3, <2>1
  <2>2. CASE q # r
    BY <1>2, <1>3, <2>2 DEF RunsKnow
  <2> QED BY <2>1, <2>2
<1> QED BY <1>2, <1>3, <1>4 DEF RunsKnow

\* What stands in a row, or was handed to a run, are items.
LEMMA TextsAreItems ==
    ASSUME Typed
    PROVE  /\ \A r \in Runs : On(r) \subseteq Items /\ ToSet(mem[r].inh) \subseteq Items
           /\ InFlight \subseteq Items /\ Appending \subseteq Posts
           /\ \A s \in Syncs : ToSet(sy[s].base) \subseteq Items /\ ToSet(sy[s].parts) \subseteq Posts
<1>1. \A r \in Runs : fb[r] \in Seq(Items) /\ mem[r].inh \in Seq(Items)
  BY DEF Typed, RowsTyped, RunsKnow, Mems
<1>2. \A s \in Starters : st[s].fb \in Seq(Items)
  BY DEF Typed, StartsKnow
<1>3. \A s \in Syncs : sy[s].base \in Seq(Items) /\ sy[s].parts \in Seq(Posts)
  BY DEF Typed, SyncsKnow
<1>4. \A s \in Starters : ToSet(st[s].fb) \subseteq Items
  BY <1>2, SetOfSeq
<1>5. \A s \in Syncs : ToSet(sy[s].base) \subseteq Items /\ ToSet(sy[s].parts) \subseteq Posts
  BY <1>3, SetOfSeq
<1>6. \A r \in Runs : On(r) \subseteq Items /\ ToSet(mem[r].inh) \subseteq Items
  BY <1>1, SetOfSeq DEF On
<1> QED BY <1>4, <1>5, <1>6 DEF InFlight, Appending

LEMMA PutBackTypes ==
    ASSUME Typed, NEW r \in Used, PutBack(r)
    PROVE  current' = r /\ waived' \subseteq Items /\ again' \subseteq Items
<1>1. On(r) \subseteq Items /\ On(current) \subseteq Items
  BY TextsAreItems DEF Typed, TaskTyped, Used
<1>2. waived \subseteq Items /\ again \subseteq Items
  BY DEF Typed, HistoryTyped
<1> QED BY <1>1, <1>2 DEF PutBack

\* The steps of a run.
LEMMA RunTyped ==
    ASSUME Typed, NEW r \in Runs, Run(r)
    PROVE  Typed'
<1>0. /\ RunsKnow /\ phase \in [Runs -> Phases] /\ label \in Labels /\ current \in Used
      /\ active \in Used \cup {NoRun} /\ RowsTyped /\ HistoryTyped
      /\ mem[r] \in Mems /\ acts \in 0..MaxActs /\ mem \in [Runs -> Mems]
  BY DEF Typed, TaskTyped, RunsKnow, ForgeTyped
<1>1. /\ UNCHANGED <<cursor, comments, sy, forge, st, req, passes, posts, acts>>
      /\ phase[r] \in Ending \cup {"working"}
  BY DEF Run, Succeed, Fail, Ask, Die, ConsumeRead, ConsumeSwap, FindsInPlace, WriteFindings,
     LoopExceeded, RunMoveRead, RunMove, RunGivesUp, MoveTask, syncVars, bounds, Ending
<1>2. r \in Used
  BY <1>1 DEF Used, Ending
<1> DEFINE Good(p, m) ==
      /\ p \in Phases \ {"none"} /\ m \in Mems
      /\ phase' = [phase EXCEPT ![r] = p] /\ mem' = [mem EXCEPT ![r] = m]
      /\ p \in Ending \cup {"working"} => m.from \in Labels
      /\ p \in Ending => m.to \in Labels
      /\ p = "swapping" => m.cur \in Used
      /\ p = "dropping" => IsPrefix(m.inh, m.seen)
<1>3. ASSUME NEW p, NEW m, Good(p, m), RowsTyped', HistoryTyped',
             label' \in Labels, active' \in Used \cup {NoRun}, current' \in Used
      PROVE  Typed'
  <2>1. RunsKnow' /\ Used' = Used /\ phase' \in [Runs -> Phases]
    BY <1>0, <1>2, <1>3, RunsStep
  <2>2. StartsKnow' /\ RequestKnows' /\ SyncsKnow' /\ ForgeTyped'
    BY <1>0, <1>1, <2>1, StartsFrame, RequestFrame, SyncsFrame, ForgeFrame DEF Typed
  <2> QED BY <1>3, <2>1, <2>2 DEF Typed, TaskTyped
<1>4. /\ On(r) \subseteq Items /\ ToSet(mem[r].inh) \subseteq Items
      /\ \A l \in Labels : {SuccessOf[l], FailureOf[l]} \subseteq SomeLabel
      /\ mem[r].from \in Labels
      /\ phase[r] # "working" => mem[r].to \in Labels
  BY <1>0, <1>1, TextsAreItems, ConstantFacts DEF RunsKnow
<1>5. ASSUME Succeed(r) PROVE Typed'
  <2> DEFINE p == IF mem[r].inh = <<>> THEN "moving" ELSE "consuming"
             m == [mem[r] EXCEPT !.to = SuccessOf[mem[r].from]]
  <2>1. SuccessOf[mem[r].from] \in Labels
    BY <1>4, <1>5 DEF Succeed, SomeLabel
  <2>2. m \in Mems /\ m.from = mem[r].from /\ m.to = SuccessOf[mem[r].from]
    BY <1>0, <2>1 DEF Mems, SomeLabel
  <2>3. mem' = [mem EXCEPT ![r] = m] /\ phase' = [phase EXCEPT ![r] = p]
    BY <1>0, <1>5 DEF Succeed
  <2>4. p \in Phases \ {"none"} /\ p # "swapping" /\ p # "dropping"
    BY DEF Phases
  <2> HIDE DEF p, m
  <2>5. Good(p, m)
    BY <1>4, <2>1, <2>2, <2>3, <2>4
  <2>6. RowsTyped' /\ HistoryTyped' /\ UNCHANGED <<label, active, current>>
    BY <1>0, <1>4, <1>5 DEF Succeed, RowsTyped, HistoryTyped, taskVars
  <2> HIDE DEF Good
  <2> QED BY <1>0, <1>3, <2>5, <2>6
<1>6. ASSUME Fail(r) PROVE Typed'
  <2>1. PICK p \in {"finding", "moving"} : phase' = [phase EXCEPT ![r] = p]
    BY <1>6 DEF Fail
  <2> DEFINE m == [mem[r] EXCEPT !.to = FailureOf[mem[r].from]]
  <2>2. FailureOf[mem[r].from] \in Labels
    BY <1>4, <1>6 DEF Fail, SomeLabel
  <2>3. m \in Mems /\ m.from = mem[r].from /\ m.to = FailureOf[mem[r].from]
    BY <1>0, <2>2 DEF Mems, SomeLabel
  <2>4. mem' = [mem EXCEPT ![r] = m]
    BY <1>0, <1>6 DEF Fail
  <2> HIDE DEF m
  <2>5. Good(p, m)
    BY <1>4, <2>1, <2>2, <2>3, <2>4 DEF Phases
  <2>6. RowsTyped' /\ HistoryTyped' /\ UNCHANGED <<label, active, current>>
    BY <1>0, <1>6 DEF Fail, RowsTyped, HistoryTyped, taskVars, history
  <2> HIDE DEF Good
  <2> QED BY <1>0, <1>3, <2>5, <2>6
<1>7. ASSUME Ask(r) \/ LoopExceeded(r) PROVE Typed'
  <2>1. Good("waiting", NoMem)
    BY <1>7, IdleFacts DEF Ask, LoopExceeded, Phases, Ending
  <2>2. RowsTyped' /\ HistoryTyped' /\ UNCHANGED <<label, active, current>>
    BY <1>0, <1>7 DEF Ask, LoopExceeded, RowsTyped, HistoryTyped, taskVars, history
  <2> HIDE DEF Good
  <2> QED BY <1>0, <1>3, <2>1, <2>2
<1>8. ASSUME Die(r) \/ RunGivesUp(r) PROVE Typed'
  <2>1. Good("over", NoMem)
    BY <1>8, IdleFacts DEF Die, RunGivesUp, Phases, Ending
  <2>2. RowsTyped' /\ HistoryTyped' /\ UNCHANGED <<label, current>>
    BY <1>0, <1>8 DEF Die, RunGivesUp, RowsTyped, HistoryTyped, history
  <2>3. active' \in {active, NoRun}
    BY <1>8 DEF Die, RunGivesUp, Release
  <2> HIDE DEF Good
  <2> QED BY <1>0, <1>3, <2>1, <2>2, <2>3
<1>9. ASSUME ConsumeRead(r) PROVE Typed'
  <2> DEFINE mine == IsPrefix(mem[r].inh, fb[r])
             p == IF mine THEN "dropping" ELSE "moving"
             m == [mem[r] EXCEPT !.seen = IF mine THEN fb[r] ELSE <<>>]
  <2>1. fb[r] \in Seq(Items) /\ <<>> \in Seq(Items)
    BY <1>0 DEF RowsTyped
  <2>2. m \in Mems /\ m.from = mem[r].from /\ m.to = mem[r].to /\ m.inh = mem[r].inh
        /\ (mine => m.seen = fb[r])
    BY <1>0, <2>1 DEF Mems
  <2>3. mem' = [mem EXCEPT ![r] = m] /\ phase' = [phase EXCEPT ![r] = p]
    BY <1>0, <1>9 DEF ConsumeRead
  <2>4. /\ p \in Phases \ {"none"} /\ p # "swapping" /\ (p = "dropping" => mine)
        /\ phase[r] # "working"
    BY <1>9 DEF Phases, ConsumeRead
  <2>5. p = "dropping" => IsPrefix(m.inh, m.seen)
    BY <2>2, <2>4
  <2> HIDE DEF p, m, mine
  <2>6. Good(p, m)
    BY <1>4, <2>2, <2>3, <2>4, <2>5
  <2>7. RowsTyped' /\ HistoryTyped' /\ UNCHANGED <<label, active, current>>
    BY <1>0, <1>4, <1>9 DEF ConsumeRead, RowsTyped, HistoryTyped, taskVars
  <2> HIDE DEF Good
  <2> QED BY <1>0, <1>3, <2>6, <2>7
<1>10. ASSUME ConsumeSwap(r) PROVE Typed'
  <2> DEFINE m == [mem[r] EXCEPT !.seen = <<>>]
  <2>1. m \in Mems /\ m.from = mem[r].from /\ m.to = mem[r].to
    <3>1. <<>> \in Seq(Items)
      OBVIOUS
    <3> QED BY <1>0, <3>1 DEF Mems
  <2>2. mem' = [mem EXCEPT ![r] = m] /\ phase' = [phase EXCEPT ![r] = "moving"]
        /\ phase[r] = "dropping" /\ UNCHANGED <<label, active, current>>
    BY <1>0, <1>10 DEF ConsumeSwap, taskVars
  <2>3. Rest(r) \in Seq(Items)
    <3>1. mem[r].inh \in Seq(Items) /\ mem[r].seen \in Seq(Items)
      BY <1>0 DEF Mems
    <3>2. IsPrefix(mem[r].inh, mem[r].seen)
      BY <1>0, <2>2 DEF RunsKnow
    <3> QED BY <3>1, <3>2, SetOfRest DEF Rest
  <2>4. RowsTyped'
    <3>1. fb' = fb \/ fb' = [fb EXCEPT ![r] = Rest(r)]
      BY <1>10 DEF ConsumeSwap
    <3> QED BY <1>0, <2>3, <3>1 DEF RowsTyped
  <2>5. HistoryTyped'
    <3>1. /\ again' \subseteq again \cup ToSet(mem[r].inh)
          /\ waived' \subseteq waived \cup ToSet(mem[r].inh)
          /\ UNCHANGED <<told, addressed, unsaved>>
      BY <1>10 DEF ConsumeSwap
    <3> QED BY <1>0, <1>4, <3>1 DEF HistoryTyped
  <2> HIDE DEF m
  <2>6. Good("moving", m)
    BY <1>4, <2>1, <2>2 DEF Phases
  <2> HIDE DEF Good
  <2> QED BY <1>0, <1>3, <2>2, <2>4, <2>5, <2>6
<1>11. ASSUME FindsInPlace(r) PROVE Typed'
  <2>1. Good("writing", mem[r])
    BY <1>0, <1>4, <1>11 DEF FindsInPlace, Phases
  <2>2. RowsTyped' /\ HistoryTyped' /\ UNCHANGED <<label, active, current>>
    BY <1>0, <1>11 DEF FindsInPlace, RowsTyped, HistoryTyped, taskVars, history
  <2> HIDE DEF Good
  <2> QED BY <1>0, <1>3, <2>1, <2>2
<1>12. ASSUME WriteFindings(r) PROVE Typed'
  <2>1. Good("moving", mem[r])
    BY <1>0, <1>4, <1>12 DEF WriteFindings, Phases
  <2>2. <<"findings", r>> \in Items
    BY ItemFacts
  <2>3. RowsTyped'
    <3> DEFINE note == <<"findings", r>>
    <3>1. fb' = [fb EXCEPT ![r] = <<note>>]
      BY <1>12 DEF WriteFindings
    <3> HIDE DEF note
    <3>2. <<note>> \in Seq(Items)
      BY <2>2 DEF note
    <3> QED BY <1>0, <3>1, <3>2 DEF RowsTyped
  <2>4. HistoryTyped' /\ UNCHANGED <<label, active, current>>
    <3>1. /\ told' = told \cup {<<"findings", r>>}
          /\ waived' \subseteq waived \cup On(r) \cup {<<"findings", r>>}
          /\ UNCHANGED <<label, active, current, addressed, again, unsaved>>
      BY <1>12 DEF WriteFindings, taskVars
    <3> QED BY <1>0, <1>4, <2>2, <3>1 DEF HistoryTyped
  <2> HIDE DEF Good
  <2> QED BY <1>0, <1>3, <2>1, <2>3, <2>4
<1>13. ASSUME RunMoveRead(r) PROVE Typed'
  <2> DEFINE m == [mem[r] EXCEPT !.cur = current]
  <2>1. m \in Mems /\ m.from = mem[r].from /\ m.to = mem[r].to /\ m.cur = current
    BY <1>0 DEF Mems, SomeRun, Used
  <2>2. mem' = [mem EXCEPT ![r] = m] /\ phase' = [phase EXCEPT ![r] = "swapping"]
        /\ phase[r] = "moving"
    BY <1>0, <1>13 DEF RunMoveRead
  <2> HIDE DEF m
  <2>3. Good("swapping", m)
    BY <1>0, <1>4, <2>1, <2>2 DEF Phases
  <2>4. RowsTyped' /\ HistoryTyped' /\ UNCHANGED <<label, active, current>>
    BY <1>0, <1>13 DEF RunMoveRead, RowsTyped, HistoryTyped, taskVars, history
  <2> HIDE DEF Good
  <2> QED BY <1>0, <1>3, <2>3, <2>4
<1>14. ASSUME RunMove(r) PROVE Typed'
  <2>1. PICK c \in Used : c = mem[r].cur
    BY <1>0, <1>14 DEF RunMove, RunsKnow
  <2>2. PutBack(c) /\ label' = mem[r].to /\ active' = NoRun
    BY <1>14, <2>1 DEF RunMove, MoveTask
  <2>3. current' = c /\ waived' \subseteq Items /\ again' \subseteq Items
    BY <2>2, PutBackTypes
  <2>4. RowsTyped' /\ HistoryTyped'
    BY <1>0, <1>14, <2>3 DEF RunMove, RowsTyped, HistoryTyped
  <2>5. Good("over", NoMem) /\ phase[r] # "working"
    BY <1>14, IdleFacts DEF RunMove, Phases, Ending
  <2> HIDE DEF Good
  <2> QED BY <1>3, <1>4, <2>2, <2>3, <2>4, <2>5
<1> QED BY <1>5, <1>6, <1>7, <1>8, <1>9, <1>10, <1>11, <1>12, <1>13, <1>14 DEF Run

\* The starts.
LEMMA StartTyped ==
    ASSUME Typed, NEW s \in Starters, SweepRead \/ ReplyRead \/ Start(s)
    PROVE  Typed'
<1> DEFINE Sts == [at : StPlaces, label : SomeLabel, held : SomeRun, cur : SomeRun,
                   fb : Seq(Items), run : SomeRun]
           Fits(x) == /\ x \in Sts
                      /\ x.at # "idle" => x.cur \in Used'
                      /\ x.at \in {"escalate", "restore"} => x.run \in Used'
<1>0. /\ RunsKnow /\ StartsKnow /\ phase \in [Runs -> Phases] /\ label \in Labels /\ current \in Used
      /\ active \in Used \cup {NoRun} /\ RowsTyped /\ HistoryTyped /\ acts \in 0..MaxActs
      /\ st \in [Starters -> Sts] /\ mem \in [Runs -> Mems]
      /\ \A r \in Used : r \in Runs
  BY DEF Typed, TaskTyped, RunsKnow, ForgeTyped, StartsKnow, Used
<1>1. \A c \in Starters : st[c].fb \in Seq(Items) /\ (st[c].at # "idle" => st[c].cur \in Used)
                         /\ (st[c].at \in {"escalate", "restore"} => st[c].run \in Used)
  BY <1>0 DEF StartsKnow
<1>2. ASSUME UNCHANGED <<cursor, comments, sy, forge, req, posts>>, acts' \in 0..MaxActs,
             acts # 0 => acts' # 0,
             RunsKnow', Used \subseteq Used', phase' \in [Runs -> Phases],
             NEW c \in Starters, NEW x, st' = [st EXCEPT ![c] = x], Fits(x),
             RowsTyped', HistoryTyped',
             label' \in Labels, active' \in Used' \cup {NoRun}, current' \in Used'
      PROVE  Typed'
  <2>1. StartsKnow'
    <3>1. st' \in [Starters -> Sts] /\ st'[c] = x /\ \A y \in Starters \ {c} : st'[y] = st[y]
      BY <1>0, <1>2
    <3>2. ASSUME NEW y \in Starters
          PROVE  /\ st'[y].at # "idle" => st'[y].cur \in Used'
                 /\ st'[y].at \in {"escalate", "restore"} => st'[y].run \in Used'
      <4>1. CASE y = c
        BY <1>2, <3>1, <4>1
      <4>2. CASE y # c
        BY <1>1, <1>2, <3>1, <4>2
      <4> QED BY <4>1, <4>2
    <3> QED BY <3>1, <3>2 DEF StartsKnow
  <2>2. RequestKnows' /\ SyncsKnow' /\ ForgeTyped'
    BY <1>2, RequestFrame, SyncsFrame, ForgeFrame DEF Typed
  <2> QED BY <1>2, <2>1, <2>2 DEF Typed, TaskTyped
<1>3. ASSUME NEW c \in Starters, NEW held \in SomeRun, Read(c, held),
             acts' \in 0..MaxActs, acts # 0 => acts' # 0
      PROVE  Typed'
  <2> DEFINE x == [NoSt EXCEPT !.at = "claim", !.label = label, !.held = held,
                               !.cur = current, !.fb = fb[current]]
  <2>1. UNCHANGED <<label, active, current, fb, cursor, comments, sy, forge, phase, mem, req,
                    passes, posts, told, addressed, waived, again, unsaved>>
        /\ st' = [st EXCEPT ![c] = x]
    BY <1>3 DEF Read, taskVars, syncVars, history
  <2>2. RunsKnow' /\ Used' = Used
    BY <1>0, <2>1, RunsFrame
  <2>3. fb[current] \in Seq(Items) /\ current \in SomeRun /\ label \in SomeLabel
    BY <1>0 DEF RowsTyped, SomeRun, SomeLabel
  <2>4. x \in Sts /\ x.at = "claim" /\ x.cur = current
    BY <2>3, IdleFacts DEF NoSt, StPlaces
  <2>5. Fits(x)
    BY <1>0, <2>2, <2>4
  <2>6. RowsTyped' /\ HistoryTyped'
    BY <1>0, <2>1 DEF RowsTyped, HistoryTyped
  <2> HIDE DEF x, Fits, Sts
  <2> QED BY <1>0, <1>2, <1>3, <2>1, <2>2, <2>5, <2>6
<1>4. ASSUME SweepRead PROVE Typed'
  <2>1. "sweep" \in Starters /\ NoRun \in SomeRun /\ Read("sweep", NoRun) /\ acts' = acts
    BY <1>4 DEF SweepRead, Starters, SomeRun
  <2> QED BY <1>0, <1>3, <2>1
<1>5. ASSUME ReplyRead PROVE Typed'
  <2>1. "reply" \in Starters /\ active \in SomeRun /\ Read("reply", active)
    BY <1>0, <1>5 DEF ReplyRead, Starters, SomeRun
  <2>2. acts' \in 0..MaxActs /\ (acts # 0 => acts' # 0)
    BY <1>0, <1>5, ConstantFacts DEF ReplyRead, Asked
  <2> QED BY <1>3, <2>1, <2>2
<1>6. ASSUME NEW runs \in BOOLEAN, Claim(s, runs) PROVE Typed'
  <2>1. PICK r \in Unused :
         /\ fb' = [fb EXCEPT ![r] = st[s].fb]
         /\ mem' = [mem EXCEPT ![r] = [NoMem EXCEPT !.inh = st[s].fb, !.from = label]]
         /\ phase' = [phase EXCEPT ![r] = IF runs THEN "working" ELSE "starting"]
         /\ current' = r /\ active' = r
         /\ st' = [st EXCEPT ![s] = IF runs THEN NoSt
                        ELSE [NoSt EXCEPT !.at = "escalate", !.cur = st[s].cur,
                                          !.run = r]]
    BY <1>6 DEF Claim, Copy
  <2> DEFINE x == IF runs THEN NoSt ELSE [NoSt EXCEPT !.at = "escalate", !.cur = st[s].cur, !.run = r]
             m == [NoMem EXCEPT !.inh = st[s].fb, !.from = label]
             p == IF runs THEN "working" ELSE "starting"
  <2>2. r \in Runs /\ phase[r] = "none"
    BY <2>1 DEF Unused
  <2>3. UNCHANGED <<label, cursor, comments, sy, forge, req, posts, acts>>
    BY <1>6 DEF Claim, syncVars, bounds
  <2>4. m \in Mems /\ m.from = label
    <3>1. st[s].fb \in Seq(Items) /\ label \in SomeLabel
      BY <1>0, <1>1 DEF SomeLabel
    <3> QED BY <3>1, IdleFacts DEF NoMem, Mems
  <2>5. p \in Phases \ {"none"} /\ p \notin Ending
    BY DEF Phases, Ending
  <2>6. /\ \A q \in Runs \ {r} : phase'[q] = phase[q] /\ mem'[q] = mem[q]
        /\ phase'[r] = p /\ mem'[r] = m
        /\ phase' \in [Runs -> Phases] /\ mem' \in [Runs -> Mems]
    BY <1>0, <2>1, <2>2, <2>4, <2>5
  <2>7. Used \subseteq Used' /\ r \in Used'
    BY <2>2, <2>5, <2>6 DEF Used
  <2>8. RunsKnow'
    <3>1. ASSUME NEW q \in Runs
          PROVE  /\ phase'[q] \in Ending \cup {"working"} => mem'[q].from \in Labels
                 /\ phase'[q] \in Ending => mem'[q].to \in Labels
                 /\ phase'[q] = "swapping" => mem'[q].cur \in Used'
                 /\ phase'[q] = "dropping" => IsPrefix(mem'[q].inh, mem'[q].seen)
      <4>1. CASE q = r
        BY <1>0, <2>4, <2>5, <2>6, <4>1 DEF Ending
      <4>2. CASE q # r
        BY <1>0, <2>6, <2>7, <4>2 DEF RunsKnow
      <4> QED BY <4>1, <4>2
    <3> QED BY <2>6, <3>1 DEF RunsKnow
  <2>9. Fits(x)
    <3>1. CASE runs
      BY <3>1, IdleFacts DEF NoSt
    <3>2. CASE ~runs
      <4>1. st[s].cur \in Used
        BY <1>1, <1>6 DEF Claim
      <4>2. st[s].cur \in SomeRun /\ r \in SomeRun
        BY <2>2, <4>1 DEF SomeRun, Used
      <4>3. x \in Sts /\ x.cur = st[s].cur /\ x.run = r
        BY <3>2, <4>2, IdleFacts DEF NoSt, StPlaces
      <4> QED BY <2>7, <4>1, <4>3
    <3> QED BY <3>1, <3>2
  <2>10. RowsTyped'
    BY <1>0, <1>1, <2>1 DEF RowsTyped
  <2>11. HistoryTyped'
    <3>1. On(current) \subseteq Items
      BY <1>0, TextsAreItems
    <3> QED BY <1>0, <1>6, <3>1 DEF Claim, HistoryTyped
  <2>12. st' = [st EXCEPT ![s] = x]
    BY <2>1
  <2> HIDE DEF x, Fits, Sts, m, p
  <2> QED BY <1>0, <1>2, <2>1, <2>3, <2>6, <2>7, <2>8, <2>9, <2>10, <2>11, <2>12
<1>7. ASSUME Conflict(s) PROVE Typed'
  <2>1. UNCHANGED <<label, active, current, fb, cursor, comments, sy, forge, phase, mem, req,
                    passes, posts, acts, told, addressed, waived, again, unsaved>>
        /\ st' = [st EXCEPT ![s] = NoSt]
    BY <1>7 DEF Conflict, taskVars, syncVars, history, bounds
  <2>2. RunsKnow' /\ Used' = Used
    BY <1>0, <2>1, RunsFrame
  <2>3. Fits(NoSt)
    BY IdleFacts DEF NoSt
  <2>4. RowsTyped' /\ HistoryTyped'
    BY <1>0, <2>1 DEF RowsTyped, HistoryTyped
  <2> HIDE DEF Fits, Sts
  <2> QED BY <1>0, <1>2, <2>1, <2>2, <2>3, <2>4
<1>8. ASSUME Escalate(s) PROVE Typed'
  <2> DEFINE x == [st[s] EXCEPT !.at = "restore"]
  <2>1. UNCHANGED <<label, active, current, fb, cursor, comments, sy, forge, mem, req,
                    passes, posts, acts, told, addressed, waived, again, unsaved>>
        /\ st' = [st EXCEPT ![s] = x]
    BY <1>0, <1>8 DEF Escalate, taskVars, syncVars, history, bounds
  <2>2. PICK r \in Used : r = st[s].run
    BY <1>1, <1>8 DEF Escalate
  <2>3. phase' = [phase EXCEPT ![r] = "phantom"] /\ mem' = [mem EXCEPT ![r] = mem[r]]
    BY <1>0, <1>8, <2>1, <2>2 DEF Escalate
  <2>4. "phantom" \in Phases \ {"none"} /\ "phantom" \notin Ending \cup {"working"} /\ mem[r] \in Mems
    BY <1>0 DEF Phases, Ending
  <2>5. RunsKnow' /\ Used' = Used /\ phase' \in [Runs -> Phases]
    BY <1>0, <2>3, <2>4, RunsStep DEF Ending
  <2>6. x \in Sts /\ x.cur = st[s].cur /\ x.run = st[s].run /\ st[s].at = "escalate"
    BY <1>0, <1>8 DEF StPlaces, Escalate
  <2>7. Fits(x)
    BY <1>1, <2>5, <2>6
  <2>8. RowsTyped' /\ HistoryTyped'
    BY <1>0, <2>1 DEF RowsTyped, HistoryTyped
  <2> HIDE DEF Fits, Sts, x
  <2> QED BY <1>0, <1>2, <2>1, <2>5, <2>7, <2>8
<1>9. ASSUME Restore(s) PROVE Typed'
  <2>1. PICK r \in Used, c \in Used : r = st[s].run /\ c = st[s].cur
    BY <1>1, <1>9 DEF Restore
  <2>2. /\ UNCHANGED <<label, fb, cursor, comments, sy, forge, req, posts, acts, told, addressed,
                       unsaved>>
        /\ st' = [st EXCEPT ![s] = NoSt] /\ active' = r /\ PutBack(c)
        /\ phase' = [phase EXCEPT ![r] = "waiting"] /\ mem' = [mem EXCEPT ![r] = NoMem]
    BY <1>9, <2>1 DEF Restore, syncVars, bounds
  <2>3. "waiting" \in Phases \ {"none"} /\ "waiting" \notin Ending \cup {"working"}
    BY DEF Phases, Ending
  <2>4. RunsKnow' /\ Used' = Used /\ phase' \in [Runs -> Phases]
    BY <1>0, <2>2, <2>3, IdleFacts, RunsStep DEF Ending
  <2>5. current' = c /\ waived' \subseteq Items /\ again' \subseteq Items
    BY <2>2, PutBackTypes
  <2>6. RowsTyped' /\ HistoryTyped'
    BY <1>0, <2>2, <2>5 DEF RowsTyped, HistoryTyped
  <2>7. Fits(NoSt)
    BY IdleFacts DEF NoSt
  <2> HIDE DEF Fits, Sts
  <2> QED BY <1>0, <1>2, <2>2, <2>4, <2>5, <2>6, <2>7
<1> QED BY <1>4, <1>5, <1>6, <1>7, <1>8, <1>9 DEF Start

\* The requests of people.
LEMMA PeopleTyped ==
    ASSUME Typed, People
    PROVE  Typed'
<1> DEFINE Reqs == [at : ReqPlaces, cur : SomeRun, from : SomeLabel, to : SomeLabel]
<1>0. /\ RunsKnow /\ StartsKnow /\ SyncsKnow /\ RequestKnows /\ ForgeTyped
      /\ phase \in [Runs -> Phases] /\ label \in Labels /\ current \in Used
      /\ active \in Used \cup {NoRun} /\ RowsTyped /\ HistoryTyped /\ acts \in 0..MaxActs
      /\ req \in Reqs
  BY DEF Typed, TaskTyped, ForgeTyped, RequestKnows
<1>1. UNCHANGED <<cursor, comments, sy, forge, phase, mem, st, posts>>
      /\ acts' \in 0..MaxActs /\ (acts # 0 => acts' # 0)
  <2>1. Asked => acts' \in 0..MaxActs /\ acts' # 0
    BY <1>0, ConstantFacts DEF Asked
  <2>2. /\ UNCHANGED <<cursor, comments, sy, forge, phase, mem, st, posts>>
        /\ Asked \/ acts' = acts
    BY DEF People, RejectRead, RejectNote, MoveRequest, ReqMoveRead, ReqMove, Rerun,
       syncVars, goVars, bounds
  <2> QED BY <1>0, <2>1, <2>2
<1>2. RunsKnow' /\ Used' = Used /\ StartsKnow' /\ SyncsKnow' /\ ForgeTyped'
  BY <1>0, <1>1, RunsFrame, StartsFrame, SyncsFrame, ForgeFrame
<1>3. ASSUME RequestKnows', RowsTyped', HistoryTyped',
             label' \in Labels, active' \in Used \cup {NoRun}, current' \in Used
      PROVE  Typed'
  BY <1>0, <1>1, <1>2, <1>3 DEF Typed, TaskTyped
<1>4. NoReq \in Reqs /\ NoReq.at = "idle" /\ current \in SomeRun /\ label \in SomeLabel
  BY <1>0, IdleFacts DEF NoReq, SomeRun, SomeLabel, Used
<1>5. ASSUME RejectRead PROVE Typed'
  <2>1. BackOf[label] \in Labels
    BY <1>0, <1>5, ConstantFacts DEF RejectRead, SomeLabel
  <2>2. req' = [NoReq EXCEPT !.at = "note", !.cur = current, !.to = BackOf[label]]
    BY <1>5 DEF RejectRead
  <2>3. req' \in Reqs /\ req'.at = "note" /\ req'.cur = current /\ req'.to = BackOf[label]
    BY <1>4, <2>1, <2>2 DEF NoReq, ReqPlaces, SomeLabel
  <2>4. acts' # 0
    BY <1>0, <1>5 DEF RejectRead, Asked
  <2>5. RequestKnows'
    BY <1>0, <1>2, <2>1, <2>3, <2>4 DEF RequestKnows
  <2>6. RowsTyped' /\ HistoryTyped' /\ UNCHANGED <<label, active, current>>
    BY <1>0, <1>5 DEF RejectRead, RowsTyped, HistoryTyped, taskVars, history
  <2> QED BY <1>0, <1>3, <2>5, <2>6
<1>6. ASSUME RejectNote PROVE Typed'
  <2>1. /\ req.cur \in Used /\ req.to \in Labels /\ acts \in 1..MaxActs
        /\ \A r \in Used : r \in Runs
    BY <1>0, <1>6 DEF RejectNote, RequestKnows, Used
  <2>2. req' = [req EXCEPT !.at = "move", !.cur = NoRun]
    BY <1>6 DEF RejectNote
  <2>3. req' \in Reqs /\ req'.at = "move" /\ req'.to = req.to
    BY <1>0, <2>2 DEF ReqPlaces, SomeRun
  <2>4. RequestKnows'
    BY <2>1, <2>3 DEF RequestKnows
  <2>5. PICK note \in Items : note = <<"note", acts>>
    BY <2>1, ItemFacts
  <2>6. fb' = [fb EXCEPT ![req.cur] = <<note>>] /\ told' = told \cup {note}
        /\ waived' \subseteq waived \cup On(req.cur) \cup {note}
        /\ UNCHANGED <<label, active, current, addressed, again, unsaved>>
    BY <1>6, <2>5 DEF RejectNote, taskVars
  <2>7. <<note>> \in Seq(Items) /\ On(req.cur) \subseteq Items
    BY <2>1, TextsAreItems
  <2>8. RowsTyped' /\ HistoryTyped'
    BY <1>0, <2>1, <2>6, <2>7 DEF RowsTyped, HistoryTyped
  <2> QED BY <1>0, <1>3, <2>4, <2>6, <2>8
<1>7. ASSUME MoveRequest PROVE Typed'
  <2>1. PICK m \in Moves : req' = [NoReq EXCEPT !.at = "move", !.to = m[2]]
    BY <1>7 DEF MoveRequest
  <2>2. m[2] \in Labels
    BY ConstantFacts
  <2>3. req' \in Reqs /\ req'.at = "move" /\ req'.to = m[2]
    BY <1>4, <2>1, <2>2 DEF NoReq, ReqPlaces, SomeLabel
  <2>4. RequestKnows'
    BY <2>2, <2>3 DEF RequestKnows
  <2>5. RowsTyped' /\ HistoryTyped' /\ UNCHANGED <<label, active, current>>
    BY <1>0, <1>7 DEF MoveRequest, RowsTyped, HistoryTyped, taskVars, history
  <2> QED BY <1>0, <1>3, <2>4, <2>5
<1>8. ASSUME ReqMoveRead PROVE Typed'
  <2>1. \/ req' = NoReq
        \/ req' = [req EXCEPT !.at = "swap", !.from = label, !.cur = current]
    BY <1>8 DEF ReqMoveRead
  <2>2. req.to \in Labels
    BY <1>0, <1>8 DEF ReqMoveRead, RequestKnows
  <2>3. req' \in Reqs /\ (req'.at = "idle" \/ (req'.at = "swap" /\ req'.cur = current /\ req'.to = req.to))
    BY <1>0, <1>4, <2>1 DEF ReqPlaces
  <2>4. RequestKnows'
    BY <1>0, <1>2, <2>2, <2>3 DEF RequestKnows
  <2>5. RowsTyped' /\ HistoryTyped' /\ UNCHANGED <<label, active, current>>
    BY <1>0, <1>8 DEF ReqMoveRead, RowsTyped, HistoryTyped, taskVars, history
  <2> QED BY <1>0, <1>3, <2>4, <2>5
<1>9. ASSUME ReqMove PROVE Typed'
  <2>1. req.cur \in Used /\ req.to \in Labels
    BY <1>0, <1>9 DEF ReqMove, RequestKnows
  <2>2. /\ RequestKnows' /\ fb' = fb /\ UNCHANGED <<told, addressed, unsaved>>
    BY <1>4, <1>9 DEF ReqMove, RequestKnows
  <2>3. \/ UNCHANGED <<label, active, current, waived, again>>
        \/ PutBack(req.cur) /\ label' = req.to /\ active' = NoRun
    BY <1>9 DEF ReqMove, MoveTask, taskVars
  <2>4. PutBack(req.cur) => current' = req.cur /\ waived' \subseteq Items /\ again' \subseteq Items
    BY <2>1, PutBackTypes
  <2>5. RowsTyped' /\ HistoryTyped'
    BY <1>0, <2>2, <2>3, <2>4 DEF RowsTyped, HistoryTyped
  <2> QED BY <1>0, <1>3, <2>1, <2>2, <2>3, <2>4, <2>5
<1>10. ASSUME Rerun PROVE Typed'
  <2>1. RequestKnows'
    BY <1>0, <1>1, <1>2, <1>10, RequestFrame DEF Rerun
  <2>2. RowsTyped' /\ HistoryTyped' /\ UNCHANGED <<label, current>> /\ active' = NoRun
    BY <1>0, <1>10 DEF Rerun, RowsTyped, HistoryTyped, history
  <2> QED BY <1>0, <1>3, <2>1, <2>2
<1> QED BY <1>5, <1>6, <1>7, <1>8, <1>9, <1>10 DEF People

\* The forge and the crash.
LEMMA ForgeStepTyped ==
    ASSUME Typed, Forge
    PROVE  Typed'
<1>0. /\ RunsKnow /\ StartsKnow /\ SyncsKnow /\ RequestKnows /\ ForgeTyped
      /\ acts \in 0..MaxActs
  BY DEF Typed, ForgeTyped
<1>1. UNCHANGED <<label, active, current, fb, cursor, comments, sy, phase, mem, st, req, passes,
                  acts, told, addressed, waived, again, unsaved>>
  BY DEF Forge, Review, Comment, Push, Check, Base, Post, taskVars, syncVars, goVars, history
<1>2. posts \in 0..MaxPosts /\ posts < MaxPosts /\ posts' = posts + 1 /\ MaxPosts \in Nat
  BY <1>0, ConstantFacts DEF Forge, Review, Comment, Push, Check, Base, Post, ForgeTyped
<1>3. /\ forge' \in [ver : Nat, sha : Nat, reviews : Nat, comments : Nat,
                     red : BOOLEAN, merge : Merges]
      /\ forge'.reviews \in {forge.reviews, forge.reviews + 1}
      /\ forge'.sha \in {forge.sha, forge.sha + 1}
      /\ forge'.comments \in {forge.comments, forge.comments + 1}
  <2>0. forge \in [ver : Nat, sha : Nat, reviews : Nat, comments : Nat,
                   red : BOOLEAN, merge : Merges]
    BY <1>0 DEF ForgeTyped
  <2>1. CASE Review
    <3>1. PICK a \in Nat, b \in Nat : a = forge.ver + 1 /\ b = forge.reviews + 1
      BY <2>0
    <3>2. forge' = [forge EXCEPT !.ver = a, !.reviews = b]
      BY <2>0, <2>1, <3>1 DEF Review, Post
    <3> QED BY <2>0, <3>1, <3>2
  <2>2. CASE Comment
    <3>1. PICK a \in Nat, b \in Nat : a = forge.ver + 1 /\ b = forge.comments + 1
      BY <2>0
    <3>2. forge' = [forge EXCEPT !.ver = a, !.comments = b]
      BY <2>0, <2>2, <3>1 DEF Comment, Post
    <3> QED BY <2>0, <3>1, <3>2
  <2>3. CASE Push
    <3>1. PICK a \in Nat, b \in Nat : a = forge.ver + 1 /\ b = forge.sha + 1
      BY <2>0
    <3>2. forge' = [forge EXCEPT !.ver = a, !.sha = b, !.red = FALSE]
      BY <2>0, <2>3, <3>1 DEF Push, Post
    <3> QED BY <2>0, <3>1, <3>2
  <2>4. CASE Check
    BY <2>0, <2>4 DEF Check, Post
  <2>5. CASE Base
    BY <2>0, <2>5 DEF Base, Post, Merges
  <2> QED BY <2>1, <2>2, <2>3, <2>4, <2>5 DEF Forge
<1>4. ForgeTyped'
  <2>1. forge'.reviews \in 1..(posts' + 1) /\ forge'.sha \in 1..(posts' + 1) /\ posts' \in 0..MaxPosts
    BY <1>0, <1>2, <1>3 DEF ForgeTyped
  <2>2. comments' \in 0..forge'.comments
    BY <1>0, <1>1, <1>3 DEF ForgeTyped
  <2> QED BY <1>0, <1>1, <1>3, <2>1, <2>2 DEF ForgeTyped
<1>5. RunsKnow' /\ Used' = Used
  BY <1>0, <1>1, RunsFrame
<1>6. StartsKnow' /\ RequestKnows' /\ SyncsKnow'
  BY <1>0, <1>1, <1>5, StartsFrame, RequestFrame, SyncsFrame
<1> QED BY <1>1, <1>4, <1>5, <1>6 DEF Typed, TaskTyped, RowsTyped, HistoryTyped

LEMMA CrashTyped ==
    ASSUME Typed, Crash
    PROVE  Typed'
<1>0. /\ ForgeTyped /\ phase \in [Runs -> Phases] /\ TaskTyped /\ HistoryTyped
  BY DEF Typed, TaskTyped
<1>1. ForgeTyped'
  BY <1>0, ConstantFacts DEF ForgeTyped, Crash, Asked
<1>2. /\ phase' \in [Runs -> Phases] /\ Used' = Used
      /\ \A r \in Runs : phase'[r] \in {"none", "waiting", "over"} /\ mem'[r] = NoMem
  BY <1>0 DEF Crash, Phases, Waiting, Used
<1>3. RunsKnow'
  BY <1>2, IdleFacts DEF RunsKnow, Crash, Ending
<1>4. StartsKnow' /\ RequestKnows' /\ SyncsKnow'
  <2>1. StartsKnow'
    BY IdleFacts DEF StartsKnow, Crash, NoSt
  <2>2. RequestKnows'
    BY IdleFacts DEF RequestKnows, Crash, NoReq
  <2>3. SyncsKnow'
    BY IdleFacts DEF SyncsKnow, Crash, NoSync, Locked
  <2> QED BY <2>1, <2>2, <2>3
<1>5. HistoryTyped'
  <2>1. \A r \in Runs : ToSet(mem[r].inh) \subseteq Items
    BY TextsAreItems
  <2>2. \A s \in Syncs : ToSet(sy[s].parts) \subseteq Items
    BY TextsAreItems, ItemFacts
  <2>3. /\ told' \subseteq told /\ addressed' = addressed /\ waived' = waived
        /\ unsaved' = unsaved \cup UNION {ToSet(sy[s].parts) : s \in Syncs}
        /\ again' \subseteq again \cup UNION {ToSet(mem[r].inh) : r \in Runs}
    BY DEF Crash
  <2> QED BY <1>0, <2>1, <2>2, <2>3 DEF HistoryTyped
<1> QED BY <1>0, <1>1, <1>2, <1>3, <1>4, <1>5 DEF Typed, TaskTyped, RowsTyped, Crash

LEMMA TypedInit == Init => Typed
<1> SUFFICES ASSUME Init PROVE Typed
  OBVIOUS
<1>1. current \in Runs
  BY ConstantFacts DEF Init
<1>2. /\ phase \in [Runs -> Phases] /\ phase[current] # "none"
      /\ \A r \in Runs : phase[r] \in {"none", "over"}
  BY <1>1 DEF Init, Phases
<1>3. TaskTyped
  BY <1>1, <1>2, ConstantFacts DEF TaskTyped, Init, Used
<1>4. RowsTyped /\ HistoryTyped /\ ForgeTyped
  BY ConstantFacts DEF RowsTyped, HistoryTyped, ForgeTyped, Init, Marks, Merges
<1>5. RunsKnow /\ StartsKnow /\ RequestKnows
  BY <1>2, IdleFacts DEF RunsKnow, StartsKnow, RequestKnows, Init, Ending, NoSt, NoReq
<1>6. SyncsKnow
  BY IdleFacts DEF SyncsKnow, Init, NoSync, Locked
<1> QED BY <1>3, <1>4, <1>5, <1>6 DEF Typed

-----------------------------------------------------------------------------
(* What a fetch finds.                                                     *)

LEMMA OnceInBoth ==
    ASSUME NEW S, NEW p \in Seq(S), NEW q \in Seq(S), NEW A,
           OnceBut(p, A), OnceBut(q, A), ToSet(p) \cap ToSet(q) \subseteq A
    PROVE  OnceBut(p \o q, A)
<1>1. /\ DOMAIN (p \o q) = 1..(Len(p) + Len(q))
      /\ \A i \in 1..(Len(p) + Len(q)) : (p \o q)[i] = IF i <= Len(p) THEN p[i] ELSE q[i - Len(p)]
  BY ConcatProperties
<1>2. DOMAIN p = 1..Len(p) /\ DOMAIN q = 1..Len(q) /\ Len(p) \in Nat /\ Len(q) \in Nat
  OBVIOUS
<1>3. \A i \in DOMAIN (p \o q) :
         \/ i \in DOMAIN p /\ (p \o q)[i] = p[i]
         \/ i \notin DOMAIN p /\ i \in Int /\ i - Len(p) \in DOMAIN q /\ (p \o q)[i] = q[i - Len(p)]
  BY <1>1, <1>2
<1>4. \A i \in DOMAIN p, j \in DOMAIN q : p[i] = q[j] => p[i] \in A
  BY DEF ToSet
<1>5. SUFFICES ASSUME NEW i \in DOMAIN (p \o q), NEW j \in DOMAIN (p \o q),
                      (p \o q)[i] = (p \o q)[j], i # j
               PROVE  (p \o q)[i] \in A
  BY DEF OnceBut
<1>6. CASE i \in DOMAIN p /\ j \in DOMAIN p
  BY <1>3, <1>5, <1>6 DEF OnceBut
<1>7. CASE i \notin DOMAIN p /\ j \notin DOMAIN p
  <2>1. i - Len(p) # j - Len(p)
    BY <1>2, <1>3, <1>5, <1>7
  <2> QED BY <1>3, <1>5, <1>7, <2>1 DEF OnceBut
<1>8. CASE (i \in DOMAIN p) # (j \in DOMAIN p)
  BY <1>3, <1>4, <1>5, <1>8
<1> QED BY <1>6, <1>7, <1>8

IsRed(s, got) == "checks" \in got /\ forge.red /\ SeenChecks(s) # sy[s].head.sha
InConflict(s) == sy[s].head.merge = "conflicting" /\ cursor.conflict # sy[s].head.sha
NewReviews(s, got) ==
    {k \in Trusted : "reviews" \in got /\ Seen(s) < k /\ k <= forge.reviews}
Found(s, got) ==
    {<<"review", k>> : k \in NewReviews(s, got)}
        \cup {i \in {<<"checks", sy[s].head.sha>>} : IsRed(s, got)}
        \cup {i \in {<<"conflict", sy[s].head.sha>>} : InConflict(s)}

\* What SyncFetch makes of it, by name.
PartsOf(s, got) ==
    LET new == SetToSeq({k \in Trusted : Seen(s) < k /\ k <= forge.reviews}) IN
    (IF "reviews" \in got THEN [i \in DOMAIN new |-> <<"review", new[i]>>] ELSE <<>>)
        \o (IF IsRed(s, got) THEN << <<"checks", sy[s].head.sha>> >> ELSE <<>>)
        \o (IF InConflict(s) THEN << <<"conflict", sy[s].head.sha>> >> ELSE <<>>)
NextOf(s, tried, got) ==
    [sha      |-> sy[s].head.sha,
     review   |-> IF "reviews" \in got THEN forge.reviews ELSE Seen(s),
     checks   |-> IF IsRed(s, got) THEN sy[s].head.sha ELSE SeenChecks(s),
     conflict |-> IF sy[s].head.merge = "clean" THEN 0
                  ELSE IF InConflict(s) THEN sy[s].head.sha ELSE cursor.conflict,
     ver      |-> Ver(s, got = tried)]
TalkOf(got) == "comments" \in got /\ comments < forge.comments

\* A pass that found something goes on to append or save it.
Fetched(s, tried, got, next, parts, talk) ==
    /\ next \in Marks /\ talk \in BOOLEAN
    /\ next.sha = sy[s].head.sha /\ next.ver = Ver(s, got = tried)
    /\ next.review = (IF "reviews" \in got THEN forge.reviews ELSE cursor.review)
    /\ next.checks = (IF IsRed(s, got) THEN sy[s].head.sha ELSE SeenChecks(s))
    /\ parts \in Seq(Posts) /\ ToSet(parts) = Found(s, got) /\ OnceBut(parts, {})
    /\ talk <=> "comments" \in got /\ comments < forge.comments
    /\ comments' = (IF talk THEN forge.comments ELSE comments)
    /\ \/ next = cursor /\ ~talk /\ parts = <<>> /\ sy' = [sy EXCEPT ![s] = NoSync]
       \/ /\ parts = <<>>
          /\ sy' = [sy EXCEPT ![s] = [NoSync EXCEPT !.at = "save", !.next = next,
                       !.parts = <<>>, !.label = IF talk THEN sy[s].label ELSE NoLabel,
                       !.cur = NoRun, !.base = <<>>, !.changed = talk]]
       \/ /\ parts # <<>>
          /\ sy' = [sy EXCEPT ![s] = [NoSync EXCEPT !.at = "append", !.next = next,
                       !.parts = parts, !.label = sy[s].label, !.cur = sy[s].cur,
                       !.base = fb[sy[s].cur], !.changed = TRUE]]
    /\ told' = told \cup ToSet(parts)
    /\ addressed' = addressed \ ToSet(parts)
    /\ again' = again \cup (ToSet(parts) \cap told)
    /\ unsaved' = unsaved \ ToSet(parts)
    /\ waived' = waived \ ToSet(parts)
    /\ UNCHANGED <<label, active, current, fb, cursor, forge, phase, mem, st, req, passes, posts,
                   acts>>

LEMMA ReviewParts ==
    ASSUME NEW n \in 1..(MaxPosts + 1), NEW S \in SUBSET (1..n),
           NEW new, new = SetToSeq(S)
    PROVE  LET R == [i \in DOMAIN new |-> <<"review", new[i]>>]
           IN  /\ R \in Seq(Posts) /\ OnceBut(R, {})
               /\ ToSet(R) = {<<"review", k>> : k \in S}
<1> DEFINE R == [i \in DOMAIN new |-> <<"review", new[i]>>]
<1>1. n \in Nat /\ IsFiniteSet(1..n)
  BY ConstantFacts, FS_Interval
<1>2. IsFiniteSet(S)
  BY <1>1, FS_Subset
<1>3. /\ new \in Seq(S) /\ ToSet(new) = S
      /\ \A i, j \in DOMAIN new : new[i] = new[j] => i = j
  BY <1>2, SeqOfSet
<1>4. \A k \in S : <<"review", k>> \in Posts
  <2>1. MaxPosts \in Nat
    BY ConstantFacts
  <2>2. \A k \in S : k \in 1..(MaxPosts + 1)
    BY <1>1, <2>1
  <2> QED BY <2>2, ItemFacts
<1>5. DOMAIN new = 1..Len(new) /\ Len(new) \in Nat /\ \A i \in DOMAIN new : new[i] \in S
  BY <1>3
<1>6. R \in [1..Len(new) -> Posts]
  BY <1>4, <1>5
<1>7. \A m \in Nat : \A q \in [1..m -> Posts] : q \in Seq(Posts)
  OBVIOUS
<1>8. R \in Seq(Posts)
  BY <1>5, <1>6, <1>7
<1>9. DOMAIN R = DOMAIN new /\ \A i \in DOMAIN new : R[i] = <<"review", new[i]>>
  OBVIOUS
<1> HIDE DEF R
<1>10. OnceBut(R, {})
  <2>1. \A i, j \in DOMAIN new : R[i] = R[j] => new[i] = new[j]
    BY <1>9
  <2> QED BY <1>3, <1>9, <2>1 DEF OnceBut
<1>11. S = {new[i] : i \in DOMAIN new}
  BY <1>3 DEF ToSet
<1>12. ToSet(R) = {<<"review", k>> : k \in S}
  <2>1. ToSet(R) = {R[i] : i \in DOMAIN new}
    BY <1>9 DEF ToSet
  <2>2. \A x : x \in {R[i] : i \in DOMAIN new} <=> \E i \in DOMAIN new : x = <<"review", new[i]>>
    BY <1>9
  <2>3. \A x : x \in {<<"review", k>> : k \in S} <=> \E i \in DOMAIN new : x = <<"review", new[i]>>
    BY <1>11
  <2> QED BY <2>1, <2>2, <2>3
<1> QED BY <1>8, <1>10, <1>12 DEF R

LEMMA OnePart ==
    ASSUME NEW x \in Posts, NEW b \in BOOLEAN, NEW q, q = (IF b THEN <<x>> ELSE <<>>)
    PROVE  /\ q \in Seq(Posts) /\ OnceBut(q, {})
           /\ ToSet(q) = {i \in {x} : b}
<1>1. CASE b
  <2>1. q = <<x>> /\ q \in Seq(Posts)
    BY <1>1
  <2> QED BY <1>1, <2>1, SetOfOne DEF OnceBut
<1>2. CASE ~b
  <2>1. q = <<>> /\ q \in Seq(Posts) /\ DOMAIN q = {}
    BY <1>2
  <2> QED BY <1>2, <2>1, SetOfEmpty DEF OnceBut
<1> QED BY <1>1, <1>2

LEMMA PartsFound ==
    ASSUME Typed, NEW s \in Syncs, sy[s].at = "fetch", NEW got
    PROVE  /\ PartsOf(s, got) \in Seq(Posts) /\ ToSet(PartsOf(s, got)) = Found(s, got)
           /\ OnceBut(PartsOf(s, got), {})
<1>0. PICK new : new = SetToSeq({k \in Trusted : Seen(s) < k /\ k <= forge.reviews})
  OBVIOUS
<1>1. PICK S : S = {k \in Trusted : Seen(s) < k /\ k <= forge.reviews}
  OBVIOUS
<1>2. PICK R : R = (IF "reviews" \in got THEN [i \in DOMAIN new |-> <<"review", new[i]>>] ELSE <<>>)
  OBVIOUS
<1>3. PICK c, d : c = <<"checks", sy[s].head.sha>> /\ d = <<"conflict", sy[s].head.sha>>
  OBVIOUS
<1>4. PICK a \in BOOLEAN, b \in BOOLEAN : (a <=> IsRed(s, got)) /\ (b <=> InConflict(s))
  OBVIOUS
<1>5. PICK C, D : C = (IF a THEN <<c>> ELSE <<>>) /\ D = (IF b THEN <<d>> ELSE <<>>)
  OBVIOUS
<1>6. PartsOf(s, got) = (R \o C) \o D
  BY <1>0, <1>2, <1>3, <1>4, <1>5 DEF PartsOf
<1>7. /\ forge.reviews \in 1..(MaxPosts + 1) /\ MaxPosts \in Nat
      /\ sy[s].head.sha \in 1..(MaxPosts + 1)
  BY ConstantFacts DEF Typed, ForgeTyped, SyncsKnow, Heads
<1>8. S \in SUBSET (1..forge.reviews)
  <2>1. \A k \in S : k \in Nat \ {0} /\ k <= forge.reviews
    BY <1>1, ConstantFacts
  <2>2. forge.reviews \in Nat
    BY <1>7
  <2>3. \A k \in S : k \in 1..forge.reviews
    BY <2>1, <2>2
  <2> QED BY <2>3
<1>9. /\ R \in Seq(Posts) /\ OnceBut(R, {})
      /\ ToSet(R) = {<<"review", k>> : k \in NewReviews(s, got)}
  <2>1. CASE "reviews" \in got
    <3>1. NewReviews(s, got) = S /\ R = [i \in DOMAIN new |-> <<"review", new[i]>>]
      BY <1>1, <1>2, <2>1 DEF NewReviews
    <3>2. PICK n \in 1..(MaxPosts + 1) : n = forge.reviews
      BY <1>7
    <3>3. S \in SUBSET (1..n) /\ new = SetToSeq(S)
      BY <1>0, <1>1, <1>8, <3>2
    <3>4. R \in Seq(Posts) /\ OnceBut(R, {}) /\ ToSet(R) = {<<"review", k>> : k \in S}
      BY <3>1, <3>3, ReviewParts
    <3> QED BY <3>1, <3>4
  <2>2. CASE "reviews" \notin got
    <3>1. NewReviews(s, got) = {} /\ R = <<>>
      BY <1>2, <2>2 DEF NewReviews
    <3> QED BY <3>1, SetOfEmpty DEF OnceBut
  <2> QED BY <2>1, <2>2
<1>10. c \in Posts /\ d \in Posts /\ c # d
  BY <1>3, <1>7, ItemFacts
<1>11. /\ C \in Seq(Posts) /\ OnceBut(C, {}) /\ ToSet(C) = {i \in {c} : a}
       /\ D \in Seq(Posts) /\ OnceBut(D, {}) /\ ToSet(D) = {i \in {d} : b}
  BY <1>5, <1>10, OnePart
<1>12. \A k : <<"review", k>> # c /\ <<"review", k>> # d
  BY <1>3
<1>13. ToSet(R) \cap ToSet(C) \subseteq {} /\ (ToSet(R) \cup ToSet(C)) \cap ToSet(D) \subseteq {}
  BY <1>9, <1>10, <1>11, <1>12
<1>14. (R \o C) \in Seq(Posts) /\ ToSet(R \o C) = ToSet(R) \cup ToSet(C) /\ OnceBut(R \o C, {})
  BY <1>9, <1>11, <1>13, SetOfBoth, OnceInBoth
<1>15. PICK Q \in Seq(Posts) : Q = R \o C
  BY <1>14
<1>16. /\ Q \o D \in Seq(Posts) /\ OnceBut(Q \o D, {})
       /\ ToSet(Q \o D) = ToSet(Q) \cup ToSet(D)
  <2>1. OnceBut(Q, {}) /\ ToSet(Q) \cap ToSet(D) \subseteq {}
    BY <1>13, <1>14, <1>15
  <2>2. Q \o D \in Seq(Posts) /\ ToSet(Q \o D) = ToSet(Q) \cup ToSet(D)
    BY <1>11, SetOfBoth
  <2>3. OnceBut(Q \o D, {})
    BY <1>11, <2>1, OnceInBoth
  <2> QED BY <2>2, <2>3
<1>17. ToSet(R) \cup ToSet(C) \cup ToSet(D) = Found(s, got)
  BY <1>3, <1>4, <1>9, <1>11 DEF Found
<1> QED BY <1>6, <1>14, <1>15, <1>16, <1>17

LEMMA FetchFacts ==
    ASSUME Typed, NEW s \in Syncs, sy[s].at = "fetch", NEW tried, NEW got, SyncFetch(s, tried, got)
    PROVE  \E next, parts, talk : Fetched(s, tried, got, next, parts, talk)
<1> DEFINE parts == PartsOf(s, got)
           next  == NextOf(s, tried, got)
           talk  == TalkOf(got)
<1>1. sy' = [sy EXCEPT ![s] =
                 IF next = cursor /\ ~talk /\ parts = <<>> THEN NoSync
                 ELSE [NoSync EXCEPT
                    !.at = IF parts = <<>> THEN "save" ELSE "append",
                    !.next = next, !.parts = parts,
                    !.label = IF talk \/ parts # <<>> THEN sy[s].label ELSE NoLabel,
                    !.cur = IF parts = <<>> THEN NoRun ELSE sy[s].cur,
                    !.base = IF parts = <<>> THEN <<>> ELSE fb[sy[s].cur],
                    !.changed = talk \/ parts # <<>>]]
  BY Zenon DEF SyncFetch, IsRed, InConflict, PartsOf, NextOf, TalkOf
<1>2. comments' = (IF talk THEN forge.comments ELSE comments)
  BY Zenon DEF SyncFetch, TalkOf
<1>3. /\ told' = told \cup ToSet(parts)
      /\ addressed' = addressed \ ToSet(parts)
      /\ again' = again \cup (ToSet(parts) \cap told)
      /\ unsaved' = unsaved \ ToSet(parts)
      /\ waived' = waived \ ToSet(parts)
  BY Zenon DEF SyncFetch, IsRed, InConflict, PartsOf
<1>4. UNCHANGED <<label, active, current, fb, cursor, forge, phase, mem, st, req, passes, posts,
                  acts>>
  BY DEF SyncFetch, taskVars, goVars, bounds
<1>5. talk \in BOOLEAN /\ (talk <=> "comments" \in got /\ comments < forge.comments)
  BY DEF TalkOf
<1>6. parts \in Seq(Posts) /\ ToSet(parts) = Found(s, got) /\ OnceBut(parts, {})
  BY PartsFound
<1>7. /\ sy[s].head \in Heads /\ cursor \in Marks /\ forge.reviews \in Nat /\ MaxPosts \in Nat
  BY ConstantFacts DEF Typed, SyncsKnow, ForgeTyped
<1>8. /\ sy[s].head.sha \in Nat /\ sy[s].head.ver \in Nat
      /\ Seen(s) = cursor.review /\ cursor.review \in Nat /\ cursor.conflict \in Nat
      /\ SeenChecks(s) \in Nat /\ Ver(s, got = tried) \in Nat
  BY <1>7 DEF Heads, Marks, Seen, SeenChecks, Ver
<1>9. /\ next \in Marks
      /\ next.sha = sy[s].head.sha /\ next.ver = Ver(s, got = tried)
      /\ next.review = (IF "reviews" \in got THEN forge.reviews ELSE cursor.review)
      /\ next.checks = (IF IsRed(s, got) THEN sy[s].head.sha ELSE SeenChecks(s))
  BY <1>7, <1>8 DEF Marks, NextOf
<1> HIDE DEF next, parts, talk
<1>10. \/ next = cursor /\ ~talk /\ parts = <<>> /\ sy' = [sy EXCEPT ![s] = NoSync]
       \/ /\ parts = <<>>
          /\ sy' = [sy EXCEPT ![s] = [NoSync EXCEPT !.at = "save", !.next = next,
                       !.parts = <<>>, !.label = IF talk THEN sy[s].label ELSE NoLabel,
                       !.cur = NoRun, !.base = <<>>, !.changed = talk]]
       \/ /\ parts # <<>>
          /\ sy' = [sy EXCEPT ![s] = [NoSync EXCEPT !.at = "append", !.next = next,
                       !.parts = parts, !.label = sy[s].label, !.cur = sy[s].cur,
                       !.base = fb[sy[s].cur], !.changed = TRUE]]
  <2>1. CASE next = cursor /\ ~talk /\ parts = <<>>
    BY <1>1, <2>1
  <2>2. CASE parts = <<>> /\ ~(next = cursor /\ ~talk)
    BY <1>1, <1>5, <2>2
  <2>3. CASE parts # <<>>
    BY <1>1, <2>3 DEF NoSync
  <2> QED BY <2>1, <2>2, <2>3
<1>11. Fetched(s, tried, got, next, parts, talk)
  BY <1>2, <1>3, <1>4, <1>5, <1>6, <1>9, <1>10 DEF Fetched
<1> QED BY <1>11

\* One pass goes on, to x.
PassTyped(x) ==
    /\ x \in [at : SyPlaces, cur : SomeRun, label : SomeLabel,
              head : Heads \cup {<<>>}, next : Marks \cup {<<>>},
              parts : Seq(Posts), base : Seq(Items), changed : BOOLEAN, from : SomeLabel]
    /\ x.at \in {"snapped", "fetch", "append", "swap"} => x.cur \in Used
    /\ x.at \in {"snapped", "fetch"} => x.label \in Labels
    /\ x.at = "save" /\ x.changed => x.label \in Labels
    /\ x.at = "append" => x.label \in Labels
    /\ x.at \in {"move", "swap"} => x.label \in Labels /\ BackOf[x.label] \in Labels
    /\ x.at = "fetch" => x.head \in Heads
    /\ x.at \in {"append", "save"} => x.next \in Marks
    /\ x.at \notin {"append", "save"} => x.parts = <<>>

LEMMA SyncsStep ==
    ASSUME SyncsKnow, NEW s \in Syncs, NEW x, PassTyped(x), sy' = [sy EXCEPT ![s] = x],
           UNCHANGED phase,
           x.at \in {"idle", "snapped"} \/ Locked(s) \/ \A t \in Syncs : ~Locked(t)
    PROVE  SyncsKnow'
<1>1. Used' = Used
  BY DEF Used
<1>2. /\ sy'[s] = x /\ \A t \in Syncs \ {s} : sy'[t] = sy[t]
      /\ DOMAIN sy' = Syncs /\ sy' = [t \in Syncs |-> sy'[t]]
  BY DEF SyncsKnow
<1>3. \A t \in Syncs : PassTyped(sy[t])
  BY DEF SyncsKnow, PassTyped
<1>4. \A t \in Syncs : PassTyped(sy'[t])
  <2>1. ASSUME NEW t \in Syncs PROVE PassTyped(sy'[t])
    <3>1. CASE t = s
      BY <1>2, <3>1
    <3>2. CASE t # s
      BY <1>2, <1>3, <3>2
    <3> QED BY <3>1, <3>2
  <2> QED BY <2>1
<1>5. \A t \in Syncs \ {s} : (Locked(t))' <=> Locked(t)
  BY <1>2 DEF Locked
<1>6. (Locked(s))' => Locked(s) \/ \A t \in Syncs : ~Locked(t)
  BY <1>2 DEF Locked
<1>7. \A t, u \in Syncs : (Locked(t))' /\ (Locked(u))' => t = u
  BY <1>5, <1>6 DEF SyncsKnow
<1> QED BY <1>1, <1>2, <1>4, <1>7 DEF SyncsKnow, PassTyped

\* The steps of the sync.
LEMMA SyncTyped ==
    ASSUME Typed, NEW s \in Syncs, SyncSnap(s) \/ SyncGoesOn(s)
    PROVE  Typed'
<1>0. /\ RunsKnow /\ StartsKnow /\ SyncsKnow /\ RequestKnows /\ ForgeTyped
      /\ phase \in [Runs -> Phases] /\ label \in Labels /\ current \in Used
      /\ active \in Used \cup {NoRun} /\ RowsTyped /\ HistoryTyped /\ acts \in 0..MaxActs
      /\ cursor \in Marks /\ \A r \in Used : r \in Runs
  BY DEF Typed, TaskTyped, ForgeTyped, Used
<1>1. UNCHANGED <<forge, phase, mem, st, req, posts, acts>>
  <2>1. CASE SyncSnap(s) \/ SyncHead(s) \/ SyncNoHead(s)
    BY <2>1 DEF SyncSnap, SyncHead, SyncNoHead, goVars, bounds
  <2>2. CASE SyncFetchSome(s)
    BY <2>2 DEF SyncFetchSome, SyncFetch, goVars, bounds
  <2>3. CASE SyncAppend(s) \/ SyncSave(s)
    BY <2>3 DEF SyncAppend, SyncSave, goVars, bounds
  <2>4. CASE SyncMoveRead(s) \/ SyncMove(s)
    BY <2>4 DEF SyncMoveRead, SyncMove, goVars, bounds
  <2> QED BY <2>1, <2>2, <2>3, <2>4 DEF SyncGoesOn
<1>2. RunsKnow' /\ Used' = Used /\ StartsKnow' /\ RequestKnows'
  BY <1>0, <1>1, RunsFrame, StartsFrame, RequestFrame
<1>3. ASSUME SyncsKnow', RowsTyped', HistoryTyped', cursor' \in Marks, comments' \in 0..forge.comments,
             label' \in Labels, active' \in Used \cup {NoRun}, current' \in Used
      PROVE  Typed'
  <2>1. ForgeTyped'
    BY <1>0, <1>1, <1>3 DEF ForgeTyped
  <2> QED BY <1>0, <1>1, <1>2, <1>3, <2>1 DEF Typed, TaskTyped
<1>4. comments \in 0..forge.comments
  BY <1>0 DEF ForgeTyped
<1>5. PassTyped(NoSync) /\ NoSync.at = "idle"
  BY IdleFacts DEF PassTyped, NoSync
<1>6. PassTyped(sy[s])
  BY <1>0 DEF SyncsKnow, PassTyped
<1>7. current \in SomeRun /\ label \in SomeLabel /\ Labels \subseteq SomeLabel /\ <<>> \in Seq(Items)
  BY <1>0 DEF SomeRun, SomeLabel
<1>8. ASSUME SyncSnap(s) PROVE Typed'
  <2> DEFINE x == [sy[s] EXCEPT !.at = "snapped", !.cur = current, !.label = label]
  <2>1. sy' = [sy EXCEPT ![s] = x] /\ sy[s].at = "idle"
    BY <1>0, <1>8 DEF SyncSnap, SyncsKnow
  <2>2. PassTyped(x) /\ x.at = "snapped"
    BY <1>0, <1>6, <1>7, <2>1 DEF PassTyped, SyPlaces
  <2> HIDE DEF x
  <2>3. SyncsKnow'
    BY <1>0, <1>1, <2>1, <2>2, SyncsStep
  <2>4. /\ RowsTyped' /\ HistoryTyped' /\ UNCHANGED <<label, active, current, cursor, comments>>
    BY <1>0, <1>8 DEF SyncSnap, RowsTyped, HistoryTyped, taskVars, history
  <2> QED BY <1>0, <1>3, <1>4, <2>3, <2>4
<1>9. ASSUME SyncNoHead(s) PROVE Typed'
  <2>1. sy' = [sy EXCEPT ![s] = NoSync]
    BY <1>9 DEF SyncNoHead
  <2>2. SyncsKnow'
    BY <1>0, <1>1, <1>5, <2>1, SyncsStep
  <2>3. /\ RowsTyped' /\ HistoryTyped' /\ UNCHANGED <<label, active, current, cursor, comments>>
    BY <1>0, <1>9 DEF SyncNoHead, RowsTyped, HistoryTyped, taskVars, history
  <2> QED BY <1>0, <1>3, <1>4, <2>2, <2>3
<1>10. ASSUME SyncHead(s) PROVE Typed'
  <2> DEFINE h == [ver |-> forge.ver, sha |-> forge.sha, merge |-> forge.merge]
             x == [sy[s] EXCEPT !.at = "fetch", !.head = h]
  <2>1. h \in Heads
    BY <1>0, ConstantFacts DEF ForgeTyped, Heads
  <2> HIDE DEF h
  <2>2. sy' = [sy EXCEPT ![s] = x] /\ sy[s].at = "snapped" /\ \A t \in Syncs : ~Locked(t)
    BY <1>0, <1>10 DEF SyncHead, SyncsKnow, h
  <2>3. PassTyped(x)
    BY <1>6, <2>1, <2>2 DEF PassTyped, SyPlaces
  <2> HIDE DEF x
  <2>4. SyncsKnow'
    BY <1>0, <1>1, <2>2, <2>3, SyncsStep
  <2>5. /\ RowsTyped' /\ HistoryTyped' /\ UNCHANGED <<label, active, current, cursor, comments>>
    BY <1>0, <1>10 DEF SyncHead, RowsTyped, HistoryTyped, taskVars, history
  <2> QED BY <1>0, <1>3, <1>4, <2>4, <2>5
<1>11. ASSUME SyncFetchSome(s) PROVE Typed'
  <2>1. sy[s].at = "fetch" /\ \E tried, got : SyncFetch(s, tried, got)
    BY <1>11 DEF SyncFetchSome
  <2>2. PICK tried, got, next, parts, talk : Fetched(s, tried, got, next, parts, talk)
    BY <2>1, FetchFacts
  <2>3. next \in Marks /\ parts \in Seq(Posts) /\ talk \in BOOLEAN
    BY <2>2 DEF Fetched
  <2>4. PICK x : PassTyped(x) /\ sy' = [sy EXCEPT ![s] = x]
    <3>1. sy[s].label \in Labels /\ sy[s].cur \in Used /\ fb[sy[s].cur] \in Seq(Items)
      BY <1>0, <1>6, <2>1 DEF PassTyped, RowsTyped
    <3>2. sy[s].cur \in SomeRun /\ sy[s].label \in SomeLabel /\ NoLabel \in SomeLabel /\ NoRun \in SomeRun
      BY <1>0, <3>1 DEF SomeRun, SomeLabel
    <3>3. CASE sy' = [sy EXCEPT ![s] = NoSync]
      BY <1>5, <3>3
    <3>4. CASE /\ parts = <<>>
               /\ sy' = [sy EXCEPT ![s] = [NoSync EXCEPT !.at = "save", !.next = next,
                       !.parts = <<>>, !.label = IF talk THEN sy[s].label ELSE NoLabel,
                       !.cur = NoRun, !.base = <<>>, !.changed = talk]]
      <4> DEFINE x == [NoSync EXCEPT !.at = "save", !.next = next,
                       !.parts = <<>>, !.label = IF talk THEN sy[s].label ELSE NoLabel,
                       !.cur = NoRun, !.base = <<>>, !.changed = talk]
      <4>1. /\ x \in [at : SyPlaces, cur : SomeRun, label : SomeLabel,
                      head : Heads \cup {<<>>}, next : Marks \cup {<<>>},
                      parts : Seq(Posts), base : Seq(Items), changed : BOOLEAN, from : SomeLabel]
            /\ x.at = "save" /\ x.changed = talk /\ x.next = next
            /\ x.label = (IF talk THEN sy[s].label ELSE NoLabel)
        BY <2>3, <3>2, <3>4, IdleFacts DEF NoSync, SyPlaces
      <4> HIDE DEF x
      <4>2. PassTyped(x)
        BY <2>3, <3>1, <4>1 DEF PassTyped
      <4> QED BY <3>4, <4>2 DEF x
    <3>5. CASE sy' = [sy EXCEPT ![s] = [NoSync EXCEPT !.at = "append", !.next = next,
                       !.parts = parts, !.label = sy[s].label, !.cur = sy[s].cur,
                       !.base = fb[sy[s].cur], !.changed = TRUE]]
      <4> DEFINE x == [NoSync EXCEPT !.at = "append", !.next = next,
                       !.parts = parts, !.label = sy[s].label, !.cur = sy[s].cur,
                       !.base = fb[sy[s].cur], !.changed = TRUE]
      <4>1. /\ x \in [at : SyPlaces, cur : SomeRun, label : SomeLabel,
                      head : Heads \cup {<<>>}, next : Marks \cup {<<>>},
                      parts : Seq(Posts), base : Seq(Items), changed : BOOLEAN, from : SomeLabel]
            /\ x.at = "append" /\ x.next = next /\ x.label = sy[s].label /\ x.cur = sy[s].cur
        BY <2>3, <3>1, <3>2, <3>5, IdleFacts DEF NoSync, SyPlaces
      <4> HIDE DEF x
      <4>2. PassTyped(x)
        BY <2>3, <3>1, <4>1 DEF PassTyped
      <4> QED BY <3>5, <4>2 DEF x
    <3> QED BY <2>2, <3>3, <3>4, <3>5 DEF Fetched
  <2>5. SyncsKnow'
    <3>1. Locked(s)
      BY <2>1 DEF Locked
    <3> QED BY <1>0, <1>1, <2>4, <3>1, SyncsStep
  <2>6. /\ told' = told \cup ToSet(parts) /\ addressed' \subseteq addressed
        /\ again' \subseteq again \cup ToSet(parts) /\ unsaved' \subseteq unsaved
        /\ waived' \subseteq waived
        /\ UNCHANGED <<label, active, current, fb, cursor>>
        /\ comments' \in {comments, forge.comments}
    BY <2>2 DEF Fetched
  <2>7. ToSet(parts) \subseteq Items
    BY <2>3, SetOfSeq, ItemFacts
  <2>8. RowsTyped' /\ HistoryTyped' /\ comments' \in 0..forge.comments
    BY <1>0, <1>4, <2>6, <2>7 DEF RowsTyped, HistoryTyped, ForgeTyped
  <2> QED BY <1>0, <1>3, <2>5, <2>6, <2>8
<1>12. ASSUME SyncAppend(s) PROVE Typed'
  <2> DEFINE x == [sy[s] EXCEPT !.at = "save", !.cur = NoRun, !.base = <<>>]
  <2>1. /\ sy' = [sy EXCEPT ![s] = x] /\ sy[s].at = "append"
        /\ fb' = [fb EXCEPT ![sy[s].cur] = sy[s].base \o sy[s].parts]
        /\ UNCHANGED <<label, active, current, cursor, comments, told, addressed, unsaved>>
    BY <1>0, <1>12 DEF SyncAppend, SyncsKnow, taskVars
  <2>2. PassTyped(x)
    BY <1>6, <1>7, <2>1 DEF PassTyped, SyPlaces, SomeRun
  <2> HIDE DEF x
  <2>3. SyncsKnow'
    <3>1. Locked(s)
      BY <2>1 DEF Locked
    <3> QED BY <1>0, <1>1, <2>1, <2>2, <3>1, SyncsStep
  <2>4. sy[s].base \in Seq(Items) /\ sy[s].parts \in Seq(Posts) /\ sy[s].cur \in Runs
    BY <1>0, <1>6, <2>1 DEF PassTyped
  <2>5. sy[s].parts \in Seq(Items)
    <3>1. \A q \in Seq(Posts) : q \in Seq(Items)
      BY ItemFacts
    <3> QED BY <2>4, <3>1
  <2>6. sy[s].base \o sy[s].parts \in Seq(Items)
    BY <2>4, <2>5, SetOfBoth
  <2>7. RowsTyped'
    BY <1>0, <2>1, <2>6 DEF RowsTyped
  <2>8. HistoryTyped'
    <3>1. /\ On(sy[s].cur) \subseteq Items /\ ToSet(sy[s].base) \subseteq Items
          /\ ToSet(sy[s].parts) \subseteq Items
      BY <2>4, TextsAreItems, ItemFacts
    <3>2. /\ waived' \subseteq waived \cup On(sy[s].cur) \cup ToSet(sy[s].parts)
          /\ again' \subseteq again \cup ToSet(sy[s].base)
      BY <1>12 DEF SyncAppend
    <3> QED BY <1>0, <2>1, <3>1, <3>2 DEF HistoryTyped
  <2> QED BY <1>0, <1>3, <1>4, <2>1, <2>3, <2>7, <2>8
<1>13. ASSUME SyncSave(s) PROVE Typed'
  <2> DEFINE x == [NoSync EXCEPT !.at = "move", !.label = sy[s].label]
  <2>1. /\ sy[s].at = "save"
        /\ \/ sy[s].changed /\ BackOf[sy[s].label] # NoLabel /\ sy' = [sy EXCEPT ![s] = x]
           \/ sy' = [sy EXCEPT ![s] = NoSync]
    BY <1>13 DEF SyncSave
  <2>2. PassTyped(x) \/ ~(sy[s].changed /\ BackOf[sy[s].label] # NoLabel)
    <3>1. SUFFICES ASSUME sy[s].changed, BackOf[sy[s].label] # NoLabel PROVE PassTyped(x)
      OBVIOUS
    <3>2. sy[s].label \in Labels
      BY <1>6, <2>1, <3>1 DEF PassTyped
    <3>3. BackOf[sy[s].label] \in Labels
      BY <3>1, <3>2, ConstantFacts DEF SomeLabel
    <3>4. /\ x \in [at : SyPlaces, cur : SomeRun, label : SomeLabel,
                    head : Heads \cup {<<>>}, next : Marks \cup {<<>>},
                    parts : Seq(Posts), base : Seq(Items), changed : BOOLEAN, from : SomeLabel]
          /\ x.at = "move" /\ x.label = sy[s].label /\ x.parts = <<>>
      BY <1>7, <3>2, IdleFacts DEF NoSync, SyPlaces
    <3> HIDE DEF x
    <3> QED BY <3>2, <3>3, <3>4 DEF PassTyped
  <2> HIDE DEF x
  <2>3. SyncsKnow'
    <3>1. Locked(s)
      BY <2>1 DEF Locked
    <3>2. CASE sy' = [sy EXCEPT ![s] = NoSync]
      BY <1>0, <1>1, <1>5, <3>1, <3>2, SyncsStep
    <3>3. CASE PassTyped(x) /\ sy' = [sy EXCEPT ![s] = x]
      BY <1>0, <1>1, <3>1, <3>3, SyncsStep
    <3> QED BY <2>1, <2>2, <3>2, <3>3
  <2>4. cursor' \in Marks /\ unsaved' \subseteq unsaved \cup ToSet(sy[s].parts)
    BY <1>0, <1>6, <1>13, <2>1 DEF SyncSave, PassTyped
  <2>5. RowsTyped' /\ UNCHANGED <<label, active, current, comments, told, addressed, waived, again>>
    BY <1>0, <1>13 DEF SyncSave, RowsTyped, taskVars
  <2>6. ToSet(sy[s].parts) \subseteq Items
    BY TextsAreItems, ItemFacts
  <2>7. HistoryTyped'
    BY <1>0, <2>4, <2>5, <2>6 DEF HistoryTyped
  <2> QED BY <1>0, <1>3, <1>4, <2>3, <2>4, <2>5, <2>7
<1>14. ASSUME SyncMoveRead(s) PROVE Typed'
  <2> DEFINE x == [sy[s] EXCEPT !.at = "swap", !.from = label, !.cur = current]
  <2>1. sy[s].at = "move" /\ (sy' = [sy EXCEPT ![s] = x] \/ sy' = [sy EXCEPT ![s] = NoSync])
    BY <1>0, <1>14 DEF SyncMoveRead, SyncsKnow
  <2>2. PassTyped(x)
    BY <1>0, <1>6, <1>7, <2>1 DEF PassTyped, SyPlaces
  <2> HIDE DEF x
  <2>3. SyncsKnow'
    <3>1. Locked(s)
      BY <2>1 DEF Locked
    <3>2. CASE sy' = [sy EXCEPT ![s] = NoSync]
      BY <1>0, <1>1, <1>5, <3>1, <3>2, SyncsStep
    <3>3. CASE sy' = [sy EXCEPT ![s] = x]
      BY <1>0, <1>1, <2>2, <3>1, <3>3, SyncsStep
    <3> QED BY <2>1, <3>2, <3>3
  <2>4. /\ RowsTyped' /\ HistoryTyped' /\ UNCHANGED <<label, active, current, cursor, comments>>
    BY <1>0, <1>14 DEF SyncMoveRead, RowsTyped, HistoryTyped, taskVars, history
  <2> QED BY <1>0, <1>3, <1>4, <2>3, <2>4
<1>15. ASSUME SyncMove(s) PROVE Typed'
  <2>1. sy[s].at = "swap" /\ sy' = [sy EXCEPT ![s] = NoSync]
    BY <1>15 DEF SyncMove
  <2>2. SyncsKnow'
    BY <1>0, <1>1, <1>5, <2>1, SyncsStep
  <2>3. PICK c \in Used : c = sy[s].cur
    BY <1>6, <2>1 DEF PassTyped
  <2>4. BackOf[sy[s].label] \in Labels
    BY <1>6, <2>1 DEF PassTyped
  <2>5. \/ UNCHANGED <<label, active, current, waived, again>>
        \/ PutBack(c) /\ label' = BackOf[sy[s].label] /\ active' = NoRun
    BY <1>15, <2>3 DEF SyncMove, MoveTask, taskVars
  <2>6. PutBack(c) => current' = c /\ waived' \subseteq Items /\ again' \subseteq Items
    BY PutBackTypes
  <2>7. RowsTyped' /\ UNCHANGED <<cursor, comments, told, addressed, unsaved>>
    BY <1>0, <1>15 DEF SyncMove, RowsTyped
  <2>8. HistoryTyped'
    BY <1>0, <2>5, <2>6, <2>7 DEF HistoryTyped
  <2> QED BY <1>0, <1>3, <1>4, <2>2, <2>3, <2>4, <2>5, <2>6, <2>7, <2>8
<1> QED BY <1>8, <1>9, <1>10, <1>11, <1>12, <1>13, <1>14, <1>15 DEF SyncGoesOn

LEMMA TypedStep == Typed /\ [Next]_vars => Typed'
<1> SUFFICES ASSUME Typed, [Next]_vars PROVE Typed'
  OBVIOUS
<1>1. CASE UNCHANGED vars
  BY <1>1 DEF vars, Typed, TaskTyped, Used, RowsTyped, HistoryTyped, ForgeTyped, RunsKnow, StartsKnow,
     RequestKnows, SyncsKnow, Locked
<1>2. SweepRead \/ ReplyRead => Typed'
  BY StartTyped DEF Starters
<1> QED BY <1>1, <1>2, StartTyped, RunTyped, PeopleTyped, SyncTyped, ForgeStepTyped, CrashTyped DEF Next

-----------------------------------------------------------------------------
(* The cursor and what was told.                                           *)

\* Starts, runs and people neither know the forge nor the cursor.
Elsewhere ==
    \/ SweepRead \/ ReplyRead \/ \E s \in Starters : Start(s)
    \/ \E r \in Runs : Run(r)
    \/ People
LEMMA ElsewhereFrame ==
    ASSUME Elsewhere
    PROVE  /\ UNCHANGED <<cursor, comments, forge, sy, unsaved>>
           /\ told \subseteq told' /\ told' \cap Posts \subseteq told
<1>1. /\ UNCHANGED <<cursor, comments, forge, sy, unsaved>>
      /\ \/ told' = told
         \/ \E n : told' = told \cup {<<"note", n>>}
         \/ \E r \in Runs : told' = told \cup {<<"findings", r>>}
  <2>1. CASE SweepRead \/ ReplyRead
    BY <2>1 DEF SweepRead, ReplyRead, Read, syncVars, history
  <2>2. CASE \E s \in Starters : Start(s)
    BY <2>2 DEF Start, Claim, Conflict, Escalate, Restore, syncVars, history
  <2>3. ASSUME NEW r \in Runs, Run(r)
        PROVE  /\ UNCHANGED <<cursor, comments, forge, sy, unsaved>>
               /\ told' \in {told, told \cup {<<"findings", r>>}}
    BY <2>3 DEF Run, Succeed, Fail, Ask, Die, ConsumeRead, ConsumeSwap, FindsInPlace, WriteFindings,
       LoopExceeded, RunMoveRead, RunMove, RunGivesUp, syncVars, history
  <2>4. CASE People
    BY <2>4 DEF People, RejectRead, RejectNote, MoveRequest, ReqMoveRead, ReqMove, Rerun, syncVars,
       history
  <2> QED BY <2>1, <2>2, <2>3, <2>4 DEF Elsewhere
<1> QED BY <1>1, ItemFacts

\* While one pass holds the lock, or takes it, the others are elsewhere.
LEMMA OthersWait ==
    ASSUME Typed, NEW s \in Syncs, Locked(s) \/ \A t \in Syncs : ~Locked(t)
    PROVE  \A t \in Syncs \ {s} : sy[t].at \in {"idle", "snapped"}
BY DEF Typed, SyncsKnow, Locked

\* What a pass that found something has in hand.
LEMMA FetchShape ==
    ASSUME Typed, NEW s \in Syncs, SyncFetchSome(s)
    PROVE  \E tried, next, parts, talk : tried \in Tried(s) /\ \E got \in SUBSET tried :
              /\ Fetched(s, tried, got, next, parts, talk)
              /\ sy'[s].at \in {"idle", "append", "save"}
              /\ sy'[s].parts = parts
              /\ sy'[s].at \in {"append", "save"} => sy'[s].next = next
              /\ parts # <<>> => sy'[s].at = "append"
              /\ sy'[s].at = "idle" => next = cursor /\ ~talk
              /\ \A t \in Syncs \ {s} : sy'[t] = sy[t]
<1>1. PICK tried \in Tried(s) : \E got \in SUBSET tried : SyncFetch(s, tried, got)
  BY DEF SyncFetchSome
<1>2. PICK got \in SUBSET tried : SyncFetch(s, tried, got)
  BY <1>1
<1>3. PICK next, parts, talk : Fetched(s, tried, got, next, parts, talk)
  BY <1>2, FetchFacts DEF SyncFetchSome
<1>4. \A x : sy' = [sy EXCEPT ![s] = x] => sy'[s] = x /\ \A t \in Syncs \ {s} : sy'[t] = sy[t]
  BY DEF Typed, SyncsKnow
<1>5. /\ sy'[s].at \in {"idle", "append", "save"}
      /\ sy'[s].parts = parts
      /\ sy'[s].at \in {"append", "save"} => sy'[s].next = next
      /\ parts # <<>> => sy'[s].at = "append"
      /\ sy'[s].at = "idle" => next = cursor /\ ~talk
      /\ \A t \in Syncs \ {s} : sy'[t] = sy[t]
  <2>1. CASE next = cursor /\ ~talk /\ parts = <<>> /\ sy' = [sy EXCEPT ![s] = NoSync]
    BY <1>4, <2>1 DEF NoSync
  <2>2. CASE /\ parts = <<>>
             /\ sy' = [sy EXCEPT ![s] = [NoSync EXCEPT !.at = "save", !.next = next,
                       !.parts = <<>>, !.label = IF talk THEN sy[s].label ELSE NoLabel,
                       !.cur = NoRun, !.base = <<>>, !.changed = talk]]
    <3> DEFINE x == [NoSync EXCEPT !.at = "save", !.next = next,
                       !.parts = <<>>, !.label = IF talk THEN sy[s].label ELSE NoLabel,
                       !.cur = NoRun, !.base = <<>>, !.changed = talk]
    <3>1. x.at = "save" /\ x.parts = <<>> /\ x.next = next
      BY DEF NoSync
    <3>2. sy' = [sy EXCEPT ![s] = x]
      BY <2>2
    <3> HIDE DEF x
    <3> QED BY <1>4, <2>2, <3>1, <3>2
  <2>3. CASE /\ parts # <<>>
             /\ sy' = [sy EXCEPT ![s] = [NoSync EXCEPT !.at = "append", !.next = next,
                       !.parts = parts, !.label = sy[s].label, !.cur = sy[s].cur,
                       !.base = fb[sy[s].cur], !.changed = TRUE]]
    <3> DEFINE x == [NoSync EXCEPT !.at = "append", !.next = next,
                       !.parts = parts, !.label = sy[s].label, !.cur = sy[s].cur,
                       !.base = fb[sy[s].cur], !.changed = TRUE]
    <3>1. x.at = "append" /\ x.parts = parts /\ x.next = next
      BY DEF NoSync
    <3>2. sy' = [sy EXCEPT ![s] = x]
      BY <2>3
    <3> HIDE DEF x
    <3> QED BY <1>4, <2>3, <3>1, <3>2
  <2> QED BY <1>3, <2>1, <2>2, <2>3 DEF Fetched
<1> QED BY <1>3, <1>5

\* The numbers that the cursor and the passes compare.
LEMMA MarksAreNumbers ==
    ASSUME Typed
    PROVE  /\ forge.ver \in Nat /\ forge.sha \in Nat /\ forge.reviews \in Nat /\ forge.comments \in Nat
           /\ cursor.ver \in Nat /\ cursor.sha \in Nat /\ cursor.review \in Nat /\ cursor.checks \in Nat
           /\ comments \in Nat /\ comments <= forge.comments
           /\ Trusted \subseteq Nat
           /\ \A i \in Posts : i[2] \in Nat
           /\ \A s \in Syncs : sy[s].at = "fetch" => sy[s].head.ver \in Nat /\ sy[s].head.sha \in Nat
           /\ \A s \in Syncs : Telling(s) =>
                 /\ sy[s].next.ver \in Nat /\ sy[s].next.sha \in Nat
                 /\ sy[s].next.review \in Nat /\ sy[s].next.checks \in Nat
<1>1. /\ forge.ver \in Nat /\ forge.sha \in Nat /\ forge.reviews \in Nat /\ forge.comments \in Nat
      /\ cursor.ver \in Nat /\ cursor.sha \in Nat /\ cursor.review \in Nat /\ cursor.checks \in Nat
      /\ comments \in Nat /\ comments <= forge.comments
  BY DEF Typed, ForgeTyped, Marks
<1>2. \A s \in Syncs : sy[s].at = "fetch" => sy[s].head.ver \in Nat /\ sy[s].head.sha \in Nat
  BY ConstantFacts DEF Typed, SyncsKnow, Heads
<1>3. \A s \in Syncs : Telling(s) =>
                 /\ sy[s].next.ver \in Nat /\ sy[s].next.sha \in Nat
                 /\ sy[s].next.review \in Nat /\ sy[s].next.checks \in Nat
  BY DEF Typed, SyncsKnow, Marks, Telling
<1>4. Trusted \subseteq Nat /\ \A i \in Posts : i[2] \in Nat
  BY ConstantFacts DEF Posts
<1> QED BY <1>1, <1>2, <1>3, <1>4

\* A fetch tells what is new, and only that.
LEMMA FetchTells ==
    ASSUME Typed, Behind, CaughtUp, NEW s \in Syncs, sy[s].at = "fetch",
           NEW tried \in Tried(s), NEW got \in SUBSET tried, NEW next, NEW parts, NEW talk,
           Fetched(s, tried, got, next, parts, talk)
    PROVE  /\ next.ver \in Nat /\ next.ver <= forge.ver
           /\ cursor.sha <= next.sha /\ next.sha <= forge.sha
           /\ cursor.review <= next.review /\ next.review <= forge.reviews
           /\ ToldUpTo(next.review)'
           /\ next.ver = forge.ver => AllTold'
           /\ \A i \in ToSet(parts) : i[1] = "review" => cursor.review < i[2] /\ cursor.ver < forge.ver
<1>1. /\ cursor.ver <= forge.ver /\ cursor.sha <= forge.sha /\ cursor.review <= forge.reviews
      /\ ToldUpTo(cursor.review)
      /\ cursor.ver <= sy[s].head.ver /\ sy[s].head.ver <= forge.ver
      /\ cursor.sha <= sy[s].head.sha /\ sy[s].head.sha <= forge.sha
  BY DEF Behind, CursorBehind, PassBehind
<1>2. /\ next.sha = sy[s].head.sha /\ next.ver = Ver(s, got = tried)
      /\ next.review = (IF "reviews" \in got THEN forge.reviews ELSE cursor.review)
      /\ next \in Marks
      /\ ToSet(parts) = Found(s, got) /\ told' = told \cup ToSet(parts)
      /\ talk <=> "comments" \in got /\ comments < forge.comments
      /\ comments' = (IF talk THEN forge.comments ELSE comments)
      /\ forge' = forge /\ cursor' = cursor
  BY DEF Fetched
<1>3. next.ver = IF PRChanged(s) /\ got = tried THEN sy[s].head.ver ELSE cursor.ver
  BY <1>2 DEF Ver
<1>4. next.ver \in Nat /\ next.ver <= forge.ver
  BY <1>1, <1>3, MarksAreNumbers
<1>5. cursor.review <= next.review /\ next.review <= forge.reviews
  BY <1>1, <1>2, MarksAreNumbers
<1>6. "reviews" \in got => \A k \in Trusted : k <= forge.reviews => <<"review", k>> \in told'
  <2>1. ASSUME "reviews" \in got, NEW k \in Trusted, k <= forge.reviews PROVE <<"review", k>> \in told'
    <3>1. CASE k <= cursor.review
      BY <1>1, <1>2, <3>1 DEF ToldUpTo
    <3>2. CASE ~(k <= cursor.review)
      <4>1. k \in NewReviews(s, got)
        BY <2>1, <3>2, MarksAreNumbers DEF NewReviews, Seen
      <4> QED BY <1>2, <4>1 DEF Found
    <3> QED BY <3>1, <3>2
  <2> QED BY <2>1
<1>7. ToldUpTo(next.review)'
  <2>1. CASE "reviews" \in got
    BY <1>2, <1>6, <2>1 DEF ToldUpTo
  <2>2. CASE "reviews" \notin got
    BY <1>1, <1>2, <2>2 DEF ToldUpTo
  <2> QED BY <2>1, <2>2
<1>8. next.ver = forge.ver => AllTold'
  <2>1. CASE cursor.ver = forge.ver
    BY <1>2, <2>1, MarksAreNumbers DEF CaughtUp, AllTold, ToldUpTo
  <2>2. CASE PRChanged(s) /\ got = tried
    <3>1. "reviews" \in got /\ "comments" \in got
      BY <2>2 DEF Tried
    <3>2. comments' = forge.comments
      BY <1>2, <3>1, MarksAreNumbers
    <3> QED BY <1>2, <1>6, <3>1, <3>2 DEF AllTold, ToldUpTo
  <2> QED BY <1>3, <2>1, <2>2
<1>9. ASSUME NEW i \in ToSet(parts), i[1] = "review" PROVE cursor.review < i[2] /\ cursor.ver < forge.ver
  <2>1. PICK k \in NewReviews(s, got) : i = <<"review", k>>
    BY <1>2, <1>9 DEF Found
  <2>2. "reviews" \in got /\ cursor.review < k
    BY <2>1 DEF NewReviews, Seen
  <2>3. PRChanged(s)
    BY <2>2 DEF Tried
  <2> QED BY <1>1, <2>1, <2>2, <2>3, MarksAreNumbers DEF PRChanged
<1> QED BY <1>1, <1>2, <1>4, <1>5, <1>7, <1>8, <1>9

LEMMA BehindSync ==
    ASSUME Typed, Behind, CaughtUp, NEW s \in Syncs, SyncSnap(s) \/ SyncGoesOn(s)
    PROVE  Behind' /\ CaughtUp'
<1>0. /\ \A x : sy' = [sy EXCEPT ![s] = x] => sy'[s] = x /\ \A t \in Syncs \ {s} : sy'[t] = sy[t]
      /\ CursorBehind /\ \A t \in Syncs : PassBehind(t)
  BY DEF Typed, SyncsKnow, Behind
<1>1. forge' = forge
  BY DEF SyncSnap, SyncGoesOn, SyncHead, SyncNoHead, SyncFetchSome, SyncFetch, SyncAppend, SyncSave,
     SyncMoveRead, SyncMove
<1>2. ASSUME UNCHANGED <<cursor, comments, told>>, NEW x, sy' = [sy EXCEPT ![s] = x],
             PassBehind(s)'
      PROVE  Behind' /\ CaughtUp'
  <2>1. CursorBehind' /\ CaughtUp'
    BY <1>0, <1>1, <1>2 DEF CursorBehind, ToldUpTo, CaughtUp
  <2>2. ASSUME NEW t \in Syncs PROVE PassBehind(t)'
    <3>1. CASE t = s
      BY <1>2, <3>1
    <3>2. CASE t # s
      <4>1. sy'[t] = sy[t]
        BY <1>0, <1>2, <3>2
      <4> QED BY <1>0, <1>1, <1>2, <4>1 DEF PassBehind, Telling, ToldUpTo, AllTold
    <3> QED BY <3>1, <3>2
  <2> QED BY <2>1, <2>2 DEF Behind
<1>3. ASSUME UNCHANGED <<cursor, comments, told>>, NEW x, sy' = [sy EXCEPT ![s] = x],
             x.at \in {"idle", "snapped", "move", "swap"}
      PROVE  Behind' /\ CaughtUp'
  <2>1. PassBehind(s)'
    BY <1>0, <1>3 DEF PassBehind, Telling
  <2> QED BY <1>2, <1>3, <2>1
<1>4. CASE SyncSnap(s)
  <2> DEFINE x == [sy[s] EXCEPT !.at = "snapped", !.cur = current, !.label = label]
  <2>1. sy' = [sy EXCEPT ![s] = x] /\ x.at = "snapped" /\ UNCHANGED <<cursor, comments, told>>
    BY <1>4 DEF SyncSnap, Typed, SyncsKnow, history
  <2> HIDE DEF x
  <2> QED BY <1>3, <2>1
<1>5. CASE SyncNoHead(s)
  <2>1. sy' = [sy EXCEPT ![s] = NoSync] /\ NoSync.at = "idle" /\ UNCHANGED <<cursor, comments, told>>
    BY <1>5 DEF SyncNoHead, NoSync, history
  <2> QED BY <1>3, <2>1
<1>6. CASE SyncHead(s)
  <2> DEFINE h == [ver |-> forge.ver, sha |-> forge.sha, merge |-> forge.merge]
             x == [sy[s] EXCEPT !.at = "fetch", !.head = h]
  <2>1. /\ sy' = [sy EXCEPT ![s] = x] /\ UNCHANGED <<cursor, comments, told>>
        /\ x.at = "fetch" /\ x.head = h /\ h.ver = forge.ver /\ h.sha = forge.sha
    BY <1>6 DEF SyncHead, Typed, SyncsKnow, history
  <2> HIDE DEF x, h
  <2>2. sy'[s] = x
    BY <1>0, <2>1
  <2>3. PassBehind(s)'
    BY <1>0, <1>1, <2>1, <2>2, MarksAreNumbers DEF PassBehind, CursorBehind, Telling
  <2> QED BY <1>2, <2>1, <2>3
<1>7. CASE SyncFetchSome(s)
  <2>1. PICK tried, next, parts, talk : tried \in Tried(s) /\ \E got \in SUBSET tried :
              /\ Fetched(s, tried, got, next, parts, talk)
              /\ sy'[s].at \in {"idle", "append", "save"}
              /\ sy'[s].parts = parts
              /\ sy'[s].at \in {"append", "save"} => sy'[s].next = next
              /\ parts # <<>> => sy'[s].at = "append"
              /\ sy'[s].at = "idle" => next = cursor /\ ~talk
              /\ \A t \in Syncs \ {s} : sy'[t] = sy[t]
    BY <1>7, FetchShape
  <2>2. PICK got \in SUBSET tried : Fetched(s, tried, got, next, parts, talk)
    BY <2>1
  <2>3. sy[s].at = "fetch"
    BY <1>7 DEF SyncFetchSome
  <2>4. /\ next.ver \in Nat /\ next.ver <= forge.ver
        /\ cursor.sha <= next.sha /\ next.sha <= forge.sha
        /\ cursor.review <= next.review /\ next.review <= forge.reviews
        /\ ToldUpTo(next.review)'
        /\ next.ver = forge.ver => AllTold'
        /\ \A i \in ToSet(parts) : i[1] = "review" => cursor.review < i[2] /\ cursor.ver < forge.ver
    BY <2>1, <2>2, <2>3, FetchTells
  <2>5. /\ told \subseteq told' /\ cursor' = cursor
        /\ comments' = (IF talk THEN forge.comments ELSE comments)
    BY <2>2 DEF Fetched
  <2>6. CursorBehind' /\ CaughtUp'
    <3>1. CursorBehind'
      BY <1>0, <1>1, <2>5 DEF CursorBehind, ToldUpTo
    <3>2. CaughtUp'
      BY <1>1, <2>5 DEF CaughtUp
    <3> QED BY <3>1, <3>2
  <2>7. PassBehind(s)'
    BY <1>1, <2>1, <2>4, <2>5 DEF PassBehind, Telling
  <2>8. ASSUME NEW t \in Syncs \ {s} PROVE PassBehind(t)'
    <3>1. Locked(s)
      BY <2>3 DEF Locked
    <3>2. sy'[t].at \in {"idle", "snapped"}
      BY <2>1, <3>1, OthersWait
    <3> QED BY <3>2 DEF PassBehind, Telling
  <2> QED BY <2>6, <2>7, <2>8 DEF Behind
<1>8. CASE SyncAppend(s)
  <2> DEFINE x == [sy[s] EXCEPT !.at = "save", !.cur = NoRun, !.base = <<>>]
  <2>1. /\ sy' = [sy EXCEPT ![s] = x] /\ UNCHANGED <<cursor, comments, told>>
        /\ sy[s].at = "append" /\ x.at = "save" /\ x.next = sy[s].next
    BY <1>8 DEF SyncAppend, Typed, SyncsKnow
  <2> HIDE DEF x
  <2>2. sy'[s] = x
    BY <1>0, <2>1
  <2>3. PassBehind(s)'
    BY <1>0, <1>1, <2>1, <2>2 DEF PassBehind, Telling, ToldUpTo, AllTold
  <2> QED BY <1>2, <2>1, <2>3
<1>9. CASE SyncSave(s)
  <2>1. PICK x : sy' = [sy EXCEPT ![s] = x] /\ x.at \in {"idle", "move"}
    <3>1. [NoSync EXCEPT !.at = "move", !.label = sy[s].label].at = "move" /\ NoSync.at = "idle"
      BY DEF NoSync
    <3> QED BY <1>9, <3>1 DEF SyncSave
  <2>2. sy[s].at = "save" /\ UNCHANGED <<comments, told>> /\ cursor' \in {sy[s].next, cursor}
    BY <1>9 DEF SyncSave
  <2>3. CASE cursor' = cursor
    BY <1>3, <2>1, <2>2, <2>3
  <2>4. CASE cursor' = sy[s].next
    <3>1. CursorBehind' /\ CaughtUp'
      BY <1>0, <1>1, <2>2, <2>4
         DEF CursorBehind, CaughtUp, PassBehind, Telling, ToldUpTo, AllTold
    <3>2. ASSUME NEW t \in Syncs PROVE PassBehind(t)'
      <4>1. Locked(s)
        BY <2>2 DEF Locked
      <4>2. sy'[t].at \in {"idle", "snapped", "move"}
        <5>1. CASE t = s
          BY <1>0, <2>1, <5>1
        <5>2. CASE t # s
          BY <1>0, <2>1, <4>1, <5>2, OthersWait
        <5> QED BY <5>1, <5>2
      <4> QED BY <4>2 DEF PassBehind, Telling
    <3> QED BY <3>1, <3>2 DEF Behind
  <2> QED BY <2>2, <2>3, <2>4
<1>10. CASE SyncMoveRead(s)
  <2>1. PICK x : sy' = [sy EXCEPT ![s] = x] /\ x.at \in {"idle", "swap"}
    <3>1. [sy[s] EXCEPT !.at = "swap", !.from = label, !.cur = current].at = "swap" /\ NoSync.at = "idle"
      BY DEF NoSync, Typed, SyncsKnow
    <3> QED BY <1>10, <3>1 DEF SyncMoveRead, Typed, SyncsKnow
  <2> QED BY <1>3, <1>10, <2>1 DEF SyncMoveRead, history
<1>11. CASE SyncMove(s)
  <2>1. sy' = [sy EXCEPT ![s] = NoSync] /\ NoSync.at = "idle" /\ UNCHANGED <<cursor, comments, told>>
    BY <1>11 DEF SyncMove, NoSync
  <2> QED BY <1>3, <2>1
<1> QED BY <1>4, <1>5, <1>6, <1>7, <1>8, <1>9, <1>10, <1>11 DEF SyncGoesOn

LEMMA BehindForge ==
    ASSUME Typed, Behind, CaughtUp, Forge
    PROVE  Behind' /\ CaughtUp'
<1>1. UNCHANGED <<cursor, comments, sy, told>>
  BY DEF Forge, Review, Comment, Push, Check, Base, Post, syncVars, history
<1>2. /\ forge.ver <= forge'.ver /\ forge.sha <= forge'.sha /\ forge.reviews <= forge'.reviews
      /\ \/ forge.ver < forge'.ver
         \/ forge'.ver = forge.ver /\ forge'.reviews = forge.reviews /\ forge'.comments = forge.comments
      /\ forge'.ver \in Nat /\ forge'.sha \in Nat /\ forge'.reviews \in Nat
  <2>0. forge \in [ver : Nat, sha : Nat, reviews : Nat, comments : Nat,
                   red : BOOLEAN, merge : Merges]
    BY DEF Typed, ForgeTyped
  <2>1. PICK v \in Nat, n \in Nat, c \in Nat, h \in Nat :
          v = forge.ver + 1 /\ n = forge.reviews + 1 /\ c = forge.comments + 1 /\ h = forge.sha + 1
    BY <2>0
  <2>2. CASE Review
    <3>1. forge' = [forge EXCEPT !.ver = v, !.reviews = n]
      BY <2>0, <2>1, <2>2 DEF Review, Post
    <3> QED BY <2>0, <2>1, <3>1
  <2>3. CASE Comment
    <3>1. forge' = [forge EXCEPT !.ver = v, !.comments = c]
      BY <2>0, <2>1, <2>3 DEF Comment, Post
    <3> QED BY <2>0, <2>1, <3>1
  <2>4. CASE Push
    <3>1. forge' = [forge EXCEPT !.ver = v, !.sha = h, !.red = FALSE]
      BY <2>0, <2>1, <2>4 DEF Push, Post
    <3> QED BY <2>0, <2>1, <3>1
  <2>5. CASE Check
    BY <2>0, <2>5 DEF Check, Post
  <2>6. CASE Base
    <3>1. PICK m : forge' = [forge EXCEPT !.merge = m]
      BY <2>6 DEF Base, Post
    <3> QED BY <2>0, <3>1
  <2> QED BY <2>2, <2>3, <2>4, <2>5, <2>6 DEF Forge
<1>3. CursorBehind' /\ CaughtUp'
  BY <1>1, <1>2, MarksAreNumbers DEF Behind, CursorBehind, ToldUpTo, CaughtUp
<1>4. ASSUME NEW s \in Syncs PROVE PassBehind(s)'
  BY <1>1, <1>2, MarksAreNumbers DEF Behind, PassBehind, Telling, ToldUpTo, AllTold
<1> QED BY <1>3, <1>4 DEF Behind

\* What dies with a pass was not below the cursor.
LEMMA BehindCrash ==
    ASSUME Typed, Behind, CaughtUp, Crash
    PROVE  Behind' /\ CaughtUp'
<1>1. /\ UNCHANGED <<cursor, comments, forge>> /\ told' = told \ Appending
      /\ \A s \in Syncs : sy'[s] = NoSync
  BY DEF Crash
<1>2. \A k : <<"review", k>> \in Appending => cursor.review < k /\ cursor.ver < forge.ver
  BY DEF Appending, Behind, PassBehind
<1>3. CursorBehind'
  BY <1>1, <1>2, MarksAreNumbers DEF Behind, CursorBehind, ToldUpTo
<1>4. CaughtUp'
  BY <1>1, <1>2, MarksAreNumbers DEF CaughtUp
<1>5. \A s \in Syncs : PassBehind(s)'
  BY <1>1 DEF PassBehind, Telling, NoSync
<1> QED BY <1>3, <1>4, <1>5 DEF Behind

LEMMA BehindStep == Typed /\ Behind /\ CaughtUp /\ [Next]_vars => Behind' /\ CaughtUp'
<1> SUFFICES ASSUME Typed, Behind, CaughtUp, [Next]_vars PROVE Behind' /\ CaughtUp'
  OBVIOUS
<1>1. ASSUME UNCHANGED <<cursor, comments, forge, sy>>, told \subseteq told'
      PROVE  Behind' /\ CaughtUp'
  BY <1>1 DEF Behind, CursorBehind, PassBehind, Telling, ToldUpTo, AllTold, CaughtUp
<1>2. CASE UNCHANGED vars
  BY <1>1, <1>2 DEF vars
<1>3. CASE Elsewhere
  BY <1>1, <1>3, ElsewhereFrame
<1> QED BY <1>2, <1>3, BehindSync, BehindForge, BehindCrash DEF Next, Elsewhere

\* What was told and saved is not found by the pass that fetches.
LEMMA OnceFetch ==
    ASSUME Typed, Behind, Once, NEW s \in Syncs, sy[s].at = "fetch",
           NEW i \in Posts \cap (told \ unsaved)
    PROVE  /\ Below(i, cursor)
           /\ \A got : i \in Found(s, got) => i[1] = "conflict"
<1>1. ~Telling(s) /\ \A t \in Syncs \ {s} : ~Telling(t)
  <2>1. Locked(s)
    BY DEF Locked
  <2> QED BY <2>1, OthersWait DEF Telling
<1>2. Below(i, cursor)
  BY <1>1 DEF Once, BelowCursor
<1>3. ASSUME NEW got, i \in Found(s, got) PROVE i[1] = "conflict"
  <2>1. cursor.sha <= sy[s].head.sha
    BY DEF Behind, PassBehind
  <2>2. ASSUME NEW k \in NewReviews(s, got), i = <<"review", k>> PROVE FALSE
    <3>1. cursor.review < k /\ k \in Nat
      BY <2>2, MarksAreNumbers DEF NewReviews, Seen
    <3>2. k <= cursor.review
      BY <1>2, <2>2 DEF Below
    <3> QED BY <3>1, <3>2, MarksAreNumbers
  <2>3. ASSUME i = <<"checks", sy[s].head.sha>>, IsRed(s, got) PROVE FALSE
    <3>1. /\ sy[s].head.sha # cursor.sha => SeenChecks(s) = 0
          /\ sy[s].head.sha = cursor.sha => SeenChecks(s) = cursor.checks
          /\ SeenChecks(s) # sy[s].head.sha
      BY <2>3 DEF SeenChecks, IsRed
    <3>2. \/ sy[s].head.sha < cursor.sha
          \/ sy[s].head.sha = cursor.sha /\ cursor.checks = sy[s].head.sha
      BY <1>2, <2>3 DEF Below
    <3> QED BY <2>1, <3>1, <3>2, MarksAreNumbers
  <2> QED BY <1>3, <2>2, <2>3 DEF Found
<1> QED BY <1>2, <1>3

LEMMA OnceSync ==
    ASSUME Typed, Behind, CaughtUp, Once, NEW s \in Syncs, SyncSnap(s) \/ SyncGoesOn(s)
    PROVE  Once'
<1>0. \A x : sy' = [sy EXCEPT ![s] = x] => sy'[s] = x /\ \A t \in Syncs \ {s} : sy'[t] = sy[t]
  BY DEF Typed, SyncsKnow
<1>1. ASSUME UNCHANGED <<cursor, told, unsaved>>, NEW x, sy' = [sy EXCEPT ![s] = x],
             ~Telling(s), x.at \notin {"append", "save"}
      PROVE  Once'
  <2>1. \A t \in Syncs : (Telling(t))' <=> Telling(t)
    BY <1>0, <1>1 DEF Telling
  <2>2. \A t \in Syncs : Telling(t) => sy'[t] = sy[t]
    BY <1>0, <1>1
  <2> QED BY <1>1, <2>1, <2>2 DEF Once, BelowCursor, BelowNext, Below
<1>2. CASE SyncSnap(s)
  <2>1. PICK x : sy' = [sy EXCEPT ![s] = x] /\ x.at = "snapped"
    <3>1. [sy[s] EXCEPT !.at = "snapped", !.cur = current, !.label = label].at = "snapped"
      BY DEF Typed, SyncsKnow
    <3>2. sy' = [sy EXCEPT ![s] = [sy[s] EXCEPT !.at = "snapped", !.cur = current, !.label = label]]
      BY <1>2 DEF SyncSnap, Typed, SyncsKnow
    <3> QED BY <3>1, <3>2
  <2> QED BY <1>1, <1>2, <2>1 DEF SyncSnap, history, Telling
<1>3. CASE SyncNoHead(s)
  BY <1>1, <1>3 DEF SyncNoHead, NoSync, history, Telling
<1>4. CASE SyncHead(s)
  <2>1. PICK x : sy' = [sy EXCEPT ![s] = x] /\ x.at = "fetch"
    <3> DEFINE h == [ver |-> forge.ver, sha |-> forge.sha, merge |-> forge.merge]
    <3>1. sy' = [sy EXCEPT ![s].at = "fetch", ![s].head = h]
      BY <1>4 DEF SyncHead
    <3> HIDE DEF h
    <3>2. [sy[s] EXCEPT !.at = "fetch", !.head = h].at = "fetch"
      BY DEF Typed, SyncsKnow
    <3>3. sy' = [sy EXCEPT ![s] = [sy[s] EXCEPT !.at = "fetch", !.head = h]]
      BY <3>1 DEF Typed, SyncsKnow
    <3> QED BY <3>2, <3>3
  <2> QED BY <1>1, <1>4, <2>1 DEF SyncHead, history, Telling
<1>5. CASE SyncFetchSome(s)
  <2>1. PICK tried, next, parts, talk : tried \in Tried(s) /\ \E got \in SUBSET tried :
              /\ Fetched(s, tried, got, next, parts, talk)
              /\ sy'[s].at \in {"idle", "append", "save"}
              /\ sy'[s].parts = parts
              /\ sy'[s].at \in {"append", "save"} => sy'[s].next = next
              /\ parts # <<>> => sy'[s].at = "append"
              /\ sy'[s].at = "idle" => next = cursor /\ ~talk
              /\ \A t \in Syncs \ {s} : sy'[t] = sy[t]
    BY <1>5, FetchShape
  <2>2. PICK got \in SUBSET tried : Fetched(s, tried, got, next, parts, talk)
    BY <2>1
  <2>3. sy[s].at = "fetch"
    BY <1>5 DEF SyncFetchSome
  <2>4. /\ cursor.sha <= next.sha /\ cursor.review <= next.review /\ next.review <= forge.reviews
    BY <2>1, <2>2, <2>3, FetchTells
  <2>5. /\ told' = told \cup ToSet(parts) /\ unsaved' = unsaved \ ToSet(parts) /\ cursor' = cursor
        /\ ToSet(parts) = Found(s, got) /\ next.sha = sy[s].head.sha /\ next \in Marks
        /\ next.review = (IF "reviews" \in got THEN forge.reviews ELSE cursor.review)
        /\ next.checks = (IF IsRed(s, got) THEN sy[s].head.sha ELSE SeenChecks(s))
    BY <2>2 DEF Fetched
  <2>6. /\ \A t \in Syncs \ {s} : ~(Telling(t))' /\ ~Telling(t)
        /\ ~Telling(s)
    <3>1. Locked(s)
      BY <2>3 DEF Locked
    <3> QED BY <2>1, <2>3, <3>1, OthersWait DEF Telling
  <2>7. ASSUME NEW i \in Posts \cap (told' \ unsaved'), i \in ToSet(parts)
        PROVE  (BelowCursor(i))' /\ (BelowNext(i))'
    <3>1. parts # <<>>
      BY <2>7, SetOfEmpty
    <3>2. (Telling(s))' /\ i \in ToSet(sy'[s].parts) /\ sy'[s].next = next
      BY <2>1, <2>7, <3>1 DEF Telling
    <3>3. Below(i, next)
      <4>1. ASSUME NEW k \in NewReviews(s, got), i = <<"review", k>> PROVE Below(i, next)
        BY <2>5, <4>1 DEF NewReviews, Below
      <4>2. ASSUME i = <<"checks", sy[s].head.sha>>, IsRed(s, got) PROVE Below(i, next)
        BY <2>5, <4>2 DEF Below
      <4>3. CASE i = <<"conflict", sy[s].head.sha>>
        BY <4>3 DEF Below
      <4> QED BY <2>5, <2>7, <4>1, <4>2, <4>3 DEF Found
    <3>4. (BelowCursor(i))'
      BY <3>2 DEF BelowCursor
    <3>5. (BelowNext(i))'
      BY <2>6, <3>2, <3>3 DEF BelowNext, Below
    <3> QED BY <3>4, <3>5
  <2>8. ASSUME NEW i \in Posts \cap (told' \ unsaved'), i \notin ToSet(parts)
        PROVE  (BelowCursor(i))' /\ (BelowNext(i))'
    <3>1. i \in Posts \cap (told \ unsaved)
      BY <2>5, <2>8
    <3>2. Below(i, cursor) /\ i[2] \in Nat
      BY <2>3, <3>1, OnceFetch, MarksAreNumbers
    <3>3. Below(i, next)
      <4>1. i[1] = "review" => i[2] <= next.review
        BY <2>4, <2>5, <3>2, MarksAreNumbers DEF Below, Marks
      <4>2. ASSUME i[1] = "checks" PROVE i[2] < next.sha \/ (i[2] = next.sha /\ next.checks = i[2])
        <5>1. CASE i[2] < cursor.sha
          BY <2>4, <2>5, <3>2, <5>1, MarksAreNumbers DEF Marks
        <5>2. CASE i[2] = cursor.sha /\ cursor.checks = i[2]
          <6>1. CASE next.sha = cursor.sha
            <7>1. SeenChecks(s) = cursor.checks
              BY <2>5, <6>1 DEF SeenChecks
            <7> QED BY <2>5, <5>2, <6>1, <7>1
          <6>2. CASE next.sha # cursor.sha
            BY <2>4, <2>5, <5>2, <6>2, MarksAreNumbers DEF Marks
          <6> QED BY <6>1, <6>2
        <5> QED BY <3>2, <4>2, <5>1, <5>2 DEF Below
      <4> QED BY <4>1, <4>2 DEF Below
    <3>4. (BelowCursor(i))'
      BY <2>5, <3>2 DEF BelowCursor, Below
    <3>5. (BelowNext(i))'
      BY <2>1, <2>6, <3>3 DEF BelowNext, Below, Telling
    <3> QED BY <3>4, <3>5
  <2> QED BY <2>7, <2>8 DEF Once
<1>6. CASE SyncAppend(s)
  <2> DEFINE x == [sy[s] EXCEPT !.at = "save", !.cur = NoRun, !.base = <<>>]
  <2>1. /\ sy' = [sy EXCEPT ![s] = x] /\ UNCHANGED <<cursor, told, unsaved>>
        /\ sy[s].at = "append" /\ x.at = "save" /\ x.next = sy[s].next /\ x.parts = sy[s].parts
    BY <1>6 DEF SyncAppend, Typed, SyncsKnow
  <2> HIDE DEF x
  <2>2. sy'[s] = x /\ \A t \in Syncs \ {s} : sy'[t] = sy[t]
    BY <1>0, <2>1
  <2>3. \A t \in Syncs : /\ (Telling(t))' <=> Telling(t)
                         /\ sy'[t].next = sy[t].next /\ sy'[t].parts = sy[t].parts
    BY <2>1, <2>2 DEF Telling
  <2> QED BY <2>1, <2>3 DEF Once, BelowCursor, BelowNext, Below
<1>7. CASE SyncSave(s)
  <2>1. PICK x : sy' = [sy EXCEPT ![s] = x] /\ x.at \in {"idle", "move"}
    <3>1. [NoSync EXCEPT !.at = "move", !.label = sy[s].label].at = "move" /\ NoSync.at = "idle"
      BY DEF NoSync
    <3> QED BY <1>7, <3>1 DEF SyncSave
  <2>2. /\ sy[s].at = "save" /\ told' = told
        /\ \/ cursor' = sy[s].next /\ unsaved' = unsaved
           \/ cursor' = cursor /\ unsaved' = unsaved \cup ToSet(sy[s].parts)
    BY <1>7 DEF SyncSave
  <2>3. \A t \in Syncs \ {s} : ~Telling(t)
    <3>1. Locked(s)
      BY <2>2 DEF Locked
    <3> QED BY <3>1, OthersWait DEF Telling
  <2>4. Telling(s) /\ \A t \in Syncs : ~(Telling(t))'
    BY <1>0, <2>1, <2>2, <2>3 DEF Telling
  <2>5. ASSUME NEW i \in Posts \cap (told' \ unsaved') PROVE (BelowCursor(i))' /\ (BelowNext(i))'
    <3>1. i \in Posts \cap (told \ unsaved)
      BY <2>2, <2>5
    <3>2. Below(i, sy[s].next) /\ (Below(i, cursor) \/ i \in ToSet(sy[s].parts))
      BY <2>3, <2>4, <3>1 DEF Once, BelowCursor, BelowNext
    <3>3. (Below(i, cursor))'
      <4>1. CASE cursor' = sy[s].next
        BY <3>2, <4>1 DEF Below
      <4>2. CASE cursor' = cursor /\ unsaved' = unsaved \cup ToSet(sy[s].parts)
        BY <2>5, <3>2, <4>2 DEF Below
      <4> QED BY <2>2, <4>1, <4>2
    <3> QED BY <2>4, <3>3 DEF BelowCursor, BelowNext
  <2> QED BY <2>5 DEF Once
<1>8. CASE SyncMoveRead(s)
  <2>1. PICK x : sy' = [sy EXCEPT ![s] = x] /\ x.at \in {"idle", "swap"}
    <3>1. [sy[s] EXCEPT !.at = "swap", !.from = label, !.cur = current].at = "swap" /\ NoSync.at = "idle"
      BY DEF NoSync, Typed, SyncsKnow
    <3> QED BY <1>8, <3>1 DEF SyncMoveRead, Typed, SyncsKnow
  <2> QED BY <1>1, <1>8, <2>1 DEF SyncMoveRead, history, Telling
<1>9. CASE SyncMove(s)
  BY <1>1, <1>9 DEF SyncMove, NoSync, Telling
<1> QED BY <1>2, <1>3, <1>4, <1>5, <1>6, <1>7, <1>8, <1>9 DEF SyncGoesOn

LEMMA OnceStep == Typed /\ Behind /\ CaughtUp /\ Once /\ [Next]_vars => Once'
<1> SUFFICES ASSUME Typed, Behind, CaughtUp, Once, [Next]_vars PROVE Once'
  OBVIOUS
<1>1. ASSUME UNCHANGED <<cursor, sy, unsaved>>, told' \cap Posts \subseteq told PROVE Once'
  BY <1>1 DEF Once, BelowCursor, BelowNext, Below, Telling
<1>2. CASE UNCHANGED vars
  BY <1>1, <1>2 DEF vars
<1>3. CASE Elsewhere
  BY <1>1, <1>3, ElsewhereFrame
<1>4. CASE Forge
  <2>1. UNCHANGED <<cursor, sy, unsaved, told>>
    BY <1>4 DEF Forge, Review, Comment, Push, Check, Base, Post, syncVars, history
  <2> QED BY <1>1, <2>1
<1>5. CASE Crash
  <2>1. /\ cursor' = cursor /\ told' \subseteq told
        /\ unsaved' = unsaved \cup UNION {ToSet(sy[s].parts) : s \in Syncs}
        /\ \A s \in Syncs : ~(Telling(s))'
    BY <1>5 DEF Crash, Telling, NoSync
  <2>2. ASSUME NEW i \in Posts \cap (told' \ unsaved') PROVE (Below(i, cursor))'
    BY <2>1, <2>2 DEF Once, BelowCursor, Below
  <2> QED BY <2>1, <2>2 DEF Once, BelowCursor, BelowNext
<1> QED BY <1>2, <1>3, <1>4, <1>5, OnceSync DEF Next, Elsewhere

-----------------------------------------------------------------------------
(* Nothing is dropped.                                                     *)

\* Findings and notes are new when they are written.
LEMMA FreshWords ==
    ASSUME Typed, Known, NewNotes, NewFindings
    PROVE  /\ \A r \in Runs : phase[r] = "writing" =>
                 <<"findings", r>> \notin told \cup again \cup Texts
           /\ req.at = "note" => <<"note", acts>> \notin told \cup again \cup Texts
<1>1. \A i : i \in Texts => i \in told \cup again
  BY DEF Known
<1>2. \A r \in Runs : phase[r] = "writing" => <<"findings", r>> \notin told \cup again
  BY DEF NewFindings
<1>3. req.at = "note" => <<"note", acts>> \notin told \cup again
  <2>1. req.at = "note" => acts \in 1..MaxActs
    BY DEF Typed, RequestKnows, ForgeTyped
  <2> QED BY <2>1 DEF NewNotes
<1> QED BY <1>1, <1>2, <1>3

\* The rows that syncs and starts hold are texts.
LEMMA HeldTexts ==
    /\ \A s \in Syncs : ToSet(sy[s].base) \subseteq Texts
    /\ \A r \in Runs : On(r) \subseteq Texts /\ ToSet(mem[r].inh) \subseteq Texts
    /\ \A s \in Starters : st[s].at = "claim" => ToSet(st[s].fb) \subseteq InFlight
    /\ InFlight \subseteq Texts /\ addressed \subseteq Texts
<1>1. /\ \A s \in Starters : st[s].at = "claim" => ToSet(st[s].fb) \subseteq InFlight
      /\ \A r \in Runs : On(r) \subseteq OnRows
      /\ \A r \in Runs : ToSet(mem[r].inh) \subseteq InHand
      /\ \A s \in Syncs : ToSet(sy[s].base) \subseteq InBases
  BY DEF InFlight, OnRows, InHand, InBases
<1> QED BY <1>1 DEF Texts

AppendSame(s) ==
    /\ sy'[s].at = "append" <=> sy[s].at = "append"
    /\ sy[s].at = "append" => sy'[s] = sy[s]

LEMMA AppendingFrame ==
    ASSUME \A s \in Syncs : AppendSame(s)
    PROVE  Appending' = Appending
BY DEF AppendSame, Appending

\* A pass in the lock that appends is the only one.
LEMMA OneAppends ==
    ASSUME Typed, NEW s \in Syncs, Locked(s)
    PROVE  /\ sy[s].at = "append" => Appending = ToSet(sy[s].parts)
           /\ sy[s].at # "append" => Appending = {}
           /\ \A t \in Syncs \ {s} : sy[t].at # "append"
<1>1. \A t \in Syncs \ {s} : sy[t].at # "append"
  BY OthersWait
<1> QED BY <1>1 DEF Appending

LEMMA KeptQuiet ==
    ASSUME Kept, UNCHANGED <<fb, current, told>>, waived \subseteq waived', addressed \subseteq addressed',
           \A s \in Syncs : AppendSame(s),
           \A t \in Starters : st'[t].at = "claim" => st'[t] = st[t]
    PROVE  Kept'
<1>1. Gone \subseteq Gone'
  BY AppendingFrame DEF Gone
<1>2. KeptUntilAddressed'
  BY AppendingFrame DEF Kept, KeptUntilAddressed, On
<1>3. KeptByStart'
  BY <1>1 DEF Kept, KeptByStart, On
<1>4. KeptBySync'
  BY <1>1 DEF Kept, KeptBySync, AppendSame, On
<1> QED BY <1>2, <1>3, <1>4 DEF Kept

\* An older row comes back.
LEMMA KeptPutBack ==
    ASSUME Kept, NEW c, PutBack(c), UNCHANGED <<fb, told, addressed>>,
           \A s \in Syncs : AppendSame(s),
           \A t \in Starters : st'[t].at = "claim" => st'[t] = st[t]
    PROVE  Kept'
<1>1. CASE current = c
  BY <1>1, KeptQuiet DEF PutBack
<1>2. CASE current # c
  <2>1. /\ current' = c /\ On(current) \subseteq waived' \cup On(c) /\ waived \subseteq waived'
        /\ HasRead(c) => On(current) \subseteq waived'
    BY <1>2 DEF PutBack
  <2>2. Gone \subseteq Gone' /\ Appending' = Appending /\ waived' \subseteq Gone'
    BY <2>1, AppendingFrame DEF Gone
  <2>3. KeptUntilAddressed'
    BY <2>1, <2>2 DEF Kept, KeptUntilAddressed, On
  <2>4. ASSUME NEW t \in Starters, st'[t].at = "claim", st'[t].cur = current'
        PROVE  (On(current))' \cap told' \subseteq ToSet(st'[t].fb) \cup Gone'
    <3>1. HasRead(c)
      BY <2>1, <2>4 DEF HasRead
    <3>2. told \subseteq Gone \cup On(current)
      BY DEF Kept, KeptUntilAddressed, Gone
    <3> QED BY <2>1, <2>2, <3>1, <3>2
  <2>5. KeptBySync'
    BY <2>2 DEF Kept, KeptBySync, AppendSame, On
  <2> QED BY <2>3, <2>4, <2>5 DEF Kept, KeptByStart
<1> QED BY <1>1, <1>2

\* Somebody writes new words over the row of r.
LEMMA KeptWrite ==
    ASSUME Typed, Kept, NEW r \in Runs, NEW i, i \notin Texts,
           fb' = [fb EXCEPT ![r] = <<i>>], told' = told \cup {i},
           waived' = waived \cup On(r) \cup (IF current = r /\ ~HasRead(r) THEN {} ELSE {i}),
           UNCHANGED <<current, addressed, sy, st>>
    PROVE  Kept'
<1>1. /\ (On(r))' = {i} /\ \A q \in Runs \ {r} : (On(q))' = On(q)
  BY SetOfOne DEF On, Typed, RowsTyped
<1>2. Gone \subseteq Gone' /\ waived' \subseteq Gone' /\ Appending' = Appending
  BY DEF Gone, Appending
<1>3. current \in Runs
  BY DEF Typed, TaskTyped, Used
<1>4. KeptUntilAddressed'
  <2>1. told \subseteq On(current) \cup Gone /\ Gone' = addressed' \cup waived' \cup Appending'
    BY DEF Kept, KeptUntilAddressed, Gone
  <2>2. PICK c \in Runs : c = current
    BY <1>3
  <2>3. told' \subseteq (On(c))' \cup Gone'
    <3>1. CASE c = r
      BY <1>1, <1>2, <2>1, <2>2, <3>1
    <3>2. CASE c # r
      BY <1>1, <1>2, <2>1, <2>2, <3>2
    <3> QED BY <3>1, <3>2
  <2>4. (On(c))' = ToSet(fb'[c]) /\ current' = c
    BY <2>2 DEF On
  <2> QED BY <2>1, <2>3, <2>4 DEF KeptUntilAddressed, On
<1>5. ASSUME NEW t \in Starters, st'[t].at = "claim", st'[t].cur = current'
      PROVE  (On(current))' \cap told' \subseteq ToSet(st'[t].fb) \cup Gone'
  <2>1. On(current) \cap told \subseteq ToSet(st[t].fb) \cup Gone /\ HasRead(current)
    BY <1>5 DEF Kept, KeptByStart, HasRead
  <2>2. i \in waived'
    BY <2>1
  <2> QED BY <1>1, <1>2, <1>3, <2>1, <2>2
<1>6. ASSUME NEW s \in Syncs, sy'[s].at = "append"
      PROVE  ToSet(sy'[s].base) \cap told' \subseteq (On(sy[s].cur))' \cup Gone'
  <2>1. i \notin ToSet(sy[s].base)
    BY HeldTexts
  <2>2. ToSet(sy[s].base) \cap told \subseteq On(sy[s].cur) \cup Gone /\ sy[s].cur \in Runs
    BY <1>6 DEF Kept, KeptBySync, Typed, SyncsKnow, Used
  <2> QED BY <1>1, <1>2, <2>1, <2>2
<1> QED BY <1>4, <1>5, <1>6 DEF Kept, KeptByStart, KeptBySync

LEMMA KeptElsewhere ==
    ASSUME Typed, Kept, Known, NewNotes, NewFindings, Elsewhere
    PROVE  Kept'
<1>0. /\ \A s \in Syncs : sy' = sy => AppendSame(s)
      /\ \A c \in Starters : \A x : st' = [st EXCEPT ![c] = x] =>
            st'[c] = x /\ \A t \in Starters \ {c} : st'[t] = st[t]
      /\ current \in Runs /\ \A r \in Used : r \in Runs
  BY DEF AppendSame, Typed, StartsKnow, TaskTyped, Used
<1>1. ASSUME NEW c \in Starters, NEW held, Read(c, held) PROVE Kept'
  <2> DEFINE x == [NoSt EXCEPT !.at = "claim", !.label = label,
                        !.held = held, !.cur = current, !.fb = fb[current]]
  <2>1. UNCHANGED <<current, fb, sy, told, addressed, waived>> /\ st' = [st EXCEPT ![c] = x]
    BY <1>1 DEF Read, taskVars, syncVars, history
  <2>2. x.fb = fb[current]
    BY DEF NoSt
  <2> HIDE DEF x
  <2>3. KeptUntilAddressed' /\ KeptBySync' /\ Gone' = Gone
    BY <2>1 DEF Kept, KeptUntilAddressed, KeptBySync, On, Appending, Gone
  <2>4. ASSUME NEW t \in Starters, st'[t].at = "claim", st'[t].cur = current'
        PROVE  (On(current))' \cap told' \subseteq ToSet(st'[t].fb) \cup Gone'
    <3>1. CASE t = c
      BY <1>0, <2>1, <2>2, <3>1 DEF On
    <3>2. CASE t # c
      <4>1. st'[t] = st[t]
        BY <1>0, <2>1, <3>2
      <4> QED BY <2>1, <2>3, <2>4, <4>1 DEF Kept, KeptByStart, On
    <3> QED BY <3>1, <3>2
  <2> QED BY <2>3, <2>4 DEF Kept, KeptByStart
<1>2. ASSUME NEW s \in Starters, NEW runs \in BOOLEAN, Claim(s, runs) PROVE Kept'
  <2>1. PICK r \in Unused :
         /\ fb' = [fb EXCEPT ![r] = st[s].fb]
         /\ current' = r
         /\ st' = [st EXCEPT ![s] = IF runs THEN NoSt
                        ELSE [NoSt EXCEPT !.at = "escalate", !.cur = st[s].cur,
                                          !.run = r]]
    BY <1>2 DEF Claim, Copy
  <2>2. /\ r \in Runs /\ r \notin Used
        /\ UNCHANGED <<sy, told, addressed>> /\ st[s].at = "claim"
        /\ waived' = IF current # st[s].cur THEN waived \cup On(current) ELSE waived
    BY <1>2, <2>1 DEF Unused, Used, Claim, syncVars
  <2>3. /\ (On(r))' = ToSet(st[s].fb)
        /\ \A q \in Runs \ {r} : (On(q))' = On(q)
    BY <2>1, <2>2 DEF On, Typed, RowsTyped
  <2>4. Gone \subseteq Gone' /\ waived' \subseteq Gone' /\ Appending' = Appending
        /\ Gone' = addressed' \cup waived' \cup Appending'
    BY <2>2 DEF Gone, Appending
  <2>5. told' \subseteq (On(r))' \cup Gone'
    <3>1. told \subseteq On(current) \cup Gone
      BY DEF Kept, KeptUntilAddressed, Gone
    <3>2. CASE current = st[s].cur
      <4>1. On(current) \cap told \subseteq ToSet(st[s].fb) \cup Gone
        BY <2>2, <3>2 DEF Kept, KeptByStart
      <4> QED BY <2>2, <2>3, <2>4, <3>1, <4>1
    <3>3. CASE current # st[s].cur
      BY <2>2, <2>4, <3>1, <3>3
    <3> QED BY <3>2, <3>3
  <2>6. KeptUntilAddressed'
    <3>1. (On(r))' = ToSet(fb'[r]) /\ current' = r
      BY <2>1 DEF On
    <3> QED BY <2>4, <2>5, <3>1 DEF KeptUntilAddressed, On
  <2>7. ASSUME NEW t \in Starters, st'[t].at = "claim" PROVE st'[t].cur # current'
    <3>1. t # s
      <4> DEFINE y == [NoSt EXCEPT !.at = "escalate", !.cur = st[s].cur, !.run = r]
      <4>1. y.at = "escalate" /\ NoSt.at = "idle"
        BY DEF NoSt
      <4>2. st'[s] = NoSt \/ st'[s] = y
        BY <1>0, <2>1
      <4> HIDE DEF y
      <4> QED BY <2>7, <4>1, <4>2
    <3>2. st'[t] = st[t]
      BY <1>0, <2>1, <3>1
    <3>3. st[t].cur \in Used
      BY <2>7, <3>2 DEF Typed, StartsKnow
    <3> QED BY <2>1, <2>2, <3>2, <3>3
  <2>8. ASSUME NEW p \in Syncs, sy'[p].at = "append"
        PROVE  ToSet(sy'[p].base) \cap told' \subseteq (On(sy[p].cur))' \cup Gone'
    <3>1. sy[p].cur \in Runs \ {r}
      BY <1>0, <2>2, <2>8 DEF Typed, SyncsKnow
    <3> QED BY <2>2, <2>3, <2>4, <2>8, <3>1 DEF Kept, KeptBySync
  <2> QED BY <2>2, <2>6, <2>7, <2>8 DEF Kept, KeptByStart, KeptBySync
<1>3. ASSUME NEW s \in Starters, Conflict(s) \/ Escalate(s) PROVE Kept'
  <2>1. /\ UNCHANGED <<current, fb, sy, told, addressed, waived>>
        /\ \/ st' = [st EXCEPT ![s] = NoSt]
           \/ st[s].at = "escalate" /\ st' = [st EXCEPT ![s] = [st[s] EXCEPT !.at = "restore"]]
    BY <1>3 DEF Conflict, Escalate, taskVars, syncVars, history, Typed, StartsKnow
  <2>2. [st[s] EXCEPT !.at = "restore"].at = "restore" /\ NoSt.at = "idle"
    BY DEF NoSt, Typed, StartsKnow
  <2>3. st'[s].at # "claim" /\ \A t \in Starters \ {s} : st'[t] = st[t]
    <3>1. PICK x : st' = [st EXCEPT ![s] = x] /\ x.at # "claim"
      BY <2>1, <2>2
    <3> QED BY <1>0, <3>1
  <2> QED BY <1>0, <2>1, <2>3, KeptQuiet
<1>4. ASSUME NEW s \in Starters, Restore(s) PROVE Kept'
  <2>1. /\ UNCHANGED <<fb, sy, told, addressed>>
        /\ st' = [st EXCEPT ![s] = NoSt]
    BY <1>4 DEF Restore, syncVars
  <2>2. \A t \in Starters : st'[t].at = "claim" => st'[t] = st[t]
    BY <1>0, <2>1 DEF NoSt
  <2>3. PICK c : PutBack(c)
    BY <1>4 DEF Restore
  <2> QED BY <1>0, <2>1, <2>2, <2>3, KeptPutBack
<1>5. ASSUME NEW r \in Runs,
             Succeed(r) \/ Fail(r) \/ Ask(r) \/ Die(r) \/ ConsumeRead(r) \/ FindsInPlace(r)
             \/ LoopExceeded(r) \/ RunMoveRead(r) \/ RunGivesUp(r)
      PROVE  Kept'
  <2>1. UNCHANGED <<current, fb, sy, st, told, waived>> /\ addressed \subseteq addressed'
    BY <1>5 DEF Succeed, Fail, Ask, Die, ConsumeRead, FindsInPlace, LoopExceeded, RunMoveRead,
       RunGivesUp, taskVars, syncVars, history
  <2> QED BY <1>0, <2>1, KeptQuiet
<1>6. ASSUME NEW r \in Runs, ConsumeSwap(r) PROVE Kept'
  <2>1. /\ UNCHANGED <<current, sy, st, told, addressed>> /\ waived \subseteq waived'
        /\ phase[r] = "dropping"
    BY <1>6 DEF ConsumeSwap, taskVars, syncVars
  <2>2. CASE fb[r] # mem[r].seen
    <3>1. fb' = fb
      BY <1>6, <2>2 DEF ConsumeSwap
    <3> QED BY <1>0, <2>1, <3>1, KeptQuiet
  <2>3. CASE fb[r] = mem[r].seen
    <3>1. /\ fb' = [fb EXCEPT ![r] = Rest(r)]
          /\ waived' = waived \cup ((ToSet(mem[r].inh) \ addressed) \ ToSet(Rest(r)))
      BY <1>6, <2>3 DEF ConsumeSwap
    <3>2. On(r) = ToSet(mem[r].inh) \cup ToSet(Rest(r))
      <4>1. mem[r].inh \in Seq(Items) /\ mem[r].seen \in Seq(Items) /\ IsPrefix(mem[r].inh, mem[r].seen)
        BY <2>1 DEF Typed, RunsKnow, Mems
      <4> QED BY <2>3, <4>1, SetOfRest DEF On, Rest
    <3>3. /\ (On(r))' = ToSet(Rest(r))
          /\ \A q \in Runs \ {r} : (On(q))' = On(q)
      BY <3>1 DEF On, Typed, RowsTyped
    <3>4. Gone \subseteq Gone' /\ Appending' = Appending /\ Gone' = addressed' \cup waived' \cup Appending'
      BY <2>1 DEF Gone, Appending
    <3>5. \A q \in Runs : On(q) \subseteq (On(q))' \cup Gone' /\ (On(q))' \subseteq On(q)
      BY <2>1, <3>1, <3>2, <3>3, <3>4
    <3>6. PICK c \in Runs : c = current
      BY <1>0
    <3>7. (On(c))' = (On(current))' /\ On(c) = On(current)
      BY <2>1, <3>6 DEF On
    <3>8. KeptUntilAddressed'
      <4>1. told \subseteq On(c) \cup Gone
        BY <3>6 DEF Kept, KeptUntilAddressed, Gone
      <4> QED BY <2>1, <3>4, <3>5, <3>7, <4>1 DEF KeptUntilAddressed
    <3>9. KeptByStart'
      <4>1. (On(c))' \subseteq On(c)
        BY <3>5
      <4> QED BY <2>1, <3>4, <3>7, <4>1 DEF Kept, KeptByStart
    <3>10. ASSUME NEW s \in Syncs, sy'[s].at = "append"
           PROVE  ToSet(sy'[s].base) \cap told' \subseteq (On(sy[s].cur))' \cup Gone'
      <4>1. sy[s].cur \in Runs
        BY <1>0, <2>1, <3>10 DEF Typed, SyncsKnow
      <4>2. ToSet(sy[s].base) \cap told \subseteq On(sy[s].cur) \cup Gone
        BY <2>1, <3>10 DEF Kept, KeptBySync
      <4> QED BY <2>1, <3>4, <3>5, <4>1, <4>2
    <3> QED BY <2>1, <3>8, <3>9, <3>10 DEF Kept, KeptBySync
  <2> QED BY <2>2, <2>3
<1>7. ASSUME NEW r \in Runs, WriteFindings(r) PROVE Kept'
  <2> DEFINE i == <<"findings", r>>
  <2>1. /\ phase[r] = "writing"
        /\ fb' = [fb EXCEPT ![r] = <<i>>] /\ told' = told \cup {i}
        /\ waived' = waived \cup On(r) \cup (IF current = r /\ ~HasRead(r) THEN {} ELSE {i})
        /\ UNCHANGED <<current, addressed, sy, st>>
    BY <1>7 DEF WriteFindings, taskVars, syncVars
  <2>2. i \notin Texts
    BY <2>1, FreshWords
  <2> HIDE DEF i
  <2> QED BY <2>1, <2>2, KeptWrite
<1>8. ASSUME NEW r \in Runs, RunMove(r) PROVE Kept'
  <2>1. UNCHANGED <<fb, sy, st, told, addressed>>
    BY <1>8 DEF RunMove, syncVars
  <2>2. PICK c : PutBack(c)
    BY <1>8 DEF RunMove, MoveTask
  <2> QED BY <1>0, <2>1, <2>2, KeptPutBack
<1>9. CASE RejectRead \/ MoveRequest \/ ReqMoveRead \/ Rerun
  <2>1. UNCHANGED <<current, fb, sy, st, told, addressed, waived>>
    BY <1>9 DEF RejectRead, MoveRequest, ReqMoveRead, Rerun, taskVars, syncVars, goVars, history
  <2> QED BY <1>0, <2>1, KeptQuiet
<1>10. CASE RejectNote
  <2>1. PICK r, i : r \in Runs /\ r = req.cur /\ i = <<"note", acts>>
    BY <1>0, <1>10 DEF RejectNote, Typed, RequestKnows
  <2>2. /\ req.at = "note"
        /\ fb' = [fb EXCEPT ![r] = <<i>>] /\ told' = told \cup {i}
        /\ waived' = waived \cup On(r) \cup (IF r = current /\ ~HasRead(current) THEN {} ELSE {i})
        /\ UNCHANGED <<current, addressed, sy, st>>
    BY <1>10, <2>1 DEF RejectNote, taskVars, syncVars, goVars
  <2>3. i \notin Texts
    BY <2>1, <2>2, FreshWords
  <2>4. waived' = waived \cup On(r) \cup (IF current = r /\ ~HasRead(r) THEN {} ELSE {i})
    BY <2>2
  <2> QED BY <2>1, <2>2, <2>3, <2>4, KeptWrite
<1>11. CASE ReqMove
  <2>1. UNCHANGED <<fb, sy, st, told, addressed>>
    BY <1>11 DEF ReqMove, syncVars, goVars
  <2>2. (\E c : PutBack(c)) \/ UNCHANGED <<current, waived>>
    BY <1>11 DEF ReqMove, MoveTask, taskVars
  <2> QED BY <1>0, <2>1, <2>2, KeptPutBack, KeptQuiet
<1>12. SweepRead \/ ReplyRead => Kept'
  BY <1>1 DEF SweepRead, ReplyRead, Starters
<1>13. \A s \in Starters : Start(s) => Kept'
  BY <1>2, <1>3, <1>4 DEF Start
<1>14. \A r \in Runs : Run(r) => Kept'
  BY <1>5, <1>6, <1>7, <1>8 DEF Run
<1>15. People => Kept'
  BY <1>9, <1>10, <1>11 DEF People
<1> QED BY <1>12, <1>13, <1>14, <1>15 DEF Elsewhere

LEMMA KeptSync ==
    ASSUME Typed, Kept, NEW s \in Syncs, SyncSnap(s) \/ SyncGoesOn(s)
    PROVE  Kept'
<1>0. /\ \A x : sy' = [sy EXCEPT ![s] = x] => sy'[s] = x /\ \A t \in Syncs \ {s} : sy'[t] = sy[t]
      /\ current \in Runs /\ \A r \in Used : r \in Runs
  BY DEF Typed, SyncsKnow, TaskTyped, Used
<1>1. ASSUME sy[s].at # "append", NEW x, x.at # "append", sy' = [sy EXCEPT ![s] = x]
      PROVE  \A t \in Syncs : AppendSame(t)
  BY <1>0, <1>1 DEF AppendSame
<1>2. ASSUME SyncSnap(s) \/ SyncNoHead(s) \/ SyncHead(s) \/ SyncSave(s) \/ SyncMoveRead(s) PROVE Kept'
  <2>1. /\ UNCHANGED <<current, fb, st, told, addressed, waived>>
        /\ sy[s].at # "append"
    BY <1>2 DEF SyncSnap, SyncNoHead, SyncHead, SyncSave, SyncMoveRead, taskVars, goVars, history
  <2>2. PICK x : sy' = [sy EXCEPT ![s] = x] /\ x.at # "append"
    <3> DEFINE h == [ver |-> forge.ver, sha |-> forge.sha, merge |-> forge.merge]
               a == [sy[s] EXCEPT !.at = "snapped", !.cur = current, !.label = label]
               b == [sy[s] EXCEPT !.at = "fetch", !.head = h]
               c == [NoSync EXCEPT !.at = "move", !.label = sy[s].label]
               d == [sy[s] EXCEPT !.at = "swap", !.from = label, !.cur = current]
    <3>1. sy' = [sy EXCEPT ![s] = a] \/ sy' = [sy EXCEPT ![s] = NoSync] \/ sy' = [sy EXCEPT ![s] = b]
          \/ sy' = [sy EXCEPT ![s] = c] \/ sy' = [sy EXCEPT ![s] = d]
      BY <1>2 DEF SyncSnap, SyncNoHead, SyncHead, SyncSave, SyncMoveRead, Typed, SyncsKnow
    <3>2. a.at = "snapped" /\ b.at = "fetch" /\ c.at = "move" /\ d.at = "swap" /\ NoSync.at = "idle"
      BY DEF NoSync, Typed, SyncsKnow
    <3> HIDE DEF a, b, c, d
    <3> QED BY <3>1, <3>2
  <2>3. \A t \in Syncs : AppendSame(t)
    BY <1>1, <2>1, <2>2
  <2> QED BY <2>1, <2>3, KeptQuiet
<1>3. ASSUME SyncFetchSome(s) PROVE Kept'
  <2>1. PICK tried, next, parts, talk : tried \in Tried(s) /\ \E got \in SUBSET tried :
              /\ Fetched(s, tried, got, next, parts, talk)
              /\ sy'[s].at \in {"idle", "append", "save"}
              /\ sy'[s].parts = parts
              /\ sy'[s].at \in {"append", "save"} => sy'[s].next = next
              /\ parts # <<>> => sy'[s].at = "append"
              /\ sy'[s].at = "idle" => next = cursor /\ ~talk
              /\ \A t \in Syncs \ {s} : sy'[t] = sy[t]
    BY <1>3, FetchShape
  <2>2. PICK got \in SUBSET tried : Fetched(s, tried, got, next, parts, talk)
    BY <2>1
  <2>3. /\ told' = told \cup ToSet(parts) /\ addressed' = addressed \ ToSet(parts)
        /\ waived' = waived \ ToSet(parts) /\ UNCHANGED <<current, fb, st>>
    BY <2>2 DEF Fetched
  <2>4. sy[s].at = "fetch" /\ Locked(s)
    BY <1>3 DEF SyncFetchSome, Locked
  <2>5. Appending = {} /\ \A t \in Syncs \ {s} : sy[t].at # "append"
    BY <2>4, OneAppends
  <2>6. ToSet(parts) \subseteq Appending'
    <3>1. CASE parts = <<>>
      BY <3>1, SetOfEmpty
    <3>2. CASE parts # <<>>
      <4>1. sy'[s].at = "append" /\ sy'[s].parts = parts
        BY <2>1, <3>2
      <4> QED BY <4>1 DEF Appending
    <3> QED BY <3>1, <3>2
  <2>7. Gone \subseteq Gone' /\ ToSet(parts) \subseteq Gone' /\ Gone' = addressed' \cup waived' \cup Appending'
    BY <2>3, <2>5, <2>6 DEF Gone
  <2>8. (On(current))' = On(current)
    BY <2>3 DEF On
  <2>9. KeptUntilAddressed'
    BY <2>3, <2>7, <2>8 DEF Kept, KeptUntilAddressed, Gone
  <2>10. KeptByStart'
    BY <2>3, <2>7, <2>8 DEF Kept, KeptByStart
  <2>11. ASSUME NEW t \in Syncs, sy'[t].at = "append"
         PROVE  ToSet(sy'[t].base) \cap told' \subseteq ToSet(fb'[sy'[t].cur]) \cup Gone'
    <3>1. t = s
      BY <2>1, <2>5, <2>11
    <3>2. sy'[s].base = fb[sy[s].cur] /\ sy'[s].cur = sy[s].cur
      <4>1. CASE parts = <<>>
        <5>1. sy'[s].at # "append"
          <6> DEFINE y == [NoSync EXCEPT !.at = "save", !.next = next,
                       !.parts = <<>>, !.label = IF talk THEN sy[s].label ELSE NoLabel,
                       !.cur = NoRun, !.base = <<>>, !.changed = talk]
          <6>1. sy' = [sy EXCEPT ![s] = NoSync] \/ sy' = [sy EXCEPT ![s] = y]
            BY <2>2, <4>1 DEF Fetched
          <6>2. NoSync.at = "idle" /\ y.at = "save"
            BY DEF NoSync
          <6> HIDE DEF y
          <6> QED BY <1>0, <6>1, <6>2
        <5> QED BY <2>11, <3>1, <5>1
      <4>2. CASE parts # <<>>
        <5> DEFINE x == [NoSync EXCEPT !.at = "append", !.next = next,
                       !.parts = parts, !.label = sy[s].label, !.cur = sy[s].cur,
                       !.base = fb[sy[s].cur], !.changed = TRUE]
        <5>1. sy' = [sy EXCEPT ![s] = x]
          BY <2>2, <4>2 DEF Fetched
        <5>2. x.base = fb[sy[s].cur] /\ x.cur = sy[s].cur
          BY DEF NoSync
        <5> HIDE DEF x
        <5> QED BY <1>0, <5>1, <5>2
      <4> QED BY <4>1, <4>2
    <3> QED BY <2>3, <3>1, <3>2
  <2> QED BY <2>9, <2>10, <2>11 DEF Kept, KeptBySync, On
<1>4. ASSUME SyncAppend(s) PROVE Kept'
  <2>1. PICK r \in Runs : r = sy[s].cur
    BY <1>0, <1>4 DEF SyncAppend, Typed, SyncsKnow
  <2> DEFINE x == [sy[s] EXCEPT !.at = "save", !.cur = NoRun, !.base = <<>>]
             Parts == ToSet(sy[s].parts)
             Basis == ToSet(sy[s].base)
  <2>2. /\ sy[s].at = "append" /\ fb' = [fb EXCEPT ![r] = sy[s].base \o sy[s].parts]
        /\ waived' = waived \cup (On(r) \ Basis) \cup (IF r = current /\ ~HasRead(r) THEN {} ELSE Parts)
        /\ UNCHANGED <<current, st, told, addressed>>
        /\ sy' = [sy EXCEPT ![s] = x]
    BY <1>4, <2>1 DEF SyncAppend, taskVars, goVars, Typed, SyncsKnow
  <2>3. x.at = "save"
    BY DEF Typed, SyncsKnow
  <2> HIDE DEF x
  <2>4. Locked(s)
    BY <2>2 DEF Locked
  <2>5. /\ Appending = Parts /\ \A t \in Syncs : sy'[t].at # "append"
    BY <1>0, <2>2, <2>3, <2>4, OneAppends
  <2>6. ToSet(sy[s].base \o sy[s].parts) = Basis \cup Parts
    <3>1. sy[s].base \in Seq(Items) /\ sy[s].parts \in Seq(Posts)
      BY DEF Typed, SyncsKnow
    <3>2. \A q \in Seq(Posts) : q \in Seq(Items)
      BY ItemFacts
    <3> QED BY <3>1, <3>2, SetOfBoth
  <2>7. (On(r))' = Basis \cup Parts /\ \A q \in Runs \ {r} : (On(q))' = On(q)
    <3>1. fb'[r] = sy[s].base \o sy[s].parts /\ \A q \in Runs \ {r} : fb'[q] = fb[q]
      BY <2>2 DEF Typed, RowsTyped
    <3> QED BY <2>6, <3>1 DEF On
  <2>8. /\ Appending' = {} /\ Gone \subseteq Gone' \cup Parts
        /\ Gone' = addressed' \cup waived'
    <3>1. Appending' = {}
      BY <2>5 DEF Appending
    <3> QED BY <2>2, <2>5, <3>1 DEF Gone
  <2> HIDE DEF Parts, Basis
  <2>9. PICK c \in Runs : c = current
    BY <1>0
  <2>10. (On(current))' = (On(c))' /\ On(current) = On(c) /\ current' = c
    BY <2>2, <2>9 DEF On
  <2>11. told \subseteq On(c) \cup Gone
    BY <2>10 DEF Kept, KeptUntilAddressed, Gone
  <2>12. KeptUntilAddressed'
    <3>1. told' \subseteq (On(c))' \cup Gone'
      <4>1. CASE c = r
        BY <2>2, <2>7, <2>8, <2>11, <4>1
      <4>2. CASE c # r
        BY <2>2, <2>7, <2>8, <2>9, <2>11, <4>2
      <4> QED BY <4>1, <4>2
    <3> QED BY <2>8, <2>10, <3>1 DEF KeptUntilAddressed
  <2>13. ASSUME NEW t \in Starters, st'[t].at = "claim", st'[t].cur = current'
         PROVE  (On(c))' \cap told' \subseteq ToSet(st'[t].fb) \cup Gone'
    <3>1. On(c) \cap told \subseteq ToSet(st[t].fb) \cup Gone /\ HasRead(c) /\ st' = st
      BY <2>2, <2>9, <2>10, <2>13 DEF Kept, KeptByStart, HasRead
    <3>2. Parts \subseteq waived'
      BY <2>2, <2>9, <3>1
    <3>3. CASE c = r
      <4>1. Basis \cap told \subseteq On(c) \cup Gone
        BY <2>1, <2>2, <3>3 DEF Kept, KeptBySync, Basis
      <4> QED BY <2>2, <2>7, <2>8, <3>1, <3>2, <3>3, <4>1
    <3>4. CASE c # r
      BY <2>2, <2>7, <2>8, <3>1, <3>2, <3>4
    <3> QED BY <3>3, <3>4
  <2> QED BY <2>5, <2>10, <2>12, <2>13 DEF Kept, KeptByStart, KeptBySync
<1>5. ASSUME SyncMove(s) PROVE Kept'
  <2>1. /\ UNCHANGED <<fb, st, told, addressed>> /\ sy[s].at = "swap"
        /\ sy' = [sy EXCEPT ![s] = NoSync] /\ NoSync.at = "idle"
        /\ (\E c : PutBack(c)) \/ UNCHANGED <<current, waived>>
    BY <1>5 DEF SyncMove, MoveTask, taskVars, goVars, NoSync
  <2>2. \A t \in Syncs : AppendSame(t)
    BY <1>1, <2>1
  <2> QED BY <2>1, <2>2, KeptPutBack, KeptQuiet
<1> QED BY <1>2, <1>3, <1>4, <1>5 DEF SyncGoesOn

LEMMA KeptStep == Typed /\ Kept /\ Known /\ NewNotes /\ NewFindings /\ [Next]_vars => Kept'
<1> SUFFICES ASSUME Typed, Kept, Known, NewNotes, NewFindings, [Next]_vars PROVE Kept'
  OBVIOUS
<1>1. ASSUME UNCHANGED <<current, fb, sy, st, told, addressed, waived>> PROVE Kept'
  BY <1>1, KeptQuiet DEF AppendSame
<1>2. CASE UNCHANGED vars
  BY <1>1, <1>2 DEF vars
<1>3. CASE Forge
  <2>1. UNCHANGED <<current, fb, sy, st, told, addressed, waived>>
    BY <1>3 DEF Forge, Review, Comment, Push, Check, Base, Post, taskVars, syncVars, goVars, history
  <2> QED BY <1>1, <2>1
<1>4. CASE Crash
  <2>1. /\ UNCHANGED <<current, fb, addressed, waived>> /\ told' = told \ Appending
        /\ \A s \in Syncs : sy'[s].at = "idle"
        /\ \A s \in Starters : st'[s].at = "idle"
    BY <1>4 DEF Crash, NoSync, NoSt
  <2>2. (On(current))' = On(current)
    BY <2>1 DEF On
  <2> QED BY <2>1, <2>2 DEF Kept, KeptUntilAddressed, KeptByStart, KeptBySync
<1> QED BY <1>2, <1>3, <1>4, KeptElsewhere, KeptSync DEF Next, Elsewhere

-----------------------------------------------------------------------------
(* Who may touch a run.                                                    *)

Covers(q) == phase[q] \in {"consuming", "dropping"}

\* A run's step leaves the other runs alone, and forgets what it was handed or keeps it.
LEMMA RunTouches ==
    ASSUME Typed, NEW r \in Runs, Run(r)
    PROVE  /\ \A q \in Runs \ {r} : phase'[q] = phase[q] /\ mem'[q] = mem[q]
           /\ phase[r] \in Ending \cup {"working"}
           /\ mem'[r].inh = mem[r].inh \/ mem'[r].inh = <<>>
           /\ Covers(r) => ConsumeRead(r) \/ ConsumeSwap(r)
           /\ phase'[r] # "none" /\ st' = st /\ req' = req /\ acts' = acts /\ sy' = sy
<1>0. phase \in [Runs -> Phases] /\ mem \in [Runs -> Mems] /\ NoMem.inh = <<>>
  BY DEF Typed, TaskTyped, RunsKnow, NoMem
<1>1. /\ phase[r] \in Ending \cup {"working"}
      /\ Covers(r) => ConsumeRead(r) \/ ConsumeSwap(r)
      /\ st' = st /\ req' = req /\ acts' = acts /\ sy' = sy
  BY DEF Run, Succeed, Fail, Ask, Die, ConsumeRead, ConsumeSwap, FindsInPlace, WriteFindings,
     LoopExceeded, RunMoveRead, RunMove, RunGivesUp, Ending, Covers, bounds, syncVars
<1>2. \E p \in Phases \ {"none"} : phase' = [phase EXCEPT ![r] = p]
  BY DEF Run, Succeed, Fail, Ask, Die, ConsumeRead, ConsumeSwap, FindsInPlace, WriteFindings,
     LoopExceeded, RunMoveRead, RunMove, RunGivesUp, Phases
<1>3. \/ mem' = mem \/ mem' = [mem EXCEPT ![r] = NoMem]
      \/ \E x : mem' = [mem EXCEPT ![r].to = x]
      \/ \E x : mem' = [mem EXCEPT ![r].seen = x]
      \/ \E x : mem' = [mem EXCEPT ![r].cur = x]
  BY DEF Run, Succeed, Fail, Ask, Die, ConsumeRead, ConsumeSwap, FindsInPlace, WriteFindings,
     LoopExceeded, RunMoveRead, RunMove, RunGivesUp
<1>4. mem[r] \in Mems
  BY <1>0
<1>5. \A q \in Runs \ {r} : mem'[q] = mem[q]
  BY <1>0, <1>3
<1>6. mem'[r].inh = mem[r].inh \/ mem'[r].inh = <<>>
  <2>1. ASSUME NEW x, mem' = [mem EXCEPT ![r].to = x] PROVE mem'[r].inh = mem[r].inh
    BY <1>0, <1>4, <2>1 DEF Mems
  <2>2. ASSUME NEW x, mem' = [mem EXCEPT ![r].seen = x] PROVE mem'[r].inh = mem[r].inh
    BY <1>0, <1>4, <2>2 DEF Mems
  <2>3. ASSUME NEW x, mem' = [mem EXCEPT ![r].cur = x] PROVE mem'[r].inh = mem[r].inh
    BY <1>0, <1>4, <2>3 DEF Mems
  <2>4. mem' = mem \/ mem' = [mem EXCEPT ![r] = NoMem] => mem'[r].inh = mem[r].inh \/ mem'[r].inh = <<>>
    BY <1>0
  <2> QED BY <1>3, <2>1, <2>2, <2>3, <2>4
<1> QED BY <1>0, <1>1, <1>2, <1>5, <1>6

\* A start claims a run nobody had, or goes on with the one it made.
LEMMA StartTouches ==
    ASSUME Typed, Owned, NEW s \in Starters, Start(s)
    PROVE  \E r \in Runs :
              /\ \A q \in Runs \ {r} : phase'[q] = phase[q] /\ mem'[q] = mem[q]
              /\ \/ phase'[r] = phase[r] /\ mem'[r] = mem[r]
                 \/ phase[r] = "none" /\ phase'[r] \in {"working", "starting"} /\ mem'[r].inh = st[s].fb
                    /\ st[s].at = "claim"
                 \/ phase[r] = "starting" /\ phase'[r] = "phantom" /\ mem'[r] = mem[r]
                 \/ phase[r] = "phantom" /\ phase'[r] = "waiting" /\ mem'[r] = NoMem
<1>0. phase \in [Runs -> Phases] /\ mem \in [Runs -> Mems]
  BY DEF Typed, TaskTyped, RunsKnow
<1>1. ASSUME NEW runs \in BOOLEAN, Claim(s, runs)
      PROVE  \E r \in Runs :
              /\ \A q \in Runs \ {r} : phase'[q] = phase[q] /\ mem'[q] = mem[q]
              /\ phase[r] = "none" /\ phase'[r] \in {"working", "starting"} /\ mem'[r].inh = st[s].fb
              /\ st[s].at = "claim"
  <2>1. PICK r \in Unused :
         /\ mem' = [mem EXCEPT ![r] = [NoMem EXCEPT !.inh = st[s].fb, !.from = label]]
         /\ phase' = [phase EXCEPT ![r] = IF runs THEN "working" ELSE "starting"]
         /\ st[s].at = "claim"
    BY <1>1 DEF Claim, Copy
  <2> DEFINE m == [NoMem EXCEPT !.inh = st[s].fb, !.from = label]
  <2>2. m.inh = st[s].fb
    BY DEF NoMem
  <2>3. mem' = [mem EXCEPT ![r] = m]
    BY <2>1
  <2> HIDE DEF m
  <2>4. r \in Runs /\ phase[r] = "none"
    BY DEF Unused
  <2> QED BY <1>0, <2>1, <2>2, <2>3, <2>4
<1>2. ASSUME Escalate(s)
      PROVE  \E r \in Runs :
              /\ \A q \in Runs \ {r} : phase'[q] = phase[q] /\ mem'[q] = mem[q]
              /\ phase[r] = "starting" /\ phase'[r] = "phantom" /\ mem'[r] = mem[r]
  <2>1. PICK r \in Runs : r = st[s].run
    BY <1>2 DEF Escalate, Typed, StartsKnow, Used
  <2> QED BY <1>0, <1>2, <2>1 DEF Escalate, Owned
<1>3. ASSUME Restore(s)
      PROVE  \E r \in Runs :
              /\ \A q \in Runs \ {r} : phase'[q] = phase[q] /\ mem'[q] = mem[q]
              /\ phase[r] = "phantom" /\ phase'[r] = "waiting" /\ mem'[r] = NoMem
  <2>1. PICK r \in Runs : r = st[s].run
    BY <1>3 DEF Restore, Typed, StartsKnow, Used
  <2> QED BY <1>0, <1>3, <2>1 DEF Restore, Owned
<1>4. Conflict(s) => UNCHANGED <<phase, mem>>
  BY DEF Conflict
<1>5. Runs # {}
  BY ConstantFacts
<1> QED BY <1>1, <1>2, <1>3, <1>4, <1>5 DEF Start

\* After its step a start has no copy in hand.
LEMMA StartIdles ==
    ASSUME Typed, NEW s \in Starters, Start(s)
    PROVE  \E x : st' = [st EXCEPT ![s] = x] /\ x.at # "claim"
<1> DEFINE a == [NoSt EXCEPT !.at = "escalate", !.cur = st[s].cur, !.run = current']
           b == [st[s] EXCEPT !.at = "restore"]
<1>1. \A runs \in BOOLEAN : Claim(s, runs) => st' = [st EXCEPT ![s] = NoSt] \/ st' = [st EXCEPT ![s] = a]
  BY DEF Claim
<1>2. Escalate(s) => st' = [st EXCEPT ![s] = b]
  BY DEF Escalate, Typed, StartsKnow
<1>3. a.at = "escalate" /\ b.at = "restore" /\ NoSt.at = "idle"
  BY DEF NoSt, Typed, StartsKnow
<1> HIDE DEF a, b
<1>4. st' = [st EXCEPT ![s] = NoSt] \/ st' = [st EXCEPT ![s] = a] \/ st' = [st EXCEPT ![s] = b]
  BY <1>1, <1>2 DEF Start, Conflict, Restore
<1> QED BY <1>3, <1>4

LEMMA OwnedStep == Typed /\ Owned /\ [Next]_vars => Owned'
<1> SUFFICES ASSUME Typed, Owned, [Next]_vars PROVE Owned'
  OBVIOUS
<1>0. /\ \A c \in Starters : \A x : st' = [st EXCEPT ![c] = x] =>
            st'[c] = x /\ \A t \in Starters \ {c} : st'[t] = st[t]
      /\ phase \in [Runs -> Phases]
      /\ \A s \in Starters : Failing(s) => st[s].run \in Runs
  BY DEF Typed, StartsKnow, TaskTyped, Failing, Used
<1>1. ASSUME st' = st, \A q \in Runs : phase[q] \in {"starting", "phantom"} => phase'[q] = phase[q]
      PROVE  Owned'
  BY <1>0, <1>1 DEF Owned, Failing
<1>2. ASSUME NEW s \in Starters, NEW x, st' = [st EXCEPT ![s] = x],
             x.at \in {"idle", "claim"}, \A q \in Runs : phase[q] \in {"starting", "phantom"} /\ q # st[s].run => phase'[q] = phase[q],
             ~Failing(s) => \A q \in Runs : phase[q] \in {"starting", "phantom"} => phase'[q] = phase[q]
      PROVE  Owned'
  <2>1. \A t \in Starters \ {s} : st'[t] = st[t] /\ ((Failing(t))' <=> Failing(t))
    BY <1>0, <1>2 DEF Failing
  <2>2. ~(Failing(s))'
    BY <1>0, <1>2 DEF Failing
  <2>3. ASSUME NEW t \in Starters \ {s}, Failing(t) PROVE phase'[st[t].run] = phase[st[t].run]
    BY <1>0, <1>2, <2>3 DEF Owned, Failing
  <2> QED BY <2>1, <2>2, <2>3 DEF Owned, Failing
<1>3. CASE SweepRead \/ ReplyRead
  <2>1. PICK c, held : c \in Starters /\ Read(c, held)
    BY <1>3 DEF SweepRead, ReplyRead, Starters
  <2> DEFINE x == [NoSt EXCEPT !.at = "claim", !.label = label,
                        !.held = held, !.cur = current, !.fb = fb[current]]
  <2>2. st' = [st EXCEPT ![c] = x] /\ phase' = phase
    BY <2>1 DEF Read
  <2>3. x.at = "claim"
    BY DEF NoSt
  <2> HIDE DEF x
  <2> QED BY <1>2, <2>1, <2>2, <2>3
<1>4. ASSUME NEW s \in Starters, NEW runs \in BOOLEAN, Claim(s, runs) PROVE Owned'
  <2>1. PICK r \in Unused :
         /\ phase' = [phase EXCEPT ![r] = IF runs THEN "working" ELSE "starting"]
         /\ st' = [st EXCEPT ![s] = IF runs THEN NoSt
                        ELSE [NoSt EXCEPT !.at = "escalate", !.cur = st[s].cur,
                                          !.run = r]]
         /\ st[s].at = "claim"
    BY <1>4 DEF Claim
  <2>2. r \in Runs /\ phase[r] = "none"
    BY DEF Unused
  <2>3. CASE runs
    BY <1>0, <1>2, <2>1, <2>2, <2>3 DEF NoSt
  <2>4. CASE ~runs
    <3> DEFINE x == [NoSt EXCEPT !.at = "escalate", !.cur = st[s].cur, !.run = r]
    <3>1. x.at = "escalate" /\ x.run = r
      BY DEF NoSt
    <3>2. st' = [st EXCEPT ![s] = x] /\ phase' = [phase EXCEPT ![r] = "starting"]
      BY <2>1, <2>4
    <3> HIDE DEF x
    <3>3. st'[s] = x /\ \A t \in Starters \ {s} : st'[t] = st[t]
      BY <1>0, <3>2
    <3>4. \A t \in Starters \ {s} : Failing(t) => st[t].run # r /\ phase'[st[t].run] = phase[st[t].run]
      BY <1>0, <2>2, <3>2 DEF Owned, Failing
    <3>5. phase'[r] = "starting"
      BY <1>0, <2>2, <3>2
    <3> QED BY <3>1, <3>3, <3>4, <3>5 DEF Owned, Failing
  <2> QED BY <2>3, <2>4
<1>5. ASSUME NEW s \in Starters, Escalate(s) PROVE Owned'
  <2> DEFINE x == [st[s] EXCEPT !.at = "restore"]
  <2>1. st' = [st EXCEPT ![s] = x] /\ st[s].at = "escalate" /\ phase' = [phase EXCEPT ![st[s].run] = "phantom"]
    BY <1>5 DEF Escalate, Typed, StartsKnow
  <2>2. x.at = "restore" /\ x.run = st[s].run
    BY DEF Typed, StartsKnow
  <2> HIDE DEF x
  <2>3. st'[s] = x /\ \A t \in Starters \ {s} : st'[t] = st[t]
    BY <1>0, <2>1
  <2>4. \A t \in Starters \ {s} : Failing(t) => st[t].run # st[s].run /\ phase'[st[t].run] = phase[st[t].run]
    BY <1>0, <2>1 DEF Owned, Failing
  <2>5. phase'[st[s].run] = "phantom"
    BY <1>0, <2>1 DEF Failing
  <2> QED BY <2>1, <2>2, <2>3, <2>4, <2>5 DEF Owned, Failing
<1>6. ASSUME NEW s \in Starters, Restore(s) \/ Conflict(s) PROVE Owned'
  <2>1. /\ st' = [st EXCEPT ![s] = NoSt] /\ NoSt.at = "idle"
        /\ phase' = phase \/ (Failing(s) /\ phase' = [phase EXCEPT ![st[s].run] = "waiting"])
    BY <1>6 DEF Restore, Conflict, NoSt, Failing
  <2> QED BY <1>0, <1>2, <2>1
<1>7. ASSUME NEW r \in Runs, Run(r) PROVE Owned'
  <2>1. st' = st /\ phase[r] \notin {"starting", "phantom"} /\ \A q \in Runs \ {r} : phase'[q] = phase[q]
    BY <1>7, RunTouches DEF Ending
  <2> QED BY <1>1, <2>1
<1>8. CASE People \/ Forge \/ UNCHANGED vars
  <2>1. UNCHANGED <<st, phase>>
    BY <1>8 DEF People, RejectRead, RejectNote, MoveRequest, ReqMoveRead, ReqMove, Rerun, goVars,
       Forge, Review, Comment, Push, Check, Base, Post, vars
  <2> QED BY <1>1, <2>1
<1>9. ASSUME NEW s \in Syncs, SyncSnap(s) \/ SyncGoesOn(s) PROVE Owned'
  <2>1. CASE SyncSnap(s) \/ SyncHead(s) \/ SyncNoHead(s)
    BY <1>1, <2>1 DEF SyncSnap, SyncHead, SyncNoHead, goVars
  <2>2. CASE SyncFetchSome(s)
    BY <1>1, <2>2 DEF SyncFetchSome, SyncFetch, goVars
  <2>3. CASE SyncAppend(s) \/ SyncSave(s)
    BY <1>1, <2>3 DEF SyncAppend, SyncSave, goVars
  <2>4. CASE SyncMoveRead(s) \/ SyncMove(s)
    BY <1>1, <2>4 DEF SyncMoveRead, SyncMove, goVars
  <2> QED BY <1>9, <2>1, <2>2, <2>3, <2>4 DEF SyncGoesOn
<1>10. CASE Crash
  BY <1>10 DEF Crash, Owned, NoSt, Failing
<1> QED BY <1>3, <1>4, <1>5, <1>6, <1>7, <1>8, <1>9, <1>10 DEF Next, Start

-----------------------------------------------------------------------------
(* Where texts come from.                                                  *)

LEMMA TextsGrow ==
    ASSUME NEW T,
           \A r \in Runs : ToSet(fb'[r]) \subseteq T,
           \A r \in Runs : ToSet(mem'[r].inh) \subseteq T,
           \A s \in Starters : st'[s].at = "claim" => ToSet(st'[s].fb) \subseteq T,
           \A s \in Syncs : ToSet(sy'[s].base) \subseteq T,
           addressed' \subseteq T
    PROVE  Texts' \subseteq T
<1>1. OnRows' \subseteq T
  BY DEF OnRows, On
<1>2. InHand' \subseteq T
  BY DEF InHand
<1>3. InFlight' \subseteq T
  BY DEF InFlight
<1>4. InBases' \subseteq T
  BY DEF InBases
<1> QED BY <1>1, <1>2, <1>3, <1>4 DEF Texts

\* A start, a run or a request copies texts, and new ones are told.
Copies(N) ==
    /\ Texts' \subseteq Texts \cup N /\ told' = told \cup N
    /\ again \subseteq again' /\ again' \subseteq again \cup Texts
    /\ UNCHANGED <<unsaved, sy>>

LEMMA TextsElsewhere ==
    ASSUME Typed, Owned, Elsewhere
    PROVE  \/ Copies({})
           \/ Copies({<<"note", acts>>}) /\ RejectNote
           \/ \E r \in Runs : Copies({<<"findings", r>>}) /\ WriteFindings(r)
<1>0. /\ \A c \in Starters : \A x : st' = [st EXCEPT ![c] = x] =>
            st'[c] = x /\ \A t \in Starters \ {c} : st'[t] = st[t]
      /\ current \in Runs /\ \A r \in Used : r \in Runs
      /\ \A r \in Runs : ToSet(fb[r]) \subseteq Texts /\ ToSet(mem[r].inh) \subseteq Texts /\ On(r) \subseteq Texts
      /\ \A s \in Starters : st[s].at = "claim" => ToSet(st[s].fb) \subseteq Texts
      /\ \A s \in Syncs : ToSet(sy[s].base) \subseteq Texts
      /\ addressed \subseteq Texts
  <2>1. \A c \in Starters : \A x : st' = [st EXCEPT ![c] = x] =>
            st'[c] = x /\ \A t \in Starters \ {c} : st'[t] = st[t]
    BY DEF Typed, StartsKnow
  <2>3. current \in Runs /\ \A r \in Used : r \in Runs
    BY DEF Typed, TaskTyped, Used
  <2>2. \A r \in Runs : On(r) = ToSet(fb[r])
    BY DEF On
  <2>4. /\ \A r \in Runs : ToSet(fb[r]) \subseteq Texts /\ ToSet(mem[r].inh) \subseteq Texts /\ On(r) \subseteq Texts
        /\ \A s \in Starters : st[s].at = "claim" => ToSet(st[s].fb) \subseteq Texts
        /\ \A s \in Syncs : ToSet(sy[s].base) \subseteq Texts
        /\ addressed \subseteq Texts
    BY <2>2, HeldTexts
  <2> QED BY <2>1, <2>3, <2>4
<1>1. ASSUME NEW c \in Runs, PutBack(c) PROVE again \subseteq again' /\ again' \subseteq again \cup Texts
  BY <1>0, <1>1 DEF PutBack
<1>2. ASSUME NEW s \in Starters, NEW held, Read(s, held) PROVE Copies({})
  <2> DEFINE x == [NoSt EXCEPT !.at = "claim", !.label = label,
                        !.held = held, !.cur = current, !.fb = fb[current]]
  <2>1. UNCHANGED <<fb, sy, mem, told, addressed, again, unsaved>> /\ st' = [st EXCEPT ![s] = x]
    BY <1>2 DEF Read, taskVars, syncVars, history
  <2>2. x.fb = fb[current]
    BY DEF NoSt
  <2> HIDE DEF x
  <2>3. \A t \in Starters : st'[t].at = "claim" => ToSet(st'[t].fb) \subseteq Texts
    BY <1>0, <2>1, <2>2
  <2>4. Texts' \subseteq Texts
    BY <1>0, <2>1, <2>3, TextsGrow
  <2> QED BY <2>1, <2>4 DEF Copies
<1>3. ASSUME NEW s \in Starters, Start(s) PROVE Copies({})
  <2>1. PICK r \in Runs :
              /\ \A q \in Runs \ {r} : mem'[q] = mem[q]
              /\ mem'[r] = mem[r] \/ mem'[r] = NoMem
                 \/ (mem'[r].inh = st[s].fb /\ st[s].at = "claim")
    BY <1>3, StartTouches
  <2>2. \A q \in Runs : ToSet(mem'[q].inh) \subseteq Texts
    BY <1>0, <2>1, SetOfEmpty DEF NoMem
  <2>3. UNCHANGED <<sy, told, addressed, unsaved>>
        /\ again \subseteq again' /\ again' \subseteq again \cup Texts
    <3>1. Restore(s) => st[s].cur \in Runs
      BY <1>0 DEF Restore, Typed, StartsKnow
    <3> QED BY <1>1, <1>3, <3>1 DEF Start, Claim, Conflict, Escalate, Restore, syncVars, history
  <2>4. fb' = fb \/ (st[s].at = "claim" /\ \E q \in Runs : fb' = [fb EXCEPT ![q] = st[s].fb])
    BY <1>3 DEF Start, Claim, Conflict, Escalate, Restore, Copy, Unused
  <2>5. \A q \in Runs : ToSet(fb'[q]) \subseteq Texts
    BY <1>0, <2>4 DEF Typed, RowsTyped
  <2>6. \A t \in Starters : st'[t].at = "claim" => ToSet(st'[t].fb) \subseteq Texts
    <3>1. PICK x : st' = [st EXCEPT ![s] = x] /\ x.at # "claim"
      BY <1>3, StartIdles
    <3> QED BY <1>0, <3>1
  <2>7. Texts' \subseteq Texts
    BY <1>0, <2>2, <2>3, <2>5, <2>6, TextsGrow
  <2> QED BY <2>3, <2>7 DEF Copies
<1>4. ASSUME NEW r \in Runs, Run(r)
      PROVE  Copies({}) \/ (Copies({<<"findings", r>>}) /\ WriteFindings(r))
  <2>1. /\ st' = st /\ sy' = sy /\ unsaved' = unsaved
        /\ \A q \in Runs : ToSet(mem'[q].inh) \subseteq Texts
    <3>1. unsaved' = unsaved
      BY <1>4 DEF Run, Succeed, Fail, Ask, Die, ConsumeRead, ConsumeSwap, FindsInPlace, WriteFindings,
         LoopExceeded, RunMoveRead, RunMove, RunGivesUp, history
    <3>2. mem'[r].inh = mem[r].inh \/ mem'[r].inh = <<>>
      BY <1>4, RunTouches
    <3>3. /\ st' = st /\ sy' = sy
          /\ \A q \in Runs \ {r} : mem'[q] = mem[q]
      BY <1>4, RunTouches
    <3> QED BY <1>0, <3>1, <3>2, <3>3, SetOfEmpty
  <2>2. ASSUME ~WriteFindings(r) PROVE Copies({})
    <3>1. /\ told' = told /\ addressed' \subseteq Texts
          /\ again \subseteq again' /\ again' \subseteq again \cup Texts
      <4>1. RunMove(r) => mem[r].cur \in Runs
        BY <1>0 DEF RunMove, Typed, RunsKnow
      <4>2. CASE RunMove(r)
        BY <1>0, <1>1, <4>1, <4>2 DEF RunMove, MoveTask
      <4>3. CASE ConsumeSwap(r)
        BY <1>0, <4>3 DEF ConsumeSwap
      <4>4. CASE Succeed(r) \/ ConsumeRead(r)
        BY <1>0, <4>4 DEF Succeed, ConsumeRead
      <4>5. CASE Fail(r) \/ Ask(r) \/ Die(r) \/ FindsInPlace(r) \/ LoopExceeded(r)
                 \/ RunMoveRead(r) \/ RunGivesUp(r)
        BY <1>0, <4>5 DEF Fail, Ask, Die, FindsInPlace, LoopExceeded, RunMoveRead, RunGivesUp, history
      <4> QED BY <1>4, <2>2, <4>2, <4>3, <4>4, <4>5 DEF Run
    <3>2. \A q \in Runs : ToSet(fb'[q]) \subseteq Texts
      <4>1. CASE ConsumeSwap(r)
        <5>1. mem[r].inh \in Seq(Items) /\ mem[r].seen \in Seq(Items) /\ IsPrefix(mem[r].inh, mem[r].seen)
          BY <4>1 DEF ConsumeSwap, Typed, RunsKnow, Mems
        <5>2. ToSet(Rest(r)) \subseteq ToSet(mem[r].seen)
          BY <5>1, SetOfRest DEF Rest
        <5>3. fb' = fb \/ (fb[r] = mem[r].seen /\ fb' = [fb EXCEPT ![r] = Rest(r)])
          BY <4>1 DEF ConsumeSwap
        <5> QED BY <1>0, <5>2, <5>3 DEF Typed, RowsTyped
      <4>2. CASE ~ConsumeSwap(r)
        <5>1. fb' = fb
          BY <1>4, <2>2, <4>2 DEF Run, Succeed, Fail, Ask, Die, ConsumeRead, FindsInPlace,
             LoopExceeded, RunMoveRead, RunMove, RunGivesUp
        <5> QED BY <1>0, <5>1
      <4> QED BY <4>1, <4>2
    <3>3. Texts' \subseteq Texts
      BY <1>0, <2>1, <3>1, <3>2, TextsGrow
    <3> QED BY <2>1, <3>1, <3>3 DEF Copies
  <2>3. ASSUME WriteFindings(r) PROVE Copies({<<"findings", r>>})
    <3> DEFINE i == <<"findings", r>>
    <3>1. fb' = [fb EXCEPT ![r] = <<i>>] /\ told' = told \cup {i} /\ UNCHANGED <<addressed, again>>
      BY <2>3 DEF WriteFindings
    <3> HIDE DEF i
    <3>2. \A q \in Runs : ToSet(fb'[q]) \subseteq Texts \cup {i}
      BY <1>0, <3>1, SetOfOne DEF Typed, RowsTyped
    <3>3. Texts' \subseteq Texts \cup {i}
      <4>1. PICK T : T = Texts \cup {i}
        OBVIOUS
      <4>2. Texts \subseteq T /\ \A q \in Runs : ToSet(fb'[q]) \subseteq T
        BY <3>2, <4>1
      <4>3. Texts' \subseteq T
        BY <1>0, <2>1, <3>1, <4>2, TextsGrow
      <4> QED BY <4>1, <4>3
    <3>4. Copies({i})
      BY <2>1, <3>1, <3>3 DEF Copies
    <3> QED BY <3>4 DEF i
  <2> QED BY <2>2, <2>3
<1>5. ASSUME People PROVE Copies({}) \/ (Copies({<<"note", acts>>}) /\ RejectNote)
  <2>1. UNCHANGED <<st, sy, mem, addressed, unsaved>>
    BY <1>5 DEF People, RejectRead, RejectNote, MoveRequest, ReqMoveRead, ReqMove, Rerun, goVars, syncVars,
       history
  <2>2. ASSUME ~RejectNote PROVE Copies({})
    <3>1. fb' = fb /\ told' = told
      BY <1>5, <2>2 DEF People, RejectRead, MoveRequest, ReqMoveRead, ReqMove, Rerun, history
    <3>2. again \subseteq again' /\ again' \subseteq again \cup Texts
      <4>1. CASE ReqMove
        <5>1. req.cur \in Runs
          BY <1>0, <4>1 DEF ReqMove, Typed, RequestKnows
        <5>2. PutBack(req.cur) \/ again' = again
          BY <4>1 DEF ReqMove, MoveTask
        <5> QED BY <1>1, <5>1, <5>2
      <4>2. CASE ~ReqMove
        BY <1>5, <2>2, <4>2 DEF People, RejectRead, MoveRequest, ReqMoveRead, Rerun, history
      <4> QED BY <4>1, <4>2
    <3>3. Texts' \subseteq Texts
      BY <1>0, <2>1, <3>1, TextsGrow
    <3> QED BY <2>1, <3>1, <3>2, <3>3 DEF Copies
  <2>3. ASSUME RejectNote PROVE Copies({<<"note", acts>>})
    <3>1. PICK r, i : r \in Runs /\ i = <<"note", acts>> /\ r = req.cur
      BY <1>0, <2>3 DEF RejectNote, Typed, RequestKnows
    <3>2. fb' = [fb EXCEPT ![r] = <<i>>] /\ told' = told \cup {i} /\ UNCHANGED again
      BY <2>3, <3>1 DEF RejectNote
    <3>3. \A q \in Runs : ToSet(fb'[q]) \subseteq Texts \cup {i}
      BY <1>0, <3>2, SetOfOne DEF Typed, RowsTyped
    <3>4. Texts' \subseteq Texts \cup {i}
      <4>1. PICK T : T = Texts \cup {i}
        OBVIOUS
      <4>2. Texts \subseteq T /\ \A q \in Runs : ToSet(fb'[q]) \subseteq T
        BY <3>3, <4>1
      <4>3. Texts' \subseteq T
        BY <1>0, <2>1, <4>2, TextsGrow
      <4> QED BY <4>1, <4>3
    <3> QED BY <2>1, <3>1, <3>2, <3>4 DEF Copies
  <2> QED BY <2>2, <2>3
<1>6. SweepRead \/ ReplyRead => Copies({})
  BY <1>2 DEF SweepRead, ReplyRead, Starters
<1> QED BY <1>3, <1>4, <1>5, <1>6 DEF Elsewhere

\* What the properties about words and texts follow from, when new words come in.
LEMMA KnownElsewhere ==
    ASSUME Typed, Handed, Elsewhere
    PROVE  Known' /\ FreshParts' /\ NewNotes' /\ NewFindings' /\ again \subseteq again'
<1>0. /\ Known /\ FreshParts /\ NewNotes /\ NewFindings /\ Owned
      /\ Texts \subseteq told \cup (again \cap unsaved)
      /\ Appending \subseteq Posts /\ acts \in Nat
  BY TextsAreItems DEF Handed, Known, Typed, ForgeTyped
<1>1. ASSUME NEW N, Copies(N), N \cap Texts = {}, N \cap Posts = {}
      PROVE  /\ Known' /\ FreshParts' /\ again \subseteq again'
             /\ told' \cup again' = told \cup again \cup N
  <2>1. Known'
    BY <1>0, <1>1 DEF Copies, Known
  <2>2. Appending' = Appending
    BY <1>1 DEF Copies, Appending
  <2>3. FreshParts'
    BY <1>0, <1>1, <2>2 DEF Copies, FreshParts
  <2> QED BY <1>0, <1>1, <2>1, <2>3 DEF Copies
<1>2. acts' \in Nat /\ acts <= acts' /\ (req'.at = "note" => req' = req \/ acts < acts')
  <2>1. CASE SweepRead \/ ReplyRead
    <3>1. req' = req /\ (acts' = acts \/ acts' = acts + 1)
      BY <2>1 DEF SweepRead, ReplyRead, Read, Asked
    <3> QED BY <1>0, <3>1
  <2>2. CASE \E s \in Starters : Start(s)
    <3>1. req' = req /\ acts' = acts
      BY <2>2 DEF Start, Claim, Conflict, Escalate, Restore, bounds
    <3> QED BY <1>0, <3>1
  <2>3. CASE \E r \in Runs : Run(r)
    BY <1>0, <2>3, RunTouches
  <2>4. CASE People
    <3>1. RejectRead \/ MoveRequest => acts' = acts + 1
      BY DEF RejectRead, MoveRequest, Asked
    <3>2. CASE RejectRead \/ MoveRequest
      BY <1>0, <3>1, <3>2
    <3>3. CASE RejectNote
      <4>1. req'.at = "move"
        BY <3>3 DEF RejectNote, Typed, RequestKnows
      <4> QED BY <1>0, <3>3, <4>1 DEF RejectNote, bounds
    <3>4. CASE ReqMoveRead
      <4>1. req'.at # "note"
        BY <3>4 DEF ReqMoveRead, NoReq, Typed, RequestKnows
      <4> QED BY <1>0, <3>4, <4>1 DEF ReqMoveRead, bounds
    <3>5. CASE ReqMove
      BY <1>0, <3>5 DEF ReqMove, NoReq, bounds
    <3>6. CASE Rerun
      BY <1>0, <3>6 DEF Rerun, Asked
    <3> QED BY <2>4, <3>2, <3>3, <3>4, <3>5, <3>6 DEF People
  <2> QED BY <2>1, <2>2, <2>3, <2>4 DEF Elsewhere
<1>3. \A r \in Runs : phase[r] \in {"moving", "swapping", "waiting", "over"} =>
         phase'[r] \in {"moving", "swapping", "waiting", "over"}
  <2>1. CASE SweepRead \/ ReplyRead
    BY <2>1 DEF SweepRead, ReplyRead, Read
  <2>2. ASSUME NEW s \in Starters, Start(s),
               NEW r \in Runs, phase[r] \in {"moving", "swapping", "waiting", "over"}
        PROVE  phase'[r] = phase[r]
    BY <1>0, <2>2, StartTouches
  <2>3. ASSUME NEW q \in Runs, Run(q),
               NEW r \in Runs, phase[r] \in {"moving", "swapping", "waiting", "over"}
        PROVE  phase'[r] \in {"moving", "swapping", "waiting", "over"}
    <3>1. CASE r # q
      BY <2>3, <3>1, RunTouches
    <3>2. CASE r = q
      BY <2>3, <3>2 DEF Typed, TaskTyped, Run, Succeed, Fail, Ask, Die, ConsumeRead, ConsumeSwap, FindsInPlace,
         WriteFindings, LoopExceeded, RunMoveRead, RunMove, RunGivesUp
    <3> QED BY <3>1, <3>2
  <2>4. CASE People
    BY <2>4 DEF People, RejectRead, RejectNote, MoveRequest, ReqMoveRead, ReqMove, Rerun, goVars
  <2> QED BY <2>1, <2>2, <2>3, <2>4 DEF Elsewhere
<1>4. \A n \in 1..MaxActs : <<"note", n>> \in told \cup again =>
         n <= acts' /\ (req'.at = "note" => n < acts')
  <2>1. ASSUME NEW n \in 1..MaxActs, <<"note", n>> \in told \cup again
        PROVE  n <= acts' /\ (req'.at = "note" => n < acts')
    <3>1. n <= acts /\ (req.at = "note" => n < acts) /\ n \in Nat
      BY <1>0, <2>1 DEF NewNotes
    <3> QED BY <1>0, <1>2, <3>1
  <2> QED BY <2>1
<1>5. \A r \in Runs : <<"findings", r>> \in told \cup again =>
         phase'[r] \in {"moving", "swapping", "waiting", "over"}
  BY <1>0, <1>3 DEF NewFindings
<1>6. CASE Copies({})
  <2>1. Known' /\ FreshParts' /\ again \subseteq again' /\ told' \cup again' = told \cup again
    BY <1>1, <1>6
  <2> QED BY <1>4, <1>5, <2>1 DEF NewNotes, NewFindings
<1>7. CASE Copies({<<"note", acts>>}) /\ RejectNote
  <2>1. req.at = "note" /\ acts' = acts
    BY <1>7 DEF RejectNote, bounds
  <2>2. PICK N : N = {<<"note", acts>>}
    OBVIOUS
  <2>3. N \cap Texts = {} /\ N \cap Posts = {}
    BY <1>0, <2>1, <2>2, FreshWords, ItemFacts
  <2>4. Known' /\ FreshParts' /\ again \subseteq again' /\ told' \cup again' = told \cup again \cup N
    BY <1>1, <1>7, <2>2, <2>3
  <2>5. req'.at # "note"
    BY <1>7 DEF RejectNote, Typed, RequestKnows
  <2>6. NewNotes'
    <3>1. ASSUME NEW n \in 1..MaxActs, <<"note", n>> \in told' \cup again' PROVE n <= acts'
      <4>1. <<"note", n>> \in told \cup again \/ n = acts
        BY <2>2, <2>4, <3>1
      <4> QED BY <1>0, <1>4, <2>1, <4>1
    <3> QED BY <2>5, <3>1 DEF NewNotes
  <2>7. NewFindings'
    <3>1. \A r \in Runs : <<"findings", r>> \in told' \cup again' => <<"findings", r>> \in told \cup again
      BY <2>2, <2>4
    <3> QED BY <1>5, <3>1 DEF NewFindings
  <2> QED BY <2>4, <2>6, <2>7
<1>8. ASSUME NEW q \in Runs, Copies({<<"findings", q>>}) /\ WriteFindings(q)
      PROVE  Known' /\ FreshParts' /\ NewNotes' /\ NewFindings' /\ again \subseteq again'
  <2>1. phase[q] = "writing" /\ phase'[q] = "moving"
    BY <1>8 DEF WriteFindings, Typed, TaskTyped
  <2>2. PICK N : N = {<<"findings", q>>}
    OBVIOUS
  <2>3. N \cap Texts = {} /\ N \cap Posts = {}
    BY <1>0, <2>1, <2>2, FreshWords, ItemFacts
  <2>4. Known' /\ FreshParts' /\ again \subseteq again' /\ told' \cup again' = told \cup again \cup N
    BY <1>1, <1>8, <2>2, <2>3
  <2>5. NewNotes'
    <3>1. \A n \in 1..MaxActs : <<"note", n>> \in told' \cup again' => <<"note", n>> \in told \cup again
      BY <2>2, <2>4
    <3> QED BY <1>4, <3>1 DEF NewNotes
  <2>6. NewFindings'
    <3>1. \A r \in Runs : <<"findings", r>> \in told' \cup again' => <<"findings", r>> \in told \cup again \/ r = q
      BY <2>2, <2>4
    <3> QED BY <1>5, <2>1, <3>1 DEF NewFindings
  <2> QED BY <2>4, <2>5, <2>6
<1> QED BY <1>0, <1>6, <1>7, <1>8, TextsElsewhere

\* A text that is Single stays so while more is told again.
LEMMA SingleGrows ==
    ASSUME NEW q, Single(q), NEW A, again \subseteq A
    PROVE  OnceBut(q, A)
BY DEF Single, OnceBut

\* The rest of a text that starts with what was handed: what stands in both is told again.
LEMMA RestOnce ==
    ASSUME NEW p \in Seq(Items), NEW q \in Seq(Items), IsPrefix(p, q), NEW A, OnceBut(q, A)
    PROVE  LET rest == SubSeq(q, Len(p) + 1, Len(q))
           IN  OnceBut(rest, A) /\ ToSet(p) \cap ToSet(rest) \subseteq A
<1> DEFINE rest == SubSeq(q, Len(p) + 1, Len(q))
<1>1. /\ \A k \in DOMAIN rest : k + Len(p) \in DOMAIN q /\ rest[k] = q[k + Len(p)]
      /\ \A j \in DOMAIN p : j \in DOMAIN q /\ p[j] = q[j] /\ j <= Len(p)
      /\ DOMAIN rest \subseteq Nat \ {0} /\ Len(p) \in Nat
      /\ DOMAIN p \subseteq Nat
  BY SetOfRest
<1> HIDE DEF rest
<1>2. OnceBut(rest, A)
  <2>1. ASSUME NEW i \in DOMAIN rest, NEW j \in DOMAIN rest, rest[i] = rest[j], i # j
        PROVE  rest[i] \in A
    <3>1. i + Len(p) # j + Len(p)
      BY <1>1, <2>1
    <3> QED BY <1>1, <2>1, <3>1 DEF OnceBut
  <2> QED BY <2>1 DEF OnceBut
<1>3. ASSUME NEW x \in ToSet(p), x \in ToSet(rest) PROVE x \in A
  <2>1. PICK j \in DOMAIN p, k \in DOMAIN rest : x = p[j] /\ x = rest[k]
    BY <1>3 DEF ToSet
  <2>2. j # k + Len(p)
    BY <1>1, <2>1
  <2> QED BY <1>1, <2>1, <2>2 DEF OnceBut
<1> QED BY <1>2, <1>3 DEF rest

LEMMA SinglesElsewhere ==
    ASSUME Typed, Singles, Elsewhere, again \subseteq again'
    PROVE  Singles'
<1>0. /\ \A c \in Starters : \A x : st' = [st EXCEPT ![c] = x] =>
            st'[c] = x /\ \A t \in Starters \ {c} : st'[t] = st[t]
      /\ current \in Runs
      /\ DOMAIN fb = Runs
  BY DEF Typed, StartsKnow, TaskTyped, Used, RowsTyped
<1>1. ASSUME \A r \in Runs : Single(fb'[r]) \/ OnceBut(fb'[r], again'),
             \A s \in Starters : st'[s].at = "claim" => Single(st'[s].fb),
             sy' = sy
      PROVE  Singles'
  <2>1. \A q : Single(q) => OnceBut(q, again')
    BY SingleGrows
  <2>2. \A r \in Runs : OnceBut(fb'[r], again')
    BY <1>1, <2>1
  <2>3. \A s \in Starters : st'[s].at = "claim" => OnceBut(st'[s].fb, again')
    BY <1>1, <2>1
  <2>4. \A s \in Syncs : sy'[s].at = "append" => OnceBut(sy'[s].base, again') /\ OnceBut(sy'[s].parts, again')
    BY <1>1, <2>1 DEF Singles
  <2> QED BY <2>2, <2>3, <2>4 DEF Singles, Single, OnceBut
<1>2. /\ \A r \in Runs : Single(fb[r])
      /\ \A s \in Starters : st[s].at = "claim" => Single(st[s].fb)
  BY DEF Singles
<1>3. \A i, A : OnceBut(<<i>>, A)
  BY SetOfOne DEF OnceBut
<1>4. ASSUME NEW s \in Starters, NEW held, Read(s, held) PROVE Singles'
  <2> DEFINE x == [NoSt EXCEPT !.at = "claim", !.label = label,
                        !.held = held, !.cur = current, !.fb = fb[current]]
  <2>1. fb' = fb /\ sy' = sy /\ st' = [st EXCEPT ![s] = x]
    BY <1>4 DEF Read, syncVars
  <2>2. x.fb = fb[current]
    BY DEF NoSt
  <2> HIDE DEF x
  <2>3. \A t \in Starters : st'[t].at = "claim" => Single(st'[t].fb)
    BY <1>0, <1>2, <2>1, <2>2
  <2> QED BY <1>1, <1>2, <2>1, <2>3
<1>5. ASSUME NEW s \in Starters, Start(s) PROVE Singles'
  <2>1. fb' = fb \/ (st[s].at = "claim" /\ \E q \in Runs : fb' = [fb EXCEPT ![q] = st[s].fb])
    BY <1>5 DEF Start, Claim, Conflict, Escalate, Restore, Copy, Unused
  <2>2. \A r \in Runs : Single(fb'[r])
    BY <1>0, <1>2, <2>1
  <2>3. PICK x : st' = [st EXCEPT ![s] = x] /\ x.at # "claim"
    BY <1>5, StartIdles
  <2>4. \A t \in Starters : st'[t].at = "claim" => Single(st'[t].fb)
    BY <1>0, <1>2, <2>3
  <2>5. sy' = sy
    BY <1>5 DEF Start, Claim, Conflict, Escalate, Restore, syncVars
  <2> QED BY <1>1, <2>2, <2>4, <2>5
<1>6. ASSUME NEW r \in Runs, Run(r) PROVE Singles'
  <2>1. st' = st /\ sy' = sy
    BY <1>6, RunTouches
  <2>2. \A q \in Runs : Single(fb'[q]) \/ OnceBut(fb'[q], again')
    <3>1. CASE ConsumeSwap(r)
      <4>1. fb' = fb \/ (fb[r] = mem[r].seen /\ fb' = [fb EXCEPT ![r] = Rest(r)])
        BY <3>1 DEF ConsumeSwap
      <4>2. fb[r] = mem[r].seen => OnceBut(Rest(r), again)
        <5>1. mem[r].inh \in Seq(Items) /\ mem[r].seen \in Seq(Items) /\ IsPrefix(mem[r].inh, mem[r].seen)
          BY <3>1 DEF ConsumeSwap, Typed, RunsKnow, Mems
        <5>2. OnceBut(fb[r], again)
          BY <1>2 DEF Single
        <5> QED BY <5>1, <5>2, RestOnce DEF Rest
      <4> QED BY <1>0, <1>2, <4>1, <4>2 DEF Single
    <3>2. CASE WriteFindings(r)
      BY <1>0, <1>2, <1>3, <3>2 DEF WriteFindings
    <3>3. CASE ~ConsumeSwap(r) /\ ~WriteFindings(r)
      <4>1. fb' = fb
        BY <1>6, <3>3 DEF Run, Succeed, Fail, Ask, Die, ConsumeRead, FindsInPlace, LoopExceeded,
           RunMoveRead, RunMove, RunGivesUp
      <4> QED BY <1>2, <4>1
    <3> QED BY <3>1, <3>2, <3>3
  <2> QED BY <1>1, <1>2, <2>1, <2>2
<1>7. CASE People
  <2>1. st' = st /\ sy' = sy
    BY <1>7 DEF People, RejectRead, RejectNote, MoveRequest, ReqMoveRead, ReqMove, Rerun, goVars, syncVars
  <2>2. \A q \in Runs : Single(fb'[q]) \/ OnceBut(fb'[q], again')
    <3>1. CASE RejectNote
      BY <1>0, <1>2, <1>3, <3>1 DEF RejectNote
    <3>2. CASE ~RejectNote
      <4>1. fb' = fb
        BY <1>7, <3>2 DEF People, RejectRead, MoveRequest, ReqMoveRead, ReqMove, Rerun
      <4> QED BY <1>2, <4>1
    <3> QED BY <3>1, <3>2
  <2> QED BY <1>1, <1>2, <2>1, <2>2
<1>8. SweepRead \/ ReplyRead => Singles'
  BY <1>4 DEF SweepRead, ReplyRead, Starters
<1> QED BY <1>5, <1>6, <1>7, <1>8 DEF Elsewhere

\* What could be handed out again was before, and the run that dropped it still does.
LEMMA NotAgainFrom ==
    ASSUME NotAgain, again \subseteq again', Stale' \subseteq Stale \cup again',
           \A r \in Runs : Covers(r) =>
              \/ phase'[r] \in {"consuming", "dropping"} /\ mem'[r].inh = mem[r].inh
              \/ ToSet(mem[r].inh) \subseteq again'
    PROVE  NotAgain'
<1>1. ASSUME NEW i \in Stale' \ again' PROVE Covered(i)'
  <2>1. i \in Stale \ again
    BY <1>1
  <2>2. PICK r \in Runs : phase[r] \in {"consuming", "dropping"} /\ i \in ToSet(mem[r].inh)
    BY <2>1 DEF NotAgain, Covered
  <2>3. phase'[r] \in {"consuming", "dropping"} /\ mem'[r].inh = mem[r].inh
    BY <1>1, <2>2 DEF Covers
  <2> QED BY <2>2, <2>3 DEF Covered
<1> QED BY <1>1 DEF NotAgain

\* A row that is put back is told again.
LEMMA StalePutBack ==
    ASSUME NEW c, PutBack(c), UNCHANGED <<fb, addressed>>, InFlight' \subseteq InFlight
    PROVE  again \subseteq again' /\ Stale' \subseteq Stale \cup again'
<1>1. current' = c /\ again \subseteq again' /\ (current = c \/ On(c) \subseteq again')
  BY DEF PutBack
<1>2. (On(current))' = On(c)
  BY <1>1 DEF On
<1> QED BY <1>1, <1>2 DEF Stale

\* Nobody but the starts has something in flight.
LEMMA StaleQuiet ==
    ASSUME UNCHANGED <<fb, current>>, addressed' \subseteq addressed, InFlight' \subseteq InFlight
    PROVE  Stale' \subseteq Stale
BY DEF Stale, On

LEMMA FlightFrame ==
    ASSUME \A t \in Starters : st'[t].at = "claim" => st'[t] = st[t]
    PROVE  InFlight' \subseteq InFlight
BY DEF InFlight

\* Somebody writes new words over the row of r.
LEMMA StaleWrite ==
    ASSUME Typed, NEW r \in Runs, NEW i, i \notin Texts,
           fb' = [fb EXCEPT ![r] = <<i>>], UNCHANGED <<current, addressed, st>>
    PROVE  Stale' \subseteq Stale
<1>1. (On(r))' = {i} /\ \A q \in Runs \ {r} : (On(q))' = On(q)
  BY SetOfOne DEF On, Typed, RowsTyped
<1>2. PICK c \in Runs : c = current
  BY DEF Typed, TaskTyped, Used
<1>3. (On(c))' \cap addressed \subseteq On(c)
  BY <1>1, <1>2, HeldTexts
<1>4. (On(c))' = ToSet(fb'[c]) /\ current' = c /\ InFlight' = InFlight
  BY <1>2 DEF On, InFlight
<1> QED BY <1>2, <1>3, <1>4 DEF Stale, On

LEMMA NotAgainStart ==
    ASSUME Typed, Handed, again \subseteq again',
           (SweepRead \/ ReplyRead) \/ \E s \in Starters : Start(s)
    PROVE  NotAgain'
<1>0. /\ \A c \in Starters : \A x : st' = [st EXCEPT ![c] = x] =>
            st'[c] = x /\ \A t \in Starters \ {c} : st'[t] = st[t]
      /\ NotAgain /\ Owned
  BY DEF Typed, StartsKnow, Handed
<1>1. ASSUME NEW s \in Starters, NEW held, Read(s, held) PROVE NotAgain'
  <2> DEFINE x == [NoSt EXCEPT !.at = "claim", !.label = label,
                        !.held = held, !.cur = current, !.fb = fb[current]]
  <2>1. UNCHANGED <<fb, mem, phase, current, addressed>> /\ st' = [st EXCEPT ![s] = x]
    BY <1>1 DEF Read, taskVars, history
  <2>2. x.fb = fb[current]
    BY DEF NoSt
  <2> HIDE DEF x
  <2>3. \A t \in Starters : st'[t].at = "claim" => st'[t] = st[t] \/ ToSet(st'[t].fb) = On(current)
    BY <1>0, <2>1, <2>2 DEF On
  <2>4. InFlight' \subseteq InFlight \cup On(current)
    BY <2>3 DEF InFlight
  <2>5. Stale' \subseteq Stale
    BY <2>1, <2>4 DEF Stale, On
  <2> QED BY <1>0, <2>1, <2>5, NotAgainFrom DEF Covers
<1>2. ASSUME NEW s \in Starters, Start(s) PROVE NotAgain'
  <2>1. \A q \in Runs : Covers(q) => phase'[q] = phase[q] /\ mem'[q] = mem[q]
    <3>1. PICK r \in Runs :
              /\ \A q \in Runs \ {r} : phase'[q] = phase[q] /\ mem'[q] = mem[q]
              /\ (phase'[r] = phase[r] /\ mem'[r] = mem[r]) \/ phase[r] \in {"none", "starting", "phantom"}
      BY <1>0, <1>2, StartTouches
    <3> QED BY <3>1 DEF Covers
  <2>2. InFlight' \subseteq InFlight
    <3>1. PICK x : st' = [st EXCEPT ![s] = x] /\ x.at # "claim"
      BY <1>2, StartIdles
    <3> QED BY <1>0, <3>1, FlightFrame
  <2>3. Stale' \subseteq Stale \cup again'
    <3>1. CASE \E runs \in BOOLEAN : Claim(s, runs)
      <4>1. PICK r \in Runs : /\ fb' = [fb EXCEPT ![r] = st[s].fb] /\ current' = r
                              /\ addressed' = addressed /\ st[s].at = "claim"
        BY <3>1 DEF Claim, Copy, Unused
      <4>2. fb'[r] = st[s].fb
        BY <4>1 DEF Typed, RowsTyped
      <4>3. (On(current))' \subseteq InFlight
        BY <4>1, <4>2, HeldTexts DEF On
      <4> QED BY <2>2, <4>1, <4>3 DEF Stale
    <3>2. CASE Conflict(s) \/ Escalate(s)
      <4>1. UNCHANGED <<fb, addressed, current>>
        BY <3>2 DEF Conflict, Escalate, taskVars, history
      <4> QED BY <2>2, <4>1, StaleQuiet
    <3>3. CASE Restore(s)
      <4>1. PICK c : c = st[s].cur /\ PutBack(c) /\ UNCHANGED <<fb, addressed>>
        BY <3>3 DEF Restore
      <4> QED BY <2>2, <4>1, StalePutBack
    <3> QED BY <1>2, <3>1, <3>2, <3>3 DEF Start
  <2> QED BY <1>0, <2>1, <2>3, NotAgainFrom DEF Covers
<1>3. SweepRead \/ ReplyRead => NotAgain'
  BY <1>1 DEF SweepRead, ReplyRead, Starters
<1> QED BY <1>2, <1>3

LEMMA NotAgainRun ==
    ASSUME Typed, Handed, again \subseteq again', NEW r \in Runs, Run(r)
    PROVE  NotAgain'
<1>0. /\ NotAgain /\ Known /\ NewNotes /\ NewFindings /\ Singles
      /\ phase \in [Runs -> Phases] /\ mem \in [Runs -> Mems] /\ fb \in [Runs -> Seq(Items)]
      /\ mem[r] \in Mems /\ current \in Runs
  BY DEF Typed, Handed, TaskTyped, RunsKnow, RowsTyped, Used
<1>1. /\ \A q \in Runs \ {r} : phase'[q] = phase[q] /\ mem'[q] = mem[q]
      /\ Covers(r) => ConsumeRead(r) \/ ConsumeSwap(r)
      /\ st' = st
  BY RunTouches
<1>2. InFlight' = InFlight
  BY <1>1 DEF InFlight
<1>3. ASSUME Stale' \subseteq Stale \cup again', ~ConsumeRead(r), ~ConsumeSwap(r) PROVE NotAgain'
  BY <1>0, <1>1, <1>3, NotAgainFrom DEF Covers
<1>4. CASE Fail(r) \/ Ask(r) \/ Die(r) \/ FindsInPlace(r) \/ LoopExceeded(r)
           \/ RunMoveRead(r) \/ RunGivesUp(r)
  <2>1. UNCHANGED <<fb, addressed, current>> /\ ~Covers(r) /\ ~ConsumeRead(r) /\ ~ConsumeSwap(r)
    BY <1>4 DEF Fail, Ask, Die, FindsInPlace, LoopExceeded, RunMoveRead, RunGivesUp, Covers, taskVars, history,
       ConsumeRead, ConsumeSwap
  <2> QED BY <1>2, <1>3, <2>1, StaleQuiet
<1>5. CASE RunMove(r)
  <2>1. PICK c : c = mem[r].cur /\ PutBack(c) /\ UNCHANGED <<fb, addressed>>
    BY <1>5 DEF RunMove, MoveTask
  <2>2. ~ConsumeRead(r) /\ ~ConsumeSwap(r)
    BY <1>5 DEF RunMove, ConsumeRead, ConsumeSwap
  <2> QED BY <1>2, <1>3, <2>1, <2>2, StalePutBack
<1>6. CASE WriteFindings(r)
  <2>1. ~ConsumeRead(r) /\ ~ConsumeSwap(r)
    BY <1>6 DEF WriteFindings, ConsumeRead, ConsumeSwap
  <2>2. PICK i : i = <<"findings", r>> /\ i \notin Texts
    BY <1>0, <1>6, FreshWords DEF WriteFindings
  <2>3. fb' = [fb EXCEPT ![r] = <<i>>] /\ UNCHANGED <<current, addressed>>
    BY <1>6, <2>2 DEF WriteFindings, taskVars
  <2>4. Stale' \subseteq Stale
    BY <1>1, <2>2, <2>3, StaleWrite
  <2> QED BY <1>3, <2>1, <2>4
<1>7. CASE Succeed(r)
  <2>1. /\ UNCHANGED <<fb, current, again>> /\ addressed' = addressed \cup ToSet(mem[r].inh)
        /\ phase' = [phase EXCEPT ![r] = IF mem[r].inh = <<>> THEN "moving" ELSE "consuming"]
        /\ mem' = [mem EXCEPT ![r].to = SuccessOf[mem[r].from]]
        /\ phase[r] = "working"
    BY <1>7 DEF Succeed, taskVars
  <2>2. mem'[r].inh = mem[r].inh
    BY <1>0, <2>1 DEF Mems
  <2>3. (On(current))' = On(current)
    BY <2>1 DEF On
  <2>4. ASSUME NEW i \in Stale' \ again' PROVE Covered(i)'
    <3>1. CASE i \in ToSet(mem[r].inh)
      <4>1. mem[r].inh # <<>>
        BY <3>1, SetOfEmpty
      <4>2. phase'[r] = "consuming"
        BY <1>0, <2>1, <4>1
      <4> QED BY <2>2, <3>1, <4>2 DEF Covered
    <3>2. CASE i \notin ToSet(mem[r].inh)
      <4>1. i \in Stale \ again
        BY <1>2, <2>1, <2>3, <2>4, <3>2 DEF Stale
      <4>2. PICK q \in Runs : phase[q] \in {"consuming", "dropping"} /\ i \in ToSet(mem[q].inh)
        BY <1>0, <4>1 DEF NotAgain, Covered
      <4> QED BY <1>1, <2>1, <4>2 DEF Covered
    <3> QED BY <3>1, <3>2
  <2> QED BY <2>4 DEF NotAgain
<1>8. CASE ConsumeRead(r)
  <2> DEFINE mine == IsPrefix(mem[r].inh, fb[r])
  <2>1. /\ UNCHANGED <<fb, current, addressed>>
        /\ phase' = [phase EXCEPT ![r] = IF mine THEN "dropping" ELSE "moving"]
        /\ mem' = [mem EXCEPT ![r].seen = IF mine THEN fb[r] ELSE <<>>]
        /\ again' = IF mine THEN again ELSE again \cup ToSet(mem[r].inh)
    BY <1>8 DEF ConsumeRead, taskVars
  <2> HIDE DEF mine
  <2>2. mem'[r].inh = mem[r].inh
    BY <1>0, <2>1 DEF Mems
  <2>3. phase'[r] = "dropping" \/ ToSet(mem[r].inh) \subseteq again'
    BY <1>0, <2>1
  <2>4. Stale' \subseteq Stale
    BY <1>2, <2>1, StaleQuiet
  <2> QED BY <1>0, <1>1, <2>2, <2>3, <2>4, NotAgainFrom DEF Covers
<1>9. CASE ConsumeSwap(r)
  <2>1. /\ UNCHANGED <<current, addressed>>
        /\ fb' = IF fb[r] = mem[r].seen THEN [fb EXCEPT ![r] = Rest(r)] ELSE fb
        /\ again' = again \cup IF fb[r] = mem[r].seen /\ current = r
                               THEN ToSet(mem[r].inh) \cap InFlight ELSE ToSet(mem[r].inh)
        /\ phase[r] = "dropping"
    BY <1>9 DEF ConsumeSwap, taskVars
  <2>2. CASE ~(fb[r] = mem[r].seen /\ current = r)
    <3>1. fb'[current] = fb[current]
      BY <1>0, <2>1, <2>2
    <3>2. (On(current))' = On(current)
      BY <2>1, <3>1 DEF On
    <3>3. Stale' = Stale
      BY <1>2, <2>1, <3>2 DEF Stale
    <3> QED BY <1>0, <1>1, <2>1, <2>2, <3>3, NotAgainFrom DEF Covers
  <2>3. CASE fb[r] = mem[r].seen /\ current = r
    <3>1. mem[r].inh \in Seq(Items) /\ mem[r].seen \in Seq(Items) /\ IsPrefix(mem[r].inh, mem[r].seen)
      BY <1>0, <2>1 DEF Typed, RunsKnow, Mems
    <3>2. OnceBut(mem[r].seen, again)
      BY <1>0, <2>3 DEF Singles, Single
    <3>3. ToSet(mem[r].inh) \cap ToSet(Rest(r)) \subseteq again
      BY <3>1, <3>2, RestOnce DEF Rest
    <3>4. ToSet(Rest(r)) \subseteq ToSet(mem[r].seen)
      BY <3>1, SetOfRest DEF Rest
    <3>5. (On(current))' = ToSet(Rest(r)) /\ ToSet(Rest(r)) \subseteq On(current)
      BY <1>0, <2>1, <2>3, <3>4 DEF On
    <3>6. ASSUME NEW i \in Stale' \ again' PROVE Covered(i)'
      <4>1. i \in Stale \ again /\ i \in ToSet(Rest(r)) \cup InFlight
        BY <1>2, <2>1, <3>5, <3>6 DEF Stale
      <4>2. PICK q \in Runs : phase[q] \in {"consuming", "dropping"} /\ i \in ToSet(mem[q].inh)
        BY <1>0, <4>1 DEF NotAgain, Covered
      <4>3. q # r
        BY <2>1, <2>3, <3>3, <3>6, <4>1, <4>2
      <4> QED BY <1>1, <4>2, <4>3 DEF Covered
    <3> QED BY <3>6 DEF NotAgain
  <2> QED BY <2>2, <2>3
<1> QED BY <1>4, <1>5, <1>6, <1>7, <1>8, <1>9 DEF Run

LEMMA NotAgainPeople ==
    ASSUME Typed, Handed, again \subseteq again', People
    PROVE  NotAgain'
<1>0. NotAgain /\ Known /\ NewNotes /\ NewFindings
  BY DEF Handed
<1>1. UNCHANGED <<st, phase, mem, addressed>>
  BY DEF People, RejectRead, RejectNote, MoveRequest, ReqMoveRead, ReqMove, Rerun, goVars, history
<1>2. InFlight' = InFlight
  BY <1>1 DEF InFlight
<1>3. ASSUME Stale' \subseteq Stale \cup again' PROVE NotAgain'
  BY <1>0, <1>1, <1>3, NotAgainFrom DEF Covers
<1>4. CASE RejectNote
  <2>1. req.cur \in Runs
    BY <1>4 DEF RejectNote, Typed, RequestKnows, Used
  <2>2. PICK q, i : q \in Runs /\ q = req.cur /\ i = <<"note", acts>> /\ i \notin Texts
    BY <1>0, <1>4, <2>1, FreshWords DEF RejectNote
  <2>3. fb' = [fb EXCEPT ![q] = <<i>>] /\ UNCHANGED current
    BY <1>4, <2>2 DEF RejectNote, taskVars
  <2> QED BY <1>1, <1>3, <2>2, <2>3, StaleWrite
<1>5. CASE ReqMove
  <2>1. PICK c : c = req.cur
    OBVIOUS
  <2>2. fb' = fb /\ (PutBack(c) \/ current' = current)
    BY <1>5, <2>1 DEF ReqMove, MoveTask, taskVars
  <2> QED BY <1>1, <1>2, <1>3, <2>2, StalePutBack, StaleQuiet
<1>6. CASE ~RejectNote /\ ~ReqMove
  <2>1. UNCHANGED <<fb, current>>
    BY <1>6 DEF People, RejectRead, MoveRequest, ReqMoveRead, Rerun, taskVars
  <2> QED BY <1>1, <1>2, <1>3, <2>1, StaleQuiet
<1> QED BY <1>4, <1>5, <1>6

LEMMA HandedElsewhere ==
    ASSUME Typed, Handed, Elsewhere
    PROVE  Handed'
<1>1. /\ Known' /\ FreshParts' /\ NewNotes' /\ NewFindings' /\ again \subseteq again'
  BY KnownElsewhere
<1>2. Singles'
  BY <1>1, SinglesElsewhere DEF Handed
<1>3. Owned'
  BY OwnedStep DEF Handed, Elsewhere, Next
<1>4. NotAgain'
  BY <1>1, NotAgainStart, NotAgainRun, NotAgainPeople DEF Elsewhere
<1> QED BY <1>1, <1>2, <1>3, <1>4 DEF Handed

-----------------------------------------------------------------------------
(* The sync, the forge and a crash.                                        *)

\* Nobody writes words of his own.
LEMMA WordsFrame ==
    ASSUME NewNotes, NewFindings, Owned, UNCHANGED <<phase, st, req, acts>>,
           told' \cup again' \subseteq told \cup again \cup Posts
    PROVE  NewNotes' /\ NewFindings' /\ Owned'
<1>1. \A n : <<"note", n>> \in told' \cup again' => <<"note", n>> \in told \cup again
  BY ItemFacts
<1>2. \A r \in Runs : <<"findings", r>> \in told' \cup again' => <<"findings", r>> \in told \cup again
  BY ItemFacts
<1>3. NewNotes'
  BY <1>1 DEF NewNotes
<1>4. NewFindings'
  BY <1>2 DEF NewFindings
<1> QED BY <1>3, <1>4 DEF Owned, Failing

\* Rows, runs and starts keep what they hold.
LEMMA HandedQuiet ==
    ASSUME Typed, Handed, UNCHANGED <<fb, mem, st, phase, req, acts, told, addressed>>,
           unsaved \subseteq unsaved', again \subseteq again', again' \subseteq again \cup Texts,
           \A t \in Syncs : AppendSame(t) /\ ToSet(sy'[t].base) \subseteq Texts,
           Stale' \subseteq Stale \cup again'
    PROVE  Handed'
<1>0. Known /\ FreshParts /\ Singles /\ NewNotes /\ NewFindings /\ Owned /\ NotAgain
  BY DEF Handed
<1>1. Texts' \subseteq Texts
  <2>1. /\ \A r \in Runs : ToSet(fb[r]) \subseteq Texts
        /\ \A s \in Starters : st[s].at = "claim" => ToSet(st[s].fb) \subseteq Texts
    <3>1. \A r \in Runs : On(r) = ToSet(fb[r])
      BY DEF On
    <3> QED BY <3>1, HeldTexts
  <2> QED BY <2>1, HeldTexts, TextsGrow
<1>2. Known'
  BY <1>0, <1>1 DEF Known
<1>3. FreshParts'
  <2>1. Appending' = Appending
    BY AppendingFrame
  <2> QED BY <1>0, <1>1, <2>1 DEF FreshParts
<1>4. Singles'
  <2>1. \A q : Single(q) => OnceBut(q, again')
    BY SingleGrows
  <2> QED BY <1>0, <2>1 DEF Singles, Single, OnceBut, AppendSame
<1>5. told' \cup again' \subseteq told \cup again \cup Posts
  BY <1>0 DEF Known
<1>6. NewNotes' /\ NewFindings' /\ Owned'
  BY <1>0, <1>5, WordsFrame
<1>7. NotAgain'
  BY <1>0, NotAgainFrom DEF Covers
<1> QED BY <1>2, <1>3, <1>4, <1>6, <1>7 DEF Handed

\* The row that a fetch reads.
LEMMA FetchBase ==
    ASSUME Typed, NEW s \in Syncs, NEW tried, NEW got, NEW next, NEW parts, NEW talk,
           Fetched(s, tried, got, next, parts, talk)
    PROVE  sy'[s].base \in {<<>>, fb[sy[s].cur]}
<1>0. \A x : sy' = [sy EXCEPT ![s] = x] => sy'[s] = x
  BY DEF Typed, SyncsKnow
<1> DEFINE x == [NoSync EXCEPT !.at = "append", !.next = next,
                       !.parts = parts, !.label = sy[s].label, !.cur = sy[s].cur,
                       !.base = fb[sy[s].cur], !.changed = TRUE]
           y == [NoSync EXCEPT !.at = "save", !.next = next,
                       !.parts = <<>>, !.label = IF talk THEN sy[s].label ELSE NoLabel,
                       !.cur = NoRun, !.base = <<>>, !.changed = talk]
<1>1. x.base = fb[sy[s].cur] /\ y.base = <<>> /\ NoSync.base = <<>>
  BY DEF NoSync
<1>2. sy' = [sy EXCEPT ![s] = x] \/ sy' = [sy EXCEPT ![s] = y] \/ sy' = [sy EXCEPT ![s] = NoSync]
  BY DEF Fetched
<1> HIDE DEF x, y
<1> QED BY <1>0, <1>1, <1>2

LEMMA HandedFetch ==
    ASSUME Typed, Handed, NEW s \in Syncs, SyncFetchSome(s)
    PROVE  Handed'
<1>0. Known /\ FreshParts /\ Singles /\ NewNotes /\ NewFindings /\ Owned /\ NotAgain
  BY DEF Handed
<1>1. PICK tried, next, parts, talk : tried \in Tried(s) /\ \E got \in SUBSET tried :
              /\ Fetched(s, tried, got, next, parts, talk)
              /\ sy'[s].at \in {"idle", "append", "save"}
              /\ sy'[s].parts = parts
              /\ \A t \in Syncs \ {s} : sy'[t] = sy[t]
  BY FetchShape
<1>2. PICK got \in SUBSET tried : Fetched(s, tried, got, next, parts, talk)
  BY <1>1
<1>3. PICK P : P = ToSet(parts)
  OBVIOUS
<1>4. /\ told' = told \cup P /\ addressed' = addressed \ P
      /\ again' = again \cup (P \cap told) /\ unsaved' = unsaved \ P
      /\ UNCHANGED <<current, fb, st, mem, phase, req, acts>>
      /\ OnceBut(parts, {}) /\ parts \in Seq(Posts)
  BY <1>2, <1>3 DEF Fetched
<1>5. P \subseteq Posts
  BY <1>3, <1>4, SetOfSeq
<1>6. sy[s].at = "fetch" /\ Locked(s) /\ sy[s].cur \in Runs
  BY DEF SyncFetchSome, Locked, Typed, SyncsKnow, Used
<1>7. \A t \in Syncs \ {s} : sy'[t].at # "append"
  BY <1>1, <1>6, OneAppends
<1>8. sy'[s].base \in {<<>>, fb[sy[s].cur]}
  BY <1>2, FetchBase
<1>9. Texts' \subseteq Texts
  <2>1. \A r \in Runs : ToSet(fb[r]) \subseteq Texts
    <3>1. \A r \in Runs : On(r) = ToSet(fb[r])
      BY DEF On
    <3> QED BY <3>1, HeldTexts
  <2>2. \A t \in Starters : st'[t].at = "claim" => ToSet(st'[t].fb) \subseteq Texts
    BY <1>4, HeldTexts
  <2>3. \A t \in Syncs : ToSet(sy'[t].base) \subseteq Texts
    BY <1>1, <1>6, <1>8, <2>1, HeldTexts, SetOfEmpty
  <2>4. /\ \A r \in Runs : ToSet(fb'[r]) \subseteq Texts /\ ToSet(mem'[r].inh) \subseteq Texts
        /\ addressed' \subseteq Texts
    BY <1>4, <2>1, HeldTexts
  <2> QED BY <2>2, <2>3, <2>4, TextsGrow
<1>10. Known'
  BY <1>0, <1>4, <1>9 DEF Known
<1>11. FreshParts'
  <2>1. Appending' \subseteq P
    BY <1>1, <1>3, <1>7 DEF Appending
  <2> QED BY <1>0, <1>4, <1>9, <2>1 DEF FreshParts, Known
<1>12. Singles'
  <2>1. \A q : Single(q) => OnceBut(q, again')
    BY <1>4, SingleGrows
  <2>2. OnceBut(parts, again') /\ OnceBut(<<>>, again')
    BY <1>4 DEF OnceBut
  <2>3. \A r \in Runs : OnceBut(fb'[r], again')
    BY <1>0, <1>4, <2>1 DEF Singles
  <2>4. \A t \in Starters : st'[t].at = "claim" => OnceBut(st'[t].fb, again')
    BY <1>0, <1>4, <2>1 DEF Singles
  <2>5. \A t \in Syncs : sy'[t].at = "append" => OnceBut(sy'[t].base, again') /\ OnceBut(sy'[t].parts, again')
    BY <1>1, <1>4, <1>6, <1>7, <1>8, <2>2, <2>3
  <2> QED BY <2>3, <2>4, <2>5 DEF Singles, Single, OnceBut
<1>13. NewNotes' /\ NewFindings' /\ Owned'
  <2>1. told' \cup again' \subseteq told \cup again \cup Posts
    BY <1>4, <1>5
  <2> QED BY <1>0, <1>4, <2>1, WordsFrame
<1>14. NotAgain'
  <2>1. InFlight' = InFlight
    BY <1>4 DEF InFlight
  <2>2. Stale' \subseteq Stale
    BY <1>4, <2>1, StaleQuiet
  <2> QED BY <1>0, <1>4, <2>2, NotAgainFrom DEF Covers
<1> QED BY <1>10, <1>11, <1>12, <1>13, <1>14 DEF Handed

LEMMA HandedAppend ==
    ASSUME Typed, Handed, NEW s \in Syncs, SyncAppend(s)
    PROVE  Handed'
<1>0. Known /\ FreshParts /\ Singles /\ NewNotes /\ NewFindings /\ Owned /\ NotAgain
  BY DEF Handed
<1>1. PICK r \in Runs : r = sy[s].cur
  BY DEF SyncAppend, Typed, SyncsKnow, Used
<1>2. PICK p \in Seq(Items), b \in Seq(Items) : p = sy[s].parts /\ b = sy[s].base
  <2>1. sy[s].parts \in Seq(Posts) /\ sy[s].base \in Seq(Items)
    BY DEF Typed, SyncsKnow
  <2>2. \A q \in Seq(Posts) : q \in Seq(Items)
    BY ItemFacts
  <2> QED BY <2>1, <2>2
<1> DEFINE x == [sy[s] EXCEPT !.at = "save", !.cur = NoRun, !.base = <<>>]
<1>3. /\ sy[s].at = "append" /\ fb' = [fb EXCEPT ![r] = b \o p]
      /\ again' = again \cup (ToSet(b) \ On(r))
      /\ UNCHANGED <<current, st, mem, phase, req, acts, told, addressed, unsaved>>
      /\ sy' = [sy EXCEPT ![s] = x]
  BY <1>1, <1>2 DEF SyncAppend, taskVars, goVars, bounds, Typed, SyncsKnow
<1>4. x.at = "save" /\ x.base = <<>>
  BY DEF Typed, SyncsKnow
<1> HIDE DEF x
<1>5. sy'[s] = x /\ \A t \in Syncs \ {s} : sy'[t] = sy[t]
  BY <1>3 DEF Typed, SyncsKnow
<1>6. Locked(s)
  BY <1>3 DEF Locked
<1>7. /\ Appending = ToSet(p) /\ \A t \in Syncs : sy'[t].at # "append"
  BY <1>2, <1>3, <1>4, <1>5, <1>6, OneAppends
<1>8. Appending' = {}
  BY <1>7 DEF Appending
<1>9. ToSet(b \o p) = ToSet(b) \cup ToSet(p)
  BY SetOfBoth
<1>10. fb'[r] = b \o p /\ \A q \in Runs \ {r} : fb'[q] = fb[q]
  BY <1>3 DEF Typed, RowsTyped
<1>11. ToSet(b) \subseteq Texts /\ ToSet(p) \subseteq told /\ ToSet(p) \cap Texts \subseteq again
  BY <1>0, <1>2, <1>7, HeldTexts DEF FreshParts
<1>12. Texts' \subseteq Texts \cup ToSet(p)
  <2>1. PICK T : T = Texts \cup ToSet(p)
    OBVIOUS
  <2>2. \A q \in Runs : ToSet(fb'[q]) \subseteq T
    <3>1. \A q \in Runs : On(q) = ToSet(fb[q])
      BY DEF On
    <3> QED BY <1>9, <1>10, <1>11, <2>1, <3>1, HeldTexts
  <2>3. \A t \in Syncs : ToSet(sy'[t].base) \subseteq T
    BY <1>4, <1>5, <2>1, HeldTexts, SetOfEmpty
  <2>4. \A t \in Starters : st'[t].at = "claim" => ToSet(st'[t].fb) \subseteq T
    BY <1>3, <2>1, HeldTexts
  <2>5. /\ \A q \in Runs : ToSet(mem'[q].inh) \subseteq T
        /\ addressed' \subseteq T
    BY <1>3, <2>1, HeldTexts
  <2>6. Texts' \subseteq T
    BY <2>2, <2>3, <2>4, <2>5, TextsGrow
  <2> QED BY <2>1, <2>6
<1>13. Known'
  BY <1>0, <1>3, <1>11, <1>12 DEF Known
<1>14. FreshParts'
  BY <1>8 DEF FreshParts
<1>15. Singles'
  <2>1. \A q : Single(q) => OnceBut(q, again')
    BY <1>3, SingleGrows
  <2>2. Single(b) /\ Single(p)
    BY <1>0, <1>2, <1>3 DEF Singles
  <2>3. OnceBut(b \o p, again')
    <3>1. PICK A : A = again'
      OBVIOUS
    <3>2. OnceBut(b, A) /\ OnceBut(p, A) /\ ToSet(b) \cap ToSet(p) \subseteq A
      BY <1>3, <1>11, <2>1, <2>2, <3>1
    <3>3. OnceBut(b \o p, A)
      BY <3>2, OnceInBoth
    <3> QED BY <3>1, <3>3
  <2>4. \A q \in Runs : OnceBut(fb'[q], again')
    BY <1>0, <1>10, <2>1, <2>3 DEF Singles
  <2>5. \A t \in Starters : st'[t].at = "claim" => OnceBut(st'[t].fb, again')
    BY <1>0, <1>3, <2>1 DEF Singles
  <2> QED BY <1>7, <2>4, <2>5 DEF Singles, Single, OnceBut
<1>16. NewNotes' /\ NewFindings' /\ Owned'
  <2>1. told' \cup again' \subseteq told \cup again \cup Posts
    BY <1>0, <1>3, <1>11 DEF Known
  <2> QED BY <1>0, <1>3, <2>1, WordsFrame
<1>17. NotAgain'
  <2>1. InFlight' = InFlight
    BY <1>3 DEF InFlight
  <2>2. PICK c \in Runs : c = current
    BY DEF Typed, TaskTyped, Used
  <2>3. addressed \subseteq Texts
    BY HeldTexts
  <2>4. (On(c))' \cap addressed \subseteq On(c) \cup again'
    <3>1. CASE c = r
      <4>1. (On(c))' = ToSet(b) \cup ToSet(p)
        BY <1>9, <1>10, <3>1 DEF On
      <4> QED BY <1>3, <1>11, <2>3, <3>1, <4>1
    <3>2. CASE c # r
      BY <1>10, <3>2 DEF On
    <3> QED BY <3>1, <3>2
  <2>5. (On(current))' = (On(c))' /\ On(current) = On(c)
    BY <1>3, <2>2 DEF On
  <2>6. Stale' \subseteq Stale \cup again'
    BY <1>3, <2>1, <2>4, <2>5 DEF Stale
  <2> QED BY <1>0, <1>3, <2>6, NotAgainFrom DEF Covers
<1> QED BY <1>13, <1>14, <1>15, <1>16, <1>17 DEF Handed

LEMMA HandedSync ==
    ASSUME Typed, Handed, NEW s \in Syncs, SyncSnap(s) \/ SyncGoesOn(s)
    PROVE  Handed'
<1>0. \A x : sy' = [sy EXCEPT ![s] = x] => sy'[s] = x /\ \A t \in Syncs \ {s} : sy'[t] = sy[t]
  BY DEF Typed, SyncsKnow
<1>1. ASSUME sy[s].at # "append", NEW x, x.at # "append", x.base \in {sy[s].base, <<>>},
             sy' = [sy EXCEPT ![s] = x]
      PROVE  \A t \in Syncs : AppendSame(t) /\ ToSet(sy'[t].base) \subseteq Texts
  BY <1>0, <1>1, HeldTexts, SetOfEmpty DEF AppendSame
<1>2. CASE SyncSnap(s) \/ SyncNoHead(s) \/ SyncHead(s) \/ SyncSave(s) \/ SyncMoveRead(s)
  <2>1. /\ UNCHANGED <<current, fb, st, mem, phase, req, acts, told, addressed, again>>
        /\ unsaved \subseteq unsaved' /\ sy[s].at # "append"
    BY <1>2 DEF SyncSnap, SyncNoHead, SyncHead, SyncSave, SyncMoveRead, taskVars, goVars, history, bounds
  <2>2. PICK x : sy' = [sy EXCEPT ![s] = x] /\ x.at # "append" /\ x.base \in {sy[s].base, <<>>}
    <3> DEFINE h == [ver |-> forge.ver, sha |-> forge.sha, merge |-> forge.merge]
               a == [sy[s] EXCEPT !.at = "snapped", !.cur = current, !.label = label]
               b == [sy[s] EXCEPT !.at = "fetch", !.head = h]
               c == [NoSync EXCEPT !.at = "move", !.label = sy[s].label]
               d == [sy[s] EXCEPT !.at = "swap", !.from = label, !.cur = current]
    <3>1. sy' = [sy EXCEPT ![s] = a] \/ sy' = [sy EXCEPT ![s] = NoSync] \/ sy' = [sy EXCEPT ![s] = b]
          \/ sy' = [sy EXCEPT ![s] = c] \/ sy' = [sy EXCEPT ![s] = d]
      BY <1>2 DEF SyncSnap, SyncNoHead, SyncHead, SyncSave, SyncMoveRead, Typed, SyncsKnow
    <3>2. a.at = "snapped" /\ b.at = "fetch" /\ c.at = "move" /\ d.at = "swap" /\ NoSync.at = "idle"
      BY DEF NoSync, Typed, SyncsKnow
    <3>3. a.base = sy[s].base /\ b.base = sy[s].base /\ c.base = <<>> /\ d.base = sy[s].base
          /\ NoSync.base = <<>>
      BY DEF NoSync, Typed, SyncsKnow
    <3> HIDE DEF a, b, c, d
    <3> QED BY <3>1, <3>2, <3>3
  <2>3. \A t \in Syncs : AppendSame(t) /\ ToSet(sy'[t].base) \subseteq Texts
    BY <1>1, <2>1, <2>2
  <2>4. Stale' \subseteq Stale
    BY <2>1 DEF Stale, On, InFlight
  <2> QED BY <2>1, <2>3, <2>4, HandedQuiet
<1>3. CASE SyncMove(s)
  <2>1. PICK c \in Runs : c = sy[s].cur
    BY <1>3 DEF SyncMove, Typed, SyncsKnow, Used
  <2>2. /\ UNCHANGED <<fb, st, mem, phase, req, acts, told, addressed, unsaved>> /\ sy[s].at = "swap"
        /\ sy' = [sy EXCEPT ![s] = NoSync] /\ NoSync.at = "idle" /\ NoSync.base = <<>>
        /\ PutBack(c) \/ UNCHANGED <<current, again>>
    BY <1>3, <2>1 DEF SyncMove, MoveTask, taskVars, goVars, bounds, NoSync
  <2>3. \A t \in Syncs : AppendSame(t) /\ ToSet(sy'[t].base) \subseteq Texts
    BY <1>1, <2>2
  <2>4. InFlight' = InFlight /\ On(c) \subseteq Texts
    BY <2>2, HeldTexts DEF InFlight
  <2>5. /\ Stale' \subseteq Stale \cup again' /\ again \subseteq again' /\ again' \subseteq again \cup Texts
    <3>1. CASE PutBack(c)
      <4>1. again' \subseteq again \cup Texts
        BY <2>4, <3>1 DEF PutBack
      <4> QED BY <2>2, <2>4, <3>1, <4>1, StalePutBack
    <3>2. CASE UNCHANGED <<current, again>>
      BY <2>2, <2>4, <3>2, StaleQuiet
    <3> QED BY <2>2, <3>1, <3>2
  <2> QED BY <2>2, <2>3, <2>5, HandedQuiet
<1> QED BY <1>2, <1>3, HandedFetch, HandedAppend DEF SyncGoesOn

\* What a run had addressed and not yet dropped may be handed out again.
LEMMA HandedCrash ==
    ASSUME Typed, Handed, Crash
    PROVE  Handed'
<1>0. Known /\ FreshParts /\ Singles /\ NewNotes /\ NewFindings /\ Owned /\ NotAgain
  BY DEF Handed
<1>1. PICK A : A = UNION {ToSet(mem[r].inh) : r \in {q \in Runs : phase[q] \in {"consuming", "dropping"}}}
  OBVIOUS
<1>2. /\ UNCHANGED <<current, fb, addressed>> /\ acts' = acts + 1
      /\ told' = told \ Appending /\ again' = again \cup A
      /\ unsaved' = unsaved \cup UNION {ToSet(sy[s].parts) : s \in Syncs}
      /\ req'.at = "idle"
      /\ \A s \in Syncs : sy'[s].at = "idle" /\ sy'[s].base = <<>>
      /\ \A s \in Starters : st'[s].at = "idle"
      /\ \A r \in Runs : mem'[r].inh = <<>>
      /\ \A r \in Runs : phase[r] \in {"moving", "swapping", "waiting", "over"} => phase'[r] \in {"waiting", "over"}
  BY <1>1 DEF Crash, Asked, NoReq, NoSync, NoSt, NoMem, Waiting
<1>3. A \subseteq Texts /\ \A r \in Runs : Covers(r) => ToSet(mem[r].inh) \subseteq A
  BY <1>1, HeldTexts DEF Covers
<1>4. Appending' = {} /\ InFlight' = {}
  BY <1>2 DEF Appending, InFlight
<1>5. Appending \subseteq unsaved'
  BY <1>2 DEF Appending
<1>6. Texts' \subseteq Texts
  <2>1. \A r \in Runs : ToSet(fb'[r]) \subseteq Texts
    <3>1. \A r \in Runs : On(r) = ToSet(fb[r])
      BY DEF On
    <3> QED BY <1>2, <3>1, HeldTexts
  <2> QED BY <1>2, <2>1, HeldTexts, SetOfEmpty, TextsGrow
<1>7. Known'
  BY <1>0, <1>2, <1>5, <1>6 DEF Known, FreshParts
<1>8. FreshParts'
  BY <1>4 DEF FreshParts
<1>9. Singles'
  <2>1. \A q : Single(q) => OnceBut(q, again')
    BY <1>2, SingleGrows
  <2>2. \A r \in Runs : OnceBut(fb'[r], again')
    BY <1>0, <1>2, <2>1 DEF Singles
  <2> QED BY <1>2, <2>2 DEF Singles, Single, OnceBut
<1>10. told' \cup again' \subseteq told \cup again
  BY <1>0, <1>2, <1>3 DEF Known
<1>11. NewNotes'
  <2>1. ASSUME NEW n \in 1..MaxActs, <<"note", n>> \in told' \cup again' PROVE n <= acts'
    <3>1. n <= acts /\ acts \in Nat /\ n \in Nat
      BY <1>0, <1>10, <2>1 DEF NewNotes, Typed, ForgeTyped
    <3> QED BY <1>2, <3>1
  <2> QED BY <1>2, <2>1 DEF NewNotes
<1>12. NewFindings'
  BY <1>0, <1>2, <1>10 DEF NewFindings
<1>13. Owned'
  BY <1>2 DEF Owned, Failing
<1>14. NotAgain'
  <2>1. Stale' \subseteq Stale
    BY <1>2, <1>4, StaleQuiet
  <2> QED BY <1>0, <1>2, <1>3, <2>1, NotAgainFrom
<1> QED BY <1>7, <1>8, <1>9, <1>11, <1>12, <1>13, <1>14 DEF Handed

LEMMA HandedStep == Typed /\ Handed /\ [Next]_vars => Handed'
<1> SUFFICES ASSUME Typed, Handed, [Next]_vars PROVE Handed'
  OBVIOUS
<1>1. ASSUME UNCHANGED <<current, fb, mem, st, phase, req, acts, sy, told, addressed, unsaved, again>>
      PROVE  Handed'
  <2>1. Stale' = Stale
    BY <1>1 DEF Stale, On, InFlight
  <2> QED BY <1>1, <2>1, HandedQuiet, HeldTexts DEF AppendSame
<1>2. CASE UNCHANGED vars
  BY <1>1, <1>2 DEF vars
<1>3. CASE Forge
  <2>1. UNCHANGED <<current, fb, mem, st, phase, req, acts, sy, told, addressed, unsaved, again>>
    BY <1>3 DEF Forge, Review, Comment, Push, Check, Base, Post, taskVars, syncVars, goVars, history
  <2> QED BY <1>1, <2>1
<1> QED BY <1>2, <1>3, HandedElsewhere, HandedSync, HandedCrash DEF Next, Elsewhere

-----------------------------------------------------------------------------
(* The theorems.                                                           *)

IInv == Typed /\ Behind /\ CaughtUp /\ Once /\ Kept /\ Handed

LEMMA InitInv == Init => IInv
<1> SUFFICES ASSUME Init PROVE IInv
  OBVIOUS
<1>1. Typed
  BY TypedInit
<1>2. /\ told = {} /\ addressed = {} /\ waived = {} /\ again = {} /\ unsaved = {}
      /\ cursor.sha = 0 /\ cursor.review = 0 /\ cursor.ver = 0
      /\ forge.ver = 1 /\ forge.sha = 1 /\ forge.reviews = 1
      /\ fb = [r \in Runs |-> <<>>]
      /\ \A r \in Runs : phase[r] \in {"none", "over"} /\ mem[r].inh = <<>>
      /\ \A s \in Starters : st[s].at = "idle"
      /\ \A s \in Syncs : sy[s].at = "idle" /\ sy[s].base = <<>>
  BY DEF Init, NoMem, NoSt, NoSync
<1>3. Behind /\ CaughtUp
  BY <1>2, MarksAreNumbers, ConstantFacts, <1>1 DEF Behind, CursorBehind, PassBehind, Telling, ToldUpTo, CaughtUp
<1>4. Once
  BY <1>2 DEF Once
<1>5. Kept
  BY <1>2 DEF Kept, KeptUntilAddressed, KeptByStart, KeptBySync
<1>6. Handed
  <2>1. \A r \in Runs : On(r) = {}
    BY <1>2, SetOfEmpty DEF On
  <2>2. Texts = {} /\ Appending = {}
    BY <1>2, <2>1, SetOfEmpty DEF Texts, OnRows, InHand, InFlight, InBases, Appending
  <2>3. Singles
    BY <1>2 DEF Singles, Single, OnceBut
  <2> QED BY <1>2, <2>2, <2>3 DEF Handed, Known, FreshParts, NewNotes, NewFindings, Owned, Failing,
                               NotAgain, Stale
<1> QED BY <1>1, <1>3, <1>4, <1>5, <1>6 DEF IInv

LEMMA StepInv == IInv /\ [Next]_vars => IInv'
<1> SUFFICES ASSUME IInv, [Next]_vars PROVE IInv'
  OBVIOUS
<1>1. Typed /\ Behind /\ CaughtUp /\ Once /\ Kept /\ Handed
  BY DEF IInv
<1>2. Typed'
  BY <1>1, TypedStep
<1>3. Behind' /\ CaughtUp'
  BY <1>1, BehindStep
<1>4. Once'
  BY <1>1, OnceStep
<1>5. Kept'
  BY <1>1, KeptStep DEF Handed
<1>6. Handed'
  BY <1>1, HandedStep
<1> QED BY <1>2, <1>3, <1>4, <1>5, <1>6 DEF IInv

THEOREM Inductive == Spec => []IInv
<1>1. Init => IInv
  BY InitInv
<1>2. IInv /\ [Next]_vars => IInv'
  BY StepInv
<1> QED BY <1>1, <1>2, PTL DEF Spec

\* Rows hold paragraphs that exist, the current run is one that was made, what a
\* run addressed was told, and one sync at a time has the lock (dispatcher.go,
\* ghsync's syncMu).
THEOREM TypeCorrect == Spec => []TypeOK
<1>1. ASSUME IInv PROVE TypeOK
  <2>1. /\ TaskTyped /\ RowsTyped /\ HistoryTyped /\ ForgeTyped /\ SyncsKnow /\ Handed
    BY <1>1 DEF IInv, Typed
  <2>2. addressed \subseteq told \cup unsaved
    BY <2>1 DEF Handed, Known, Texts
  <2> QED BY <2>1, <2>2 DEF TypeOK, TaskTyped, RowsTyped, HistoryTyped, ForgeTyped, Marks, SyncsKnow, Used
<1> QED BY <1>1, Inductive, PTL

\* Whoever reads, appends, replaces or copies the column in between: what was put
\* to the task is in the row the next run copies, unless a run has addressed it
\* or another write displaced it.
THEOREM NothingDropped == Spec => []KeptUntilAddressed
<1>1. IInv => KeptUntilAddressed
  BY DEF IInv, Kept
<1> QED BY <1>1, Inductive, PTL

\* Whichever fetch fails: a pull request that the sync takes for unchanged has no
\* review or inline comment that it has not passed on.
THEOREM NothingBurnt == Spec => []CaughtUp
<1>1. IInv => CaughtUp
  BY DEF IInv
<1> QED BY <1>1, Inductive, PTL

\* The watermarks of the cursor keep a review, and the failed checks of a commit,
\* from being told a second time, unless the cursor could not be saved.
THEOREM ToldOnce == Spec => OnceEach
<1>1. ASSUME IInv, NEW s \in Syncs, SyncFetchSome(s), NEW i \in ToSet(sy'[s].parts) \cap told
      PROVE  i[1] = "conflict" \/ i \in unsaved
  <2>1. Typed /\ Behind /\ Once /\ sy[s].at = "fetch"
    BY <1>1 DEF IInv, SyncFetchSome
  <2>2. PICK tried, next, parts, talk : tried \in Tried(s) /\ \E got \in SUBSET tried :
              Fetched(s, tried, got, next, parts, talk) /\ sy'[s].parts = parts
    BY <1>1, <2>1, FetchShape
  <2>3. PICK got \in SUBSET tried : Fetched(s, tried, got, next, parts, talk)
    BY <2>2
  <2>4. parts \in Seq(Posts) /\ ToSet(parts) = Found(s, got)
    BY <2>3 DEF Fetched
  <2>5. i \in Posts /\ i \in Found(s, got)
    BY <1>1, <2>2, <2>4, SetOfSeq
  <2> QED BY <1>1, <2>1, <2>5, OnceFetch
<1>2. IInv => [\A s \in Syncs : SyncFetchSome(s) =>
                 \A i \in ToSet(sy'[s].parts) \cap told : i[1] = "conflict" \/ i \in unsaved]_vars
  BY <1>1
<1> QED BY <1>2, Inductive, PTL DEF OnceEach

\* A start copies what a run has addressed only while that run still drops it, or
\* when somebody has written the row or put an older one back meanwhile.
THEOREM NotHandedTwice == Spec => NoReplay
<1>1. IInv => [SweepRead \/ ReplyRead =>
                 \A i \in (On(current) \cap addressed) \ again :
                    \E r \in Runs : phase[r] \in {"consuming", "dropping"}
                                    /\ i \in ToSet(mem[r].inh)]_vars
  BY DEF IInv, Handed, NotAgain, Stale, Covered
<1> QED BY <1>1, Inductive, PTL DEF NoReplay

=============================================================================
