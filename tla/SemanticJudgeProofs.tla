------------------------- MODULE SemanticJudgeProofs -------------------------
(***************************************************************************)
(* Proofs about SemanticJudge for every number of collectors, rules, lines *)
(* and faults: types; that no cursor passes a line without its verdict and *)
(* its alarms when one process stores the lines; and that a judge alone    *)
(* with its rules neither goes back nor asks twice.                        *)
(***************************************************************************)
EXTENDS SemanticJudge, SetLemmas, SequenceTheorems

-----------------------------------------------------------------------------
(* Hypotheses of the theorems.                                             *)

\* One process stores lines, so that ids commit in the order they were given.
OneWriter == \A a, b \in Writers : a = b

\* One process judges.
OneJudge == \A a, b \in Collectors : a = b

\* The old version traced each window when its cursor, which never went back,
\* had moved past it.
Chronological ==
  \A h \in Histories : \A m \in DOMAIN h :
    /\ h[m].from < h[m].to
    /\ \A n \in DOMAIN h : m < n => h[m].to <= h[n].from

-----------------------------------------------------------------------------
(* The invariant of every judge.                                           *)

Settled(i) == line[i] \in {"committed", "lost"}

\* Ids commit or get lost in their order.
Sequential ==
  \A i, j \in Lines : i < j =>
    /\ Settled(j) => Settled(i)
    /\ line[j] # "none" => line[i] # "none"

\* A line is done with when it is judged and its alarms are out.
Done(k, i) ==
  /\ i \in judged[k]
  /\ i \in Alarming => \A t \in Targets : i \in alerted[k][t]

\* A cursor leaves nothing behind; a line that is not committed will not be.
Passed(k, cursor) ==
  \A i \in Owed(k) : i <= cursor => Done(k, i) \/ line[i] = "lost"

Stands(k) == rule[k].state # "deleted" => stored[k] # None

\* x is the checkpoint of a rule, or the cursor of a judge.
IsCursor(k, x) == stored[k] = x \/ \E c \in Collectors : seen[c][k] = x

Unjudged(c, k) == tick[c].pc = "insert" /\ tick[c].rule = k
Judging(c, k) == tick[c].pc \in {"judging", "dispatch", "checkpoint"} /\ tick[c].rule = k
Judged(c, k) == tick[c].pc \in {"dispatch", "checkpoint"} /\ tick[c].rule = k

\* A baseline is chosen from the rule's traces, which do not change.
Chosen(c, k) ==
  Unjudged(c, k) =>
    /\ tick[c].new = (rule[k].traces = <<>>)
    /\ ~tick[c].new => tick[c].start = ResumeAt(rule[k].traces)

\* Up to its last line, a window in hand holds all that is not done with.
Holds(c, k) ==
  Judging(c, k) =>
    /\ Stands(k)
    /\ tick[c].rows # {}
    /\ \A r \in tick[c].rows, i \in Owed(k) :
         i <= r => i \in tick[c].rows \/ Done(k, i) \/ line[i] = "lost"

\* What the steps behind a verdict have left to do.
Handled(c, k) ==
  Judged(c, k) =>
    /\ tick[c].rows \subseteq judged[k]
    /\ \A t \in Targets \ tick[c].targets :
         tick[c].rows \cap Alarming \subseteq alerted[k][t]
    /\ tick[c].pc = "checkpoint" => tick[c].targets = {}

Typed ==
  /\ JudgeTypeOK
  /\ \A c \in Collectors : tick[c].pc \notin {"idle", "next"} => tick[c].rule \in Rules

Judges ==
  /\ Typed
  /\ Sequential
  /\ \A k \in Rules, x \in Cursors : IsCursor(k, x) => Passed(k, x)
  /\ \A c \in Collectors, k \in Rules :
       /\ seen[c][k] # None => Stands(k)
       /\ Chosen(c, k) /\ Holds(c, k) /\ Handled(c, k)

-----------------------------------------------------------------------------
(* The invariant of a judge alone.                                         *)

\* The checkpoint is at the cursor, or in the next window when a checkpoint
\* was written and its answer lost.
Ahead(c, k) ==
  \A x, last \in Cursors :
    seen[c][k] = x /\ stored[k] = last => last <= x \/ last \in Window(k, x)

\* The window in hand follows the cursor and reaches up to the checkpoint.
Follows(c, k) ==
  /\ Unjudged(c, k) => seen[c][k] = None
  /\ Judging(c, k) =>
       \E x \in Cursors :
         /\ seen[c][k] = x /\ tick[c].rows \subseteq Window(k, x)
         /\ stored[k] # None => \E r \in tick[c].rows : stored[k] <= r

\* As long as nothing has failed, the judged lines of a rule that will be
\* evaluated again are behind its cursor or in the window in hand.
Once(c, k) ==
  faults = 0 /\ (rule[k].state # "deleted" \/ k \in tick[c].todo) =>
    \A i \in judged[k] :
      \/ seen[c][k] # None /\ i <= seen[c][k]
      \/ Judged(c, k) /\ i \in tick[c].rows

Fresh(c, k) ==
  faults = 0 /\ Judging(c, k) /\ ~Judged(c, k) => tick[c].rows \cap judged[k] = {}

Alone ==
  /\ Judges
  /\ \A c \in Collectors, k \in Rules :
       Follows(c, k) /\ Ahead(c, k) /\ Fresh(c, k) /\ Once(c, k)

-----------------------------------------------------------------------------
(* The helpers.                                                            *)

LEMMA LinesTop ==
  ASSUME NEW S \in SUBSET Lines
  PROVE  /\ Top(S) \in Cursors
         /\ S = {} => Top(S) = 0
         /\ S # {} => Top(S) \in S /\ \A y \in S : y <= Top(S)
<1>1. MaxLines \in Nat
  BY JudgeBounds
<1>2. CASE S = {}
  BY <1>1, <1>2 DEF Top, Cursors
<1>3. CASE S # {}
  <2>1. \E x \in S : \A y \in S : y <= x
    BY <1>1, <1>3, GreatestElement DEF Lines
  <2>2. Top(S) \in S /\ \A y \in S : y <= Top(S)
    BY <1>3, <2>1 DEF Top
  <2>3. Lines \subseteq Cursors
    BY <1>1 DEF Lines, Cursors
  <2> QED
    BY <1>3, <2>2, <2>3
<1> QED
  BY <1>2, <1>3

LEMMA LinesBottom ==
  ASSUME NEW S \in SUBSET Cursors, S # {}
  PROVE  Bottom(S) \in S /\ \A y \in S : Bottom(S) <= y
<1>1. MaxLines \in Nat
  BY JudgeBounds
<1>2. \E x \in S : \A y \in S : x <= y
  <2>1. CASE 0 \in S
    BY <1>1, <2>1 DEF Cursors
  <2>2. CASE 0 \notin S
    <3>1. S \in SUBSET (1 .. MaxLines)
      BY <1>1, <2>2 DEF Cursors
    <3> QED
      BY <1>1, <3>1, LeastElement
  <2> QED
    BY <2>1, <2>2
<1> QED
  BY <1>2 DEF Bottom

LEMMA TraceTypes ==
  ASSUME NEW h \in Histories
  PROVE  /\ h \in Seq(Trace) /\ Len(h) \in Nat /\ DOMAIN h = 1 .. Len(h)
         /\ \A n \in DOMAIN h : h[n].ok \in BOOLEAN /\ h[n].from \in Cursors /\ h[n].to \in Lines
<1>1. h \in Seq(Trace)
  BY JudgeNames
<1>2. \A n \in DOMAIN h : h[n] \in Trace
  BY <1>1
<1> QED
  BY <1>1, <1>2 DEF Trace

\* The cursor that _bootstrap_checkpoint resumes at.
LEMMA Resumes ==
  ASSUME NEW h \in Histories, h # <<>>
  PROVE  /\ ResumeAt(h) \in Cursors
         /\ \/ \E g \in DOMAIN h : /\ h[g].ok /\ ResumeAt(h) = h[g].to
                                   /\ \A n \in DOMAIN h : h[n].ok => n <= g
            \/ \A n \in DOMAIN h : ~h[n].ok /\ ResumeAt(h) <= h[n].from
<1> DEFINE good == {n \in DOMAIN h : h[n].ok}
           froms == {h[n].from : n \in DOMAIN h}
<1>1. /\ Len(h) \in Nat /\ DOMAIN h = 1 .. Len(h)
      /\ \A n \in DOMAIN h : h[n].ok \in BOOLEAN /\ h[n].from \in Cursors /\ h[n].to \in Lines
  BY TraceTypes
<1>2. ResumeAt(h) = IF good # {} THEN h[Top(good)].to ELSE Bottom(froms)
  BY DEF ResumeAt
<1>3. CASE good # {}
  <2>1. \E x \in good : \A y \in good : y <= x
    BY <1>1, <1>3, GreatestElement
  <2>2. Top(good) \in good /\ \A y \in good : y <= Top(good)
    BY <1>3, <2>1 DEF Top
  <2>3. Lines \subseteq Cursors
    BY JudgeBounds DEF Lines, Cursors
  <2> QED
    BY <1>1, <1>2, <1>3, <2>2, <2>3
<1>4. CASE good = {}
  <2>1. 1 \in DOMAIN h
    BY <1>1, TraceTypes
  <2>2. froms \in SUBSET Cursors /\ froms # {}
    BY <1>1, <2>1
  <2>3. Bottom(froms) \in froms /\ \A y \in froms : Bottom(froms) <= y
    BY <2>2, LinesBottom
  <2> QED
    BY <1>1, <1>2, <1>4, <2>2, <2>3
<1> QED
  BY <1>3, <1>4

LEMMA OwedLines ==
  ASSUME NEW k \in Rules
  PROVE  Owed(k) \subseteq Scope[k] /\ Scope[k] \subseteq Lines
BY JudgeNames DEF Owed

LEMMA WindowLines ==
  ASSUME NEW k \in Rules, NEW x \in Cursors
  PROVE  /\ After(k, x) \in SUBSET Lines
         /\ Window(k, x) \subseteq After(k, x)
         /\ After(k, x) # {} => Window(k, x) # {}
<1>1. After(k, x) \in SUBSET Lines /\ Window(k, x) \subseteq After(k, x)
  BY DEF After, Committed, Window
<1>2. ASSUME After(k, x) # {}
      PROVE  Window(k, x) # {}
  <2>1. PICK i \in After(k, x) : \A j \in After(k, x) : i <= j
    BY <1>1, <1>2, JudgeBounds, LeastElement DEF Lines
  <2>2. {j \in After(k, x) : j < i} = {}
    BY <1>1, <2>1, JudgeBounds DEF Lines
  <2>3. Cardinality({j \in After(k, x) : j < i}) < Limit
    BY <2>2, FS_EmptySet, JudgeBounds
  <2> QED
    BY <2>1, <2>3 DEF Window
<1> QED
  BY <1>1, <1>2

\* A window has no gap: it holds every line of its scope up to its last one.
LEMMA WindowPrefix ==
  ASSUME NEW k \in Rules, NEW x \in Cursors, NEW r \in Window(k, x),
         NEW i \in After(k, x), i <= r
  PROVE  i \in Window(k, x)
<1> DEFINE S == After(k, x)
           L(m) == {j \in S : j < m}
<1>1. S \in SUBSET (1 .. MaxLines) /\ MaxLines \in Nat /\ r \in S
  BY WindowLines, JudgeBounds DEF Lines
<1>2. L(i) \subseteq L(r)
  BY <1>1
<1>3. IsFiniteSet(L(r)) /\ Cardinality(L(r)) \in Nat
  <2>1. L(r) \in SUBSET (1 .. MaxLines)
    BY <1>1
  <2> QED
    BY <1>1, <2>1, FiniteNumbers
<1>4. /\ Cardinality(L(i)) <= Cardinality(L(r))
      /\ Cardinality(L(i)) \in Nat
  BY <1>2, <1>3, FS_Subset, FS_CardinalityType
<1>5. Cardinality(L(r)) < Limit
  BY DEF Window
<1>6. Cardinality(L(i)) < Limit
  BY <1>3, <1>4, <1>5, JudgeBounds
<1> QED
  BY <1>6 DEF Window

-----------------------------------------------------------------------------
(* Types.                                                                  *)

LEMMA TypedInit ==
  ASSUME Init
  PROVE  Typed
<1>1. MaxLines \in Nat /\ MaxPerMin \in Nat /\ MaxEdits \in Nat /\ MaxFaults \in Nat
  BY JudgeBounds
<1>2. IdleTick \in Tick
  BY <1>1 DEF IdleTick, Tick, Cursors
<1>3. rule \in [Rules -> [state : {"enabled", "disabled", "deleted"}, traces : Histories]]
  BY DEF Init
<1>4. base \in [Rules -> Cursors] /\ calls \in [Collectors -> 0 .. MaxPerMin]
  BY <1>1 DEF Init, Cursors
<1>5. edits \in 0 .. MaxEdits /\ faults \in 0 .. MaxFaults
  BY <1>1 DEF Init
<1> QED
  BY <1>2, <1>3, <1>4, <1>5 DEF Init, IdleTick, Typed, JudgeTypeOK

LEMMA TypedFlusher ==
  ASSUME Typed, NEW c \in Writers, Flusher(c)
  PROVE  Typed'
<1>1. CASE Insert(c)
  <2> DEFINE free == {i \in Lines : line[i] = "none"}
  <2>1. free \in SUBSET Cursors /\ free # {}
    BY <1>1, JudgeBounds DEF Insert, Lines, Cursors
  <2>2. Bottom(free) \in Lines
    BY <2>1, LinesBottom
  <2> QED
    BY <1>1, <2>2 DEF Insert, Typed, JudgeTypeOK, cursors, history
<1>2. CASE Commit(c)
  BY <1>2 DEF Commit, Typed, JudgeTypeOK, cursors, history
<1>3. CASE FlushFailed(c)
  <2>1. faults' \in 0 .. MaxFaults
    BY <1>3, JudgeBounds DEF FlushFailed, Typed, JudgeTypeOK
  <2> QED
    BY <1>3, <2>1 DEF FlushFailed, RolledBack, Typed, JudgeTypeOK, cursors, history
<1> QED
  BY <1>1, <1>2, <1>3 DEF Flusher

LEMMA TypedCursorSteps ==
  ASSUME Typed, NEW c \in Collectors, NEW k \in Rules,
         LoadCursor(c, k) \/ ChooseBaseline(c, k) \/ InsertBaseline(c)
  PROVE  Typed'
<1>t. tick \in [Collectors -> Tick] /\ tick[c] \in Tick /\ 0 \in Cursors
  BY JudgeBounds DEF Typed, JudgeTypeOK, Cursors
<1>1. CASE LoadCursor(c, k)
  <2>1. seen' \in [Collectors -> [Rules -> Cursors \cup {None}]]
    BY <1>1 DEF LoadCursor, Typed, JudgeTypeOK
  <2>2. rest' \in [Collectors -> [Rules -> {"short", "floor", "window"}]]
    BY <1>1 DEF LoadCursor, Typed, JudgeTypeOK
  <2> QED
    BY <1>1, <2>1, <2>2 DEF LoadCursor, Typed, JudgeTypeOK, history
<1>2. CASE ChooseBaseline(c, k)
  <2> DEFINE new == rule[k].traces = <<>>
             start == IF new THEN Top(After(k, 0)) ELSE ResumeAt(rule[k].traces)
             t == [tick[c] EXCEPT !.pc = "insert", !.todo = @ \ {k}, !.rule = k,
                                  !.start = start, !.new = new]
  <2>1. rule[k].traces \in Histories /\ After(k, 0) \in SUBSET Lines
    BY DEF Typed, JudgeTypeOK, After, Committed
  <2>2. start \in Cursors /\ new \in BOOLEAN
    BY <2>1, LinesTop, Resumes
  <2>3. tick' = [tick EXCEPT ![c].pc = "insert", ![c].todo = @ \ {k},
                             ![c].rule = k, ![c].start = start, ![c].new = new]
    BY <1>2 DEF ChooseBaseline
  <2> HIDE DEF start, new
  <2>4. t \in Tick /\ t.rule = k
    BY <1>t, <2>2 DEF Tick
  <2>5. tick' = [tick EXCEPT ![c] = t]
    BY <1>t, <2>3
  <2> HIDE DEF t
  <2>6. tick' \in [Collectors -> Tick] /\ tick'[c] = t /\ \A d \in Collectors \ {c} : tick'[d] = tick[d]
    BY <1>t, <2>4, <2>5
  <2> QED
    BY <1>2, <2>4, <2>6 DEF ChooseBaseline, Typed, JudgeTypeOK, cursors, history
<1>3. CASE InsertBaseline(c)
  <2> DEFINE j == tick[c].rule
             won == stored[j] = None
             t == IF won /\ tick[c].new THEN BackToLoop(tick[c])
                  ELSE [BackToLoop(tick[c]) EXCEPT !.todo = @ \cup {j}]
  <2>1. tick[c].start \in Cursors /\ j \in Rules
    BY <1>t, <1>3 DEF InsertBaseline, Typed, Tick
  <2>2. stored' \in [Rules -> Cursors \cup {None}]
    BY <1>3, <2>1 DEF InsertBaseline, Typed, JudgeTypeOK
  <2>3. seen' \in [Collectors -> [Rules -> Cursors \cup {None}]]
    <3>1. Established(c, j) \in Cursors \cup {None}
      BY <2>1 DEF Established, Typed, JudgeTypeOK
    <3>2. seen' = [seen EXCEPT ![c][j] = Established(c, j)]
      BY <1>3 DEF InsertBaseline
    <3> HIDE DEF j
    <3> QED
      BY <2>1, <3>1, <3>2 DEF Typed, JudgeTypeOK
  <2>4. base' \in [Rules -> Cursors]
    BY <1>3, <2>1 DEF InsertBaseline, Typed, JudgeTypeOK
  <2>5. rest' \in [Collectors -> [Rules -> {"short", "floor", "window"}]]
    <3>1. PICK age \in {"short", "floor", "window"} : rest' = [rest EXCEPT ![c][j] = age]
      BY <1>3 DEF InsertBaseline
    <3> HIDE DEF j
    <3> QED
      BY <2>1, <3>1 DEF Typed, JudgeTypeOK
  <2>6. t \in Tick /\ t.pc = "next"
    BY <1>t, <2>1 DEF BackToLoop, Tick
  <2>7. tick' = [tick EXCEPT ![c] = t]
    BY <1>3 DEF InsertBaseline
  <2> HIDE DEF t
  <2>8. tick' \in [Collectors -> Tick] /\ tick'[c] = t /\ \A d \in Collectors \ {c} : tick'[d] = tick[d]
    BY <1>t, <2>6, <2>7
  <2> QED
    BY <1>3, <2>2, <2>3, <2>4, <2>5, <2>6, <2>8 DEF InsertBaseline, Typed, JudgeTypeOK, history
<1> QED
  BY <1>1, <1>2, <1>3

LEMMA TickMoved ==
  ASSUME Typed, NEW c \in Collectors, NEW t \in Tick,
         t.pc \notin {"idle", "next"} => t.rule \in Rules,
         tick' = [tick EXCEPT ![c] = t]
  PROVE  /\ tick' \in [Collectors -> Tick]
         /\ \A d \in Collectors :
              tick'[d].pc \notin {"idle", "next"} => tick'[d].rule \in Rules
         /\ tick'[c] = t /\ \A d \in Collectors \ {c} : tick'[d] = tick[d]
BY DEF Typed, JudgeTypeOK

LEMMA TickTypes ==
  ASSUME Typed, NEW c \in Collectors
  PROVE  /\ tick[c] \in Tick /\ IdleTick \in Tick /\ BackToLoop(tick[c]) \in Tick
         /\ IdleTick.pc = "idle" /\ BackToLoop(tick[c]).pc = "next"
<1>1. 0 \in Cursors /\ tick[c] \in Tick
  BY JudgeBounds DEF Typed, JudgeTypeOK, Cursors
<1>2. IdleTick \in Tick /\ IdleTick.pc = "idle"
  BY <1>1 DEF IdleTick, Tick
<1>3. BackToLoop(tick[c]) \in Tick /\ BackToLoop(tick[c]).pc = "next"
  BY <1>1 DEF BackToLoop, Tick
<1> QED
  BY <1>1, <1>2, <1>3

\* What each step of a tick puts in the place of the collector's _eval.
Skipped(c, k) == [tick[c] EXCEPT !.todo = @ \ {k}]
Asked(c, k) ==
  [tick[c] EXCEPT !.pc = "judging", !.todo = @ \ {k}, !.rule = k, !.rows = Window(k, seen[c][k])]
Answered(c, fired) ==
  [tick[c] EXCEPT !.pc = IF fired THEN "dispatch" ELSE "checkpoint",
                  !.targets = IF fired THEN Targets ELSE {}]
Dispatched(c, t) ==
  [tick[c] EXCEPT !.targets = @ \ {t},
                  !.pc = IF tick[c].targets = {t} THEN "checkpoint" ELSE @]

LEMMA TypedTickSteps ==
  ASSUME Typed, NEW c \in Collectors, NEW k,
         \/ BeginTick(c) \/ EndTick(c) \/ JudgeFailed(c) \/ TickFailed(c)
         \/ k \in Rules /\ (Skip(c, k) \/ Break(c, k) \/ Ask(c, k))
  PROVE  Typed'
<1>t. /\ tick[c] \in Tick /\ IdleTick \in Tick /\ BackToLoop(tick[c]) \in Tick
      /\ IdleTick.pc = "idle" /\ BackToLoop(tick[c]).pc = "next"
  BY TickTypes
<1>f. faults' = faults + 1 /\ faults < MaxFaults => faults' \in 0 .. MaxFaults
  BY JudgeBounds DEF Typed, JudgeTypeOK
<1>1. CASE BeginTick(c)
  <2> DEFINE t == [tick[c] EXCEPT !.pc = "next", !.todo = {j \in Rules : rule[j].state = "enabled"}]
  <2>1. t \in Tick /\ t.pc = "next" /\ tick' = [tick EXCEPT ![c] = t]
    BY <1>t, <1>1 DEF BeginTick, Typed, JudgeTypeOK, Tick
  <2> HIDE DEF t
  <2> QED
    BY <1>1, <2>1, TickMoved DEF BeginTick, Typed, JudgeTypeOK, cursors, history
<1>2. CASE EndTick(c) \/ Break(c, k)
  BY <1>t, <1>2, TickMoved DEF EndTick, Break, Typed, JudgeTypeOK, cursors, history
<1>3. CASE k \in Rules /\ Skip(c, k)
  <2>1. /\ Skipped(c, k) \in Tick /\ Skipped(c, k).pc = tick[c].pc /\ tick[c].pc = "next"
        /\ tick' = [tick EXCEPT ![c] = Skipped(c, k)]
    BY <1>t, <1>3 DEF Skip, Known, InHand, Skipped, Tick, Typed, JudgeTypeOK
  <2> QED
    BY <1>3, <2>1, TickMoved DEF Skip, Typed, JudgeTypeOK, cursors, history
<1>4. CASE k \in Rules /\ Ask(c, k)
  <2>1. seen[c][k] \in Cursors
    BY <1>4 DEF Ask, Known, Typed, JudgeTypeOK
  <2>2. Window(k, seen[c][k]) \in SUBSET Lines
    BY <1>4, <2>1, WindowLines
  <2>3. Asked(c, k) \in Tick /\ Asked(c, k).rule = k
    BY <1>t, <1>4, <2>2 DEF Asked, Tick
  <2>4. tick' = [tick EXCEPT ![c] = Asked(c, k)]
    BY <1>t, <1>4 DEF Ask, Asked, Typed, JudgeTypeOK
  <2>5. calls' \in [Collectors -> 0 .. MaxPerMin]
    BY <1>4, JudgeBounds DEF Ask, Typed, JudgeTypeOK
  <2> QED
    BY <1>4, <2>3, <2>4, <2>5, TickMoved DEF Ask, Typed, JudgeTypeOK, cursors, history
<1>5. CASE JudgeFailed(c)
  <2>1. wait' \in [Collectors -> [Rules -> BOOLEAN]]
    BY <1>5 DEF JudgeFailed, Typed, JudgeTypeOK
  <2>2. tick' = [tick EXCEPT ![c] = BackToLoop(tick[c])]
    BY <1>5 DEF JudgeFailed
  <2> QED
    BY <1>t, <1>f, <1>5, <2>1, <2>2, TickMoved DEF JudgeFailed, Typed, JudgeTypeOK, history
<1>6. CASE TickFailed(c)
  <2>1. faults' \in 0 .. MaxFaults
    BY <1>f, <1>6 DEF TickFailed, Typed, JudgeTypeOK
  <2> QED
    BY <1>t, <1>6, <2>1, TickMoved DEF TickFailed, Typed, JudgeTypeOK, cursors, history
<1> QED
  BY <1>1, <1>2, <1>3, <1>4, <1>5, <1>6

LEMMA TypedVerdictSteps ==
  ASSUME Typed, NEW c \in Collectors,
         Verdict(c) \/ Dispatch(c) \/ Checkpoint(c) \/ CheckpointUnanswered(c)
  PROVE  Typed'
<1> DEFINE k == tick[c].rule
<1>t. /\ tick[c] \in Tick /\ IdleTick \in Tick /\ BackToLoop(tick[c]) \in Tick
      /\ IdleTick.pc = "idle" /\ BackToLoop(tick[c]).pc = "next"
  BY TickTypes
<1>k. k \in Rules /\ tick[c].rows \in SUBSET Lines
  BY <1>t DEF Verdict, Dispatch, Checkpoint, CheckpointUnanswered, Typed, Tick
<1>a. Acknowledged(c) \in Cursors
  BY <1>k, LinesTop DEF Acknowledged
<1>1. CASE Verdict(c)
  <2>1. wait' \in [Collectors -> [Rules -> BOOLEAN]]
    BY <1>1 DEF Verdict, Typed, JudgeTypeOK
  <2>2. judged' \in [Rules -> SUBSET Lines]
    BY <1>1, <1>k DEF Verdict, Typed, JudgeTypeOK
  <2>3. PICK fired \in BOOLEAN : tick' = [tick EXCEPT ![c] = Answered(c, fired)]
    BY <1>t, <1>1 DEF Verdict, Answered, Typed, JudgeTypeOK
  <2>4. Answered(c, fired) \in Tick /\ Answered(c, fired).rule = k
    BY <1>t DEF Answered, Tick
  <2> QED
    BY <1>1, <1>k, <2>1, <2>2, <2>3, <2>4, TickMoved DEF Verdict, Typed, JudgeTypeOK
<1>2. CASE Dispatch(c)
  <2>1. PICK t \in tick[c].targets :
          /\ alerted' = [alerted EXCEPT ![k][t] = @ \cup tick[c].rows]
          /\ tick' = [tick EXCEPT ![c].targets = @ \ {t},
                        ![c].pc = IF tick[c].targets = {t} THEN "checkpoint" ELSE @]
    BY <1>2 DEF Dispatch
  <2>2. t \in Targets
    BY <1>t DEF Tick
  <2>3. alerted' \in [Rules -> [Targets -> SUBSET Lines]]
    <3> HIDE DEF k
    <3> QED
      BY <1>k, <2>1, <2>2 DEF Typed, JudgeTypeOK
  <2>4. tick' = [tick EXCEPT ![c] = Dispatched(c, t)]
    BY <1>t, <2>1 DEF Dispatched, Typed, JudgeTypeOK
  <2>5. Dispatched(c, t) \in Tick /\ Dispatched(c, t).rule = k
    BY <1>t DEF Dispatched, Tick
  <2> QED
    BY <1>2, <1>k, <2>3, <2>4, <2>5, TickMoved DEF Dispatch, Typed, JudgeTypeOK, cursors
<1>3. CASE Checkpoint(c)
  <2>1. stored' \in [Rules -> Cursors \cup {None}]
    BY <1>3, <1>a, <1>k DEF Checkpoint, Typed, JudgeTypeOK
  <2>2. seen' \in [Collectors -> [Rules -> Cursors \cup {None}]]
    BY <1>3, <1>a, <1>k DEF Checkpoint, Typed, JudgeTypeOK
  <2>3. rest' \in [Collectors -> [Rules -> {"short", "floor", "window"}]]
    BY <1>3, <1>k DEF Checkpoint, Typed, JudgeTypeOK
  <2>4. tick' = [tick EXCEPT ![c] = BackToLoop(tick[c])]
    BY <1>3 DEF Checkpoint
  <2> QED
    BY <1>3, <1>t, <2>1, <2>2, <2>3, <2>4, TickMoved DEF Checkpoint, Typed, JudgeTypeOK, history
<1>4. CASE CheckpointUnanswered(c)
  <2>1. stored' \in [Rules -> Cursors \cup {None}]
    BY <1>4, <1>a, <1>k DEF CheckpointUnanswered, Typed, JudgeTypeOK
  <2>2. faults' \in 0 .. MaxFaults
    BY <1>4, JudgeBounds DEF CheckpointUnanswered, Typed, JudgeTypeOK
  <2> QED
    BY <1>4, <1>t, <2>1, <2>2, TickMoved DEF CheckpointUnanswered, Typed, JudgeTypeOK, history
<1> QED
  BY <1>1, <1>2, <1>3, <1>4

LEMMA TypedEnvironment ==
  ASSUME Typed, \/ \E c \in Collectors : Crash(c) \/ Clock(c)
                \/ \E k \in Rules, state \in {"enabled", "disabled", "deleted"} : SetRule(k, state)
  PROVE  Typed'
<1>1. ASSUME NEW c \in Collectors, Crash(c)
      PROVE  Typed'
  <2>1. faults' \in 0 .. MaxFaults /\ calls' \in [Collectors -> 0 .. MaxPerMin]
    BY <1>1, JudgeBounds DEF Crash, Typed, JudgeTypeOK
  <2>2. line' \in [Lines -> {"none", "committed", "lost"} \cup Writers]
    BY <1>1 DEF Crash, RolledBack, Typed, JudgeTypeOK
  <2>3. seen' \in [Collectors -> [Rules -> Cursors \cup {None}]]
    BY <1>1 DEF Crash, Typed, JudgeTypeOK
  <2>4. /\ rest' \in [Collectors -> [Rules -> {"short", "floor", "window"}]]
        /\ wait' \in [Collectors -> [Rules -> BOOLEAN]]
    BY <1>1 DEF Crash, Typed, JudgeTypeOK
  <2>5. IdleTick \in Tick /\ IdleTick.pc = "idle" /\ tick' = [tick EXCEPT ![c] = IdleTick]
    BY <1>1, TickTypes DEF Crash
  <2> QED
    BY <1>1, <2>1, <2>2, <2>3, <2>4, <2>5, TickMoved DEF Crash, Typed, JudgeTypeOK, history
<1>2. ASSUME NEW c \in Collectors, Clock(c)
      PROVE  Typed'
  <2>1. CASE CallExpires(c)
    <3>1. calls' \in [Collectors -> 0 .. MaxPerMin]
      BY <2>1, JudgeBounds DEF CallExpires, Typed, JudgeTypeOK
    <3> QED
      BY <2>1, <3>1 DEF CallExpires, Typed, JudgeTypeOK, cursors, history
  <2>2. ASSUME NEW k \in Rules, Rest(c, k) \/ BackoffEnds(c, k)
        PROVE  Typed'
    <3>1. Rest(c, k) => rest' \in [Collectors -> [Rules -> {"short", "floor", "window"}]]
      BY DEF Rest, Typed, JudgeTypeOK
    <3>2. BackoffEnds(c, k) => wait' \in [Collectors -> [Rules -> BOOLEAN]]
      BY DEF BackoffEnds, Typed, JudgeTypeOK
    <3> QED
      BY <2>2, <3>1, <3>2 DEF Rest, BackoffEnds, Typed, JudgeTypeOK, history
  <2> QED
    BY <1>2, <2>1, <2>2 DEF Clock
<1>3. ASSUME NEW k \in Rules, NEW state \in {"enabled", "disabled", "deleted"}, SetRule(k, state)
      PROVE  Typed'
  <2>1. edits' \in 0 .. MaxEdits
    BY <1>3, JudgeBounds DEF SetRule, Typed, JudgeTypeOK
  <2>2. rule' \in [Rules -> [state : {"enabled", "disabled", "deleted"}, traces : Histories]]
    <3> DEFINE row == [rule[k] EXCEPT !.state = state]
    <3>1. rule[k] \in [state : {"enabled", "disabled", "deleted"}, traces : Histories]
      BY DEF Typed, JudgeTypeOK
    <3>2. row \in [state : {"enabled", "disabled", "deleted"}, traces : Histories]
      BY <3>1
    <3>3. rule' = [rule EXCEPT ![k] = row]
      BY <1>3 DEF SetRule
    <3> HIDE DEF row
    <3> QED
      BY <3>2, <3>3 DEF Typed, JudgeTypeOK
  <2>3. stored' \in [Rules -> Cursors \cup {None}]
    BY <1>3 DEF SetRule, Typed, JudgeTypeOK
  <2> QED
    BY <1>3, <2>1, <2>2, <2>3 DEF SetRule, Typed, JudgeTypeOK, history
<1> QED
  BY <1>1, <1>2, <1>3

LEMMA TypedStep ==
  ASSUME Typed, [Next]_vars
  PROVE  Typed'
<1>1. CASE UNCHANGED vars
  BY <1>1 DEF vars, Typed, JudgeTypeOK
<1>2. ASSUME NEW c \in Collectors, BeginTick(c) \/ Evaluate(c) \/ Failures(c) \/ Clock(c)
      PROVE  Typed'
  <2>1. CASE InsertBaseline(c)
    <3>1. tick[c].rule \in Rules
      BY <2>1 DEF InsertBaseline, Typed
    <3> QED
      BY <2>1, <3>1, TypedCursorSteps
  <2>2. CASE BeginTick(c) \/ EndTick(c) \/ JudgeFailed(c) \/ TickFailed(c)
    BY <2>2, TypedTickSteps
  <2>3. ASSUME NEW k \in Rules,
               LoadCursor(c, k) \/ ChooseBaseline(c, k) \/ Skip(c, k) \/ Break(c, k) \/ Ask(c, k)
        PROVE  Typed'
    BY <2>3, TypedCursorSteps, TypedTickSteps
  <2>4. CASE Verdict(c) \/ Dispatch(c) \/ Checkpoint(c) \/ CheckpointUnanswered(c)
    BY <2>4, TypedVerdictSteps
  <2>5. CASE Crash(c) \/ Clock(c)
    BY <2>5, TypedEnvironment
  <2> QED
    BY <1>2, <2>1, <2>2, <2>3, <2>4, <2>5 DEF Evaluate, Failures
<1> QED
  BY <1>1, <1>2, TypedFlusher, TypedEnvironment DEF Next

-----------------------------------------------------------------------------
(* What no step takes back.                                                *)

LEMMA Names ==
  ASSUME Typed, OneWriter, NEW c \in Writers, NEW i \in Lines
  PROVE  line[i] \in {"none", "committed", "lost", c}
BY DEF Typed, JudgeTypeOK, OneWriter

\* The lines a collector that is not the writer has open: none.
LEMMA RolledBackLines ==
  ASSUME Typed, NEW c \in Collectors, line' = RolledBack(c), NEW i \in Lines
  PROVE  /\ line[i] = c => c \in Writers /\ line'[i] = "lost"
         /\ line[i] # c => line'[i] = line[i]
         /\ c \notin {"none", "committed", "lost"}
<1>1. c \notin {"none", "committed", "lost"}
  BY JudgeNames
<1> QED
  BY <1>1 DEF RolledBack, Typed, JudgeTypeOK

LEMMA InsertedLine ==
  ASSUME Typed, NEW c \in Writers, Insert(c)
  PROVE  \E j \in Lines : /\ line[j] = "none" /\ line' = [line EXCEPT ![j] = c]
                          /\ \A i \in Lines : i < j => line[i] # "none"
<1> DEFINE free == {i \in Lines : line[i] = "none"}
<1>1. free \in SUBSET Cursors /\ free # {} /\ Lines \subseteq Nat
  BY JudgeBounds DEF Insert, Lines, Cursors
<1>2. Bottom(free) \in free /\ \A i \in free : Bottom(free) <= i
  BY <1>1, LinesBottom
<1>3. line' = [line EXCEPT ![Bottom(free)] = c]
  BY DEF Insert
<1> HIDE DEF free
<1>4. PICK j \in free : j = Bottom(free) /\ \A i \in free : j <= i
  BY <1>2
<1>5. ASSUME NEW i \in Lines, i < j, line[i] = "none"
      PROVE  FALSE
  BY <1>1, <1>4, <1>5 DEF free
<1> QED
  BY <1>3, <1>4, <1>5 DEF free

LEMMA SequentialStep ==
  ASSUME Typed, OneWriter, Sequential, [Next]_vars
  PROVE  Sequential'
<1>1. ASSUME NEW c \in Writers, Insert(c)
      PROVE  Sequential'
  <2>1. PICK j \in Lines : /\ line[j] = "none" /\ line' = [line EXCEPT ![j] = c]
                           /\ \A i \in Lines : i < j => line[i] # "none"
    BY <1>1, InsertedLine
  <2>2. c \notin {"none", "committed", "lost"} /\ Lines \subseteq Nat
    BY JudgeNames, JudgeBounds DEF Lines
  <2>3. \A i \in Lines : line'[i] = IF i = j THEN c ELSE line[i]
    BY <2>1 DEF Typed, JudgeTypeOK
  <2>4. ASSUME NEW i \in Lines, NEW m \in Lines, i < m
        PROVE  /\ Settled(m)' => Settled(i)'
               /\ line'[m] # "none" => line'[i] # "none"
    <3>1. CASE m = j
      BY <2>1, <2>2, <2>3, <2>4, <3>1 DEF Settled
    <3>2. CASE m # j /\ i = j
      BY <2>1, <2>2, <2>3, <2>4, <3>2 DEF Settled, Sequential
    <3>3. CASE m # j /\ i # j
      BY <2>3, <2>4, <3>3 DEF Settled, Sequential
    <3> QED
      BY <3>1, <3>2, <3>3
  <2> QED
    BY <2>4 DEF Sequential
<1>2. ASSUME NEW c \in Writers, Commit(c)
      PROVE  Sequential'
  <2>1. \A i \in Lines : line[i] \in {"none", "committed", "lost", c}
    BY Names
  <2>2. \A i \in Lines : line'[i] = IF line[i] = c THEN "committed" ELSE line[i]
    BY <1>2 DEF Commit
  <2>3. c \notin {"none", "committed", "lost"}
    BY JudgeNames
  <2> QED
    BY <2>1, <2>2, <2>3 DEF Sequential, Settled
<1>3. ASSUME NEW c \in Collectors, line' = RolledBack(c)
      PROVE  Sequential'
  <2>1. CASE c \in Writers
    <3>1. \A i \in Lines : line[i] \in {"none", "committed", "lost", c}
      BY <2>1, Names
    <3>2. /\ \A i \in Lines : line'[i] = IF line[i] = c THEN "lost" ELSE line[i]
          /\ c \notin {"none", "committed", "lost"}
      BY <1>3, <2>1, JudgeNames DEF RolledBack
    <3> QED
      BY <3>1, <3>2 DEF Sequential, Settled
  <2>2. CASE c \notin Writers
    <3>1. \A i \in Lines : line'[i] = line[i]
      BY <1>3, <2>2, RolledBackLines
    <3> QED
      BY <3>1 DEF Sequential, Settled
  <2> QED
    BY <2>1, <2>2
<1>4. CASE UNCHANGED line
  BY <1>4 DEF Sequential, Settled
<1>5. ASSUME NEW c \in Writers, Flusher(c)
      PROVE  Sequential'
  <2>1. FlushFailed(c) => c \in Collectors /\ line' = RolledBack(c)
    BY JudgeNames DEF FlushFailed
  <2> QED
    BY <1>1, <1>2, <1>3, <1>5, <2>1 DEF Flusher
<1>6. ASSUME NEW c \in Collectors, BeginTick(c) \/ Evaluate(c) \/ Failures(c) \/ Clock(c)
      PROVE  Sequential'
  <2>1. Crash(c) => line' = RolledBack(c)
    BY DEF Crash
  <2>2. ~Crash(c) => UNCHANGED line
    BY <1>6 DEF BeginTick, Evaluate, EndTick, InsertBaseline, Verdict, Dispatch, Checkpoint,
                LoadCursor, ChooseBaseline, Skip, Break, Ask, Failures, JudgeFailed,
                CheckpointUnanswered, TickFailed, Clock, CallExpires, Rest, BackoffEnds
  <2> QED
    BY <1>3, <1>4, <2>1, <2>2
<1>7. ASSUME NEW k \in Rules, NEW state \in {"enabled", "disabled", "deleted"}, SetRule(k, state)
      PROVE  Sequential'
  BY <1>4, <1>7 DEF SetRule
<1> QED
  BY <1>4, <1>5, <1>6, <1>7 DEF Next, vars

\* The steps that change a history variable, a rule, a checkpoint or a baseline.
LEMMA OtherSteps ==
  ASSUME Typed, [Next]_vars
  PROVE  /\ \/ judged' = judged
            \/ \E c \in Collectors : Verdict(c)
         /\ \/ alerted' = alerted
            \/ \E c \in Collectors : Dispatch(c)
         /\ \/ rule' = rule
            \/ \E k \in Rules, state \in {"enabled", "disabled", "deleted"} : SetRule(k, state)
         /\ \/ base' = base
            \/ \E c \in Collectors : InsertBaseline(c)
         /\ \/ stored' = stored
            \/ \E c \in Collectors : InsertBaseline(c) \/ Checkpoint(c) \/ CheckpointUnanswered(c)
            \/ \E k \in Rules, state \in {"enabled", "disabled", "deleted"} : SetRule(k, state)
<1>1. ASSUME NEW c \in Writers, Flusher(c)
      PROVE  UNCHANGED <<judged, alerted, rule, base, stored>>
  BY <1>1 DEF Flusher, Insert, Commit, FlushFailed, cursors, history
<1>2. ASSUME NEW c \in Collectors, BeginTick(c) \/ Evaluate(c) \/ Failures(c) \/ Clock(c)
      PROVE  /\ UNCHANGED judged \/ Verdict(c)
             /\ UNCHANGED alerted \/ Dispatch(c)
             /\ UNCHANGED rule
             /\ UNCHANGED base \/ InsertBaseline(c)
             /\ UNCHANGED stored \/ InsertBaseline(c) \/ Checkpoint(c) \/ CheckpointUnanswered(c)
  BY <1>2 DEF BeginTick, Evaluate, EndTick, InsertBaseline, Verdict, Dispatch, Checkpoint,
              LoadCursor, ChooseBaseline, Skip, Break, Ask, Failures, JudgeFailed, Crash,
              CheckpointUnanswered, TickFailed, Clock, CallExpires, Rest, BackoffEnds,
              cursors, history
<1>3. ASSUME NEW k \in Rules, NEW state \in {"enabled", "disabled", "deleted"}, SetRule(k, state)
      PROVE  UNCHANGED <<judged, alerted, base>>
  BY <1>3 DEF SetRule, history
<1>4. CASE UNCHANGED vars
  BY <1>4 DEF vars
<1> QED
  BY <1>1, <1>2, <1>3, <1>4 DEF Next

LEMMA SettledStays ==
  ASSUME Typed, [Next]_vars, NEW i \in Lines, Settled(i)
  PROVE  line'[i] = line[i]
<1>1. ASSUME NEW c \in Writers, Flusher(c)
      PROVE  line'[i] = line[i]
  <2>1. c \in Collectors /\ c \notin {"committed", "lost"}
    BY JudgeNames
  <2>2. ASSUME Insert(c)
        PROVE  line'[i] = line[i]
    BY <2>2, InsertedLine DEF Settled, Typed, JudgeTypeOK
  <2> QED
    BY <1>1, <2>1, <2>2 DEF Flusher, Commit, FlushFailed, RolledBack, Settled
<1>2. ASSUME NEW c \in Collectors, BeginTick(c) \/ Evaluate(c) \/ Failures(c) \/ Clock(c)
      PROVE  line'[i] = line[i]
  <2>1. Crash(c) => line'[i] = line[i]
    BY JudgeNames DEF Crash, RolledBack, Settled
  <2>2. ~Crash(c) => UNCHANGED line
    BY <1>2 DEF BeginTick, Evaluate, EndTick, InsertBaseline, Verdict, Dispatch, Checkpoint,
                LoadCursor, ChooseBaseline, Skip, Break, Ask, Failures, JudgeFailed,
                CheckpointUnanswered, TickFailed, Clock, CallExpires, Rest, BackoffEnds
  <2> QED
    BY <2>1, <2>2
<1> QED
  BY <1>1, <1>2 DEF Next, SetRule, vars

LEMMA HistoryGrows ==
  ASSUME Typed, [Next]_vars, NEW k \in Rules
  PROVE  /\ judged[k] \subseteq judged'[k]
         /\ \A t \in Targets : alerted[k][t] \subseteq alerted'[k][t]
<1>1. judged[k] \subseteq judged'[k]
  BY OtherSteps DEF Verdict, Typed, JudgeTypeOK
<1>2. ASSUME NEW c \in Collectors, Dispatch(c), NEW t \in Targets
      PROVE  alerted[k][t] \subseteq alerted'[k][t]
  <2>1. PICK u \in tick[c].targets :
          alerted' = [alerted EXCEPT ![tick[c].rule][u] = @ \cup tick[c].rows]
    BY <1>2 DEF Dispatch
  <2> QED
    BY <2>1 DEF Typed, JudgeTypeOK
<1>3. \A t \in Targets : alerted[k][t] \subseteq alerted'[k][t]
  BY <1>2, OtherSteps
<1> QED
  BY <1>1, <1>3

LEMMA DoneStays ==
  ASSUME Typed, [Next]_vars, NEW k \in Rules, NEW i \in Lines,
         Done(k, i) \/ line[i] = "lost"
  PROVE  Done(k, i)' \/ line'[i] = "lost"
<1>1. line[i] = "lost" => line'[i] = "lost"
  BY SettledStays DEF Settled
<1>2. judged[k] \subseteq judged'[k] /\ \A t \in Targets : alerted[k][t] \subseteq alerted'[k][t]
  BY HistoryGrows
<1> QED
  BY <1>1, <1>2 DEF Done

LEMMA StandsStays ==
  ASSUME Typed, [Next]_vars, NEW k \in Rules
  PROVE  /\ Stands(k) => Stands(k)'
         /\ rule'[k].traces = rule[k].traces
         /\ rule[k].state = "deleted" => rule'[k].state = "deleted"
<1>1. /\ rule'[k].traces = rule[k].traces
      /\ rule[k].state = "deleted" => rule'[k].state = "deleted"
  <2>1. ASSUME NEW j \in Rules, NEW state \in {"enabled", "disabled", "deleted"}, SetRule(j, state)
        PROVE  /\ rule'[k].traces = rule[k].traces
               /\ rule[k].state = "deleted" => rule'[k].state = "deleted"
    <3>1. rule' = [rule EXCEPT ![j] = [rule[j] EXCEPT !.state = state]]
      BY <2>1 DEF SetRule
    <3>2. rule[k] \in [state : {"enabled", "disabled", "deleted"}, traces : Histories]
      BY DEF Typed, JudgeTypeOK
    <3>3. CASE j = k
      <4>1. rule'[k] = [rule[k] EXCEPT !.state = state] /\ rule[k].state # "deleted"
        BY <2>1, <3>1, <3>3 DEF SetRule, Typed, JudgeTypeOK
      <4> QED
        BY <3>2, <4>1
    <3>4. CASE j # k
      BY <3>1, <3>4 DEF Typed, JudgeTypeOK
    <3> QED
      BY <3>3, <3>4
  <2> QED
    BY <2>1, OtherSteps
<1>2. ASSUME stored[k] # None
      PROVE  stored'[k] # None \/ rule'[k].state = "deleted"
  <2>1. ASSUME NEW c \in Collectors, InsertBaseline(c)
        PROVE  stored'[k] # None
    BY <1>2, <2>1 DEF InsertBaseline, Typed, JudgeTypeOK
  <2>2. ASSUME NEW c \in Collectors, Checkpoint(c) \/ CheckpointUnanswered(c)
        PROVE  stored'[k] # None
    <3>1. tick[c].rows \in SUBSET Lines
      BY DEF Typed, JudgeTypeOK, Tick
    <3>2. Acknowledged(c) \in Cursors
      BY <3>1, LinesTop DEF Acknowledged
    <3>3. Acknowledged(c) # None
      BY <3>2, JudgeNames
    <3> QED
      BY <1>2, <2>2, <3>3 DEF Checkpoint, CheckpointUnanswered, Typed, JudgeTypeOK
  <2>3. ASSUME NEW j \in Rules, NEW state \in {"enabled", "disabled", "deleted"}, SetRule(j, state)
        PROVE  stored'[k] # None \/ rule'[k].state = "deleted"
    BY <1>2, <2>3 DEF SetRule, Typed, JudgeTypeOK
  <2> QED
    BY <1>2, <2>1, <2>2, <2>3, OtherSteps
<1> QED
  BY <1>1, <1>2 DEF Stands

\* The lines a rule owes a verdict are settled with its checkpoint.
LEMMA OwedStays ==
  ASSUME Typed, [Next]_vars, NEW k \in Rules, Stands(k)
  PROVE  Owed(k)' = Owed(k)
<1>1. ASSUME NEW c \in Collectors, InsertBaseline(c)
      PROVE  base'[k] = base[k]
  BY <1>1 DEF InsertBaseline, Stands, Typed, JudgeTypeOK
<1>2. base'[k] = base[k] /\ rule'[k].traces = rule[k].traces
  BY <1>1, OtherSteps, StandsStays
<1> QED
  BY <1>2 DEF Owed

LEMMA CursorStands ==
  ASSUME Judges, NEW k \in Rules, NEW x \in Cursors, IsCursor(k, x)
  PROVE  Stands(k) /\ Passed(k, x)
<1>1. x # None
  BY JudgeNames
<1> QED
  BY <1>1 DEF Judges, IsCursor, Stands

LEMMA PassedStays ==
  ASSUME Typed, [Next]_vars, NEW k \in Rules, NEW x \in Cursors, Stands(k), Passed(k, x)
  PROVE  Passed(k, x)'
<1>1. Owed(k)' = Owed(k) /\ Owed(k) \subseteq Lines
  BY OwedStays, OwedLines
<1>2. ASSUME NEW i \in Owed(k), i <= x
      PROVE  Done(k, i)' \/ line'[i] = "lost"
  BY <1>1, <1>2, DoneStays DEF Passed
<1> QED
  BY <1>1, <1>2 DEF Passed

LEMMA TickStays ==
  ASSUME Judges, [Next]_vars, NEW c \in Collectors, NEW k \in Rules, tick'[c] = tick[c]
  PROVE  Chosen(c, k)' /\ Holds(c, k)' /\ Handled(c, k)'
<1>1. Chosen(c, k)'
  <2>1. rule'[k].traces = rule[k].traces
    BY StandsStays DEF Judges
  <2> QED
    BY <2>1 DEF Judges, Chosen, Unjudged
<1>2. Holds(c, k)'
  <2> SUFFICES ASSUME Judging(c, k)
               PROVE  Holds(c, k)'
    BY DEF Holds, Judging
  <2>1. /\ Stands(k) /\ tick[c].rows # {}
        /\ \A r \in tick[c].rows, i \in Owed(k) :
             i <= r => i \in tick[c].rows \/ Done(k, i) \/ line[i] = "lost"
    BY DEF Judges, Holds
  <2>2. Stands(k)' /\ Owed(k)' = Owed(k) /\ Owed(k) \subseteq Lines
    BY <2>1, StandsStays, OwedStays, OwedLines DEF Judges
  <2>3. ASSUME NEW r \in tick[c].rows, NEW i \in Owed(k), i <= r
        PROVE  i \in tick[c].rows \/ Done(k, i)' \/ line'[i] = "lost"
    BY <2>1, <2>2, <2>3, DoneStays DEF Judges
  <2> QED
    BY <2>1, <2>2, <2>3 DEF Holds
<1>3. Handled(c, k)'
  <2>1. judged[k] \subseteq judged'[k] /\ \A t \in Targets : alerted[k][t] \subseteq alerted'[k][t]
    BY HistoryGrows DEF Judges
  <2>2. Handled(c, k)
    BY DEF Judges
  <2> QED
    BY <2>1, <2>2 DEF Handled, Judged
<1> QED
  BY <1>1, <1>2, <1>3

\* A window read from a safe cursor holds all that is not done with.
LEMMA WindowHolds ==
  ASSUME Judges, NEW k \in Rules, NEW x \in Cursors, Passed(k, x),
         NEW r \in Window(k, x), NEW i \in Owed(k), i <= r
  PROVE  i \in Window(k, x) \/ Done(k, i) \/ line[i] = "lost"
<1>1. i \in Lines /\ i \in Scope[k] /\ r \in Lines /\ line[r] = "committed"
  BY OwedLines, WindowLines DEF After, Committed
<1>2. Lines \subseteq Nat /\ Cursors \subseteq Nat
  BY JudgeBounds DEF Lines, Cursors
<1>3. CASE i <= x
  BY <1>3 DEF Passed
<1>4. CASE ~(i <= x)
  <2>1. line[i] = "committed" \/ line[i] = "lost"
    BY <1>1, <1>2 DEF Judges, Sequential, Settled
  <2>2. ASSUME line[i] = "committed"
        PROVE  i \in Window(k, x)
    <3>1. i \in After(k, x)
      BY <1>1, <1>2, <1>4, <2>2 DEF After, Committed
    <3> QED
      BY <3>1, WindowPrefix
  <2> QED
    BY <2>1, <2>2
<1> QED
  BY <1>3, <1>4

\* After an upgrade, no line up to the cursor is owed a verdict.
LEMMA ResumePasses ==
  ASSUME Typed, Chronological, NEW k \in Rules, rule[k].traces # <<>>,
         NEW i \in Owed(k), i <= ResumeAt(rule[k].traces)
  PROVE  FALSE
<1> DEFINE h == rule[k].traces
<1>1. h \in Histories
  BY DEF Typed, JudgeTypeOK
<1>2. /\ Len(h) \in Nat /\ DOMAIN h = 1 .. Len(h)
      /\ \A n \in DOMAIN h : h[n].from \in Nat /\ h[n].to \in Nat
  BY <1>1, TraceTypes, JudgeBounds DEF Lines, Cursors
<1>a. i <= ResumeAt(h)
  OBVIOUS
<1>3. i \in Nat /\ ResumeAt(h) \in Nat
  BY <1>1, OwedLines, Resumes, JudgeBounds DEF Lines, Cursors
<1>4. \/ \A n \in DOMAIN h : i > h[n].to
      \/ \E n \in DOMAIN h : h[n].from < i /\ i <= h[n].to /\ \A m \in n .. Len(h) : ~h[m].ok
  BY DEF Owed
<1>5. \A m, n \in DOMAIN h : h[m].from < h[m].to /\ (m < n => h[m].to <= h[n].from)
  BY <1>1 DEF Chronological
<1>6. 1 \in DOMAIN h
  BY <1>1, <1>2, TraceTypes
<1>7. CASE \E g \in DOMAIN h : h[g].ok /\ ResumeAt(h) = h[g].to /\ \A n \in DOMAIN h : h[n].ok => n <= g
  <2>1. PICK g \in DOMAIN h : h[g].ok /\ ResumeAt(h) = h[g].to
    BY <1>7
  <2>2. PICK n \in DOMAIN h : h[n].from < i /\ \A m \in n .. Len(h) : ~h[m].ok
    BY <1>2, <1>3, <1>4, <2>1
  <2>3. g < n
    BY <1>2, <2>1, <2>2
  <2>4. h[g].to <= h[n].from
    BY <1>5, <2>3
  <2> HIDE DEF h
  <2> QED
    BY <1>2, <1>3, <1>a, <2>1, <2>2, <2>4
<1>8. CASE \A n \in DOMAIN h : ~h[n].ok /\ ResumeAt(h) <= h[n].from
  <2> HIDE DEF h
  <2> QED
    BY <1>2, <1>3, <1>a, <1>4, <1>5, <1>6, <1>8
<1> QED
  BY <1>1, <1>7, <1>8, Resumes

-----------------------------------------------------------------------------
(* The steps of every judge.                                               *)

\* What is left to show of a step: its new cursors and the ticks it moves.
LEMMA JudgesKept ==
  ASSUME Judges, OneWriter, [Next]_vars,
         \A k \in Rules, x \in Cursors : IsCursor(k, x)' => IsCursor(k, x) \/ Passed(k, x)',
         \A c \in Collectors, k \in Rules : seen'[c][k] # None => seen[c][k] # None \/ Stands(k)',
         \A c \in Collectors : tick'[c] # tick[c] /\ tick'[c].pc \notin {"idle", "next"} =>
           \A k \in Rules : Chosen(c, k)' /\ Holds(c, k)' /\ Handled(c, k)'
  PROVE  Judges'
<1>1. Typed' /\ Sequential'
  BY TypedStep, SequentialStep DEF Judges
<1>2. ASSUME NEW k \in Rules, NEW x \in Cursors, IsCursor(k, x)'
      PROVE  Passed(k, x)'
  <2>1. CASE IsCursor(k, x)
    BY <2>1, CursorStands, PassedStays DEF Judges
  <2> QED
    BY <1>2, <2>1
<1>3. ASSUME NEW c \in Collectors, NEW k \in Rules
      PROVE  /\ seen'[c][k] # None => Stands(k)'
             /\ Chosen(c, k)' /\ Holds(c, k)' /\ Handled(c, k)'
  <2>1. seen'[c][k] # None => Stands(k)'
    BY StandsStays DEF Judges
  <2>2. CASE tick'[c] = tick[c]
    BY <2>1, <2>2, TickStays
  <2>3. CASE tick'[c] # tick[c] /\ tick'[c].pc \notin {"idle", "next"}
    BY <2>1, <2>3
  <2>4. CASE tick'[c].pc \in {"idle", "next"}
    BY <2>1, <2>4 DEF Chosen, Unjudged, Holds, Judging, Handled, Judged
  <2> QED
    BY <2>2, <2>3, <2>4
<1> QED
  BY <1>1, <1>2, <1>3 DEF Judges

LEMMA JudgesFlusher ==
  ASSUME Judges, OneWriter, [Next]_vars,
         \/ \E c \in Writers : Flusher(c)
         \/ \E c \in Collectors : Clock(c)
         \/ \E k \in Rules, state \in {"enabled", "disabled", "deleted"} : SetRule(k, state)
         \/ UNCHANGED vars
  PROVE  Judges'
<1>1. tick' = tick /\ seen' = seen
  BY DEF Flusher, Insert, Commit, FlushFailed, Clock, CallExpires, Rest, BackoffEnds, SetRule,
         cursors, vars
<1>2. ASSUME NEW k \in Rules, NEW x \in Cursors, stored'[k] = x
      PROVE  stored[k] = x
  <2>1. x # None
    BY JudgeNames
  <2>2. CASE stored' = stored
    BY <1>2, <2>2
  <2>3. ASSUME NEW j \in Rules, NEW state \in {"enabled", "disabled", "deleted"}, SetRule(j, state)
        PROVE  stored[k] = x
    BY <1>2, <2>1, <2>3 DEF SetRule, Judges, Typed, JudgeTypeOK
  <2> QED
    BY <2>2, <2>3 DEF Flusher, Insert, Commit, FlushFailed, Clock, CallExpires, Rest,
                      BackoffEnds, cursors, vars
<1>3. \A k \in Rules, x \in Cursors : IsCursor(k, x)' => IsCursor(k, x)
  BY <1>1, <1>2 DEF IsCursor
<1> QED
  BY <1>1, <1>3, JudgesKept

LEMMA JudgesIdle ==
  ASSUME Judges, OneWriter, [Next]_vars, NEW c \in Collectors, NEW k,
         \/ BeginTick(c) \/ EndTick(c) \/ JudgeFailed(c) \/ TickFailed(c) \/ Crash(c)
         \/ k \in Rules /\ (LoadCursor(c, k) \/ Skip(c, k) \/ Break(c, k))
  PROVE  Judges'
<1>t. /\ tick \in [Collectors -> Tick]
      /\ IdleTick.pc = "idle" /\ BackToLoop(tick[c]).pc = "next"
  BY TickTypes DEF Judges, Typed, JudgeTypeOK
<1>1. \A d \in Collectors : tick'[d] # tick[d] => tick'[d].pc \in {"idle", "next"}
  <2>1. CASE BeginTick(c)
    BY <1>t, <2>1 DEF BeginTick, Tick
  <2>2. CASE EndTick(c) \/ JudgeFailed(c) \/ TickFailed(c) \/ Crash(c) \/ Break(c, k)
    BY <1>t, <2>2 DEF EndTick, JudgeFailed, TickFailed, Crash, Break
  <2>3. CASE LoadCursor(c, k)
    BY <2>3 DEF LoadCursor
  <2>4. CASE Skip(c, k)
    BY <1>t, <2>4 DEF Skip, Known, InHand, Tick
  <2> QED
    BY <2>1, <2>2, <2>3, <2>4
<1>2. stored' = stored
  BY DEF BeginTick, EndTick, JudgeFailed, TickFailed, Crash, LoadCursor, Skip, Break, cursors
<1>3. ASSUME NEW d \in Collectors, NEW j \in Rules, seen'[d][j] # seen[d][j]
      PROVE  seen'[d][j] \in {None, stored[j]}
  <2>1. CASE Crash(c)
    BY <1>3, <2>1 DEF Crash, Judges, Typed, JudgeTypeOK
  <2>2. CASE k \in Rules /\ LoadCursor(c, k)
    BY <1>3, <2>2 DEF LoadCursor, Judges, Typed, JudgeTypeOK
  <2> QED
    BY <1>3, <2>1, <2>2 DEF BeginTick, EndTick, JudgeFailed, TickFailed, Skip, Break, cursors
<1>4. ASSUME NEW j \in Rules, NEW x \in Cursors, IsCursor(j, x)'
      PROVE  IsCursor(j, x)
  <2>1. x # None
    BY JudgeNames
  <2> QED
    BY <1>2, <1>3, <1>4, <2>1 DEF IsCursor
<1>5. ASSUME NEW d \in Collectors, NEW j \in Rules, seen'[d][j] # None
      PROVE  seen[d][j] # None \/ Stands(j)'
  <2>1. stored[j] # None \/ seen[d][j] # None
    BY <1>3, <1>5
  <2> QED
    BY <1>2, <2>1 DEF Stands
<1> QED
  BY <1>1, <1>4, <1>5, JudgesKept

LEMMA JudgesChoose ==
  ASSUME Judges, OneWriter, [Next]_vars, NEW c \in Collectors, NEW k \in Rules, ChooseBaseline(c, k)
  PROVE  Judges'
<1> DEFINE new == rule[k].traces = <<>>
           start == IF new THEN Top(After(k, 0)) ELSE ResumeAt(rule[k].traces)
           t == [tick[c] EXCEPT !.pc = "insert", !.todo = @ \ {k}, !.rule = k,
                                !.start = start, !.new = new]
<1>1. /\ stored' = stored /\ seen' = seen /\ rule' = rule
      /\ \A d \in Collectors \ {c} : tick'[d] = tick[d]
      /\ tick'[c] = t
  BY DEF ChooseBaseline, cursors, Judges, Typed, JudgeTypeOK
<1>2. t.pc = "insert" /\ t.rule = k /\ t.new = new /\ t.start = start
  BY DEF Judges, Typed, JudgeTypeOK, Tick
<1>3. \A j \in Rules, x \in Cursors : IsCursor(j, x)' => IsCursor(j, x)
  BY <1>1 DEF IsCursor
<1> HIDE DEF t
<1>4. \A j \in Rules : Chosen(c, j)' /\ Holds(c, j)' /\ Handled(c, j)'
  BY <1>1, <1>2 DEF Chosen, Unjudged, Holds, Judging, Handled, Judged
<1> QED
  BY <1>1, <1>3, <1>4, JudgesKept

LEMMA JudgesInsert ==
  ASSUME Judges, OneWriter, Chronological, [Next]_vars, NEW c \in Collectors, InsertBaseline(c)
  PROVE  Judges'
<1>1. PICK k \in Rules :
        k = tick[c].rule /\ rule[k].state # "deleted" /\ tick[c].start \in Cursors
  BY DEF InsertBaseline, Judges, Typed, JudgeTypeOK, Tick
<1>2. /\ \A d \in Collectors \ {c} : tick'[d] = tick[d]
      /\ tick'[c].pc = "next"
  <2>1. tick[c] \in Tick /\ BackToLoop(tick[c]).pc = "next"
    BY TickTypes DEF Judges
  <2>2. [BackToLoop(tick[c]) EXCEPT !.todo = @ \cup {k}].pc = "next"
    BY <2>1 DEF BackToLoop
  <2> QED
    BY <1>1, <2>1, <2>2 DEF InsertBaseline, Judges, Typed, JudgeTypeOK
<1>3. /\ stored' = [stored EXCEPT ![k] = Established(c, k)]
      /\ seen' = [seen EXCEPT ![c][k] = Established(c, k)]
  BY <1>1 DEF InsertBaseline, Established
<1>4. Established(c, k) \in Cursors
  BY <1>1 DEF Established, Judges, Typed, JudgeTypeOK
<1>5. ASSUME NEW j \in Rules, NEW x \in Cursors, IsCursor(j, x)'
      PROVE  IsCursor(j, x) \/ (j = k /\ stored[k] = None /\ x = tick[c].start)
  <2>1. stored'[j] = IF j = k THEN Established(c, k) ELSE stored[j]
    BY <1>1, <1>3 DEF Judges, Typed, JudgeTypeOK
  <2>2. \A d \in Collectors :
          seen'[d][j] = IF d = c /\ j = k THEN Established(c, k) ELSE seen[d][j]
    BY <1>1, <1>3 DEF Judges, Typed, JudgeTypeOK
  <2> QED
    BY <1>1, <1>5, <2>1, <2>2 DEF IsCursor, Established
<1>6. ASSUME NEW x \in Cursors, stored[k] = None, x = tick[c].start
      PROVE  Passed(k, x)'
  <2>1. rule'[k].traces = rule[k].traces
    BY <1>1, StandsStays DEF Judges
  <2>2. Unjudged(c, k) /\ Chosen(c, k)
    BY <1>1 DEF InsertBaseline, Unjudged, Judges
  <2>3. CASE tick[c].new
    <3>1. base'[k] = x /\ rule'[k].traces = <<>>
      BY <1>1, <1>6, <2>1, <2>2, <2>3 DEF InsertBaseline, Chosen, Judges, Typed, JudgeTypeOK
    <3>2. \A i \in Owed(k)' : i > x
      BY <3>1 DEF Owed
    <3>3. Owed(k)' \subseteq Nat /\ x \in Nat
      BY <1>1, JudgeNames, JudgeBounds DEF Owed, Lines, Cursors
    <3> QED
      BY <3>2, <3>3 DEF Passed
  <2>4. CASE ~tick[c].new
    <3>1. base' = base /\ rule[k].traces # <<>> /\ x = ResumeAt(rule[k].traces)
      BY <1>1, <1>6, <2>2, <2>4 DEF InsertBaseline, Chosen
    <3>2. Owed(k)' = Owed(k)
      BY <2>1, <3>1 DEF Owed
    <3> QED
      BY <1>1, <3>1, <3>2, ResumePasses DEF Passed, Judges
  <2> QED
    BY <2>3, <2>4
<1>7. ASSUME NEW d \in Collectors, NEW j \in Rules, seen'[d][j] # None
      PROVE  seen[d][j] # None \/ Stands(j)'
  <2>1. stored'[k] # None
    BY <1>1, <1>3, <1>4, JudgeNames DEF Judges, Typed, JudgeTypeOK
  <2>2. j # k => seen'[d][j] = seen[d][j]
    BY <1>1, <1>3 DEF Judges, Typed, JudgeTypeOK
  <2> QED
    BY <1>7, <2>1, <2>2 DEF Stands
<1>8. \A j \in Rules, x \in Cursors : IsCursor(j, x)' => IsCursor(j, x) \/ Passed(j, x)'
  BY <1>5, <1>6
<1> QED
  BY <1>2, <1>7, <1>8, JudgesKept

LEMMA JudgesAsk ==
  ASSUME Judges, OneWriter, [Next]_vars, NEW c \in Collectors, NEW k \in Rules, Ask(c, k)
  PROVE  Judges'
<1>1. PICK x \in Cursors : seen[c][k] = x
  BY DEF Ask, Known, Judges, Typed, JudgeTypeOK
<1>2. /\ stored' = stored /\ seen' = seen /\ line' = line /\ judged' = judged /\ alerted' = alerted
      /\ \A d \in Collectors \ {c} : tick'[d] = tick[d]
      /\ tick'[c] = Asked(c, k)
  BY DEF Ask, Asked, cursors, history, Judges, Typed, JudgeTypeOK
<1>3. tick'[c].pc = "judging" /\ tick'[c].rule = k /\ tick'[c].rows = Window(k, x)
  <2>1. tick[c] \in Tick
    BY DEF Judges, Typed, JudgeTypeOK
  <2> QED
    BY <1>1, <1>2, <2>1 DEF Asked, Tick
<1>4. Stands(k) /\ Passed(k, x)
  BY <1>1, CursorStands DEF IsCursor
<1>5. Window(k, x) # {} /\ Window(k, x) \subseteq Lines
  <2>1. Cardinality(After(k, x)) > 0
    BY <1>1 DEF Ask, Eligible, Count
  <2>2. After(k, x) # {}
    BY <2>1, FS_EmptySet
  <2> QED
    BY <2>2, WindowLines
<1>6. Stands(k)' /\ Owed(k)' = Owed(k) /\ Owed(k) \subseteq Lines
  BY <1>4, StandsStays, OwedStays, OwedLines DEF Judges
<1>7. ASSUME NEW r \in Window(k, x), NEW i \in Owed(k), i <= r
      PROVE  i \in Window(k, x) \/ Done(k, i)' \/ line'[i] = "lost"
  BY <1>4, <1>6, <1>7, WindowHolds, DoneStays DEF Judges
<1>8. ASSUME NEW j \in Rules
      PROVE  Chosen(c, j)' /\ Holds(c, j)' /\ Handled(c, j)'
  <2>1. Holds(c, j)'
    BY <1>3, <1>5, <1>6, <1>7 DEF Holds, Judging
  <2> QED
    BY <1>3, <2>1 DEF Chosen, Unjudged, Handled, Judged
<1>9. \A j \in Rules, y \in Cursors : IsCursor(j, y)' => IsCursor(j, y)
  BY <1>2 DEF IsCursor
<1> QED
  BY <1>2, <1>8, <1>9, JudgesKept

\* The window in hand of a collector, as the steps behind it find it.
LEMMA InHandFacts ==
  ASSUME Judges, NEW c \in Collectors, NEW k \in Rules, Judging(c, k)
  PROVE  /\ tick[c] \in Tick /\ tick[c].rows \in SUBSET Lines /\ tick[c].rows # {}
         /\ Stands(k)
         /\ Owed(k) \subseteq Lines
         /\ \A r \in tick[c].rows, i \in Owed(k) :
              i <= r => i \in tick[c].rows \/ Done(k, i) \/ line[i] = "lost"
BY OwedLines DEF Judges, Typed, JudgeTypeOK, Tick, Holds

LEMMA JudgesVerdict ==
  ASSUME Judges, OneWriter, [Next]_vars, NEW c \in Collectors, Verdict(c)
  PROVE  Judges'
<1>1. PICK k \in Rules : k = tick[c].rule
  BY DEF Verdict, Judges, Typed
<1>2. PICK fired \in BOOLEAN :
        /\ tick[c].rows \cap Alarming # {} => fired
        /\ tick' = [tick EXCEPT ![c] = Answered(c, fired)]
  BY DEF Verdict, Answered, Judges, Typed, JudgeTypeOK, Tick
<1>3. Judging(c, k)
  BY <1>1 DEF Verdict, Judging
<1>4. /\ tick'[c].pc = IF fired THEN "dispatch" ELSE "checkpoint"
      /\ tick'[c].targets = IF fired THEN Targets ELSE {}
      /\ tick'[c].rule = k /\ tick'[c].rows = tick[c].rows
      /\ \A d \in Collectors \ {c} : tick'[d] = tick[d]
  BY <1>1, <1>2 DEF Answered, Judges, Typed, JudgeTypeOK, Tick
<1>5. /\ stored' = stored /\ seen' = seen /\ judged'[k] = judged[k] \cup tick[c].rows
  BY <1>1 DEF Verdict, Judges, Typed, JudgeTypeOK
<1>6. Stands(k)' /\ Owed(k)' = Owed(k)
  BY <1>3, InHandFacts, StandsStays, OwedStays DEF Judges
<1>7. ASSUME NEW r \in tick[c].rows, NEW i \in Owed(k), i <= r
      PROVE  i \in tick[c].rows \/ Done(k, i)' \/ line'[i] = "lost"
  BY <1>3, <1>7, InHandFacts, DoneStays DEF Judges
<1>8. ASSUME NEW j \in Rules
      PROVE  Chosen(c, j)' /\ Holds(c, j)' /\ Handled(c, j)'
  <2>1. Holds(c, j)'
    BY <1>3, <1>4, <1>6, <1>7, InHandFacts DEF Holds, Judging
  <2>2. Handled(c, j)'
    BY <1>2, <1>4, <1>5 DEF Handled, Judged
  <2> QED
    BY <1>4, <2>1, <2>2 DEF Chosen, Unjudged
<1>9. \A j \in Rules, x \in Cursors : IsCursor(j, x)' => IsCursor(j, x)
  BY <1>5 DEF IsCursor
<1> QED
  BY <1>4, <1>5, <1>8, <1>9, JudgesKept

LEMMA JudgesDispatch ==
  ASSUME Judges, OneWriter, [Next]_vars, NEW c \in Collectors, Dispatch(c)
  PROVE  Judges'
<1>1. PICK k \in Rules : k = tick[c].rule
  BY DEF Dispatch, Judges, Typed
<1>2. PICK t \in tick[c].targets :
        /\ alerted' = [alerted EXCEPT ![k][t] = @ \cup tick[c].rows]
        /\ tick' = [tick EXCEPT ![c] = Dispatched(c, t)]
  <2>1. PICK t \in tick[c].targets :
          /\ alerted' = [alerted EXCEPT ![k][t] = @ \cup tick[c].rows]
          /\ tick' = [tick EXCEPT ![c].targets = @ \ {t},
                        ![c].pc = IF tick[c].targets = {t} THEN "checkpoint" ELSE @]
    BY <1>1 DEF Dispatch
  <2>2. tick' = [tick EXCEPT ![c] = Dispatched(c, t)]
    BY <2>1 DEF Dispatched, Judges, Typed, JudgeTypeOK, Tick
  <2> QED
    BY <2>1, <2>2
<1>3. Judging(c, k) /\ Judged(c, k) /\ tick[c].pc = "dispatch"
  BY <1>1 DEF Dispatch, Judging, Judged
<1>4. /\ tick'[c].pc = IF tick[c].targets = {t} THEN "checkpoint" ELSE "dispatch"
      /\ tick'[c].targets = tick[c].targets \ {t}
      /\ tick'[c].rule = k /\ tick'[c].rows = tick[c].rows
      /\ \A d \in Collectors \ {c} : tick'[d] = tick[d]
  BY <1>1, <1>2, <1>3 DEF Dispatched, Judges, Typed, JudgeTypeOK, Tick
<1>5. /\ stored' = stored /\ seen' = seen /\ judged' = judged
      /\ t \in Targets
      /\ alerted'[k][t] = alerted[k][t] \cup tick[c].rows
      /\ \A u \in Targets \ {t} : alerted'[k][u] = alerted[k][u]
  BY <1>2 DEF Dispatch, Judges, Typed, JudgeTypeOK, Tick, cursors
<1>6. Stands(k)' /\ Owed(k)' = Owed(k)
  BY <1>3, InHandFacts, StandsStays, OwedStays DEF Judges
<1>7. ASSUME NEW r \in tick[c].rows, NEW i \in Owed(k), i <= r
      PROVE  i \in tick[c].rows \/ Done(k, i)' \/ line'[i] = "lost"
  BY <1>3, <1>7, InHandFacts, DoneStays DEF Judges
<1>8. ASSUME NEW j \in Rules
      PROVE  Chosen(c, j)' /\ Holds(c, j)' /\ Handled(c, j)'
  <2>1. Holds(c, j)'
    BY <1>3, <1>4, <1>6, <1>7, InHandFacts DEF Holds, Judging
  <2>2. /\ tick[c].rows \subseteq judged[k]
        /\ \A u \in Targets \ tick[c].targets : tick[c].rows \cap Alarming \subseteq alerted[k][u]
    BY <1>3 DEF Judges, Handled
  <2>3. Handled(c, j)'
    BY <1>4, <1>5, <2>2 DEF Handled, Judged
  <2> QED
    BY <1>4, <2>1, <2>3 DEF Chosen, Unjudged
<1>9. \A j \in Rules, x \in Cursors : IsCursor(j, x)' => IsCursor(j, x)
  BY <1>5 DEF IsCursor
<1> QED
  BY <1>4, <1>5, <1>8, <1>9, JudgesKept

LEMMA JudgesCheckpoint ==
  ASSUME Judges, OneWriter, [Next]_vars, NEW c \in Collectors,
         Checkpoint(c) \/ CheckpointUnanswered(c)
  PROVE  Judges'
<1>1. PICK k \in Rules : k = tick[c].rule
  BY DEF Checkpoint, CheckpointUnanswered, Judges, Typed
<1>2. Judging(c, k) /\ Judged(c, k) /\ tick[c].pc = "checkpoint"
  BY <1>1 DEF Checkpoint, CheckpointUnanswered, Judging, Judged
<1>3. PICK y \in Lines : /\ y = Acknowledged(c) /\ y \in tick[c].rows
                         /\ \A r \in tick[c].rows : r <= y
  BY <1>2, InHandFacts, LinesTop DEF Acknowledged
<1>4. y \in Cursors /\ Lines \subseteq Nat
  BY JudgeBounds DEF Lines, Cursors
<1>5. /\ stored' = [stored EXCEPT ![k] = y]
      /\ seen' = seen \/ seen' = [seen EXCEPT ![c][k] = y]
      /\ \A d \in Collectors : tick'[d] # tick[d] => tick'[d].pc \in {"idle", "next"}
  BY <1>1, <1>3, TickTypes
     DEF Checkpoint, CheckpointUnanswered, Judges, Typed, JudgeTypeOK
<1>6. Passed(k, y)'
  <2>1. Owed(k)' = Owed(k) /\ Owed(k) \subseteq Lines
    BY <1>2, InHandFacts, OwedStays DEF Judges
  <2>2. Handled(c, k)
    BY DEF Judges
  <2>3. \A i \in tick[c].rows : Done(k, i)
    BY <1>2, <2>2 DEF Handled, Done
  <2>4. ASSUME NEW i \in Owed(k), i <= y
        PROVE  Done(k, i)' \/ line'[i] = "lost"
    <3>1. Done(k, i) \/ line[i] = "lost"
      BY <1>2, <1>3, <2>3, <2>4, InHandFacts
    <3> QED
      BY <2>1, <3>1, DoneStays DEF Judges
  <2> QED
    BY <2>1, <2>4 DEF Passed
<1>7. ASSUME NEW j \in Rules, NEW x \in Cursors, IsCursor(j, x)'
      PROVE  IsCursor(j, x) \/ Passed(j, x)'
  <2>1. stored'[j] = IF j = k THEN y ELSE stored[j]
    BY <1>5 DEF Judges, Typed, JudgeTypeOK
  <2>2. ASSUME NEW d \in Collectors
        PROVE  seen'[d][j] = seen[d][j] \/ (j = k /\ seen'[d][j] = y)
    <3>1. CASE seen' = seen
      BY <3>1
    <3>2. CASE seen' = [seen EXCEPT ![c][k] = y]
      BY <3>2 DEF Judges, Typed, JudgeTypeOK
    <3> QED
      BY <1>5, <3>1, <3>2
  <2> QED
    BY <1>6, <1>7, <2>1, <2>2 DEF IsCursor
<1>8. ASSUME NEW d \in Collectors, NEW j \in Rules, seen'[d][j] # None
      PROVE  seen[d][j] # None \/ Stands(j)'
  <2>1. Stands(k)'
    BY <1>2, InHandFacts, StandsStays DEF Judges
  <2>2. j # k => seen'[d][j] = seen[d][j]
    BY <1>5 DEF Judges, Typed, JudgeTypeOK
  <2> QED
    BY <1>8, <2>1, <2>2
<1> QED
  BY <1>5, <1>7, <1>8, JudgesKept

LEMMA JudgesInit ==
  ASSUME Init
  PROVE  Judges
<1>1. Typed
  BY TypedInit
<1>2. Sequential
  BY JudgeBounds DEF Init, Sequential, Settled, Lines
<1>3. \A k \in Rules, x \in Cursors : ~IsCursor(k, x)
  BY JudgeNames DEF Init, IsCursor
<1>4. \A c \in Collectors : tick[c].pc = "idle"
  BY DEF Init, IdleTick
<1> QED
  BY <1>1, <1>2, <1>3, <1>4
     DEF Judges, Init, Chosen, Unjudged, Holds, Judging, Handled, Judged

LEMMA JudgesStep ==
  ASSUME Judges, OneWriter, Chronological, [Next]_vars
  PROVE  Judges'
<1>1. ASSUME NEW c \in Collectors, BeginTick(c) \/ Evaluate(c) \/ Failures(c) \/ Clock(c)
      PROVE  Judges'
  <2>1. CASE \/ BeginTick(c) \/ EndTick(c) \/ JudgeFailed(c) \/ TickFailed(c) \/ Crash(c)
    BY <2>1, JudgesIdle
  <2>2. ASSUME NEW k \in Rules, LoadCursor(c, k) \/ Skip(c, k) \/ Break(c, k)
        PROVE  Judges'
    BY <2>2, JudgesIdle
  <2>3. ASSUME NEW k \in Rules, ChooseBaseline(c, k) \/ Ask(c, k)
        PROVE  Judges'
    BY <2>3, JudgesChoose, JudgesAsk
  <2>4. CASE InsertBaseline(c) \/ Verdict(c) \/ Dispatch(c) \/ Checkpoint(c) \/ CheckpointUnanswered(c)
    BY <2>4, JudgesInsert, JudgesVerdict, JudgesDispatch, JudgesCheckpoint
  <2>5. CASE Clock(c)
    BY <2>5, JudgesFlusher
  <2> QED
    BY <1>1, <2>1, <2>2, <2>3, <2>4, <2>5 DEF Evaluate, Failures
<1> QED
  BY <1>1, JudgesFlusher DEF Next

\* Every reachable state is typed, for any number of writers.
THEOREM TypeCorrect == Spec => []JudgeTypeOK
<1>1. Init => Typed
  BY TypedInit
<1>2. Typed /\ [Next]_vars => Typed'
  BY TypedStep
<1>3. Typed => JudgeTypeOK
  BY DEF Typed
<1> QED
  BY <1>1, <1>2, <1>3, PTL DEF Spec

LEMMA JudgesAlways ==
  ASSUME OneWriter, Chronological
  PROVE  Spec => []Judges
<1>1. Init => Judges
  BY JudgesInit
<1>2. Judges /\ [Next]_vars => Judges'
  BY JudgesStep
<1> QED
  BY <1>1, <1>2, PTL DEF Spec

LEMMA JudgedBehind ==
  ASSUME Judges, NEW k \in Rules, NEW x \in Cursors, IsCursor(k, x),
         NEW i \in Committed \cap Owed(k), i <= x
  PROVE  /\ i \in judged[k]
         /\ i \in Alarming => \A t \in Targets : i \in alerted[k][t]
<1>1. line[i] # "lost"
  BY DEF Committed
<1> QED
  BY <1>1, CursorStands DEF Passed, Done

\* With one process that stores lines, no checkpoint passes a line without a
\* verdict, whatever judges, crashes, failed windows and lost answers do.
THEOREM NothingSkipped ==
  ASSUME OneWriter, Chronological
  PROVE  Spec => []NoneSkipped
<1>1. ASSUME Judges, NEW k \in Rules, stored[k] # None, NEW i \in Committed \cap Owed(k),
             i <= stored[k]
      PROVE  i \in judged[k]
  <2>1. stored[k] \in Cursors
    BY <1>1 DEF Judges, Typed, JudgeTypeOK
  <2>2. PICK x \in Cursors : stored[k] = x
    BY <2>1
  <2> QED
    BY <1>1, <2>2, JudgedBehind DEF IsCursor
<1>2. Judges => NoneSkipped
  BY <1>1 DEF NoneSkipped
<1> QED
  BY <1>2, JudgesAlways, PTL

\* Nor does the cursor that a judge has in memory, which may differ from the
\* checkpoint after a lost answer and with several judges.
THEOREM MemoryIsSafe ==
  ASSUME OneWriter, Chronological
  PROVE  Spec => []CursorsSafe
<1>1. ASSUME Judges, NEW c \in Collectors, NEW k \in Rules, seen[c][k] # None,
             NEW i \in Committed \cap Owed(k), i <= seen[c][k]
      PROVE  i \in judged[k]
  <2>1. seen[c][k] \in Cursors
    BY <1>1 DEF Judges, Typed, JudgeTypeOK
  <2>2. PICK x \in Cursors : seen[c][k] = x
    BY <2>1
  <2> QED
    BY <1>1, <2>2, JudgedBehind DEF IsCursor
<1>2. Judges => CursorsSafe
  BY <1>1 DEF CursorsSafe
<1> QED
  BY <1>2, JudgesAlways, PTL

\* A window is acknowledged after its alarms have gone to every target.
THEOREM AlarmsAreOut ==
  ASSUME OneWriter, Chronological
  PROVE  Spec => []AlarmsDelivered
<1>1. ASSUME Judges, NEW k \in Rules, NEW t \in Targets, stored[k] # None,
             NEW i \in Committed \cap Owed(k) \cap Alarming, i <= stored[k]
      PROVE  i \in alerted[k][t]
  <2>1. stored[k] \in Cursors
    BY <1>1 DEF Judges, Typed, JudgeTypeOK
  <2>2. PICK x \in Cursors : stored[k] = x
    BY <2>1
  <2> QED
    BY <1>1, <2>2, JudgedBehind DEF IsCursor
<1>2. Judges => AlarmsDelivered
  BY <1>1 DEF AlarmsDelivered
<1> QED
  BY <1>2, JudgesAlways, PTL

-----------------------------------------------------------------------------
(* A judge alone.                                                          *)

\* What commits later is behind a window, so the window grows.
LEMMA WindowGrows ==
  ASSUME Judges, [Next]_vars, NEW k \in Rules, NEW x \in Cursors, NEW i \in Window(k, x)
  PROVE  (i \in Window(k, x))'
<1> DEFINE S == After(k, x)
<1>1. i \in S /\ S \in SUBSET Lines /\ S' \in SUBSET Lines /\ Lines \subseteq Nat
  BY WindowLines, JudgeBounds DEF After, Committed, Lines
<1>2. \A j \in S : j \in S'
  BY <1>1, SettledStays DEF Judges, After, Committed, Settled
<1>3. ASSUME NEW j \in S', j < i
      PROVE  j \in S
  <2>1. j \in Lines /\ Settled(j)
    BY <1>1, <1>3 DEF After, Committed, Judges, Sequential, Settled
  <2> QED
    BY <1>3, <2>1, SettledStays DEF Judges, After, Committed
<1>4. {j \in S' : j < i} = {j \in S : j < i}
  BY <1>2, <1>3
<1>5. Cardinality({j \in S : j < i}) < Limit
  BY DEF Window
<1> QED
  BY <1>1, <1>2, <1>4, <1>5 DEF Window

LEMMA FollowsKept ==
  ASSUME Judges, [Next]_vars, NEW c \in Collectors, NEW k \in Rules, Follows(c, k),
         tick'[c].pc = tick[c].pc \/ Judging(c, k),
         tick'[c].pc # "insert" \/ tick[c].pc = "insert",
         tick'[c].rule = tick[c].rule, tick'[c].rows = tick[c].rows,
         seen'[c][k] = seen[c][k], stored'[k] \in {stored[k], None}
  PROVE  Follows(c, k)'
<1>1. Unjudged(c, k)' => seen'[c][k] = None
  BY DEF Follows, Unjudged
<1>2. ASSUME Judging(c, k)'
      PROVE  \E x \in Cursors :
               /\ seen'[c][k] = x /\ tick'[c].rows \subseteq Window(k, x)'
               /\ stored'[k] # None => \E r \in tick'[c].rows : stored'[k] <= r
  <2>1. Judging(c, k)
    BY <1>2 DEF Judging
  <2>2. PICK x \in Cursors :
          /\ seen[c][k] = x /\ tick[c].rows \subseteq Window(k, x)
          /\ stored[k] # None => \E r \in tick[c].rows : stored[k] <= r
    BY <2>1 DEF Follows
  <2>3. \A i \in tick[c].rows : (i \in Window(k, x))'
    BY <2>2, WindowGrows
  <2> QED
    BY <2>2, <2>3
<1> QED
  BY <1>1, <1>2 DEF Follows

LEMMA AheadKept ==
  ASSUME Judges, [Next]_vars, NEW c \in Collectors, NEW k \in Rules, Ahead(c, k),
         seen'[c][k] \in {seen[c][k], None}, stored'[k] \in {stored[k], None}
  PROVE  Ahead(c, k)'
<1> SUFFICES ASSUME NEW x \in Cursors, NEW last \in Cursors, seen'[c][k] = x, stored'[k] = last
             PROVE  last <= x \/ (last \in Window(k, x))'
  BY DEF Ahead
<1>1. x # None /\ last # None
  BY JudgeNames
<1>2. last <= x \/ last \in Window(k, x)
  BY <1>1 DEF Ahead
<1> QED
  BY <1>2, WindowGrows

\* A step that leaves the ticks and the cursors in memory alone.
LEMMA AloneEnvironment ==
  ASSUME Alone, [Next]_vars, Judges',
         UNCHANGED <<tick, seen, judged>>,
         \A k \in Rules : /\ stored'[k] \in {stored[k], None}
                          /\ rule'[k].state # "deleted" => rule[k].state # "deleted",
         faults' = 0 => faults = 0
  PROVE  Alone'
<1> SUFFICES ASSUME NEW c \in Collectors, NEW k \in Rules
             PROVE  Follows(c, k)' /\ Ahead(c, k)' /\ Fresh(c, k)' /\ Once(c, k)'
  BY DEF Alone
<1>1. Judges /\ Follows(c, k) /\ Ahead(c, k) /\ Fresh(c, k) /\ Once(c, k)
  BY DEF Alone
<1>2. Follows(c, k)' /\ Ahead(c, k)'
  BY <1>1, FollowsKept, AheadKept
<1>3. Fresh(c, k)' /\ Once(c, k)'
  BY <1>1 DEF Fresh, Once, Judging, Judged
<1> QED
  BY <1>2, <1>3

\* A step after which the judge of the rules has no window in hand.
LEMMA AloneBetween ==
  ASSUME Alone, OneJudge, [Next]_vars, Judges', NEW c \in Collectors,
         tick'[c].pc \in {"idle", "next"},
         \A k \in Rules : Ahead(c, k)' /\ Once(c, k)'
  PROVE  Alone'
<1>1. \A d \in Collectors : d = c
  BY DEF OneJudge
<1>2. \A k \in Rules : Follows(c, k)' /\ Fresh(c, k)'
  BY DEF Follows, Fresh, Unjudged, Judging, Judged
<1> QED
  BY <1>1, <1>2 DEF Alone

LEMMA Counters ==
  ASSUME Judges
  PROVE  faults \in Nat /\ (faults' = faults + 1 => faults' # 0)
BY JudgeBounds DEF Judges, Typed, JudgeTypeOK

LEMMA AloneOthers ==
  ASSUME Alone, [Next]_vars, Judges',
         \/ \E c \in Writers : Flusher(c)
         \/ \E c \in Collectors : Clock(c)
         \/ \E k \in Rules, state \in {"enabled", "disabled", "deleted"} : SetRule(k, state)
         \/ UNCHANGED vars
  PROVE  Alone'
<1>1. UNCHANGED <<tick, seen, judged>>
  BY DEF Flusher, Insert, Commit, FlushFailed, Clock, CallExpires, Rest, BackoffEnds, SetRule,
         cursors, history, vars
<1>2. faults' = 0 => faults = 0
  BY Counters DEF Alone, Flusher, Insert, Commit, FlushFailed, Clock, CallExpires, Rest,
                  BackoffEnds, SetRule, vars
<1>3. ASSUME NEW k \in Rules
      PROVE  /\ stored'[k] \in {stored[k], None}
             /\ rule'[k].state # "deleted" => rule[k].state # "deleted"
  <2>1. rule[k].state = "deleted" => rule'[k].state = "deleted"
    BY StandsStays DEF Alone, Judges
  <2>2. stored'[k] \in {stored[k], None}
    <3>1. CASE stored' = stored
      BY <3>1
    <3>2. ASSUME NEW j \in Rules, NEW state \in {"enabled", "disabled", "deleted"}, SetRule(j, state)
          PROVE  stored'[k] \in {stored[k], None}
      BY <3>2 DEF SetRule, Alone, Judges, Typed, JudgeTypeOK
    <3> QED
      BY <3>1, <3>2 DEF Flusher, Insert, Commit, FlushFailed, Clock, CallExpires, Rest,
                        BackoffEnds, cursors, vars
  <2> QED
    BY <2>1, <2>2
<1> QED
  BY <1>1, <1>2, <1>3, AloneEnvironment

LEMMA AloneIdle ==
  ASSUME Alone, OneJudge, [Next]_vars, Judges', NEW c \in Collectors, NEW k,
         \/ BeginTick(c) \/ EndTick(c) \/ JudgeFailed(c) \/ TickFailed(c) \/ Crash(c)
         \/ k \in Rules /\ (Skip(c, k) \/ Break(c, k))
  PROVE  Alone'
<1>t. /\ tick \in [Collectors -> Tick]
      /\ IdleTick.pc = "idle" /\ IdleTick.todo = {}
      /\ BackToLoop(tick[c]).pc = "next" /\ BackToLoop(tick[c]).todo = tick[c].todo
  <2>1. Typed /\ tick \in [Collectors -> Tick]
    BY DEF Alone, Judges, Typed, JudgeTypeOK
  <2>2. tick[c] \in Tick /\ IdleTick.pc = "idle" /\ BackToLoop(tick[c]).pc = "next"
    BY <2>1, TickTypes
  <2>3. IdleTick.todo = {}
    BY DEF IdleTick
  <2>4. BackToLoop(tick[c]).todo = tick[c].todo
    BY <2>2 DEF BackToLoop, Tick
  <2> QED
    BY <2>1, <2>2, <2>3, <2>4
<1>1. tick'[c].pc \in {"idle", "next"}
  BY <1>t DEF BeginTick, EndTick, JudgeFailed, TickFailed, Crash, Skip, Known, InHand, Break, Tick
<1>2. /\ stored' = stored /\ judged' = judged /\ rule' = rule
      /\ seen' = seen \/ seen' = [seen EXCEPT ![c] = [j \in Rules |-> None]]
  BY DEF BeginTick, EndTick, JudgeFailed, TickFailed, Crash, Skip, Break, cursors, history
<1>3. ASSUME NEW j \in Rules
      PROVE  Ahead(c, j)'
  <2>1. seen'[c][j] \in {seen[c][j], None}
    BY <1>2 DEF Alone, Judges, Typed, JudgeTypeOK
  <2> QED
    BY <1>2, <2>1, AheadKept DEF Alone
<1>4. ASSUME NEW j \in Rules, faults' = 0, rule'[j].state # "deleted" \/ j \in tick'[c].todo
      PROVE  /\ faults = 0 /\ (rule[j].state # "deleted" \/ j \in tick[c].todo)
             /\ seen' = seen /\ ~Judged(c, j)
  <2>1. CASE BeginTick(c)
    BY <1>t, <1>2, <1>4, <2>1 DEF BeginTick, Judged, Tick, cursors
  <2>2. CASE EndTick(c)
    BY <1>t, <1>2, <1>4, <2>2 DEF EndTick, Judged, Tick, cursors
  <2>3. CASE JudgeFailed(c) \/ Crash(c)
    BY <1>4, <2>3, Counters DEF JudgeFailed, Crash, Alone
  <2>4. CASE TickFailed(c)
    BY <1>t, <1>2, <1>4, <2>4, Counters DEF TickFailed, Judged, Alone, cursors
  <2>5. CASE k \in Rules /\ (Skip(c, k) \/ Break(c, k))
    BY <1>t, <1>2, <1>4, <2>5 DEF Skip, Break, Known, InHand, Judged, Tick, cursors
  <2> QED
    BY <2>1, <2>2, <2>3, <2>4, <2>5
<1>5. ASSUME NEW j \in Rules
      PROVE  Once(c, j)'
  BY <1>2, <1>4 DEF Once, Alone
<1> QED
  BY <1>1, <1>3, <1>5, AloneBetween

\* Lines of a rule that will be evaluated again, before it has a window.
LEMMA OnceBefore ==
  ASSUME Alone, NEW c \in Collectors, NEW k \in Rules, faults = 0, ~Judged(c, k),
         rule[k].state # "deleted" \/ k \in tick[c].todo
  PROVE  \A i \in judged[k] : seen[c][k] # None /\ i <= seen[c][k]
BY DEF Alone, Once

LEMMA AloneCursor ==
  ASSUME Alone, OneJudge, [Next]_vars, Judges', NEW c \in Collectors, NEW k,
         \/ k \in Rules /\ LoadCursor(c, k)
         \/ InsertBaseline(c) /\ k = tick[c].rule
  PROVE  Alone'
<1>t. /\ tick \in [Collectors -> Tick] /\ stored \in [Rules -> Cursors \cup {None}]
      /\ seen \in [Collectors -> [Rules -> Cursors \cup {None}]]
  BY DEF Alone, Judges, Typed, JudgeTypeOK
<1>1. /\ k \in Rules /\ seen[c][k] = None /\ ~Judged(c, k) /\ \A j \in Rules : ~Judged(c, j)
      /\ rule[k].state # "deleted" \/ k \in tick[c].todo
  <2>1. CASE k \in Rules /\ LoadCursor(c, k)
    BY <2>1 DEF LoadCursor, InHand, Judged
  <2>2. CASE InsertBaseline(c) /\ k = tick[c].rule
    BY <2>2 DEF InsertBaseline, Alone, Judges, Typed, Follows, Unjudged, Judged
  <2> QED
    BY <2>1, <2>2
<1>2. /\ tick'[c].pc = "next"
      /\ tick'[c].todo \subseteq tick[c].todo \cup {k}
      /\ judged' = judged /\ rule' = rule /\ faults' = faults
  <2>1. CASE k \in Rules /\ LoadCursor(c, k)
    BY <2>1 DEF LoadCursor, InHand, history
  <2>2. CASE InsertBaseline(c) /\ k = tick[c].rule
    <3>1. /\ BackToLoop(tick[c]).pc = "next" /\ BackToLoop(tick[c]).todo = tick[c].todo
          /\ [BackToLoop(tick[c]) EXCEPT !.todo = @ \cup {k}].pc = "next"
          /\ [BackToLoop(tick[c]) EXCEPT !.todo = @ \cup {k}].todo = tick[c].todo \cup {k}
      BY <1>t DEF BackToLoop, Tick
    <3> QED
      BY <1>t, <2>2, <3>1 DEF InsertBaseline, history
  <2> QED
    BY <2>1, <2>2
<1>3. /\ \A j \in Rules \ {k} : seen'[c][j] = seen[c][j] /\ stored'[j] = stored[j]
      /\ seen'[c][k] = stored'[k]
  <2>1. CASE k \in Rules /\ LoadCursor(c, k)
    BY <1>t, <1>1, <2>1 DEF LoadCursor
  <2>2. CASE InsertBaseline(c) /\ k = tick[c].rule
    <3>1. /\ stored' = [stored EXCEPT ![k] = Established(c, k)]
          /\ seen' = [seen EXCEPT ![c][k] = Established(c, k)]
      BY <2>2 DEF InsertBaseline, Established
    <3> QED
      BY <1>t, <1>1, <3>1
  <2> QED
    BY <2>1, <2>2
<1>4. ASSUME NEW j \in Rules
      PROVE  Ahead(c, j)'
  <2>1. CASE j = k
    <3>1. ASSUME NEW x \in Cursors, NEW last \in Cursors, seen'[c][j] = x, stored'[j] = last
          PROVE  last <= x
      <4>1. x = last
        BY <1>3, <2>1, <3>1
      <4>2. x \in Int
        BY JudgeBounds DEF Cursors
      <4> QED
        BY <4>1, <4>2
    <3> QED
      BY <3>1 DEF Ahead
  <2>2. CASE j # k
    BY <1>3, <2>2, AheadKept DEF Alone
  <2> QED
    BY <2>1, <2>2
<1>5. ASSUME NEW j \in Rules, faults' = 0, rule'[j].state # "deleted" \/ j \in tick'[c].todo,
             NEW i \in judged'[j]
      PROVE  seen'[c][j] # None /\ i <= seen'[c][j]
  <2>1. seen[c][j] # None /\ i <= seen[c][j]
    BY <1>1, <1>2, <1>5, OnceBefore
  <2> QED
    BY <1>1, <1>3, <2>1
<1>6. \A j \in Rules : Once(c, j)'
  BY <1>5 DEF Once
<1> QED
  BY <1>2, <1>4, <1>6, AloneBetween

LEMMA AloneAsk ==
  ASSUME Alone, OneJudge, [Next]_vars, Judges', NEW c \in Collectors, NEW k \in Rules,
         ChooseBaseline(c, k) \/ Ask(c, k)
  PROVE  Alone'
<1>t. tick \in [Collectors -> Tick] /\ tick[c].pc = "next" /\ k \in tick[c].todo
  BY DEF ChooseBaseline, Ask, Known, InHand, Alone, Judges, Typed, JudgeTypeOK
<1>1. /\ stored' = stored /\ seen' = seen /\ rule' = rule /\ judged' = judged /\ faults' = faults
      /\ \A d \in Collectors : d = c
  BY DEF ChooseBaseline, Ask, cursors, history, OneJudge
<1>2. /\ tick'[c].todo \subseteq tick[c].todo /\ tick'[c].rule = k
      /\ tick'[c].pc = IF Ask(c, k) THEN "judging" ELSE "insert"
      /\ Ask(c, k) => tick'[c].rows = Window(k, seen[c][k])
  <2>1. CASE Ask(c, k)
    <3>1. tick'[c] = Asked(c, k)
      BY <1>t, <2>1 DEF Ask, Asked
    <3>2. /\ Asked(c, k).todo = tick[c].todo \ {k} /\ Asked(c, k).rule = k
          /\ Asked(c, k).pc = "judging" /\ Asked(c, k).rows = Window(k, seen[c][k])
      BY <1>t DEF Asked, Tick
    <3> QED
      BY <2>1, <3>1, <3>2
  <2>2. CASE ~Ask(c, k)
    BY <1>t, <2>2 DEF ChooseBaseline, Tick
  <2> QED
    BY <2>1, <2>2
<1>3. ASSUME Ask(c, k)
      PROVE  \E x \in Cursors :
               /\ seen'[c][k] = x /\ tick'[c].rows = Window(k, x)
               /\ tick'[c].rows \subseteq Window(k, x)'
               /\ stored'[k] # None => \E r \in tick'[c].rows : stored'[k] <= r
  <2>1. PICK x \in Cursors : seen[c][k] = x
    BY <1>3 DEF Ask, Known, Alone, Judges, Typed, JudgeTypeOK
  <2>2. \A i \in Window(k, x) : (i \in Window(k, x))'
    BY WindowGrows DEF Alone
  <2>3. ASSUME stored[k] # None
        PROVE  \E r \in Window(k, x) : stored[k] <= r
    <3>1. PICK last \in Cursors : stored[k] = last
      BY <2>3 DEF Alone, Judges, Typed, JudgeTypeOK
    <3>2. last <= x \/ last \in Window(k, x)
      BY <2>1, <3>1 DEF Alone, Ahead
    <3>3. Cardinality(After(k, x)) > 0
      BY <1>3, <2>1 DEF Ask, Eligible, Count
    <3>4. After(k, x) # {}
      BY <3>3, FS_EmptySet
    <3>5. PICK r \in Window(k, x) : r \in Lines /\ r > x
      BY <3>4, WindowLines DEF After
    <3>6. last \in Nat /\ x \in Nat /\ r \in Nat
      BY <3>5, JudgeBounds DEF Lines, Cursors
    <3>7. last <= x => last <= r
      BY <3>5, <3>6
    <3>8. last <= last
      BY <3>6
    <3> QED
      BY <3>1, <3>2, <3>7, <3>8
  <2> QED
    BY <1>1, <1>2, <1>3, <2>1, <2>2, <2>3
<1>4. ASSUME faults = 0, Ask(c, k)
      PROVE  tick'[c].rows \cap judged[k] = {}
  <2>1. PICK x \in Cursors : seen[c][k] = x
    BY <1>1, <1>3, <1>4
  <2>2. \A i \in judged[k] : i <= x
    BY <1>t, <1>4, <2>1, OnceBefore DEF Judged
  <2>3. \A i \in Window(k, x) : i \in Lines /\ i > x
    BY WindowLines DEF After
  <2>4. Lines \subseteq Nat /\ x \in Nat
    BY JudgeBounds DEF Lines, Cursors
  <2>5. ASSUME NEW i \in Window(k, x), i \in judged[k]
        PROVE  FALSE
    <3>1. i <= x /\ i > x /\ i \in Nat /\ x \in Nat
      BY <2>2, <2>3, <2>4, <2>5
    <3> QED
      BY <3>1
  <2> QED
    BY <1>2, <1>4, <2>1, <2>5
<1>5. ASSUME NEW j \in Rules
      PROVE  Follows(c, j)' /\ Ahead(c, j)' /\ Fresh(c, j)' /\ Once(c, j)'
  <2>1. Ahead(c, j)'
    BY <1>1, AheadKept DEF Alone
  <2>2. Follows(c, j)'
    <3>1. ChooseBaseline(c, k) => seen[c][k] = None
      BY DEF ChooseBaseline
    <3> QED
      BY <1>1, <1>2, <1>3, <3>1 DEF Follows, Unjudged, Judging
  <2>3. Fresh(c, j)'
    BY <1>1, <1>2, <1>4 DEF Fresh, Judging, Judged
  <2>4. Once(c, j)'
    <3>1. ~Judged(c, j)
      BY <1>t DEF Judged
    <3> QED
      BY <1>1, <1>2, <3>1, OnceBefore DEF Once
  <2> QED
    BY <2>1, <2>2, <2>3, <2>4
<1> QED
  BY <1>1, <1>5 DEF Alone

LEMMA AloneVerdict ==
  ASSUME Alone, OneJudge, [Next]_vars, Judges', NEW c \in Collectors, Verdict(c) \/ Dispatch(c)
  PROVE  Alone'
<1>1. PICK k \in Rules : k = tick[c].rule
  BY DEF Verdict, Dispatch, Alone, Judges, Typed
<1>2. Judging(c, k)
  BY <1>1 DEF Verdict, Dispatch, Judging
<1>3. /\ stored' = stored /\ seen' = seen /\ rule' = rule /\ faults' = faults
      /\ \A d \in Collectors : d = c
  BY DEF Verdict, Dispatch, cursors, OneJudge
<1>4. /\ tick'[c].todo = tick[c].todo /\ tick'[c].rule = k /\ tick'[c].rows = tick[c].rows
      /\ tick'[c].pc \in {"dispatch", "checkpoint"}
  <2>1. tick \in [Collectors -> Tick]
    BY DEF Alone, Judges, Typed, JudgeTypeOK
  <2>2. CASE Verdict(c)
    <3>1. PICK fired \in BOOLEAN : tick' = [tick EXCEPT ![c] = Answered(c, fired)]
      BY <2>1, <2>2 DEF Verdict, Answered, Tick
    <3> QED
      BY <1>1, <2>1, <3>1 DEF Answered, Tick
  <2>3. CASE Dispatch(c)
    <3>1. PICK t \in tick[c].targets :
            tick' = [tick EXCEPT ![c].targets = @ \ {t},
                       ![c].pc = IF tick[c].targets = {t} THEN "checkpoint" ELSE @]
      BY <2>3 DEF Dispatch
    <3>2. tick' = [tick EXCEPT ![c] = Dispatched(c, t)]
      BY <2>1, <3>1 DEF Dispatched, Tick
    <3>3. tick[c].pc = "dispatch"
      BY <2>3 DEF Dispatch
    <3> QED
      BY <1>1, <2>1, <3>2, <3>3 DEF Dispatched, Tick
  <2> QED
    BY <2>2, <2>3
<1>5. /\ \A j \in Rules \ {k} : judged'[j] = judged[j]
      /\ judged'[k] \subseteq judged[k] \cup tick[c].rows
  BY <1>1 DEF Verdict, Dispatch, Alone, Judges, Typed, JudgeTypeOK
<1>6. ASSUME NEW j \in Rules
      PROVE  Follows(c, j)' /\ Ahead(c, j)' /\ Fresh(c, j)' /\ Once(c, j)'
  <2>1. Ahead(c, j)'
    BY <1>3, AheadKept DEF Alone
  <2>2. Follows(c, j)'
    <3>1. CASE j = k
      BY <1>1, <1>2, <1>3, <1>4, <3>1, FollowsKept DEF Alone
    <3>2. CASE j # k
      BY <1>4, <3>2 DEF Follows, Unjudged, Judging
    <3> QED
      BY <3>1, <3>2
  <2>3. Fresh(c, j)'
    BY <1>4 DEF Fresh, Judged, Judging
  <2>4. Once(c, j)'
    <3>1. CASE j = k
      BY <1>3, <1>4, <1>5, <3>1 DEF Alone, Once, Judged
    <3>2. CASE j # k
      BY <1>1, <1>3, <1>4, <1>5, <3>2 DEF Alone, Once, Judged
    <3> QED
      BY <3>1, <3>2
  <2> QED
    BY <2>1, <2>2, <2>3, <2>4
<1> QED
  BY <1>3, <1>6 DEF Alone

\* A checkpoint ends a window that reaches up to the one before.
LEMMA CheckpointMoves ==
  ASSUME Alone, NEW c \in Collectors, Checkpoint(c) \/ CheckpointUnanswered(c)
  PROVE  \E k \in Rules, x \in Cursors, y \in Lines :
           /\ k = tick[c].rule /\ seen[c][k] = x /\ y = Acknowledged(c)
           /\ y \in Window(k, x) /\ x < y /\ \A r \in tick[c].rows : r <= y
           /\ stored[k] # None => stored[k] <= y
<1>1. PICK k \in Rules : k = tick[c].rule
  BY DEF Checkpoint, CheckpointUnanswered, Alone, Judges, Typed
<1>2. Judging(c, k)
  BY <1>1 DEF Checkpoint, CheckpointUnanswered, Judging
<1>3. PICK y \in Lines : /\ y = Acknowledged(c) /\ y \in tick[c].rows
                         /\ \A r \in tick[c].rows : r <= y
  BY <1>2, InHandFacts, LinesTop DEF Acknowledged, Alone
<1>4. PICK x \in Cursors :
        /\ seen[c][k] = x /\ tick[c].rows \subseteq Window(k, x)
        /\ stored[k] # None => \E r \in tick[c].rows : stored[k] <= r
  BY <1>2 DEF Alone, Follows
<1>5. y \in Window(k, x) /\ x < y
  <2>1. y \in Window(k, x)
    BY <1>3, <1>4
  <2>2. y > x /\ x \in Nat /\ y \in Nat
    BY <2>1, WindowLines, JudgeBounds DEF After, Lines, Cursors
  <2> QED
    BY <2>1, <2>2
<1>6. ASSUME stored[k] # None
      PROVE  stored[k] <= y
  <2>1. PICK r \in tick[c].rows : stored[k] <= r
    BY <1>4, <1>6
  <2>2. r <= y
    BY <1>3
  <2>3. stored[k] \in Cursors /\ r \in Lines
    BY <1>2, <1>6, InHandFacts DEF Alone, Judges, Typed, JudgeTypeOK
  <2>4. stored[k] \in Nat /\ r \in Nat /\ y \in Nat
    BY <2>3, JudgeBounds DEF Lines, Cursors
  <2> QED
    BY <2>1, <2>2, <2>4
<1> QED
  BY <1>1, <1>3, <1>4, <1>5, <1>6

LEMMA AloneCheckpoint ==
  ASSUME Alone, OneJudge, [Next]_vars, Judges', NEW c \in Collectors,
         Checkpoint(c) \/ CheckpointUnanswered(c)
  PROVE  Alone'
<1>1. PICK k \in Rules, x \in Cursors, y \in Lines :
        /\ k = tick[c].rule /\ seen[c][k] = x /\ y = Acknowledged(c)
        /\ y \in Window(k, x) /\ x < y /\ \A r \in tick[c].rows : r <= y
  BY CheckpointMoves
<1>2. Lines \subseteq Nat /\ Cursors \subseteq Nat
  BY JudgeBounds DEF Lines, Cursors
<1>t. tick \in [Collectors -> Tick] /\ stored \in [Rules -> Cursors \cup {None}]
      /\ seen \in [Collectors -> [Rules -> Cursors \cup {None}]]
  BY DEF Alone, Judges, Typed, JudgeTypeOK
<1>3. /\ stored'[k] = y /\ \A j \in Rules \ {k} : stored'[j] = stored[j]
      /\ \A j \in Rules \ {k} : seen'[c][j] = seen[c][j]
      /\ Checkpoint(c) => seen'[c][k] = y
      /\ ~Checkpoint(c) => seen'[c][k] = x /\ faults' = faults + 1
      /\ Checkpoint(c) => faults' = faults /\ tick'[c].todo = tick[c].todo
      /\ tick'[c].pc \in {"idle", "next"} /\ judged' = judged /\ rule' = rule
  <2>1. /\ IdleTick.pc = "idle" /\ BackToLoop(tick[c]).pc = "next"
        /\ BackToLoop(tick[c]).todo = tick[c].todo
    BY <1>t DEF IdleTick, BackToLoop, Tick
  <2>2. CASE Checkpoint(c)
    BY <1>1, <1>t, <2>1, <2>2 DEF Checkpoint, history
  <2>3. CASE ~Checkpoint(c)
    BY <1>1, <1>t, <2>1, <2>3 DEF CheckpointUnanswered, history
  <2> QED
    BY <2>2, <2>3
<1>4. ASSUME NEW j \in Rules
      PROVE  Ahead(c, j)'
  <2>1. CASE j # k
    BY <1>3, <2>1, AheadKept DEF Alone
  <2>2. CASE j = k
    <3>1. (y \in Window(k, x))'
      BY <1>1, WindowGrows DEF Alone
    <3>2. ASSUME NEW z \in Cursors, NEW last \in Cursors, seen'[c][k] = z, stored'[k] = last
          PROVE  last <= z \/ (last \in Window(k, z))'
      <4>1. last = y /\ (z = y \/ z = x) /\ y <= y
        BY <1>2, <1>3, <3>2
      <4> QED
        BY <3>1, <4>1
    <3> QED
      BY <2>2, <3>2 DEF Ahead
  <2> QED
    BY <2>1, <2>2
<1>5. ASSUME NEW j \in Rules, faults' = 0, rule'[j].state # "deleted" \/ j \in tick'[c].todo,
             NEW i \in judged'[j]
      PROVE  seen'[c][j] # None /\ i <= seen'[c][j]
  <2>1. Checkpoint(c) /\ faults = 0 /\ (rule[j].state # "deleted" \/ j \in tick[c].todo)
    BY <1>3, <1>5, Counters DEF Alone
  <2>2. \/ seen[c][j] # None /\ i <= seen[c][j]
        \/ Judged(c, j) /\ i \in tick[c].rows
    BY <1>3, <1>5, <2>1 DEF Alone, Once
  <2>3. CASE j # k
    BY <1>1, <1>3, <2>2, <2>3 DEF Judged
  <2>4. CASE j = k
    <3>1. i \in Nat /\ x \in Nat /\ y \in Nat
      BY <1>2, <1>3, <1>5 DEF Alone, Judges, Typed, JudgeTypeOK
    <3>2. i <= x \/ i <= y
      BY <1>1, <2>2, <2>4
    <3>3. i <= y
      BY <1>1, <3>1, <3>2
    <3>4. y # None
      BY <1>t, JudgeNames, JudgeBounds DEF Lines, Cursors
    <3> QED
      BY <1>3, <2>1, <2>4, <3>3, <3>4
  <2> QED
    BY <2>3, <2>4
<1>6. \A j \in Rules : Once(c, j)'
  BY <1>5 DEF Once
<1> QED
  BY <1>3, <1>4, <1>6, AloneBetween

LEMMA AloneStep ==
  ASSUME Alone, OneJudge, Chronological, [Next]_vars
  PROVE  Alone'
<1>1. Judges'
  <2>1. OneWriter
    BY JudgeNames DEF OneJudge, OneWriter
  <2> QED
    BY <2>1, JudgesStep DEF Alone
<1>2. ASSUME NEW c \in Collectors, BeginTick(c) \/ Evaluate(c) \/ Failures(c) \/ Clock(c)
      PROVE  Alone'
  <2>1. CASE BeginTick(c) \/ EndTick(c) \/ JudgeFailed(c) \/ TickFailed(c) \/ Crash(c)
    BY <1>1, <2>1, AloneIdle
  <2>2. ASSUME NEW k \in Rules, Skip(c, k) \/ Break(c, k)
        PROVE  Alone'
    BY <1>1, <2>2, AloneIdle
  <2>3. ASSUME NEW k \in Rules, LoadCursor(c, k)
        PROVE  Alone'
    BY <1>1, <2>3, AloneCursor
  <2>4. ASSUME NEW k \in Rules, ChooseBaseline(c, k) \/ Ask(c, k)
        PROVE  Alone'
    BY <1>1, <2>4, AloneAsk
  <2>5. CASE InsertBaseline(c)
    BY <1>1, <2>5, AloneCursor
  <2>6. CASE Verdict(c) \/ Dispatch(c) \/ Checkpoint(c) \/ CheckpointUnanswered(c)
    BY <1>1, <2>6, AloneVerdict, AloneCheckpoint
  <2>7. CASE Clock(c)
    BY <1>1, <2>7, AloneOthers
  <2> QED
    BY <1>2, <2>1, <2>2, <2>3, <2>4, <2>5, <2>6, <2>7 DEF Evaluate, Failures
<1> QED
  BY <1>1, <1>2, AloneOthers DEF Next

LEMMA AloneInit ==
  ASSUME Init
  PROVE  Alone
<1>1. Judges
  BY JudgesInit
<1>2. \A c \in Collectors, k \in Rules : seen[c][k] = None /\ judged[k] = {} /\ tick[c].pc = "idle"
  BY DEF Init, IdleTick
<1> QED
  BY <1>1, <1>2, JudgeNames
     DEF Alone, Follows, Ahead, Fresh, Once, Unjudged, Judging, Judged

LEMMA AloneAlways ==
  ASSUME OneJudge, Chronological
  PROVE  Spec => []Alone
<1>1. Init => Alone
  BY AloneInit
<1>2. Alone /\ [Next]_vars => Alone'
  BY AloneStep
<1> QED
  BY <1>1, <1>2, PTL DEF Spec

\* A judge alone with its rules never moves a checkpoint back: a window that
\* is read again after a lost answer is the same one, or reaches further.
THEOREM NeverBack ==
  ASSUME OneJudge, Chronological
  PROVE  Spec => CheckpointAdvances
<1>1. ASSUME Alone, [Next]_vars, NEW k \in Rules, stored[k] # None, stored'[k] # None
      PROVE  stored'[k] >= stored[k]
  <2>1. stored[k] \in Nat
    BY <1>1, JudgeBounds DEF Alone, Judges, Typed, JudgeTypeOK, Cursors
  <2>2. CASE stored'[k] = stored[k]
    BY <2>1, <2>2
  <2>3. ASSUME NEW c \in Collectors, Checkpoint(c) \/ CheckpointUnanswered(c), stored'[k] # stored[k]
        PROVE  stored'[k] >= stored[k]
    <3>1. PICK y \in Lines : /\ y = Acknowledged(c)
                             /\ stored[tick[c].rule] # None => stored[tick[c].rule] <= y
      BY <1>1, <2>3, CheckpointMoves
    <3>2. stored' = [stored EXCEPT ![tick[c].rule] = y]
      BY <2>3, <3>1 DEF Checkpoint, CheckpointUnanswered
    <3>3. k = tick[c].rule /\ stored'[k] = y
      BY <1>1, <2>3, <3>2 DEF Alone, Judges, Typed, JudgeTypeOK
    <3>4. y \in Nat
      BY JudgeBounds DEF Lines
    <3> QED
      BY <1>1, <2>1, <3>1, <3>3, <3>4
  <2>4. ASSUME NEW c \in Collectors, InsertBaseline(c)
        PROVE  stored'[k] = stored[k]
    BY <1>1, <2>4 DEF InsertBaseline, Alone, Judges, Typed, JudgeTypeOK
  <2>5. ASSUME NEW j \in Rules, NEW state \in {"enabled", "disabled", "deleted"}, SetRule(j, state)
        PROVE  stored'[k] = stored[k]
    BY <1>1, <2>5 DEF SetRule, Alone, Judges, Typed, JudgeTypeOK
  <2> QED
    BY <1>1, <2>2, <2>3, <2>4, <2>5, OtherSteps DEF Alone, Judges
<1>2. Alone /\ [Next]_vars =>
        [\A k \in Rules : stored[k] # None /\ stored'[k] # None => stored'[k] >= stored[k]]_vars
  BY <1>1
<1> QED
  BY <1>2, AloneAlways, PTL DEF Spec, CheckpointAdvances

\* It asks about no line twice until something has failed: the window in hand
\* begins where the judged lines end.
THEOREM AsksOnce ==
  ASSUME OneJudge, Chronological
  PROVE  Spec => NoRepeat
<1>1. ASSUME Alone, NEW c \in Collectors, tick[c].pc = "judging", faults = 0
      PROVE  tick[c].rows \cap judged[tick[c].rule] = {}
  <2>1. PICK k \in Rules : k = tick[c].rule
    BY <1>1 DEF Alone, Judges, Typed
  <2> QED
    BY <1>1, <2>1 DEF Alone, Fresh, Judging, Judged
<1>2. Alone /\ [Next]_vars =>
        [\A c \in Collectors :
           /\ tick[c].pc = "judging" /\ judged' # judged
           /\ tick'[c].pc \in {"dispatch", "checkpoint"}
           /\ faults = 0
           => tick[c].rows \cap judged[tick[c].rule] = {}]_vars
  BY <1>1
<1> QED
  BY <1>2, AloneAlways, PTL DEF Spec, NoRepeat
=============================================================================
