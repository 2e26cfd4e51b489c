---------------------------- MODULE SemanticJudge -----------------------------
(***************************************************************************)
(* The windows of the semantic rules (ringdown/judge.py).                  *)
(*                                                                         *)
(* Every collector stores lines and runs a judge.  A judge's tick goes     *)
(* over the enabled rules; for each it takes the rule's cursor from its    *)
(* memory, from the checkpoint in PostgreSQL or from a new baseline, reads *)
(* the next window of lines, asks the model, dispatches what fires, and    *)
(* moves the checkpoint.  One action is the code between two awaits at     *)
(* which another actor's work can be seen.                                 *)
(*                                                                         *)
(* What is abstracted:                                                     *)
(*  - Time.  How long ago a rule was evaluated is one of three classes,    *)
(*    and the environment moves it on; a call leaves the last minute at a  *)
(*    moment of the environment's choice.                                  *)
(*  - The answer of the model: a window with an alarming line fires, any   *)
(*    other may.                                                           *)
(*  - The trace of an evaluation and the notices about an outage of the    *)
(*    model, which nothing in the judge reads again.  The traces of a      *)
(*    version without checkpoints are given.                 *)
(***************************************************************************)
EXTENDS Integers, FiniteSets, Sequences

CONSTANTS
  Collectors, Writers,   \* processes, and those of them that receive lines
  Rules, Targets,
  MaxLines,
  Stored,                \* lines in the table when the collectors start
  Histories,             \* traces a rule may have from before checkpoints
  Scope,                 \* lines that match a rule's glob and severity
  Alarming,              \* lines for which a window must fire
  Limit,                 \* lines in a window (5000)
  Spike, MaxPerMin,
  None,
  MaxEdits, MaxFaults    \* bounds of the model

Lines == 1 .. MaxLines
Cursors == 0 .. MaxLines
Trace == [ok : BOOLEAN, from : Cursors, to : Lines]

ASSUME JudgeBounds ==
  /\ MaxLines \in Nat /\ Stored \in 0 .. MaxLines
  /\ Limit \in Nat \ {0} /\ Spike \in Nat /\ MaxPerMin \in Nat \ {0}
  /\ MaxEdits \in Nat /\ MaxFaults \in Nat

ASSUME JudgeNames ==
  /\ Writers \subseteq Collectors
  /\ None \notin Cursors \cup Rules
  /\ Collectors \cap {"none", "committed", "lost"} = {}
  /\ Scope \in [Rules -> SUBSET Lines]
  /\ Histories \subseteq Seq(Trace)
  /\ Alarming \subseteq Lines

VARIABLES
  rule,      \* alert_rules.enabled, or deleted, and old semantic_evals
  line,      \* events: a collector while its transaction is open
  stored,    \* semantic_rule_state.last_event_id
  seen,      \* SemanticJudge._seen, per collector
  rest,      \* how long ago _last is: below the floor, the interval, or over
  wait,      \* whether a failed window is held back
  calls,     \* calls of the last minute, per collector
  tick,      \* local variables of each collector's _eval
  base,      \* the baseline of a rule that was new
  judged,    \* lines in windows with a parsed verdict
  alerted,   \* lines dispatched to each target
  edits, faults

vars == <<rule, line, stored, seen, rest, wait, calls, tick, base, judged,
          alerted, edits, faults>>
cursors == <<stored, seen, rest, wait, base>>
history == <<judged, alerted>>

-----------------------------------------------------------------------------
(* Windows and cursors.                                                    *)

Tick ==
  [pc      : {"idle", "next", "insert", "judging", "dispatch", "checkpoint"},
   todo    : SUBSET Rules,
   rule    : Rules \cup {None},
   start   : Cursors,
   new     : BOOLEAN,
   rows    : SUBSET Lines,
   targets : SUBSET Targets]

IdleTick ==
  [pc |-> "idle", todo |-> {}, rule |-> None, start |-> 0, new |-> FALSE,
   rows |-> {}, targets |-> {}]

\* The loop goes on to the next rule.
BackToLoop(t) ==
  [t EXCEPT !.pc = "next", !.rule = None, !.start = 0, !.new = FALSE,
            !.rows = {}, !.targets = {}]

\* The greatest member of a set of numbers, 0 for none, and the least.
Top(S) == IF S = {} THEN 0 ELSE CHOOSE x \in S : \A y \in S : y <= x
Bottom(S) == CHOOSE x \in S : \A y \in S : x <= y

Committed == {i \in Lines : line[i] = "committed"}

\* SELECT ... WHERE id > cursor AND scope
After(k, cursor) == {i \in Committed \cap Scope[k] : i > cursor}

\* ORDER BY id ASC LIMIT 5000
Window(k, cursor) ==
  LET S == After(k, cursor)
  IN  {i \in S : Cardinality({j \in S : j < i}) < Limit}

\* Definitions named Bug... are plausible mistakes in the code; each stands
\* before the definition it would replace, and breaks one of the properties.
BugLastTrace(traces) == traces[Len(traces)].to

\* _bootstrap_checkpoint: after a version that moved its cursor past failed
\* windows, the end of the last successful one, or else the beginning of the
\* first failed one.
ResumeAt(traces) ==
  LET good == {n \in DOMAIN traces : traces[n].ok}
  IN  IF good # {} THEN traces[Top(good)].to
                   ELSE Bottom({traces[n].from : n \in DOMAIN traces})

Init ==
  /\ rule \in [Rules -> [state : {"enabled"}, traces : Histories]]
  /\ line = [i \in Lines |-> IF i <= Stored THEN "committed" ELSE "none"]
  /\ stored = [k \in Rules |-> None]
  /\ seen = [c \in Collectors |-> [k \in Rules |-> None]]
  /\ rest = [c \in Collectors |-> [k \in Rules |-> "short"]]
  /\ wait = [c \in Collectors |-> [k \in Rules |-> FALSE]]
  /\ calls = [c \in Collectors |-> 0]
  /\ tick = [c \in Collectors |-> IdleTick]
  /\ base = [k \in Rules |-> 0]
  /\ judged = [k \in Rules |-> {}]
  /\ alerted = [k \in Rules |-> [t \in Targets |-> {}]]
  /\ edits = 0 /\ faults = 0

-----------------------------------------------------------------------------
(* The flushers.                                                           *)

\* An INSERT takes the next id; the line is visible when its batch commits.
Insert(c) ==
  LET free == {i \in Lines : line[i] = "none"} IN
  /\ free # {}
  /\ line' = [line EXCEPT ![Bottom(free)] = c]
  /\ UNCHANGED <<rule, cursors, calls, tick, history, edits, faults>>

Commit(c) ==
  /\ \E i \in Lines : line[i] = c
  /\ line' = [i \in Lines |-> IF line[i] = c THEN "committed" ELSE line[i]]
  /\ UNCHANGED <<rule, cursors, calls, tick, history, edits, faults>>

RolledBack(c) == [i \in Lines |-> IF line[i] = c THEN "lost" ELSE line[i]]

FlushFailed(c) ==
  /\ \E i \in Lines : line[i] = c
  /\ faults < MaxFaults /\ faults' = faults + 1
  /\ line' = RolledBack(c)
  /\ UNCHANGED <<rule, cursors, calls, tick, history, edits>>

-----------------------------------------------------------------------------
(* A judge's tick: the rules and their cursors.                            *)

BeginTick(c) ==
  /\ tick[c].pc = "idle"
  /\ tick' = [tick EXCEPT ![c].pc = "next",
                          ![c].todo = {k \in Rules : rule[k].state = "enabled"}]
  /\ UNCHANGED <<rule, line, cursors, calls, history, edits, faults>>

EndTick(c) ==
  /\ tick[c].pc = "next" /\ tick[c].todo = {}
  /\ tick' = [tick EXCEPT ![c] = IdleTick]
  /\ UNCHANGED <<rule, line, cursors, calls, history, edits, faults>>

\* The rule in hand; the query orders the rules in no way.
InHand(c, k) == tick[c].pc = "next" /\ k \in tick[c].todo

\* The checkpoint exists: it becomes the cursor in memory.
LoadCursor(c, k) ==
  /\ InHand(c, k)
  /\ seen[c][k] = None /\ stored[k] # None
  /\ seen' = [seen EXCEPT ![c][k] = stored[k]]
  /\ \E age \in {"short", "floor", "window"} : rest' = [rest EXCEPT ![c][k] = age]
  /\ UNCHANGED <<rule, line, stored, wait, calls, tick, base, history, edits, faults>>

\* No checkpoint: a rule with traces resumes, a new one starts after the
\* lines there are.
ChooseBaseline(c, k) ==
  LET new == rule[k].traces = <<>>
      start == IF new THEN Top(After(k, 0)) ELSE ResumeAt(rule[k].traces)
  IN
  /\ InHand(c, k)
  /\ seen[c][k] = None /\ stored[k] = None
  /\ tick' = [tick EXCEPT ![c].pc = "insert", ![c].todo = @ \ {k},
                          ![c].rule = k, ![c].start = start, ![c].new = new]
  /\ UNCHANGED <<rule, line, cursors, calls, history, edits, faults>>

BugKeepOwnBaseline(c, k) == tick[c].start

\* INSERT ... ON CONFLICT DO NOTHING, then the row of the winner.
Established(c, k) == IF stored[k] = None THEN tick[c].start ELSE stored[k]

\* A rule whose baseline is new waits for a later tick, any other is taken
\* up again.  The row of a deleted rule violates its foreign key.
InsertBaseline(c) ==
  LET k == tick[c].rule
      won == stored[k] = None
  IN
  /\ tick[c].pc = "insert"
  /\ rule[k].state # "deleted"
  /\ stored' = [stored EXCEPT ![k] = IF won THEN tick[c].start ELSE @]
  /\ seen' = [seen EXCEPT ![c][k] = Established(c, k)]
  /\ base' = IF won /\ tick[c].new THEN [base EXCEPT ![k] = tick[c].start] ELSE base
  /\ \E age \in {"short", "floor", "window"} :
       /\ won /\ tick[c].new => age = "short"
       /\ rest' = [rest EXCEPT ![c][k] = age]
  /\ tick' = [tick EXCEPT ![c] =
       IF won /\ tick[c].new THEN BackToLoop(tick[c])
       ELSE [BackToLoop(tick[c]) EXCEPT !.todo = @ \cup {k}]]
  /\ UNCHANGED <<rule, line, wait, calls, history, edits, faults>>

-----------------------------------------------------------------------------
(* A judge's tick: one window.                                             *)

Known(c, k) == InHand(c, k) /\ seen[c][k] # None
Count(c, k) == Cardinality(After(k, seen[c][k]))

BugSpikeOnly(c, k) ==
  /\ Count(c, k) >= Spike
  /\ rest[c][k] # "short"
  /\ ~wait[c][k]

\* Enough lines or enough time since the last evaluation, never less than
\* the floor, and no backoff.
Eligible(c, k) ==
  /\ Count(c, k) > 0
  /\ rest[c][k] # "short"
  /\ rest[c][k] = "window" \/ Count(c, k) >= Spike
  /\ ~wait[c][k]

Skip(c, k) ==
  /\ Known(c, k) /\ ~Eligible(c, k)
  /\ tick' = [tick EXCEPT ![c].todo = @ \ {k}]
  /\ UNCHANGED <<rule, line, cursors, calls, history, edits, faults>>

\* At the ceiling the rest of the tick is given up.
Break(c, k) ==
  /\ Known(c, k) /\ Eligible(c, k)
  /\ calls[c] = MaxPerMin
  /\ tick' = [tick EXCEPT ![c] = IdleTick]
  /\ UNCHANGED <<rule, line, cursors, calls, history, edits, faults>>

Ask(c, k) ==
  /\ Known(c, k) /\ Eligible(c, k)
  /\ calls[c] < MaxPerMin
  /\ calls' = [calls EXCEPT ![c] = @ + 1]
  /\ tick' = [tick EXCEPT ![c].pc = "judging", ![c].todo = @ \ {k}, ![c].rule = k,
                          ![c].rows = Window(k, seen[c][k])]
  /\ UNCHANGED <<rule, line, cursors, history, edits, faults>>

\* No answer, or one without a valid verdict: the window stays pending.
JudgeFailed(c) ==
  /\ tick[c].pc = "judging"
  /\ faults < MaxFaults /\ faults' = faults + 1
  /\ wait' = [wait EXCEPT ![c][tick[c].rule] = TRUE]
  /\ tick' = [tick EXCEPT ![c] = BackToLoop(@)]
  /\ UNCHANGED <<rule, line, stored, seen, rest, base, calls, history, edits>>

Verdict(c) ==
  LET k == tick[c].rule IN
  /\ tick[c].pc = "judging"
  /\ wait' = [wait EXCEPT ![c][k] = FALSE]
  /\ judged' = [judged EXCEPT ![k] = @ \cup tick[c].rows]
  /\ \E fired \in BOOLEAN :
       /\ tick[c].rows \cap Alarming # {} => fired
       /\ tick' = [tick EXCEPT
            ![c].pc = IF fired THEN "dispatch" ELSE "checkpoint",
            ![c].targets = IF fired THEN Targets ELSE {}]
  /\ UNCHANGED <<rule, line, stored, seen, rest, base, calls, alerted, edits, faults>>

BugFirstTarget(c) ==
  /\ tick[c].pc = "dispatch"
  /\ \E t \in tick[c].targets :
       /\ alerted' = [alerted EXCEPT ![tick[c].rule][t] = @ \cup tick[c].rows]
       /\ tick' = [tick EXCEPT ![c].targets = {}, ![c].pc = "checkpoint"]
  /\ UNCHANGED <<rule, line, cursors, calls, judged, edits, faults>>

\* The coordinator handles the firing for one target.
Dispatch(c) ==
  LET k == tick[c].rule IN
  /\ tick[c].pc = "dispatch"
  /\ \E t \in tick[c].targets :
       /\ alerted' = [alerted EXCEPT ![k][t] = @ \cup tick[c].rows]
       /\ tick' = [tick EXCEPT ![c].targets = @ \ {t},
            ![c].pc = IF tick[c].targets = {t} THEN "checkpoint" ELSE @]
  /\ UNCHANGED <<rule, line, cursors, calls, judged, edits, faults>>

BugCountAsId(c) == Cardinality(tick[c].rows)
BugOldCursor(c) == seen[c][tick[c].rule]

\* The last id of the window.
Acknowledged(c) == Top(tick[c].rows)

\* The checkpoint is written, whatever it was before, and then the cursor in
\* memory.  Without the row, of a deleted rule, the tick fails.
Checkpoint(c) ==
  LET k == tick[c].rule IN
  /\ tick[c].pc = "checkpoint"
  /\ stored[k] # None
  /\ stored' = [stored EXCEPT ![k] = Acknowledged(c)]
  /\ seen' = [seen EXCEPT ![c][k] = Acknowledged(c)]
  /\ rest' = [rest EXCEPT ![c][k] = "short"]
  /\ tick' = [tick EXCEPT ![c] = BackToLoop(@)]
  /\ UNCHANGED <<rule, line, wait, calls, base, history, edits, faults>>

\* The UPDATE commits and its answer is lost.
CheckpointUnanswered(c) ==
  LET k == tick[c].rule IN
  /\ tick[c].pc = "checkpoint"
  /\ stored[k] # None
  /\ faults < MaxFaults /\ faults' = faults + 1
  /\ stored' = [stored EXCEPT ![k] = Acknowledged(c)]
  /\ tick' = [tick EXCEPT ![c] = IdleTick]
  /\ UNCHANGED <<rule, line, seen, rest, wait, calls, base, history, edits>>

\* An exception ends the tick and the loop goes on: a rule deleted under the
\* tick, or an error of the database in any statement or in a dispatch.
TickFailed(c) ==
  /\ tick[c].pc # "idle"
  /\ \/ /\ tick[c].pc \in {"insert", "checkpoint"}
        /\ rule[tick[c].rule].state = "deleted"
        /\ UNCHANGED faults
     \/ faults < MaxFaults /\ faults' = faults + 1
  /\ tick' = [tick EXCEPT ![c] = IdleTick]
  /\ UNCHANGED <<rule, line, cursors, calls, history, edits>>

-----------------------------------------------------------------------------
(* The environment: crashes, operators and time.                           *)

Crash(c) ==
  /\ faults < MaxFaults /\ faults' = faults + 1
  /\ tick' = [tick EXCEPT ![c] = IdleTick]
  /\ seen' = [seen EXCEPT ![c] = [k \in Rules |-> None]]
  /\ rest' = [rest EXCEPT ![c] = [k \in Rules |-> "short"]]
  /\ wait' = [wait EXCEPT ![c] = [k \in Rules |-> FALSE]]
  /\ calls' = [calls EXCEPT ![c] = 0]
  /\ line' = RolledBack(c)
  /\ UNCHANGED <<rule, stored, base, history, edits>>

SetRule(k, state) ==
  /\ edits < MaxEdits /\ edits' = edits + 1
  /\ rule[k].state \notin {"deleted", state}
  /\ rule' = [rule EXCEPT ![k].state = state]
  /\ stored' = IF state = "deleted" THEN [stored EXCEPT ![k] = None] ELSE stored
  /\ UNCHANGED <<line, seen, rest, wait, calls, tick, base, history, faults>>

\* Time since the last evaluation.
Rest(c, k) ==
  /\ seen[c][k] # None /\ rest[c][k] # "window"
  /\ rest' = [rest EXCEPT ![c][k] = IF @ = "short" THEN "floor" ELSE "window"]
  /\ UNCHANGED <<rule, line, stored, seen, wait, calls, tick, base, history, edits, faults>>

\* The backoff ends.
BackoffEnds(c, k) ==
  /\ wait[c][k]
  /\ wait' = [wait EXCEPT ![c][k] = FALSE]
  /\ UNCHANGED <<rule, line, stored, seen, rest, calls, tick, base, history, edits, faults>>

CallExpires(c) ==
  /\ calls[c] > 0
  /\ calls' = [calls EXCEPT ![c] = @ - 1]
  /\ UNCHANGED <<rule, line, cursors, tick, history, edits, faults>>

-----------------------------------------------------------------------------
Flusher(c) == Insert(c) \/ Commit(c) \/ FlushFailed(c)

\* The steps that a running tick takes by itself.
Evaluate(c) ==
  \/ EndTick(c) \/ InsertBaseline(c) \/ Verdict(c) \/ Dispatch(c) \/ Checkpoint(c)
  \/ \E k \in Rules :
       LoadCursor(c, k) \/ ChooseBaseline(c, k) \/ Skip(c, k) \/ Break(c, k) \/ Ask(c, k)

Failures(c) ==
  JudgeFailed(c) \/ CheckpointUnanswered(c) \/ TickFailed(c) \/ Crash(c)

Clock(c) ==
  \/ CallExpires(c)
  \/ \E k \in Rules : Rest(c, k) \/ BackoffEnds(c, k)

Next ==
  \/ \E c \in Writers : Flusher(c)
  \/ \E c \in Collectors : BeginTick(c) \/ Evaluate(c) \/ Failures(c) \/ Clock(c)
  \/ \E k \in Rules, state \in {"enabled", "disabled", "deleted"} : SetRule(k, state)

Spec == Init /\ [][Next]_vars

\* The loop ticks, a tick runs on, batches commit and time passes.  Failures
\* are bounded by MaxFaults: the model answers in the end.
Fairness ==
  /\ \A c \in Writers : WF_vars(Commit(c))
  /\ \A c \in Collectors :
       /\ WF_vars(BeginTick(c)) /\ WF_vars(Evaluate(c))
       /\ WF_vars(TickFailed(c)) /\ WF_vars(CallExpires(c))
       /\ \A k \in Rules : /\ WF_vars(Rest(c, k)) /\ WF_vars(BackoffEnds(c, k))

FairSpec == Spec /\ Fairness

-----------------------------------------------------------------------------
(* Properties.                                                             *)

\* Every variable has its type.
JudgeTypeOK ==
  /\ rule \in [Rules -> [state : {"enabled", "disabled", "deleted"}, traces : Histories]]
  /\ line \in [Lines -> {"none", "committed", "lost"} \cup Writers]
  /\ stored \in [Rules -> Cursors \cup {None}]
  /\ seen \in [Collectors -> [Rules -> Cursors \cup {None}]]
  /\ rest \in [Collectors -> [Rules -> {"short", "floor", "window"}]]
  /\ wait \in [Collectors -> [Rules -> BOOLEAN]]
  /\ calls \in [Collectors -> 0 .. MaxPerMin]
  /\ tick \in [Collectors -> Tick]
  /\ base \in [Rules -> Cursors]
  /\ judged \in [Rules -> SUBSET Lines]
  /\ alerted \in [Rules -> [Targets -> SUBSET Lines]]
  /\ edits \in 0 .. MaxEdits
  /\ faults \in 0 .. MaxFaults

\* Lines a rule has to judge: those after the baseline of a new rule; after
\* an upgrade those of windows that failed since the last success, and those
\* after all windows (judge.py:208-216).
Owed(k) ==
  LET traces == rule[k].traces
      good(n) == traces[n].ok
  IN  IF traces = <<>> THEN {i \in Scope[k] : i > base[k]}
      ELSE {i \in Scope[k] :
             \/ \A n \in DOMAIN traces : i > traces[n].to
             \/ \E n \in DOMAIN traces :
                  /\ traces[n].from < i /\ i <= traces[n].to
                  /\ \A m \in n .. Len(traces) : ~good(m)}

\* The checkpoint has passed no line that a rule owes a verdict: windows are
\* judged at least once, across failures and restarts (judge.py:15-17,
\* README.md:66-68).
NoneSkipped ==
  \A k \in Rules : stored[k] # None =>
    \A i \in Committed \cap Owed(k) : i <= stored[k] => i \in judged[k]

\* An alarming line behind the checkpoint was dispatched to every target of
\* its rule (schema.sql:303-305).
AlarmsDelivered ==
  \A k \in Rules, t \in Targets : stored[k] # None =>
    \A i \in Committed \cap Owed(k) \cap Alarming :
      i <= stored[k] => i \in alerted[k][t]

\* What a judge holds in memory skips nothing either: every line before its
\* cursor has been judged, by it or by another, also after a checkpoint whose
\* answer was lost (judge.py:269-280).
CursorsSafe ==
  \A c \in Collectors, k \in Rules : seen[c][k] # None =>
    \A i \in Committed \cap Owed(k) : i <= seen[c][k] => i \in judged[k]

\* A judge that has the rules to itself asks about a line a second time only
\* if something failed in between (judge.py:282-357).
NoRepeat ==
  [][\A c \in Collectors :
       /\ tick[c].pc = "judging" /\ judged' # judged
       /\ tick'[c].pc \in {"dispatch", "checkpoint"}
       /\ faults = 0
       => tick[c].rows \cap judged[tick[c].rule] = {}]_vars

\* The checkpoint of a rule only moves forward (schema.sql:302-305).
CheckpointAdvances ==
  [][\A k \in Rules : stored[k] # None /\ stored'[k] # None =>
       stored'[k] >= stored[k]]_vars

\* A committed line that an enabled rule owes a verdict gets one in the end
\* (judge.py:308-311).
EventuallyJudged ==
  \A k \in Rules, i \in Lines :
    (stored[k] # None /\ i \in Committed \cap Owed(k))
      ~> (i \in judged[k] \/ rule[k].state # "enabled")
=============================================================================
