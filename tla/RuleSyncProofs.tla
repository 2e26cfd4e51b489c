--------------------------- MODULE RuleSyncProofs ---------------------------
(***************************************************************************)
(* Proofs about RuleSync for every number of users, rules, targets, calls  *)
(* and faults: types, who may have bound what, and that the collector's    *)
(* copy of the rules differs from the tables for a known reason only.      *)
(***************************************************************************)
EXTENDS RuleSync, SequenceTheorems, TLAPS

-----------------------------------------------------------------------------
(* The inductive invariant.                                                *)

RuleRow == [live : BOOLEAN, owner : Users, on : BOOLEAN, pattern : Nat, stop : BOOLEAN]
TargetRow == [live : BOOLEAN, owner : Users, config : 0 .. 1]

Register == [op : {"register"}, todo : SUBSET Targets, rule : 0 .. MaxRules, stop : BOOLEAN]
OfRule == [op : {"pattern", "stop", "on", "delete"}, rule : Rules]
OfBoth == [op : {"bind", "unbind"}, rule : Rules, target : Targets]
OfTarget == [op : {"config", "deleteTarget"}, target : Targets]
Call == {Idle} \cup Register \cup OfRule \cup OfBoth \cup OfTarget

TypedTables ==
  /\ rules \in Seq(RuleRow) /\ Len(rules) <= MaxRules
  /\ targets \in Seq(TargetRow) /\ Len(targets) <= MaxTargets
  /\ binds \in SUBSET (Rules \X Targets \X Users)

JoinedRow == [rule : Rules, target : [id : Targets, config : 0 .. 1]]

TypedListener ==
  /\ link \in BOOLEAN /\ waiting \in Nat /\ stale \in BOOLEAN
  /\ reload \in [pc : {"idle", "rules", "binds", "compile"}, rows : Seq(RuleRow),
                 joined : SUBSET JoinedRow]
  /\ Len(reload.rows) <= MaxRules
  /\ memory \in SUBSET Compiled

Typed ==
  /\ TypedTables /\ TypedListener
  /\ call \in [Users -> Call]
  /\ calls \in 0 .. MaxCalls /\ faults \in 0 .. MaxFaults

\* What a call found out before its await stays true, whatever others do in
\* the meantime: a row is never reused and never changes hands.
Entitled(u) ==
  /\ call[u].op = "register" =>
       /\ \A t \in call[u].todo : t \in DOMAIN targets /\ Owns(u, targets[t])
       /\ call[u].rule # 0 =>
            call[u].rule \in DOMAIN rules /\ rules[call[u].rule].owner = u
  /\ call[u].op = "bind" =>
       /\ call[u].rule \in DOMAIN rules /\ Owns(u, rules[call[u].rule])
       /\ call[u].target \in DOMAIN targets /\ Owns(u, targets[call[u].target])

\* A listener that has nothing to read has seen every edit, or is about to.
Caught ==
  link /\ waiting = 0 =>
    /\ reload.pc \in {"binds", "compile"} => reload.rows = rules
    /\ reload.pc = "compile" => reload.joined = Joined
    /\ reload.pc = "idle" /\ ~stale => InSync

\* A target is bound with the rule's newest pattern, and was with no newer one.
Ranked ==
  /\ held \in [Rules \X Targets -> Nat]
  /\ \A r \in Rules, t \in Targets :
       /\ r \in DOMAIN rules => held[<<r, t>>] <= rules[r].pattern
       /\ r \notin DOMAIN rules => held[<<r, t>>] = 0
       /\ t \in Bound(r) => rules[r].pattern <= held[<<r, t>>]

\* What a reload has read of the rules is no newer than the bindings it joins.
Torn ==
  /\ reload.pc = "binds" => \A r \in DOMAIN reload.rows :
       r \in DOMAIN rules /\ reload.rows[r].pattern <= rules[r].pattern
  /\ reload.pc = "compile" => \A j \in reload.joined : j.rule \in DOMAIN reload.rows =>
       reload.rows[j.rule].pattern <= held[<<j.rule, j.target.id>>]
  /\ UnboundBeforeEdit

Edited ==
  /\ Typed
  /\ \A u \in Users : Entitled(u)
  /\ BoundByOwner
  /\ Caught
  /\ Ranked
  /\ Torn

-----------------------------------------------------------------------------
(* Rows.                                                                   *)

LEMMA RowChanged ==
  ASSUME NEW S, NEW s \in Seq(S), NEW i \in DOMAIN s, NEW row \in S
  PROVE  /\ [s EXCEPT ![i] = row] \in Seq(S)
         /\ Len([s EXCEPT ![i] = row]) = Len(s)
         /\ DOMAIN [s EXCEPT ![i] = row] = DOMAIN s
         /\ [s EXCEPT ![i] = row][i] = row
         /\ \A j \in DOMAIN s \ {i} : [s EXCEPT ![i] = row][j] = s[j]
<1>1. i \in 1 .. Len(s)
  OBVIOUS
<1> QED
  BY <1>1, ExceptSeq

LEMMA PatternNat ==
  ASSUME NEW s \in Seq(RuleRow), NEW r \in DOMAIN s
  PROVE  s[r].pattern \in Nat
<1>1. s[r] \in RuleRow
  OBVIOUS
<1> QED
  BY <1>1 DEF RuleRow

LEMMA RowAdded ==
  ASSUME NEW S, NEW s \in Seq(S), NEW row \in S
  PROVE  /\ Append(s, row) \in Seq(S)
         /\ Len(Append(s, row)) = Len(s) + 1
         /\ Len(s) + 1 \in DOMAIN Append(s, row)
         /\ Append(s, row)[Len(s) + 1] = row
         /\ \A j \in DOMAIN s : j \in DOMAIN Append(s, row) /\ Append(s, row)[j] = s[j]
BY AppendProperties

\* What no statement of a tool undoes: rows stay where they are and whose they are.
Kept ==
  /\ \A r \in DOMAIN rules : r \in DOMAIN rules' /\ rules'[r].owner = rules[r].owner
  /\ \A t \in DOMAIN targets : t \in DOMAIN targets' /\ targets'[t].owner = targets[t].owner

\* Patterns only grow newer.
Later ==
  /\ \A r \in Rules, t \in Targets : held[<<r, t>>] <= held'[<<r, t>>]
  /\ \A r \in DOMAIN rules : rules[r].pattern <= rules'[r].pattern

\* A binding that BoundByOwner allows.
Proper(b) ==
  /\ LiveRule(b[1]) /\ LiveTarget(b[2])
  /\ b[3] \in Admins \/ (rules[b[1]].owner = b[3] /\ targets[b[2]].owner = b[3])

-----------------------------------------------------------------------------
(* The tools.                                                              *)

\* What a statement of a tool does to the tables, and what the listener hears.
Statement ==
  /\ TypedTables' /\ Kept
  /\ \A b \in binds' : Proper(b)'
  /\ Ranked' /\ Later
  /\ Notified("any") \/ UNCHANGED <<tables, listener>>
  /\ calls' \in 0 .. MaxCalls /\ faults' \in 0 .. MaxFaults

\* What a tool does to the calls: its own only.
Caller(u) ==
  /\ call' \in [Users -> Call] /\ Entitled(u)'
  /\ \A v \in Users \ {u} : call'[v] = call[v]

LEMMA RulesTyped ==
  ASSUME TypedTables
  PROVE  /\ DOMAIN rules \subseteq Rules /\ DOMAIN targets \subseteq Targets
         /\ \A r \in DOMAIN rules : rules[r] \in RuleRow
         /\ \A t \in DOMAIN targets : targets[t] \in TargetRow
BY RuleSyncAssumption DEF TypedTables, Rules, Targets

\* A statement that neither binds a target nor changes a pattern.
LEMMA RanksKept ==
  ASSUME Edited, UNCHANGED held, binds' \subseteq binds, DOMAIN rules' = DOMAIN rules,
         \A r \in DOMAIN rules : rules'[r].pattern = rules[r].pattern
  PROVE  Ranked' /\ Later
<1>1. \A r \in DOMAIN rules : rules[r].pattern \in Nat
  BY RulesTyped DEF Edited, Typed, RuleRow
<1>2. \A r \in Rules : Bound(r)' \subseteq Bound(r)
  BY DEF Bound
<1>3. ASSUME NEW r \in Rules, NEW t \in Bound(r)
      PROVE  r \in DOMAIN rules
  BY <1>3 DEF Bound, Edited, BoundByOwner, LiveRule
<1> QED
  BY <1>1, <1>2, <1>3 DEF Edited, Ranked, Later

LEMMA BeginEffect ==
  ASSUME Edited, NEW u \in Users, NEW c \in Call, Begin(u, c)
  PROVE  /\ Statement /\ call' \in [Users -> Call] /\ call'[u] = c
         /\ \A v \in Users \ {u} : call'[v] = call[v]
         /\ UNCHANGED tables
<1>1. UNCHANGED <<rules, targets, binds, held, listener>> /\ UNCHANGED tables
  BY DEF Begin, tables
<1>2. TypedTables' /\ Kept /\ \A b \in binds' : Proper(b)'
  BY <1>1 DEF Edited, Typed, TypedTables, Kept, BoundByOwner, Proper, LiveRule, LiveTarget
<1>3. calls' \in 0 .. MaxCalls /\ faults' \in 0 .. MaxFaults
  BY RuleSyncAssumption DEF Begin, Edited, Typed
<1>4. call \in [Users -> Call] /\ call' = [call EXCEPT ![u] = c]
  BY DEF Begin, Edited, Typed
<1> QED
  BY <1>1, <1>2, <1>3, <1>4, RanksKept DEF Statement

LEMMA CheckEffect ==
  ASSUME Edited, NEW u \in Users,
         CheckRegister(u) \/ CheckRule(u) \/ CheckBind(u) \/ CheckTarget(u)
  PROVE  Statement /\ Caller(u)
<1>1. ASSUME NEW c \in Call, Begin(u, c),
             c.op = "register" =>
               c.rule = 0 /\ \A t \in c.todo : LiveTarget(t) /\ Owns(u, targets[t]),
             c.op = "bind" => MayBind(u, c.rule, c.target)
      PROVE  Statement /\ Caller(u)
  <2>1. UNCHANGED <<rules, targets>> /\ call'[u] = c
    BY <1>1, BeginEffect DEF tables
  <2>2. Entitled(u)'
    BY <1>1, <2>1 DEF Entitled, MayBind, LiveRule, LiveTarget, Owns
  <2> QED
    BY <1>1, <2>2, BeginEffect DEF Caller
<1>2. ASSUME NEW ts \in SUBSET {t \in Targets : LiveTarget(t) /\ Owns(u, targets[t])},
             NEW stop \in BOOLEAN
      PROVE  [op |-> "register", todo |-> ts, rule |-> 0, stop |-> stop] \in Call
  BY RuleSyncAssumption DEF Call, Register
<1>3. CASE CheckRegister(u)
  BY <1>1, <1>2, <1>3 DEF CheckRegister
<1>4. CASE CheckRule(u)
  <2>1. ASSUME NEW r \in Rules, NEW op \in {"pattern", "stop", "on", "delete"}
        PROVE  [op |-> op, rule |-> r] \in Call
    BY DEF Call, OfRule
  <2>2. ASSUME NEW r \in Rules, NEW t \in Targets
        PROVE  [op |-> "unbind", rule |-> r, target |-> t] \in Call
    BY DEF Call, OfBoth
  <2> QED
    BY <1>1, <1>4, <2>1, <2>2 DEF CheckRule
<1>5. CASE CheckBind(u)
  <2>1. ASSUME NEW r \in Rules, NEW t \in Targets
        PROVE  [op |-> "bind", rule |-> r, target |-> t] \in Call
    BY DEF Call, OfBoth
  <2> QED
    BY <1>1, <1>5, <2>1 DEF CheckBind
<1>6. CASE CheckTarget(u)
  <2>1. ASSUME NEW t \in Targets, NEW op \in {"config", "deleteTarget"}
        PROVE  [op |-> op, target |-> t] \in Call
    BY DEF Call, OfTarget
  <2> QED
    BY <1>1, <1>6, <2>1 DEF CheckTarget
<1> QED
  BY <1>3, <1>4, <1>5, <1>6

LEMMA ReturnEffect ==
  ASSUME Edited, NEW u \in Users, call' = [call EXCEPT ![u] = Idle]
  PROVE  Caller(u)
<1>1. call \in [Users -> Call] /\ Idle \in Call
  BY DEF Edited, Typed, Call
<1>2. call' \in [Users -> Call] /\ call'[u] = Idle /\ \A v \in Users \ {u} : call'[v] = call[v]
  BY <1>1
<1> QED
  BY <1>2 DEF Caller, Entitled, Idle

\* The number of calls and that of faults, by whatever leaves them alone.
LEMMA CountsKept ==
  ASSUME Edited, UNCHANGED <<calls, faults>>
  PROVE  calls' \in 0 .. MaxCalls /\ faults' \in 0 .. MaxFaults
BY DEF Edited, Typed

\* A statement that changes no row of rules and targets.
LEMMA BindsOnly ==
  ASSUME Edited, UNCHANGED <<rules, targets>>,
         binds' \in SUBSET (Rules \X Targets \X Users)
  PROVE  /\ TypedTables' /\ Kept
         /\ \A b \in binds : Proper(b)'
BY DEF Edited, Typed, TypedTables, Kept, BoundByOwner, Proper, LiveRule, LiveTarget

\* A statement that changes one row of the rules, but neither owner nor number.
LEMMA RuleOnly ==
  ASSUME Edited, NEW r \in DOMAIN rules, NEW row \in RuleRow, row.owner = rules[r].owner,
         rules' = [rules EXCEPT ![r] = row], UNCHANGED targets,
         binds' \subseteq binds, row.live \/ \A b \in binds' : b[1] # r,
         rules[r].live
  PROVE  /\ TypedTables' /\ Kept /\ \A b \in binds' : Proper(b)'
         /\ DOMAIN rules' = DOMAIN rules /\ rules'[r] = row
         /\ \A q \in DOMAIN rules \ {r} : rules'[q] = rules[q]
<1>1. /\ rules' \in Seq(RuleRow) /\ Len(rules') = Len(rules)
      /\ DOMAIN rules' = DOMAIN rules /\ rules'[r] = row
      /\ \A q \in DOMAIN rules \ {r} : rules'[q] = rules[q]
  BY RowChanged DEF Edited, Typed, TypedTables
<1>2. TypedTables'
  BY <1>1 DEF Edited, Typed, TypedTables
<1>3. Kept
  BY <1>1 DEF Kept
<1>4. \A b \in binds' : Proper(b)'
  BY <1>1 DEF Edited, BoundByOwner, Proper, LiveRule, LiveTarget
<1> QED
  BY <1>1, <1>2, <1>3, <1>4

\* The same of the targets.
LEMMA TargetOnly ==
  ASSUME Edited, NEW t \in DOMAIN targets, NEW row \in TargetRow, row.owner = targets[t].owner,
         targets' = [targets EXCEPT ![t] = row], UNCHANGED rules,
         binds' \subseteq binds, row.live \/ \A b \in binds' : b[2] # t,
         targets[t].live
  PROVE  TypedTables' /\ Kept /\ \A b \in binds' : Proper(b)'
<1>1. /\ targets' \in Seq(TargetRow) /\ Len(targets') = Len(targets)
      /\ DOMAIN targets' = DOMAIN targets /\ targets'[t] = row
      /\ \A q \in DOMAIN targets \ {t} : targets'[q] = targets[q]
  BY RowChanged DEF Edited, Typed, TypedTables
<1>2. TypedTables'
  BY <1>1 DEF Edited, Typed, TypedTables
<1>3. Kept
  BY <1>1 DEF Kept
<1>4. \A b \in binds' : Proper(b)'
  BY <1>1 DEF Edited, BoundByOwner, Proper, LiveRule, LiveTarget
<1> QED
  BY <1>2, <1>3, <1>4

LEMMA NoStatement ==
  ASSUME Edited, UNCHANGED tables, UNCHANGED listener, UNCHANGED <<calls, faults>>
  PROVE  Statement
<1>1. UNCHANGED <<rules, targets, binds, held>>
  BY DEF tables
<1> QED
  BY <1>1, BindsOnly, RanksKept, CountsKept DEF Statement, Edited, Typed, TypedTables

\* A new pattern is one more for every target that is bound.
LEMMA PatternRanks ==
  ASSUME Edited, NEW r \in DOMAIN rules, UNCHANGED binds, DOMAIN rules' = DOMAIN rules,
         rules'[r].pattern = rules[r].pattern + 1,
         \A q \in DOMAIN rules \ {r} : rules'[q] = rules[q],
         held' = [p \in Rules \X Targets |->
           IF p[1] = r /\ p[2] \in Bound(r) THEN rules[r].pattern + 1 ELSE held[p]]
  PROVE  Ranked' /\ Later
<1>1. /\ \A q \in DOMAIN rules : q \in Rules /\ rules[q].pattern \in Nat
      /\ held \in [Rules \X Targets -> Nat]
  BY RulesTyped DEF Edited, Typed, Ranked, RuleRow
<1>2. \A q \in Rules : Bound(q)' = Bound(q)
  BY DEF Bound
<1>3. held' \in [Rules \X Targets -> Nat]
  BY <1>1
<1>4. ASSUME NEW q \in Rules, NEW t \in Targets
      PROVE  /\ held[<<q, t>>] <= held'[<<q, t>>]
             /\ q \in DOMAIN rules' => held'[<<q, t>>] <= rules'[q].pattern
             /\ q \notin DOMAIN rules' => held'[<<q, t>>] = 0
             /\ t \in Bound(q)' => rules'[q].pattern <= held'[<<q, t>>]
  <2>1. held'[<<q, t>>] = IF q = r /\ t \in Bound(r) THEN rules[r].pattern + 1 ELSE held[<<q, t>>]
    OBVIOUS
  <2>2. /\ q \in DOMAIN rules => held[<<q, t>>] <= rules[q].pattern
        /\ q \notin DOMAIN rules => held[<<q, t>>] = 0
        /\ t \in Bound(q) => rules[q].pattern <= held[<<q, t>>]
        /\ held[<<q, t>>] \in Nat
    BY <1>1 DEF Edited, Ranked
  <2>3. t \in Bound(q) => q \in DOMAIN rules
    BY DEF Bound, Edited, BoundByOwner, LiveRule
  <2> QED
    BY <1>1, <1>2, <2>1, <2>2, <2>3
<1>5. \A q \in DOMAIN rules : rules[q].pattern <= rules'[q].pattern
  BY <1>1
<1> QED
  BY <1>3, <1>4, <1>5 DEF Ranked, Later

\* A target that is bound is bound with the newest pattern.
LEMMA BindRanks ==
  ASSUME Edited, NEW u \in Users, NEW r \in DOMAIN rules, NEW t \in Targets, UNCHANGED rules,
         binds' \subseteq binds \cup {<<r, t, u>>},
         held' = [held EXCEPT ![<<r, t>>] = rules[r].pattern]
  PROVE  Ranked' /\ Later
<1>1. /\ \A q \in DOMAIN rules : q \in Rules /\ rules[q].pattern \in Nat
      /\ held \in [Rules \X Targets -> Nat]
  BY RulesTyped DEF Edited, Typed, Ranked, RuleRow
<1>2. held' \in [Rules \X Targets -> Nat]
  BY <1>1
<1>3. ASSUME NEW q \in Rules, NEW s \in Targets
      PROVE  /\ held[<<q, s>>] <= held'[<<q, s>>]
             /\ q \in DOMAIN rules' => held'[<<q, s>>] <= rules'[q].pattern
             /\ q \notin DOMAIN rules' => held'[<<q, s>>] = 0
             /\ s \in Bound(q)' => rules'[q].pattern <= held'[<<q, s>>]
  <2>1. held'[<<q, s>>] = IF q = r /\ s = t THEN rules[r].pattern ELSE held[<<q, s>>]
    BY <1>1
  <2>2. /\ q \in DOMAIN rules => held[<<q, s>>] <= rules[q].pattern
        /\ q \notin DOMAIN rules => held[<<q, s>>] = 0
        /\ s \in Bound(q) => rules[q].pattern <= held[<<q, s>>]
        /\ held[<<q, s>>] \in Nat
    BY <1>1 DEF Edited, Ranked
  <2>3. s \in Bound(q)' => s \in Bound(q) \/ (q = r /\ s = t)
    BY DEF Bound
  <2> QED
    BY <1>1, <2>1, <2>2, <2>3
<1> QED
  BY <1>1, <1>2, <1>3 DEF Ranked, Later

\* update_alert, disable_alert and delete_alert: the row is still there, or
\* nothing happens.
LEMMA RuleTool ==
  ASSUME Edited, NEW u \in Users, UpdateRule(u) \/ DisableRule(u) \/ DeleteRule(u)
  PROVE  Statement /\ Caller(u)
<1> DEFINE r == call[u].rule
<1>1. /\ Return(u) /\ UNCHANGED targets /\ Caller(u)
      /\ calls' \in 0 .. MaxCalls /\ faults' \in 0 .. MaxFaults
  BY ReturnEffect, CountsKept DEF UpdateRule, DisableRule, DeleteRule, Return, Updated
<1>2. CASE ~LiveRule(r)
  <2>1. UNCHANGED <<rules, targets, binds, listener, calls, faults>>
    BY <1>2 DEF UpdateRule, DisableRule, DeleteRule, Return, Updated
  <2>2. UNCHANGED held
    BY <1>2 DEF UpdateRule, DisableRule, DeleteRule, Edited, Ranked
  <2> QED
    BY <1>1, <2>1, <2>2, NoStatement DEF tables
<1>3. ASSUME NEW row \in RuleRow, row.owner = rules[r].owner, LiveRule(r),
             rules' = [rules EXCEPT ![r] = row],
             row.pattern = rules[r].pattern, UNCHANGED held,
             binds' \subseteq binds, row.live \/ \A b \in binds' : b[1] # r,
             Notified("alert_rules")
      PROVE  Statement
  <2>1. /\ TypedTables' /\ Kept /\ \A b \in binds' : Proper(b)'
        /\ DOMAIN rules' = DOMAIN rules
        /\ \A q \in DOMAIN rules : rules'[q].pattern = rules[q].pattern
    BY <1>1, <1>3, RuleOnly DEF LiveRule
  <2> QED
    BY <1>1, <1>3, <2>1, RanksKept DEF Statement, Notified
<1>4. ASSUME LiveRule(r)
      PROVE  rules[r] \in RuleRow
  BY <1>4, RulesTyped DEF LiveRule, Edited, Typed
<1>5. CASE LiveRule(r) /\ call[u].op = "pattern"
  <2> DEFINE row == [rules[r] EXCEPT !.pattern = rules[r].pattern + 1]
  <2>1. row \in RuleRow /\ row.owner = rules[r].owner /\ row.live /\ row.pattern = rules[r].pattern + 1
    BY <1>4, <1>5 DEF RuleRow, LiveRule
  <2>2. /\ rules' = [rules EXCEPT ![r] = row] /\ Notified("alert_rules") /\ UNCHANGED binds
        /\ held' = [p \in Rules \X Targets |->
             IF p[1] = r /\ p[2] \in Bound(r) THEN rules[r].pattern + 1 ELSE held[p]]
    BY <1>5 DEF UpdateRule, DisableRule, DeleteRule, Updated
  <2> HIDE DEF row
  <2>3. /\ TypedTables' /\ Kept /\ \A b \in binds' : Proper(b)'
        /\ DOMAIN rules' = DOMAIN rules /\ rules'[r] = row /\ r \in DOMAIN rules
        /\ \A q \in DOMAIN rules \ {r} : rules'[q] = rules[q]
    BY <1>1, <1>5, <2>1, <2>2, RuleOnly DEF LiveRule
  <2>4. Ranked' /\ Later
    BY <2>1, <2>2, <2>3, PatternRanks
  <2> QED
    BY <1>1, <2>2, <2>3, <2>4 DEF Statement, Notified
<1>6. CASE LiveRule(r) /\ call[u].op = "stop"
  <2> DEFINE row == [rules[r] EXCEPT !.stop = ~rules[r].stop]
  <2>1. row \in RuleRow /\ row.owner = rules[r].owner /\ row.live /\ row.pattern = rules[r].pattern
    BY <1>4, <1>6 DEF RuleRow, LiveRule
  <2>2. rules' = [rules EXCEPT ![r] = row] /\ Notified("alert_rules") /\ UNCHANGED <<binds, held>>
    BY <1>6 DEF UpdateRule, DisableRule, DeleteRule, Updated
  <2> QED
    BY <1>1, <1>3, <1>6, <2>1, <2>2
<1>7. CASE LiveRule(r) /\ call[u].op = "on"
  <2> DEFINE row == [rules[r] EXCEPT !.on = ~rules[r].on]
  <2>1. row \in RuleRow /\ row.owner = rules[r].owner /\ row.live /\ row.pattern = rules[r].pattern
    BY <1>4, <1>7 DEF RuleRow, LiveRule
  <2>2. rules' = [rules EXCEPT ![r] = row] /\ Notified("alert_rules") /\ UNCHANGED <<binds, held>>
    BY <1>7 DEF UpdateRule, DisableRule, DeleteRule, Updated
  <2> QED
    BY <1>1, <1>3, <1>7, <2>1, <2>2
<1>8. CASE LiveRule(r) /\ call[u].op = "delete"
  <2> DEFINE row == [rules[r] EXCEPT !.live = FALSE]
  <2>1. row \in RuleRow /\ row.owner = rules[r].owner /\ row.pattern = rules[r].pattern
    BY <1>4, <1>8 DEF RuleRow
  <2>2. /\ rules' = [rules EXCEPT ![r] = row] /\ Notified("alert_rules") /\ UNCHANGED held
        /\ binds' \subseteq binds /\ \A b \in binds' : b[1] # r
    BY <1>8 DEF UpdateRule, DisableRule, DeleteRule, Updated
  <2> QED
    BY <1>1, <1>3, <1>8, <2>1, <2>2
<1> QED
  BY <1>1, <1>2, <1>5, <1>6, <1>7, <1>8 DEF UpdateRule, DisableRule, DeleteRule

\* update_target and delete_target.
LEMMA TargetTool ==
  ASSUME Edited, NEW u \in Users, UpdateTarget(u) \/ DeleteTarget(u)
  PROVE  Statement /\ Caller(u)
<1> DEFINE t == call[u].target
<1>1. /\ Return(u) /\ UNCHANGED <<rules, held>> /\ Caller(u)
      /\ calls' \in 0 .. MaxCalls /\ faults' \in 0 .. MaxFaults
  BY ReturnEffect, CountsKept DEF UpdateTarget, DeleteTarget, Return
<1>2. CASE ~LiveTarget(t)
  <2>1. UNCHANGED <<rules, targets, binds, held, listener, calls, faults>>
    BY <1>2 DEF UpdateTarget, DeleteTarget, Return
  <2> QED
    BY <1>1, <2>1, NoStatement DEF tables
<1>3. ASSUME NEW row \in TargetRow, row.owner = targets[t].owner, LiveTarget(t),
             targets' = [targets EXCEPT ![t] = row],
             binds' \subseteq binds, row.live \/ \A b \in binds' : b[2] # t,
             Notified("targets")
      PROVE  Statement
  <2>1. TypedTables' /\ Kept /\ \A b \in binds' : Proper(b)'
    BY <1>1, <1>3, TargetOnly DEF LiveTarget
  <2> QED
    BY <1>1, <1>3, <2>1, RanksKept DEF Statement, Notified
<1>4. ASSUME LiveTarget(t)
      PROVE  targets[t] \in TargetRow
  BY <1>4, RulesTyped DEF LiveTarget, Edited, Typed
<1>5. CASE LiveTarget(t) /\ UpdateTarget(u)
  <2> DEFINE row == [targets[t] EXCEPT !.config = 1 - targets[t].config]
  <2>1. row \in TargetRow /\ row.owner = targets[t].owner /\ row.live
    BY <1>4, <1>5 DEF TargetRow, LiveTarget
  <2>2. targets' = [targets EXCEPT ![t] = row] /\ Notified("targets") /\ UNCHANGED binds
    BY <1>5 DEF UpdateTarget
  <2> QED
    BY <1>1, <1>3, <1>5, <2>1, <2>2
<1>6. CASE LiveTarget(t) /\ DeleteTarget(u)
  <2> DEFINE row == [targets[t] EXCEPT !.live = FALSE]
  <2>1. row \in TargetRow /\ row.owner = targets[t].owner
    BY <1>4, <1>6 DEF TargetRow
  <2>2. /\ targets' = [targets EXCEPT ![t] = row] /\ Notified("targets")
        /\ binds' \subseteq binds /\ \A b \in binds' : b[2] # t
    BY <1>6 DEF DeleteTarget
  <2> QED
    BY <1>1, <1>3, <1>6, <2>1, <2>2
<1> QED
  BY <1>1, <1>2, <1>5, <1>6

\* A binding that is inserted: the caller owns both rows since before the
\* await, and the foreign keys see to it that they are still there.
LEMMA BindingAdded ==
  ASSUME Edited, NEW u \in Users, NEW r, NEW t,
         LiveRule(r), LiveTarget(t), Owns(u, rules[r]), Owns(u, targets[t]),
         UNCHANGED <<rules, targets>>, binds' \subseteq binds \cup {<<r, t, u>>},
         held' = [held EXCEPT ![<<r, t>>] = rules[r].pattern],
         Notified("rule_targets"), UNCHANGED <<calls, faults>>
  PROVE  Statement
<1>1. r \in Rules /\ t \in Targets
  BY RulesTyped DEF LiveRule, LiveTarget, Edited, Typed
<1>2. binds' \in SUBSET (Rules \X Targets \X Users)
  BY <1>1 DEF Edited, Typed, TypedTables
<1>3. TypedTables' /\ Kept /\ \A b \in binds : Proper(b)'
  BY <1>2, BindsOnly
<1>4. ASSUME NEW b \in binds', b \notin binds
      PROVE  Proper(b)'
  <2>1. b[1] = r /\ b[2] = t /\ b[3] = u
    BY <1>4
  <2> QED
    BY <2>1 DEF Proper, LiveRule, LiveTarget, Owns
<1>5. Ranked' /\ Later
  BY <1>1, BindRanks DEF LiveRule
<1> QED
  BY <1>3, <1>4, <1>5, CountsKept DEF Statement, Notified

\* bind_target and unbind_target.
LEMMA BindTool ==
  ASSUME Edited, NEW u \in Users, Bind(u) \/ Unbind(u)
  PROVE  Statement /\ Caller(u)
<1>1. /\ Return(u) /\ UNCHANGED <<rules, targets>> /\ Caller(u)
      /\ UNCHANGED <<calls, faults>>
  BY ReturnEffect DEF Bind, Unbind, Return
<1>2. CASE UNCHANGED <<binds, held>> /\ UNCHANGED listener
  BY <1>1, <1>2, NoStatement DEF tables
<1>3. CASE binds' \subseteq binds /\ UNCHANGED held /\ Notified("rule_targets")
  <2>1. TypedTables' /\ Kept /\ \A b \in binds : Proper(b)'
    BY <1>1, <1>3, BindsOnly DEF Edited, Typed, TypedTables
  <2> QED
    BY <1>1, <1>3, <2>1, RanksKept, CountsKept DEF Statement, Notified
<1>4. CASE Bind(u)
  <2> DEFINE r == call[u].rule
             t == call[u].target
  <2>1. CASE ~(LiveRule(r) /\ LiveTarget(t))
    BY <1>1, <1>2, <1>4, <2>1 DEF Bind
  <2>2. CASE LiveRule(r) /\ LiveTarget(t)
    <3>1. /\ binds' \subseteq binds \cup {<<r, t, u>>} /\ Notified("rule_targets")
          /\ held' = [held EXCEPT ![<<r, t>>] = rules[r].pattern]
      BY <1>4, <2>2 DEF Bind, BindRow
    <3>2. Owns(u, rules[r]) /\ Owns(u, targets[t])
      BY <1>4 DEF Bind, Edited, Entitled
    <3> QED
      BY <1>1, <2>2, <3>1, <3>2, BindingAdded
  <2> QED
    BY <2>1, <2>2
<1>5. CASE Unbind(u)
  <2>1. binds' \subseteq binds /\ UNCHANGED held
    BY <1>5 DEF Unbind
  <2>2. (UNCHANGED listener /\ UNCHANGED binds) \/ Notified("rule_targets")
    BY <1>5 DEF Unbind
  <2> QED
    BY <1>2, <1>3, <2>1, <2>2
<1> QED
  BY <1>4, <1>5

\* register_target
LEMMA RegisterTargetEffect ==
  ASSUME Edited, NEW u \in Users, RegisterTarget(u)
  PROVE  Statement /\ UNCHANGED <<call, rules>>
<1>1. Target(u) \in TargetRow /\ Len(targets) < MaxTargets
  BY DEF RegisterTarget, Target, TargetRow
<1>2. /\ targets' = Append(targets, Target(u)) /\ targets \in Seq(TargetRow)
      /\ UNCHANGED <<rules, binds, held, call, faults>> /\ calls' = calls + 1 /\ calls < MaxCalls
      /\ Notified("targets")
  BY DEF RegisterTarget, Edited, Typed, TypedTables
<1>3. /\ targets' \in Seq(TargetRow) /\ Len(targets') = Len(targets) + 1
      /\ \A t \in DOMAIN targets : t \in DOMAIN targets' /\ targets'[t] = targets[t]
  BY <1>1, <1>2, RowAdded
<1>4. TypedTables'
  <2>1. Len(targets) \in Nat /\ MaxTargets \in Nat
    BY <1>2, RuleSyncAssumption
  <2> QED
    BY <1>1, <1>2, <1>3, <2>1 DEF Edited, Typed, TypedTables
<1>5. Kept /\ \A b \in binds' : Proper(b)'
  BY <1>2, <1>3 DEF Kept, Edited, BoundByOwner, Proper, LiveRule, LiveTarget
<1>6. calls' \in 0 .. MaxCalls /\ faults' \in 0 .. MaxFaults
  BY <1>2, RuleSyncAssumption DEF Edited, Typed
<1> QED
  BY <1>2, <1>4, <1>5, <1>6, RanksKept DEF Statement, Notified

\* register_alert: the insert of the rule, which belongs to the caller.
LEMMA InsertRuleEffect ==
  ASSUME Edited, NEW u \in Users, InsertRule(u)
  PROVE  Statement /\ Caller(u)
<1> DEFINE c == call[u]
<1>1. /\ rules' = Append(rules, Rule(u, c.stop)) /\ rules \in Seq(RuleRow)
      /\ UNCHANGED <<targets, binds, held, calls, faults>> /\ Len(rules) < MaxRules
      /\ Notified("alert_rules") /\ Len(rules) \in Nat
  BY DEF InsertRule, Edited, Typed, TypedTables
<1>2. c \in Register
  <2>1. c \in Call /\ c.op = "register"
    BY DEF InsertRule, Edited, Typed
  <2> QED
    BY <2>1 DEF Call, Idle, OfRule, OfBoth, OfTarget
<1>3. Rule(u, c.stop) \in RuleRow
  BY <1>2 DEF Register, Rule, RuleRow
<1>4. /\ rules' \in Seq(RuleRow) /\ Len(rules') = Len(rules) + 1
      /\ Len(rules) + 1 \in DOMAIN rules' /\ rules'[Len(rules) + 1].owner = u
      /\ rules'[Len(rules) + 1].pattern = 1
      /\ \A r \in DOMAIN rules : r \in DOMAIN rules' /\ rules'[r] = rules[r]
  BY <1>1, <1>3, RowAdded DEF Rule
<1>5. Len(rules) + 1 \in 0 .. MaxRules
  BY <1>1, RuleSyncAssumption
<1>6. TypedTables'
  BY <1>1, <1>4, <1>5 DEF Edited, Typed, TypedTables
<1>7. Kept /\ \A b \in binds' : Proper(b)'
  BY <1>1, <1>4 DEF Kept, Edited, BoundByOwner, Proper, LiveRule, LiveTarget
<1>8. Statement
  <2>1. \A r \in DOMAIN rules : r \in Rules /\ rules[r].pattern \in Nat
    BY RulesTyped DEF Edited, Typed, RuleRow
  <2>2. DOMAIN rules' = DOMAIN rules \cup {Len(rules) + 1} /\ Len(rules) + 1 \notin DOMAIN rules
    BY <1>1, <1>4
  <2>3. ASSUME NEW r \in Rules, NEW t \in Targets
        PROVE  /\ r \in DOMAIN rules' => held[<<r, t>>] <= rules'[r].pattern
               /\ r \notin DOMAIN rules' => held[<<r, t>>] = 0
               /\ t \in Bound(r)' => rules'[r].pattern <= held[<<r, t>>]
    <3>1. t \in Bound(r)' => t \in Bound(r) /\ r \in DOMAIN rules
      BY <1>1 DEF Bound, Edited, BoundByOwner, LiveRule
    <3> QED
      BY <1>4, <2>1, <2>2, <3>1 DEF Edited, Ranked
  <2>4. Ranked' /\ Later
    <3>1. held \in [Rules \X Targets -> Nat] /\ held' = held
      BY <1>1 DEF Edited, Ranked
    <3> QED
      BY <1>4, <2>1, <2>3, <3>1 DEF Ranked, Later
  <2> QED
    BY <1>1, <1>6, <1>7, <2>4, CountsKept DEF Statement, Notified
<1>9. /\ call' \in [Users -> Call] /\ call'[u] \in Register
      /\ call'[u].todo = c.todo /\ call'[u].rule = Len(rules) + 1
      /\ \A v \in Users \ {u} : call'[v] = call[v]
  <2> DEFINE new == [c EXCEPT !.rule = Len(rules) + 1]
  <2>1. new \in Register /\ new.todo = c.todo /\ new.rule = Len(rules) + 1
    BY <1>2, <1>5 DEF Register
  <2>2. call' = [call EXCEPT ![u] = new] /\ call \in [Users -> Call]
    BY DEF InsertRule, Edited, Typed
  <2>3. new \in Call
    BY <2>1 DEF Call
  <2> HIDE DEF new
  <2> QED
    BY <2>1, <2>2, <2>3
<1>10. Entitled(u)'
  <2>1. \A t \in c.todo : t \in DOMAIN targets /\ Owns(u, targets[t])
    BY DEF InsertRule, Edited, Entitled
  <2> QED
    BY <1>1, <1>4, <1>9, <2>1 DEF Entitled, Register, Owns
<1> QED
  BY <1>8, <1>9, <1>10 DEF Caller

\* register_alert: one of the bindings, or the error that ends the call.
LEMMA InsertBindingEffect ==
  ASSUME Edited, NEW u \in Users, InsertBinding(u)
  PROVE  Statement /\ Caller(u)
<1> DEFINE c == call[u]
<1> DEFINE new(t) == call' = [call EXCEPT ![u].todo = @ \ {t}]
<1>1. PICK t \in c.todo :
        \/ /\ LiveRule(c.rule) /\ LiveTarget(t)
           /\ BindRow(u, c.rule, t, binds) /\ new(t)
        \/ new(t) /\ UNCHANGED <<binds, held, listener>>
        \/ call' = [call EXCEPT ![u] = Idle] /\ UNCHANGED <<binds, held, listener>>
  BY DEF InsertBinding
<1>2. /\ c.op = "register" /\ c.rule # 0 /\ UNCHANGED <<rules, targets, calls, faults>>
      /\ c \in Call /\ call \in [Users -> Call]
  BY DEF InsertBinding, Edited, Typed
<1>3. CASE call' = [call EXCEPT ![u] = Idle] /\ UNCHANGED <<binds, held, listener>>
  BY <1>2, <1>3, NoStatement, ReturnEffect DEF tables
<1>4. CASE new(t)
  <2>2. /\ \A s \in c.todo : s \in DOMAIN targets /\ Owns(u, targets[s])
        /\ c.rule \in DOMAIN rules /\ rules[c.rule].owner = u
    BY <1>2 DEF Edited, Entitled
  <2>3. Statement
    <3>1. CASE UNCHANGED <<binds, held, listener>>
      BY <1>2, <3>1, NoStatement DEF tables
    <3>2. CASE LiveRule(c.rule) /\ LiveTarget(t) /\ BindRow(u, c.rule, t, binds)
      BY <1>2, <2>2, <3>2, BindingAdded DEF Owns, BindRow
    <3>3. CASE call' = [call EXCEPT ![u] = Idle] /\ UNCHANGED <<binds, held, listener>>
      BY <1>3, <3>3
    <3> QED
      BY <1>1, <3>1, <3>2, <3>3
  <2>4. c \in Register
    BY <1>2 DEF Call, Idle, OfRule, OfBoth, OfTarget
  <2>5. /\ call' \in [Users -> Call]
        /\ call'[u].op = "register" /\ call'[u].todo \subseteq c.todo /\ call'[u].rule = c.rule
        /\ \A v \in Users \ {u} : call'[v] = call[v]
    <3> DEFINE left == [c EXCEPT !.todo = c.todo \ {t}]
    <3>1. left \in Register /\ left.todo \subseteq c.todo /\ left.rule = c.rule /\ left.op = "register"
      BY <2>4 DEF Register
    <3>2. call' = [call EXCEPT ![u] = left]
      BY <1>2, <1>4
    <3>3. left \in Call
      BY <3>1 DEF Call
    <3> HIDE DEF left
    <3> QED
      BY <1>2, <3>1, <3>2, <3>3
  <2>6. Entitled(u)'
    BY <1>2, <2>2, <2>5 DEF Entitled, Owns
  <2> QED
    BY <2>3, <2>5, <2>6 DEF Caller
<1> QED
  BY <1>1, <1>3, <1>4

LEMMA EndRegisterEffect ==
  ASSUME Edited, NEW u \in Users, EndRegister(u)
  PROVE  Statement /\ Caller(u)
<1>1. UNCHANGED <<rules, targets, binds, held, calls, listener>> /\ call' = [call EXCEPT ![u] = Idle]
  BY DEF EndRegister, tables
<1>2. faults' \in 0 .. MaxFaults /\ calls' \in 0 .. MaxCalls
  BY <1>1, RuleSyncAssumption DEF EndRegister, Fault, Edited, Typed
<1>3. TypedTables' /\ Kept /\ \A b \in binds' : Proper(b)'
  BY <1>1, BindsOnly DEF Edited, Typed, TypedTables
<1> QED
  BY <1>1, <1>2, <1>3, RanksKept, ReturnEffect DEF Statement, tables

LEMMA ToolEffect ==
  ASSUME Edited, NEW u \in Users, Tool(u)
  PROVE  Statement /\ (Caller(u) \/ UNCHANGED <<call, rules>>)
BY CheckEffect, RuleTool, TargetTool, BindTool, RegisterTargetEffect,
   InsertRuleEffect, InsertBindingEffect, EndRegisterEffect DEF Tool

\* A call that waits stays entitled to what it is about to do.
LEMMA EntitledKept ==
  ASSUME Edited, Kept, NEW v \in Users, call'[v] = call[v]
  PROVE  Entitled(v)'
BY DEF Edited, Entitled, Kept, Owns

\* The memory depends on the tables only through the rows that are read.
LEMMA CaughtByNotice ==
  ASSUME Edited, Notified("any") \/ UNCHANGED <<tables, listener>>
  PROVE  Caught' /\ TypedListener'
<1>1. CASE Notified("any")
  <2>1. TypedListener' /\ (link' => waiting' # 0)
    BY <1>1 DEF Notified, Edited, Typed, TypedListener
  <2> QED
    BY <2>1 DEF Caught
<1>2. CASE UNCHANGED <<tables, listener>>
  BY <1>2 DEF tables, listener, Edited, Typed, TypedListener, Caught, InSync, Joined
<1> QED
  BY <1>1, <1>2

\* Nor does an edit make what a reload has read any newer.
LEMMA TornKept ==
  ASSUME Edited, Kept, Later, Ranked', TypedTables', UNCHANGED <<reload, memory>>
  PROVE  Torn'
<1>1. /\ reload.rows \in Seq(RuleRow) /\ reload.joined \in SUBSET JoinedRow
      /\ memory \in SUBSET Compiled
      /\ held \in [Rules \X Targets -> Nat] /\ held' \in [Rules \X Targets -> Nat]
  BY DEF Edited, Typed, TypedListener, Ranked
<1>2. \A r \in DOMAIN reload.rows : reload.rows[r].pattern \in Nat
  BY <1>1, PatternNat
<1>3. /\ \A r \in DOMAIN rules : rules[r].pattern \in Nat
      /\ \A r \in DOMAIN rules' : rules'[r].pattern \in Nat
  BY PatternNat DEF Edited, Typed, TypedTables
<1>4. ASSUME reload.pc = "binds", NEW r \in DOMAIN reload.rows
      PROVE  r \in DOMAIN rules' /\ reload.rows[r].pattern <= rules'[r].pattern
  <2>1. r \in DOMAIN rules /\ reload.rows[r].pattern <= rules[r].pattern
    BY <1>4 DEF Edited, Torn
  <2> QED
    BY <1>2, <1>3, <2>1 DEF Kept, Later
<1>5. ASSUME reload.pc = "compile", NEW j \in reload.joined, j.rule \in DOMAIN reload.rows
      PROVE  reload.rows[j.rule].pattern <= held'[<<j.rule, j.target.id>>]
  <2>1. j.rule \in Rules /\ j.target.id \in Targets
    BY <1>1 DEF JoinedRow
  <2>2. reload.rows[j.rule].pattern <= held[<<j.rule, j.target.id>>]
    BY <1>5 DEF Edited, Torn
  <2> QED
    BY <1>1, <1>2, <1>5, <2>1, <2>2 DEF Later
<1>6. ASSUME NEW m \in memory, NEW t \in m.targets
      PROVE  m.pattern <= held'[<<m.id, t.id>>]
  <2>1. m.id \in Rules /\ t.id \in Targets /\ m.pattern \in Nat
    BY <1>1 DEF Compiled
  <2>2. m.pattern <= held[<<m.id, t.id>>]
    BY DEF Edited, Torn, UnboundBeforeEdit
  <2> QED
    BY <1>1, <2>1, <2>2 DEF Later
<1> QED
  BY <1>4, <1>5, <1>6 DEF Torn, UnboundBeforeEdit

LEMMA ToolStep ==
  ASSUME Edited, NEW u \in Users, Tool(u)
  PROVE  Edited'
<1>1. Statement /\ (Caller(u) \/ UNCHANGED <<call, rules>>)
  BY ToolEffect
<1>2. BoundByOwner'
  BY <1>1 DEF Statement, BoundByOwner, Proper
<1>3. call' \in [Users -> Call] /\ \A v \in Users : Entitled(v)'
  <2>1. CASE Caller(u)
    <3>1. ASSUME NEW v \in Users \ {u}
          PROVE  Entitled(v)'
      BY <1>1, <2>1, EntitledKept DEF Caller, Statement
    <3> QED
      BY <2>1, <3>1 DEF Caller
  <2>2. CASE UNCHANGED <<call, rules>>
    BY <1>1, <2>2, EntitledKept DEF Statement, Edited, Typed
  <2> QED
    BY <1>1, <2>1, <2>2
<1>4. Caught' /\ TypedListener'
  BY <1>1, CaughtByNotice DEF Statement
<1>5. Torn'
  BY <1>1, TornKept DEF Statement, Notified, listener
<1> QED
  BY <1>1, <1>2, <1>3, <1>4, <1>5 DEF Edited, Typed, Statement

-----------------------------------------------------------------------------
(* The listener.                                                           *)

LEMMA CompileTyped ==
  ASSUME NEW rows \in Seq(RuleRow), Len(rows) <= MaxRules,
         NEW joined \in SUBSET JoinedRow
  PROVE  Compile(rows, joined) \in SUBSET Compiled
<1>1. SUFFICES ASSUME NEW r \in DOMAIN rows
               PROVE  [id |-> r, pattern |-> rows[r].pattern, stop |-> rows[r].stop,
                       targets |-> {j.target : j \in {k \in joined : k.rule = r}}] \in Compiled
  BY DEF Compile
<1>2. r \in Rules /\ rows[r] \in RuleRow
  BY RuleSyncAssumption DEF Rules
<1>3. {j.target : j \in {k \in joined : k.rule = r}} \in SUBSET [id : Targets, config : 0 .. 1]
  BY DEF JoinedRow
<1> QED
  BY <1>2, <1>3 DEF Compiled, RuleRow

LEMMA JoinedTyped ==
  ASSUME Typed, BoundByOwner
  PROVE  Joined \in SUBSET JoinedRow
<1> SUFFICES ASSUME NEW b \in binds
             PROVE  /\ b[1] \in Rules /\ b[2] \in Targets /\ targets[b[2]].config \in 0 .. 1
  BY DEF Joined, JoinedRow
<1>1. b[1] \in Rules /\ b[2] \in Targets
  BY DEF Typed, TypedTables
<1>2. b[2] \in DOMAIN targets
  BY DEF BoundByOwner, LiveTarget
<1> QED
  BY <1>1, <1>2, RulesTyped DEF Typed, TargetRow

\* The listener and its faults leave the tables and the calls alone.
LEMMA TablesKept ==
  ASSUME Edited, UNCHANGED tables, UNCHANGED server, faults' \in 0 .. MaxFaults,
         TypedListener', Caught', Torn'
  PROVE  Edited'
<1>1. UNCHANGED <<rules, targets, binds, held, call, calls>>
  BY DEF tables, server
<1>2. Typed'
  BY <1>1 DEF Edited, Typed, TypedTables
<1>3. BoundByOwner'
  BY <1>1 DEF Edited, BoundByOwner, LiveRule, LiveTarget
<1>4. \A u \in Users : Entitled(u)'
  BY <1>1 DEF Edited, Entitled, Owns
<1>5. Ranked'
  BY <1>1 DEF Edited, Ranked, Bound
<1> QED
  BY <1>2, <1>3, <1>4, <1>5 DEF Edited

LEMMA ListenerStep ==
  ASSUME Edited, Listener \/ ReloadFails \/ Disconnect
  PROVE  Edited'
<1>1. /\ TypedListener /\ Caught /\ Torn
      /\ NoReload \in [pc : {"idle"}, rows : Seq(RuleRow), joined : SUBSET JoinedRow]
      /\ Len(NoReload.rows) <= MaxRules
  <2>1. <<>> \in Seq(RuleRow) /\ Len(<<>>) <= MaxRules
    BY EmptySeq, RuleSyncAssumption
  <2> QED
    BY <2>1 DEF Edited, Typed, NoReload
<1>2. faults' \in 0 .. MaxFaults
  BY RuleSyncAssumption
     DEF Listener, Connect, Receive, ReadRules, ReadBinds, Install, Replace, ReloadFails,
         Disconnect, Fault, Edited, Typed
<1>3. UNCHANGED tables /\ UNCHANGED server
  BY DEF Listener, Connect, Receive, ReadRules, ReadBinds, Install, Replace, ReloadFails, Disconnect
<1>4. /\ UNCHANGED <<rules, targets, binds, held>>
      /\ (InSync <=> memory = Compile(rules, Joined)) /\ Joined' = Joined
  BY <1>3 DEF tables, InSync, Joined
<1>5. CASE Connect
  BY <1>1, <1>2, <1>3, <1>5, TablesKept DEF Connect, TypedListener, Caught, Torn, UnboundBeforeEdit, tables
<1>6. CASE Receive
  BY <1>1, <1>2, <1>3, <1>6, TablesKept DEF Receive, TypedListener, Caught, Torn, UnboundBeforeEdit, tables
<1>7. CASE ReadRules
  <2>1. /\ reload' = [reload EXCEPT !.pc = "binds", !.rows = rules]
        /\ UNCHANGED <<link, waiting, memory, stale>>
    BY <1>7 DEF ReadRules
  <2>2. rules \in Seq(RuleRow) /\ Len(rules) <= MaxRules
    BY DEF Edited, Typed, TypedTables
  <2>3. reload'.pc = "binds" /\ reload'.rows = rules /\ TypedListener'
    BY <1>1, <2>1, <2>2 DEF TypedListener
  <2>4. Caught'
    BY <1>4, <2>3 DEF Caught
  <2>5. Torn'
    <3>1. \A r \in DOMAIN rules : rules[r].pattern \in Nat
      BY <2>2, PatternNat
    <3> QED
      BY <1>1, <1>4, <2>1, <2>3, <3>1 DEF Torn, UnboundBeforeEdit
  <2> QED
    BY <1>2, <1>3, <2>3, <2>4, <2>5, TablesKept
<1>8. CASE ReadBinds
  <2>1. /\ reload.pc = "binds" /\ reload' = [reload EXCEPT !.pc = "compile", !.joined = Joined]
        /\ UNCHANGED <<link, waiting, memory, stale>>
    BY <1>8 DEF ReadBinds
  <2>2. Joined \in SUBSET JoinedRow
    BY JoinedTyped DEF Edited
  <2>3. /\ reload'.pc = "compile" /\ reload'.rows = reload.rows /\ reload'.joined = Joined
        /\ TypedListener'
    BY <1>1, <2>1, <2>2 DEF TypedListener
  <2>4. Caught'
    BY <1>1, <1>4, <2>1, <2>3 DEF Caught
  <2>5. Torn'
    <3>1. ASSUME NEW j \in Joined, j.rule \in DOMAIN reload.rows
          PROVE  reload.rows[j.rule].pattern <= held[<<j.rule, j.target.id>>]
      <4>1. PICK b \in binds : j = [rule |-> b[1], target |-> [id |-> b[2], config |-> targets[b[2]].config]]
        BY DEF Joined
      <4>2. /\ j.rule = b[1] /\ j.target.id = b[2]
            /\ b[1] \in Rules /\ b[2] \in Targets /\ b[3] \in Users /\ b = <<b[1], b[2], b[3]>>
        BY <4>1 DEF Edited, Typed, TypedTables
      <4>3. b[2] \in Bound(b[1])
        BY <4>2 DEF Bound
      <4>4. /\ rules[b[1]].pattern <= held[<<b[1], b[2]>>] /\ held[<<b[1], b[2]>>] \in Nat
            /\ b[1] \in DOMAIN rules /\ reload.rows[b[1]].pattern <= rules[b[1]].pattern
        BY <1>1, <2>1, <3>1, <4>2, <4>3 DEF Edited, Ranked, Torn
      <4>5. reload.rows[b[1]].pattern \in Nat /\ rules[b[1]].pattern \in Nat
        BY <1>1, <3>1, <4>2, <4>4, PatternNat DEF TypedListener, Edited, Typed, TypedTables
      <4> QED
        BY <4>2, <4>4, <4>5
    <3> QED
      BY <1>1, <1>4, <2>1, <2>3, <3>1 DEF Torn, UnboundBeforeEdit
  <2> QED
    BY <1>2, <1>3, <2>3, <2>4, <2>5, TablesKept
<1>9. CASE Install
  <2>1. /\ reload.pc = "compile" /\ memory' = Compile(reload.rows, reload.joined)
        /\ reload' = NoReload /\ UNCHANGED <<link, waiting>> /\ stale' = FALSE
    BY <1>9 DEF Install, Replace
  <2>2. memory' \in SUBSET Compiled
    BY <1>1, <2>1, CompileTyped DEF TypedListener
  <2>3. TypedListener' /\ reload'.pc = "idle"
    BY <1>1, <2>1, <2>2 DEF TypedListener
  <2>4. Caught'
    <3>1. link /\ waiting = 0 => InSync'
      BY <1>1, <1>4, <2>1 DEF Caught, InSync
    <3> QED
      BY <2>1, <2>3, <3>1 DEF Caught
  <2>5. Torn'
    <3>1. ASSUME NEW m \in memory', NEW t \in m.targets
          PROVE  m.pattern <= held[<<m.id, t.id>>]
      <4>1. PICK r \in DOMAIN reload.rows :
              /\ m.id = r /\ m.pattern = reload.rows[r].pattern
              /\ m.targets = {j.target : j \in {k \in reload.joined : k.rule = r}}
        BY <2>1 DEF Compile
      <4>2. PICK j \in reload.joined : j.rule = r /\ t = j.target
        BY <4>1
      <4> QED
        BY <1>1, <2>1, <4>1, <4>2 DEF Torn
    <3> QED
      BY <1>4, <2>3, <3>1 DEF Torn, UnboundBeforeEdit
  <2> QED
    BY <1>2, <1>3, <2>3, <2>4, <2>5, TablesKept
<1>10. CASE ReloadFails
  BY <1>1, <1>2, <1>3, <1>10, TablesKept
     DEF ReloadFails, TypedListener, Caught, Torn, UnboundBeforeEdit, tables
<1>11. CASE Disconnect
  BY <1>1, <1>2, <1>3, <1>11, TablesKept
     DEF Disconnect, TypedListener, Caught, Torn, UnboundBeforeEdit, tables
<1> QED
  BY <1>5, <1>6, <1>7, <1>8, <1>9, <1>10, <1>11 DEF Listener

LEMMA EditedInit == Init => Edited
<1> SUFFICES ASSUME Init
             PROVE  Edited
  OBVIOUS
<1>1. TypedTables /\ TypedListener
  <2>1. <<>> \in Seq(RuleRow) /\ <<>> \in Seq(TargetRow) /\ Len(<<>>) = 0
    BY EmptySeq
  <2>2. MaxRules \in Nat /\ MaxTargets \in Nat
    BY RuleSyncAssumption
  <2>3. TypedTables
    BY <2>1, <2>2 DEF Init, TypedTables
  <2>4. /\ reload \in [pc : {"idle", "rules", "binds", "compile"}, rows : Seq(RuleRow),
                        joined : SUBSET JoinedRow]
        /\ Len(reload.rows) <= MaxRules
    BY <2>1, <2>2 DEF Init, NoReload
  <2> QED
    BY <2>3, <2>4 DEF Init, TypedListener
<1>2. call \in [Users -> Call] /\ \A u \in Users : call[u].op = "none"
  BY DEF Init, Call, Idle
<1>3. calls \in 0 .. MaxCalls /\ faults \in 0 .. MaxFaults
  BY RuleSyncAssumption DEF Init
<1>4. (\A u \in Users : Entitled(u)) /\ BoundByOwner /\ Caught
  BY <1>2 DEF Init, Entitled, BoundByOwner, Caught
<1>5. Ranked /\ Torn
  <2>1. DOMAIN rules = {} /\ binds = {} /\ memory = {} /\ reload.pc = "idle"
    BY DEF Init, NoReload
  <2>2. held = [p \in Rules \X Targets |-> 0] /\ \A r \in Rules : Bound(r) = {}
    BY <2>1 DEF Init, Bound
  <2> QED
    BY <2>1, <2>2 DEF Ranked, Torn, UnboundBeforeEdit
<1> QED
  BY <1>1, <1>2, <1>3, <1>4, <1>5 DEF Edited, Typed

LEMMA EditedStep == Edited /\ [Next]_vars => Edited'
<1> SUFFICES ASSUME Edited, [Next]_vars
             PROVE  Edited'
  OBVIOUS
<1>1. CASE UNCHANGED vars
  <2>1. UNCHANGED tables /\ UNCHANGED server /\ UNCHANGED listener /\ UNCHANGED faults
    BY <1>1 DEF vars
  <2>2. faults' \in 0 .. MaxFaults
    BY <2>1 DEF Edited, Typed
  <2>3. Torn'
    BY <2>1 DEF Edited, Torn, UnboundBeforeEdit, tables, listener
  <2> QED
    BY <2>1, <2>2, <2>3, CaughtByNotice, TablesKept
<1> QED
  BY <1>1, ToolStep, ListenerStep DEF Next

LEMMA EditedAlways == Spec => []Edited
BY EditedInit, EditedStep, PTL DEF Spec

-----------------------------------------------------------------------------
(* The theorems.                                                           *)

\* Every reachable state is typed, in particular the copy that Ruleset.reload
\* has compiled from two queries at different times.
THEOREM TypeCorrect == Spec => []TypeOK
<1>1. Edited => TypeOK
  BY DEF Edited, Typed, TypedTables, TypedListener, Ranked, TypeOK
<1> QED
  BY <1>1, EditedAlways, PTL

\* The checks of ownership in mcp_server.py hold when the statement is made,
\* however many awaits and other calls lie between.
THEOREM OwnersBind == Spec => []BoundByOwner
<1>1. Edited => BoundByOwner
  BY DEF Edited
<1> QED
  BY <1>1, EditedAlways, PTL

\* A collector that listens, has read every notification and whose last reload
\* succeeded has exactly the rules of the database: db.listen subscribes before
\* it loads, and each trigger fires with its statement.
THEOREM CopyExplained == Spec => []StaleExplained
<1>1. Edited => StaleExplained
  BY DEF Edited, Caught, StaleExplained
<1> QED
  BY <1>1, EditedAlways, PTL

\* Ruleset.reload reads the rules first and the bindings second, so that a
\* target that was unbound before the rule got its pattern is never notified
\* of what that pattern matches.
THEOREM UnboundFirst == Spec => []UnboundBeforeEdit
<1>1. Edited => UnboundBeforeEdit
  BY DEF Edited, Torn
<1> QED
  BY <1>1, EditedAlways, PTL
=============================================================================
