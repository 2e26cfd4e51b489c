------------------------------ MODULE RuleSync ------------------------------
(***************************************************************************)
(* Rules, targets and bindings: the tools of the MCP server that edit them *)
(* (mcp_server.py), the notifications of the database's triggers, and the  *)
(* copy that the collector keeps in memory (ruleset.py, db.listen).        *)
(*                                                                         *)
(* A tool is the code between two awaits: a check of the rows, then one    *)
(* statement or more, each committed by itself.  Of a rule's columns the   *)
(* pattern and stop_on_match stand for all, of a target's the config.  A   *)
(* pattern is the number of its edit.                                      *)
(***************************************************************************)
EXTENDS Integers, Sequences

CONSTANTS
  Users,       \* (human, agent) principals with the Write role
  Admins,      \* those among them who may change what others own
  MaxRules, MaxTargets, MaxCalls,
  MaxFaults    \* broken connections, failing queries, calls that die

ASSUME RuleSyncAssumption ==
  Admins \subseteq Users /\ {MaxRules, MaxTargets, MaxCalls, MaxFaults} \subseteq Nat

VARIABLES
  rules,    \* alert_rules: a sequence of rows, indexed by id, never reused
  targets,  \* the same for targets
  binds,    \* rule_targets: <<rule, target, who bound it>>
  held,     \* history: the newest pattern each target was bound with, per rule
  call,     \* the tool each user has called
  calls,    \* calls made
  link,     \* whether the listener's connection is up, and LISTENs
  waiting,  \* notifications not yet read from it
  reload,   \* the listener's coroutine, and what its queries returned
  memory,   \* Ruleset._rules
  stale,    \* the last reload failed
  faults

tables == <<rules, targets, binds, held>>
server == <<call, calls>>
listener == <<link, waiting, reload, memory, stale>>
vars == <<tables, server, listener, faults>>

Rules == 1 .. MaxRules
Targets == 1 .. MaxTargets
Idle == [op |-> "none"]
NoReload == [pc |-> "idle", rows |-> <<>>, joined |-> {}]
Rule(u, stop) == [live |-> TRUE, owner |-> u, on |-> TRUE, pattern |-> 1, stop |-> stop]
Target(u) == [live |-> TRUE, owner |-> u, config |-> 0]

LiveRule(r) == r \in DOMAIN rules /\ rules[r].live
LiveTarget(t) == t \in DOMAIN targets /\ targets[t].live
Bound(r) == {t \in Targets : \E u \in Users : <<r, t, u>> \in binds}

Compiled == [id : Rules, pattern : Nat, stop : BOOLEAN,
             targets : SUBSET [id : Targets, config : 0 .. 1]]

TypeOK ==
  /\ Len(rules) <= MaxRules /\ Len(targets) <= MaxTargets
  /\ calls \in 0 .. MaxCalls /\ faults \in 0 .. MaxFaults
  /\ link \in BOOLEAN /\ waiting \in Nat /\ stale \in BOOLEAN
  /\ reload.pc \in {"idle", "rules", "binds", "compile"}
  /\ held \in [Rules \X Targets -> Nat]
  /\ memory \in SUBSET Compiled

Init ==
  /\ rules = <<>> /\ targets = <<>> /\ binds = {}
  /\ held = [p \in Rules \X Targets |-> 0]
  /\ call = [u \in Users |-> Idle] /\ calls = 0
  /\ link = FALSE /\ waiting = 0 /\ reload = NoReload
  /\ memory = {} /\ stale = FALSE /\ faults = 0

-----------------------------------------------------------------------------
(* The tools.                                                              *)

Owns(u, row) == row.owner = u \/ u \in Admins

\* A bug: no trigger on the targets.
BugNotified(table) ==
  /\ waiting' = IF link /\ table # "targets" THEN waiting + 1 ELSE waiting
  /\ UNCHANGED <<link, reload, memory, stale>>

\* The triggers notify whoever listens, once the statement is committed.
Notified(table) ==
  /\ waiting' = IF link THEN waiting + 1 ELSE waiting
  /\ UNCHANGED <<link, reload, memory, stale>>

Fault == faults < MaxFaults /\ faults' = faults + 1

Begin(u, c) ==
  /\ call[u] = Idle /\ calls < MaxCalls
  /\ calls' = calls + 1 /\ call' = [call EXCEPT ![u] = c]
  /\ UNCHANGED <<tables, listener, faults>>

\* A bug: a rule's owner may bind anybody's target.
BugMayBind(u, r, t) == LiveRule(r) /\ LiveTarget(t) /\ Owns(u, rules[r])

MayBind(u, r, t) ==
  LiveRule(r) /\ LiveTarget(t) /\ Owns(u, rules[r]) /\ Owns(u, targets[t])

\* register_alert, up to the insert: the targets are checked one by one, which
\* is the same as all at once, since the owner of a target never changes.
CheckRegister(u) ==
  \E ts \in SUBSET {t \in Targets : LiveTarget(t) /\ Owns(u, targets[t])}, stop \in BOOLEAN :
    Begin(u, [op |-> "register", todo |-> ts, rule |-> 0, stop |-> stop])

InsertRule(u) ==
  /\ call[u].op = "register" /\ call[u].rule = 0 /\ Len(rules) < MaxRules
  /\ rules' = Append(rules, Rule(u, call[u].stop))
  /\ call' = [call EXCEPT ![u].rule = Len(rules) + 1]
  /\ Notified("alert_rules") /\ UNCHANGED <<targets, binds, held, calls, faults>>

BindRow(u, r, t, kept) ==
  /\ binds' = kept \cup {<<r, t, u>>}
  /\ held' = [held EXCEPT ![<<r, t>>] = rules[r].pattern]
  /\ Notified("rule_targets")

\* The bindings follow one by one, each in a transaction of its own; one that
\* exists by now is left as it is, and a rule or a target that is gone ends the
\* call with an error.
InsertBinding(u) ==
  LET c == call[u]
      next(t) == call' = [call EXCEPT ![u].todo = @ \ {t}] IN
  /\ c.op = "register" /\ c.rule # 0
  /\ \E t \in c.todo :
       \/ /\ LiveRule(c.rule) /\ LiveTarget(t) /\ t \notin Bound(c.rule)
          /\ BindRow(u, c.rule, t, binds) /\ next(t)
       \/ /\ t \in Bound(c.rule) /\ next(t)
          /\ UNCHANGED <<binds, held, listener>>
       \/ /\ ~(LiveRule(c.rule) /\ LiveTarget(t))
          /\ call' = [call EXCEPT ![u] = Idle] /\ UNCHANGED <<binds, held, listener>>
  /\ UNCHANGED <<rules, targets, calls, faults>>

\* The other tools: owner and existence are checked, and then one statement is
\* made of it, which finds no row when another call deleted it in between.
CheckRule(u) ==
  \E r \in Rules :
    /\ LiveRule(r) /\ Owns(u, rules[r])
    /\ \/ \E op \in {"pattern", "stop", "on", "delete"} : Begin(u, [op |-> op, rule |-> r])
       \/ \E t \in Targets : Begin(u, [op |-> "unbind", rule |-> r, target |-> t])

CheckBind(u) ==
  \E r \in Rules, t \in Targets :
    MayBind(u, r, t) /\ Begin(u, [op |-> "bind", rule |-> r, target |-> t])

CheckTarget(u) ==
  \E t \in Targets, op \in {"config", "deleteTarget"} :
    LiveTarget(t) /\ Owns(u, targets[t]) /\ Begin(u, [op |-> op, target |-> t])

Return(u) == call' = [call EXCEPT ![u] = Idle] /\ UNCHANGED <<calls, faults>>

RegisterTarget(u) ==
  /\ call[u] = Idle /\ calls < MaxCalls /\ Len(targets) < MaxTargets
  /\ targets' = Append(targets, Target(u)) /\ calls' = calls + 1
  /\ Notified("targets") /\ UNCHANGED <<rules, binds, held, call, faults>>

\* One UPDATE of a rule: nothing happens when the row is gone.
Updated(r, new) ==
  /\ IF LiveRule(r) THEN rules' = new /\ Notified("alert_rules")
     ELSE UNCHANGED <<rules, listener>>
  /\ UNCHANGED <<targets, binds>>

\* update_alert
UpdateRule(u) ==
  LET c == call[u] IN
  /\ Return(u)
  /\ \/ /\ c.op = "pattern"
        /\ Updated(c.rule, [rules EXCEPT ![c.rule].pattern = @ + 1])
        /\ held' = [p \in Rules \X Targets |->
             IF LiveRule(c.rule) /\ p[1] = c.rule /\ p[2] \in Bound(c.rule)
             THEN rules[c.rule].pattern + 1 ELSE held[p]]
     \/ /\ c.op = "stop"
        /\ Updated(c.rule, [rules EXCEPT ![c.rule].stop = ~@]) /\ UNCHANGED held

\* disable_alert, which enables as well
DisableRule(u) ==
  LET c == call[u] IN
  /\ c.op = "on" /\ Return(u)
  /\ Updated(c.rule, [rules EXCEPT ![c.rule].on = ~@]) /\ UNCHANGED held

DeleteRule(u) ==
  LET c == call[u] IN
  /\ c.op = "delete" /\ Return(u)
  /\ IF LiveRule(c.rule)
     THEN /\ rules' = [rules EXCEPT ![c.rule].live = FALSE]
          /\ binds' = {b \in binds : b[1] # c.rule}
          /\ Notified("alert_rules")
     ELSE UNCHANGED <<rules, binds, listener>>
  /\ UNCHANGED <<targets, held>>

\* A row that is gone violates the foreign key.
Bind(u) ==
  LET c == call[u]
      others == {b \in binds : b[1] # c.rule \/ b[2] # c.target} IN
  /\ c.op = "bind" /\ Return(u)
  /\ IF LiveRule(c.rule) /\ LiveTarget(c.target)
     THEN BindRow(u, c.rule, c.target, others)
     ELSE UNCHANGED <<binds, held, listener>>
  /\ UNCHANGED <<rules, targets>>

Unbind(u) ==
  LET c == call[u]
      others == {b \in binds : b[1] # c.rule \/ b[2] # c.target} IN
  /\ c.op = "unbind" /\ Return(u)
  /\ binds' = others
  /\ IF others # binds THEN Notified("rule_targets") ELSE UNCHANGED listener
  /\ UNCHANGED <<rules, targets, held>>

UpdateTarget(u) ==
  LET c == call[u] IN
  /\ c.op = "config" /\ Return(u)
  /\ IF LiveTarget(c.target)
     THEN targets' = [targets EXCEPT ![c.target].config = 1 - @] /\ Notified("targets")
     ELSE UNCHANGED <<targets, listener>>
  /\ UNCHANGED <<rules, binds, held>>

DeleteTarget(u) ==
  LET c == call[u] IN
  /\ c.op = "deleteTarget" /\ Return(u)
  /\ IF LiveTarget(c.target)
     THEN /\ targets' = [targets EXCEPT ![c.target].live = FALSE]
          /\ binds' = {b \in binds : b[2] # c.target}
          /\ Notified("targets")
     ELSE UNCHANGED <<targets, binds, listener>>
  /\ UNCHANGED <<rules, held>>

\* A registration returns, or dies between two of its statements; the other
\* tools have one only.
EndRegister(u) ==
  /\ call[u].op = "register" /\ call[u].rule # 0
  /\ call' = [call EXCEPT ![u] = Idle]
  /\ IF call[u].todo = {} THEN UNCHANGED faults ELSE Fault
  /\ UNCHANGED <<tables, calls, listener>>

Tool(u) ==
  \/ CheckRegister(u) \/ InsertRule(u) \/ InsertBinding(u) \/ EndRegister(u)
  \/ CheckRule(u) \/ CheckBind(u) \/ CheckTarget(u)
  \/ RegisterTarget(u) \/ UpdateTarget(u) \/ DeleteTarget(u)
  \/ UpdateRule(u) \/ DisableRule(u) \/ DeleteRule(u) \/ Bind(u) \/ Unbind(u)

-----------------------------------------------------------------------------
(* The listener of the collector.                                          *)

\* Ruleset.reload, given the rows of the two queries: a rule without a target
\* is left out, unless it stops the walk.
Compile(rows, joined) ==
  LET enabled == {r \in DOMAIN rows : rows[r].live /\ rows[r].on}
      reached(r) == {j.target : j \in {k \in joined : k.rule = r}}
  IN  {[id |-> r, pattern |-> rows[r].pattern, stop |-> rows[r].stop,
        targets |-> reached(r)] :
         r \in {q \in enabled : reached(q) # {} \/ rows[q].stop}}

Joined == {[rule |-> b[1], target |-> [id |-> b[2], config |-> targets[b[2]].config]] :
             b \in binds}

InSync == memory = Compile(rules, Joined)

\* A bug: the rules are loaded when the collector starts, and by notifications.
BugConnect ==
  /\ ~link /\ reload.pc = "idle" /\ link' = TRUE /\ waiting' = 0
  /\ UNCHANGED <<tables, server, reload, memory, stale, faults>>

\* (Re)connect: LISTEN, then load once.
Connect ==
  /\ ~link /\ reload.pc = "idle"
  /\ link' = TRUE /\ waiting' = 0 /\ reload' = [reload EXCEPT !.pc = "rules"]
  /\ UNCHANGED <<tables, server, memory, stale, faults>>

Receive ==
  /\ link /\ reload.pc = "idle" /\ waiting > 0
  /\ waiting' = waiting - 1 /\ reload' = [reload EXCEPT !.pc = "rules"]
  /\ UNCHANGED <<tables, server, link, memory, stale, faults>>

\* The two queries of a reload are two transactions: the rows, then the
\* bindings as they are by then.
ReadRules ==
  /\ reload.pc = "rules" /\ reload' = [reload EXCEPT !.pc = "binds", !.rows = rules]
  /\ UNCHANGED <<tables, server, link, waiting, memory, stale, faults>>

ReadBinds ==
  /\ reload.pc = "binds" /\ reload' = [reload EXCEPT !.pc = "compile", !.joined = Joined]
  /\ UNCHANGED <<tables, server, link, waiting, memory, stale, faults>>

Replace(new) ==
  /\ reload.pc = "compile" /\ memory' = new /\ reload' = NoReload /\ stale' = FALSE
  /\ UNCHANGED <<tables, server, link, waiting, faults>>

\* A bug: the rules are read after the bindings.
BugInstall == Replace(Compile(rules, reload.joined))

\* Both have been fetched, and the pool's connections returned, which are
\* awaits; the old list is replaced as a whole.
Install == Replace(Compile(reload.rows, reload.joined))

\* A reload that fails is logged, and nothing else.
ReloadFails ==
  /\ reload.pc # "idle" /\ Fault
  /\ reload' = NoReload /\ stale' = TRUE
  /\ UNCHANGED <<tables, server, link, waiting, memory>>

\* The listening connection breaks, and what was under way on it is lost.  A
\* reload uses another one.
Disconnect ==
  /\ link /\ Fault /\ link' = FALSE /\ waiting' = 0
  /\ UNCHANGED <<tables, server, reload, memory, stale>>

Listener == Connect \/ Receive \/ ReadRules \/ ReadBinds \/ Install

Next == (\E u \in Users : Tool(u)) \/ Listener \/ ReloadFails \/ Disconnect

Spec == Init /\ [][Next]_vars

\* The listener's coroutine runs on; nothing is assumed of the users.
FairSpec == Spec /\ WF_vars(Listener)

-----------------------------------------------------------------------------
(* Properties.                                                             *)

\* A collector that listens, has nothing left to read and whose last reload
\* succeeded has the rules of the database: no edit slips in between LISTEN and
\* the first load, between the two queries of a reload or during a reconnect.
StaleExplained ==
  link /\ waiting = 0 /\ reload.pc = "idle" /\ ~stale => InSync

\* Whoever is no admin has bound only their own rules to their own targets, and
\* nothing that was deleted, in spite of the awaits between the checks and the
\* statement.
BoundByOwner ==
  \A b \in binds :
    /\ LiveRule(b[1]) /\ LiveTarget(b[2])
    /\ b[3] \in Admins \/ (rules[b[1]].owner = b[3] /\ targets[b[2]].owner = b[3])

\* Whoever unbinds a target and then changes the rule's pattern can rely on it
\* that no collector ever notifies that target of what the new pattern matches:
\* a copy torn between its two queries has bindings younger than its patterns
\* (ruleset.py:29-38).
UnboundBeforeEdit ==
  \A m \in memory : \A t \in m.targets : m.pattern <= held[<<m.id, t.id>>]

\* "Prime once on (re)connect so a NOTIFY missed while disconnected can't leave
\* us stale" (db.py:63-64): whoever listens and has nothing to read is up to
\* date.  It fails when that load does.
PrimedIsFresh == link /\ waiting = 0 /\ reload.pc = "idle" => InSync

\* Whatever was edited, the collector ends up with the rules of the database,
\* or with a reload that failed.
Propagates == <>[](stale \/ InSync)
=============================================================================
