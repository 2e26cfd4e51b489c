---------------------------- MODULE Coordinator -----------------------------
(***************************************************************************)
(* The dispatch coordinator (incidents.py) for one dedup key: firings of   *)
(* one rule, target and source, handled by the tasks that the routers of   *)
(* several collectors spawn.  An action is the code between two awaits.    *)
(* Keys share nothing, so that one of them is enough.                      *)
(*                                                                         *)
(* Simplifications: a time is only "less than the limit ago" or not, and   *)
(* the reuse TTL is not shorter than the throttle's interval (7200 s and   *)
(* 60 s by default), so that an incident that is stale is also cool.       *)
(***************************************************************************)
EXTENDS Integers, FiniteSets

CONSTANTS
  Collectors,
  NumFirings,
  MaxFaults     \* errors, lost answers of the channel, crashes

\* Numbered in the order in which they get the lock.
Firings == 1 .. NumFirings

None == "none"

ASSUME CoordinatorAssumption ==
  /\ IsFiniteSet(Collectors) /\ NumFirings \in Nat /\ MaxFaults \in Nat

VARIABLES
  kind,       \* the target: a push, an agent, or a type without dispatcher
  topic,      \* whether a fallback topic is configured
  ruleGone,   \* the rule or the target was deleted after the firing
  incident,   \* the row of alert_incidents
  holder,     \* _locks: the firing that has the key's lock or 0, per collector
  task,       \* the coroutine of each firing
  pushed,     \* whether a push of the firing was tried, or heard by its target
  records,    \* dispositions written to alert_events, or queued
  recent,     \* pushes heard since the throttle opened
  faults

setting == <<kind, topic>>
pushes  == <<pushed, recent>>
vars == <<setting, ruleGone, incident, holder, task, pushes, records, faults>>

Dispositions == {"opened", "fed", "throttled", "fallback", "error", "queued"}
Steps == {"new", "start", "open", "feed", "upsert", "bump", "fallback",
          "record", "mark", "errorPush", "errorRecord", "done", "lost"}

At(f, pc) == task[f].pc = pc

TypeOK ==
  /\ kind \in {"ntfy", "agent", "unknown"} /\ topic \in BOOLEAN
  /\ ruleGone \in BOOLEAN
  /\ incident \in [row : BOOLEAN, live : BOOLEAN, fed : BOOLEAN]
  /\ holder \in [Collectors -> 0 .. NumFirings]
  /\ task \in [Firings -> [pc : Steps, at : Collectors \cup {None},
                           result : Dispositions \cup {None}]]
  /\ \A c \in Collectors : holder[c] # 0 =>
       task[holder[c]].at = c /\ ~At(holder[c], "done")
  /\ pushed \in [Firings -> {"no", "tried", "heard"}]
  /\ records \in [Firings -> SUBSET Dispositions]
  /\ recent \in 0 .. NumFirings /\ faults \in 0 .. MaxFaults

NoIncident == [row |-> FALSE, live |-> FALSE, fed |-> FALSE]

Init ==
  /\ kind \in {"ntfy", "agent", "unknown"} /\ topic \in BOOLEAN
  /\ ruleGone = FALSE /\ incident = NoIncident
  /\ holder = [c \in Collectors |-> 0]
  /\ task = [f \in Firings |-> [pc |-> "new", at |-> None, result |-> None]]
  /\ pushed = [f \in Firings |-> "no"] /\ recent = 0
  /\ records = [f \in Firings |-> {}] /\ faults = 0

-----------------------------------------------------------------------------
(* Steps of a task.                                                        *)

Goto(f, pc) == task' = [task EXCEPT ![f].pc = pc]
Then(f, pc, result) ==
  task' = [task EXCEPT ![f].pc = pc, ![f].result = result]
Fault == faults < MaxFaults /\ faults' = faults + 1
NoFault == UNCHANGED faults

\* A bug: released by hand, and not before the early return.
BugRelease(f) ==
  IF At(f, "start") THEN UNCHANGED holder
  ELSE holder' = [holder EXCEPT ![task[f].at] = 0]

\* `async with lock` lets go however the coroutine ends.
Release(f) == holder' = [holder EXCEPT ![task[f].at] = 0]

\* A bug: no lock, or one of each firing's own.
BugLockFree(c) == TRUE

LockFree(c) == holder[c] = 0

\* handle: the task of a firing gets the lock of its key.
Begin(f, c) ==
  /\ At(f, "new") /\ \A g \in 1 .. f - 1 : ~At(g, "new")
  /\ LockFree(c)
  /\ holder' = [holder EXCEPT ![c] = f]
  /\ task' = [task EXCEPT ![f].pc = "start", ![f].at = c]
  /\ UNCHANGED <<setting, ruleGone, incident, pushes, records, faults>>

\* A stateful target: the durable queue takes over.
HandOver(f) ==
  /\ At(f, "start") /\ kind = "agent" /\ ~ruleGone
  /\ Goto(f, "done") /\ Release(f)
  /\ records' = [records EXCEPT ![f] = {"queued"}]
  /\ UNCHANGED <<setting, ruleGone, incident, pushes, faults>>

NoDispatcher(f) ==
  /\ At(f, "start") /\ kind = "unknown"
  /\ Then(f, "fallback", "fallback")
  /\ UNCHANGED <<setting, ruleGone, incident, holder, pushes, records, faults>>

\* _dispatch_locked: the incident is looked up and its times are compared;
\* there is no await between that and the choice of the next step.
LookUp(f) ==
  /\ At(f, "start") /\ kind = "ntfy"
  /\ \/ /\ incident.row /\ incident.live /\ incident.fed
        /\ Then(f, "bump", "throttled")
     \/ /\ incident.row /\ incident.live /\ ~incident.fed
        /\ Goto(f, "feed")
     \/ /\ ~(incident.row /\ incident.live)
        /\ Goto(f, "open")
  /\ UNCHANGED <<setting, ruleGone, incident, holder, pushes, records, faults>>

\* One POST: accepted, refused, or accepted and the answer lost.
Post(f, delivered) ==
  /\ pushed' = [pushed EXCEPT ![f] = IF delivered THEN "heard" ELSE "tried"]
  /\ recent' = recent + IF delivered THEN 1 ELSE 0

\* A bug: a repeat is recorded as fed whatever the channel answered.
BugPush(f, ok) ==
  /\ Post(f, ok) /\ NoFault
  /\ \/ /\ At(f, "open")
        /\ IF ok THEN Then(f, "upsert", "opened")
                 ELSE Then(f, "fallback", "fallback")
     \/ At(f, "feed") /\ Then(f, "bump", "fed")

\* _open and _feed_stateless, up to the answer.
Push(f, ok) ==
  /\ \/ Post(f, ok) /\ NoFault
     \/ ~ok /\ Post(f, TRUE) /\ Fault
  /\ \/ /\ At(f, "open")
        /\ IF ok THEN Then(f, "upsert", "opened")
                 ELSE Then(f, "fallback", "fallback")
     \/ /\ At(f, "feed")
        /\ Then(f, "bump", IF ok THEN "fed" ELSE "fallback")

Pushed(f) ==
  /\ \E ok \in BOOLEAN : Push(f, ok)
  /\ UNCHANGED <<setting, ruleGone, incident, holder, records>>

\* _fallback: best effort, and nothing at all without a topic.
FallbackPush(f) ==
  \/ ~topic /\ UNCHANGED pushes
  \/ /\ topic /\ UNCHANGED recent
     /\ pushed' = [pushed EXCEPT ![f] = IF @ = "no" THEN "tried" ELSE @]

Fallback(f) ==
  /\ At(f, "fallback") /\ FallbackPush(f) /\ Goto(f, "record")
  /\ UNCHANGED <<setting, ruleGone, incident, holder, records, faults>>

\* _upsert_incident
Upsert(f) ==
  /\ At(f, "upsert") /\ ~ruleGone
  /\ incident' = [row |-> TRUE, live |-> TRUE, fed |-> TRUE]
  /\ Goto(f, "record")
  /\ UNCHANGED <<setting, ruleGone, holder, pushes, records, faults>>

\* _bump_incident: a push that was refused counts as one as well.
Bump(f) ==
  /\ At(f, "bump")
  /\ incident' =
       [incident EXCEPT
          !.live = incident.row,
          !.fed = incident.row /\ (incident.fed \/ task[f].result # "throttled")]
  /\ Goto(f, "record")
  /\ UNCHANGED <<setting, ruleGone, holder, pushes, records, faults>>

\* _record: the row of the history, then that of the audit.
Record(f) ==
  /\ At(f, "record") /\ ~ruleGone
  /\ records' = [records EXCEPT ![f] = @ \cup {task[f].result}]
  /\ \/ /\ task[f].result = "opened" /\ Goto(f, "mark") /\ UNCHANGED holder
        /\ NoFault
     \/ /\ task[f].result # "opened" /\ Goto(f, "done") /\ Release(f)
        /\ NoFault
     \/ Fault /\ Goto(f, "errorPush") /\ UNCHANGED holder   \* only the first
  /\ UNCHANGED <<setting, ruleGone, incident, pushes>>

MarkFired(f) ==
  /\ At(f, "mark") /\ Goto(f, "done") /\ Release(f)
  /\ UNCHANGED <<setting, ruleGone, incident, pushes, records, faults>>

-----------------------------------------------------------------------------
(* Errors.                                                                 *)

\* A statement fails; those that refer to a deleted rule or target always do.
StatementFails(f) ==
  /\ \/ /\ ruleGone /\ NoFault
        /\ task[f].pc \in {"upsert", "record"} \cup (IF kind = "agent" THEN {"start"} ELSE {})
     \/ /\ Fault
        /\ task[f].pc \in {"open", "feed", "upsert", "bump", "record", "mark"} \cup
                          (IF kind = "unknown" THEN {} ELSE {"start"})
  /\ Goto(f, "errorPush")
  /\ UNCHANGED <<setting, ruleGone, incident, holder, pushes, records>>

\* A bug: the error is recorded, and nobody is told.
BugErrorPush(f) == UNCHANGED pushes

ErrorPush(f) == FallbackPush(f)

\* except Exception: a push first, then the record.
HandleError(f) ==
  /\ At(f, "errorPush") /\ ErrorPush(f) /\ Goto(f, "errorRecord")
  /\ UNCHANGED <<setting, ruleGone, incident, holder, records, faults>>

\* If that record fails too, the exception leaves the task, unseen.
RecordError(f) ==
  /\ At(f, "errorRecord") /\ Goto(f, "done") /\ Release(f)
  /\ \/ /\ ~ruleGone /\ NoFault
        /\ records' = [records EXCEPT ![f] = @ \cup {"error"}]
     \/ UNCHANGED records /\ ((ruleGone /\ NoFault) \/ Fault)
  /\ UNCHANGED <<setting, ruleGone, incident, pushes>>

Crash(c) ==
  /\ Fault /\ \E f \in Firings : task[f].at = c /\ task[f].pc # "done"
  /\ task' = [f \in Firings |->
       IF task[f].at = c /\ task[f].pc # "done"
       THEN [task[f] EXCEPT !.pc = "lost"] ELSE task[f]]
  /\ holder' = [holder EXCEPT ![c] = 0]
  /\ UNCHANGED <<setting, ruleGone, incident, pushes, records>>

-----------------------------------------------------------------------------
(* Time and operators.                                                     *)

\* feed_interval has passed since the last push.
Cool ==
  /\ incident.fed \/ recent > 0
  /\ incident' = [incident EXCEPT !.fed = FALSE] /\ recent' = 0
  /\ UNCHANGED <<setting, ruleGone, holder, task, pushed, records, faults>>

\* reuse_ttl has passed since the last firing.
Expire ==
  /\ incident.live
  /\ incident' = [incident EXCEPT !.live = FALSE, !.fed = FALSE]
  /\ recent' = 0
  /\ UNCHANGED <<setting, ruleGone, holder, task, pushed, records, faults>>

\* The rule or the target is deleted, and the incident with it.
DeleteRule ==
  /\ ~ruleGone /\ ruleGone' = TRUE /\ incident' = NoIncident
  /\ UNCHANGED <<setting, holder, task, pushes, records, faults>>

Step(f) ==
  \/ HandOver(f) \/ NoDispatcher(f) \/ LookUp(f) \/ Pushed(f) \/ Fallback(f)
  \/ Upsert(f) \/ Bump(f) \/ Record(f) \/ MarkFired(f)
  \/ StatementFails(f) \/ HandleError(f) \/ RecordError(f)

Next ==
  \/ \E f \in Firings : Step(f) \/ \E c \in Collectors : Begin(f, c)
  \/ \E c \in Collectors : Crash(c)
  \/ Cool \/ Expire \/ DeleteRule

Spec == Init /\ [][Next]_vars

\* A task is a coroutine that runs on, with timeouts on each of its calls.
\* The lock is fair: asyncio.Lock serves those who wait in turn, and there are
\* finitely many firings.
FairSpec ==
  /\ Spec
  /\ \A f \in Firings : /\ WF_vars(Step(f))
                        /\ WF_vars(\E c \in Collectors : Begin(f, c))

-----------------------------------------------------------------------------
(* Properties.                                                             *)

\* "Any unexpected error -> fallback push, never a silent drop": with a
\* fallback topic, a firing whose task ended has left a trace, in the history,
\* in the queue or as a push that was at least attempted, even if its rule was
\* deleted in the meantime or the database is down.
NoSilentDrop ==
  topic => \A f \in Firings :
             At(f, "done") => records[f] # {} \/ pushed[f] # "no"

\* The history does not overstate: a firing recorded as opened or fed, which is
\* what `notified` means, reached the channel.
NotifiedWasHeard ==
  \A f \in Firings :
    records[f] \cap {"opened", "fed"} # {} => pushed[f] = "heard"

\* The throttle: between two moments at which it opens, however many firings
\* there are, a channel gets at most one push from each collector, and one
\* more for each fault.  With one collector, the lock makes it one.  Firings of
\* a rule that was deleted are exempt: their incident cannot be kept.
PushRate ==
  ~ruleGone => recent <= Cardinality(Collectors) + faults

\* Every firing whose collector lives on gets through: no error path keeps the
\* lock of the key.
FiringEnds ==
  \A f \in Firings : <>(task[f].pc \in {"done", "lost"})
=============================================================================
