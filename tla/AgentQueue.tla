----------------------------- MODULE AgentQueue -----------------------------
(***************************************************************************)
(* Durable delivery of alerts to agent chats (ringdown/agent_queue.py) and *)
(* the Turnstone dispatcher it calls (ringdown/dispatch/turnstone.py).     *)
(*                                                                         *)
(* Collectors enqueue events in a PostgreSQL outbox.  Every replica runs a *)
(* scheduler whose tick, under a session advisory lock, polls the chats,   *)
(* cancels the work of disabled rules, and delivers the due groups: it     *)
(* reserves a workstream, creates its chat, inspects it and sends a batch. *)
(* One action is the code between two points where another actor can be    *)
(* seen: a statement that commits, or an HTTP call.                        *)
(*                                                                         *)
(* What is abstracted:                                                     *)
(*  - Time.  A deferred row wakes at a moment of the environment's choice; *)
(*    Turnstone's closure timestamp is the set of the events created       *)
(*    before it; a chat checked in the last 30 seconds is one that a tick  *)
(*    may leave out of its poll.                                           *)
(*  - An HTTP answer and the statement that records it are one step: a     *)
(*    crash between them is a crash while waiting, after which the request *)
(*    that is still in flight is served.  A request whose caller gave up   *)
(*    stays in flight, and is served or lost.                              *)
(*  - Handles, 128-bit random ids in the code, are numbered in the order   *)
(*    of their reservation, which is the order of opened_at.               *)
(*  - The owner of a chat is handled like its project.  A rule has one     *)
(*    target, and targets are alike; a workstream's rule is None when its  *)
(*    rule or its target is gone, for it is looked up by both.             *)
(*  - The column "attempted" is FALSE exactly for the status "opening",    *)
(*    since both are always written together.                              *)
(***************************************************************************)
EXTENDS Integers, FiniteSets

CONSTANTS
  Replicas,        \* collector processes, each running a scheduler
  Rules, Hosts,
  Groupings,       \* values of group_by an operator may set
  Projects,        \* values of a rule's project_id an operator may set
  NoProject,       \* the empty project_id
  TargetProject, DefaultProject,
  KeptProjects,    \* projects that Turnstone attaches instead of dropping
  Paths,           \* callers of enqueue: "router", "judge"
  RuleStates,      \* states of a rule an operator may set
  MaxActive, RateCeiling, BatchSize,
  DatedClosures,   \* TRUE if Turnstone's closure timestamps can be parsed
  None,
  MaxHandles, MaxEvents, MaxEdits, MaxFaults   \* bounds of the model

ASSUME BoundsAssumption ==
  /\ MaxHandles \in Nat /\ MaxEvents \in Nat
  /\ MaxEdits \in Nat /\ MaxFaults \in Nat

\* AgentQueue.__init__ admits 1..4; the rest of the module needs no more
\* than a positive cap.
ASSUME CapAssumption ==
  /\ MaxActive \in Nat \ {0}
  /\ RateCeiling \in Nat
  /\ BatchSize \in Nat \ {0}

\* A rule without a target lost it with the target's row; one that was unbound
\* counts as disabled.
AllStates == {"enabled", "disabled", "untargeted", "deleted"}

ASSUME NamesAssumption ==
  /\ None \notin Replicas \cup Hosts \cup Rules \cup (1 .. MaxHandles)
  /\ Replicas \cap {"now", "later"} = {}
  /\ Groupings \subseteq {"host", "rule"}
  /\ Paths \subseteq {"router", "judge"}
  /\ RuleStates \subseteq AllStates
  /\ DatedClosures \in BOOLEAN

Handles == 1 .. MaxHandles
Events == 1 .. MaxEvents
\* What a group is keyed by: a host, or the judge's constant.
Sources == Hosts \cup {"semantic"}
AllProjects == Projects \cup {NoProject, TargetProject, DefaultProject}
LeastOf(S) == CHOOSE x \in S : \A y \in S : x <= y
GreatestOf(S) == CHOOSE x \in S : \A y \in S : x >= y

VARIABLES
  rule,        \* alert_rules and their bindings, as an operator edits them
  ws,          \* agent_workstreams
  event,       \* alert_events and the columns of agent_pending
  pending,     \* the events that have a row in agent_pending
  disposition, \* alert_events.disposition
  lock,        \* holder of the advisory lock
  tick,        \* local variables of each replica's running tick
  cooling,     \* chats whose last_sent_at may be less than feed_interval old
  chat,        \* Turnstone's chats
  net,         \* requests sent to Turnstone and not yet served
  edits, faults

vars == <<rule, ws, event, pending, disposition, lock, tick, cooling, chat,
          net, edits, faults>>
database == <<ws, event, pending, disposition>>

-----------------------------------------------------------------------------
(* Rows, chats and local state.                                            *)

Workstream ==
  [status  : {"none", "opening", "uncertain", "open", "closed"},
   rule    : Rules \cup {None},
   source  : Sources \cup {None},
   project : AllProjects,
   seeded  : BOOLEAN]

Waits == {"now", "later"} \cup Replicas

Event ==
  [rule     : Rules \cup {None},
   target   : BOOLEAN,   \* target_id still names one
   host     : Sources \cup {None},
   by       : {"host", "rule"},
   project  : AllProjects,
   assigned : Handles \cup {None},
   wait     : Waits]

Chat ==
  [state   : {"none", "live", "unloaded", "closed"},
   project : AllProjects,
   got     : SUBSET Events,
   briefed : BOOLEAN,
   before  : SUBSET Events]

Request ==
  [kind : {"create", "send"}, handle : Handles, events : SUBSET Events,
   seed : BOOLEAN]

Answers == {"none", "unknown", "live", "unloaded", "closed", "undated"}

Tick ==
  [pc     : {"idle", "poll", "list", "next", "assign", "attempt", "create",
             "inspect", "inspected", "decide", "feed"},
   todo   : SUBSET Handles,
   groups : SUBSET Events,
   rows   : SUBSET Events,
   cur    : Handles \cup {None},
   answer : Answers]

IdleTick ==
  [pc |-> "idle", todo |-> {}, groups |-> {}, rows |-> {}, cur |-> None,
   answer |-> "none"]

\* The tick goes back to the loop over the due groups.
BackToLoop(t) ==
  [t EXCEPT !.pc = "next", !.rows = {}, !.cur = None, !.answer = "none"]

\* Definitions named Bug... are plausible mistakes in the code; each stands
\* before the definition it would replace, and breaks one of the properties.
BugUncertainNotCounted == {h \in Handles : ws[h].status \in {"opening", "open"}}
BugClosedCounted == {h \in Handles : ws[h].status # "none"}

Active == {h \in Handles : ws[h].status \notin {"none", "closed"}}
Opened == {h \in Handles : ws[h].status # "none"}
Created == {e \in Events : disposition[e] # "none"}

\* group_key: events with the same key are delivered together.
KeySource(e) == IF event[e].by = "host" THEN event[e].host ELSE None
Key(e) == <<event[e].rule, event[e].target, event[e].by, KeySource(e), event[e].project>>
GroupOf(e) == {f \in pending : Key(f) = Key(e)}

\* SELECT ... WHERE dedup_key = %s ORDER BY id LIMIT batch_size
FirstRows(S) ==
  {e \in S : Cardinality({f \in S : f < e}) < BatchSize}

\* prepare(): the rule's project, else the target's, else the default.
BugNullProject(k, targetProject) == None

OrElse(p, q) == IF p # NoProject THEN p ELSE q
Prepared(k, targetProject) ==
  OrElse(rule[k].project, OrElse(targetProject, DefaultProject))

BugFindOpenOnly(k, project, grouping, source) ==
  LET fits == {h \in Active : /\ ws[h].status = "open"
                              /\ ws[h].rule = k /\ ws[h].project = project
                              /\ grouping = "rule" \/ ws[h].source = source}
  IN  IF fits = {} THEN None ELSE GreatestOf(fits)

\* The newest unclosed workstream of the rule and project, for the host if
\* the rule groups by host.  A NULL source matches no row.
FindWorkstream(k, project, grouping, source) ==
  LET fits == {h \in Active : /\ ws[h].rule = k
                              /\ ws[h].project = project
                              /\ grouping = "rule" \/ ws[h].source = source}
  IN  IF fits = {} THEN None ELSE GreatestOf(fits)

Init ==
  /\ rule \in [Rules -> [state : {"enabled"}, by : Groupings, project : Projects]]
  /\ ws = [h \in Handles |-> [status |-> "none", rule |-> None, source |-> None,
                              project |-> NoProject, seeded |-> FALSE]]
  /\ event = [e \in Events |-> [rule |-> None, target |-> FALSE, host |-> None, by |-> "host",
                                project |-> NoProject, assigned |-> None,
                                wait |-> "now"]]
  /\ pending = {}
  /\ disposition = [e \in Events |-> "none"]
  /\ lock = None
  /\ tick = [r \in Replicas |-> IdleTick]
  /\ cooling = {}
  /\ chat = [h \in Handles |-> [state |-> "none", project |-> NoProject,
                                got |-> {}, briefed |-> FALSE, before |-> {}]]
  /\ net = {}
  /\ edits = 0 /\ faults = 0

-----------------------------------------------------------------------------
(* Collectors.                                                             *)

\* The L1 router passes the target with its project and the rule with its
\* grouping; the judge's queries leave both out, and its events are grouped
\* under a constant source.  The collector's rules may be stale: a disabled
\* rule can still fire, one that is deleted or whose target is, fails on the
\* foreign key.
Enqueue(k, host, path) ==
  LET e == LeastOf(Events \ Created)
      judged == path = "judge"
      project == Prepared(k, IF judged THEN NoProject ELSE TargetProject)
      grouping == IF judged THEN "host" ELSE rule[k].by
      from == IF judged THEN "semantic" ELSE host
      source == IF grouping = "host" THEN from ELSE None
  IN
  /\ Events \ Created # {}
  /\ rule[k].state \notin {"deleted", "untargeted"}
  /\ event' = [event EXCEPT ![e] =
       [rule |-> k, target |-> TRUE, host |-> from, by |-> grouping, project |-> project,
        assigned |-> FindWorkstream(k, project, grouping, source),
        wait |-> "now"]]
  /\ pending' = pending \cup {e}
  /\ disposition' = [disposition EXCEPT ![e] = "queued"]
  /\ UNCHANGED <<rule, ws, lock, tick, cooling, chat, net, edits, faults>>

-----------------------------------------------------------------------------
(* A tick: the lock, the poll, the cancellation and the due groups.        *)

\* pg_try_advisory_lock
BugNoLock(r) == TRUE
LockFree(r) == lock = None

\* Rows deferred for poll_interval by this replica are due again at its next
\* tick, which starts poll_interval after the end of this one.
BeginTick(r, due) ==
  /\ tick[r].pc = "idle"
  /\ LockFree(r)
  /\ due \subseteq {h \in Active : ws[h].status # "opening"}
  /\ lock' = r
  /\ tick' = [tick EXCEPT ![r].pc = "poll", ![r].todo = due]
  /\ event' = [e \in Events |->
       [event[e] EXCEPT !.wait = IF @ = r THEN "now" ELSE @]]
  /\ UNCHANGED <<rule, ws, pending, disposition, cooling, chat, net, edits, faults>>

\* inspect(): what the metadata endpoint can say of a chat.  Any failure, a
\* chat it does not know and a mismatch of identities are "unknown".
AnswersFor(h) ==
  CASE chat[h].state = "none"   -> {"unknown"}
    [] chat[h].state = "closed" -> {IF DatedClosures THEN "closed" ELSE "undated"}
    [] OTHER                    -> {chat[h].state}

Inspect(r, h, answer) ==
  /\ \/ answer \in AnswersFor(h) /\ UNCHANGED faults
     \/ /\ answer = "unknown" /\ answer \notin AnswersFor(h)
        /\ faults < MaxFaults /\ faults' = faults + 1
  /\ tick' = [tick EXCEPT ![r].pc = "inspected", ![r].todo = @ \ {h},
                          ![r].cur = h, ![r].answer = answer]
  /\ UNCHANGED <<rule, database, lock, cooling, chat, net, edits>>

PollRead(r) ==
  /\ tick[r].pc = "poll"
  /\ \E h \in tick[r].todo, answer \in Answers : Inspect(r, h, answer)

DeliveryRead(r) ==
  /\ tick[r].pc = "inspect"
  /\ \E answer \in Answers : Inspect(r, tick[r].cur, answer)

BugResolveLaterEvents(h, answer) ==
  {e \in pending : event[e].assigned = h /\ answer \in {"closed", "undated"}}

\* The events a closure resolves: those assigned to the chat and created no
\* later than its closure, or than now if the timestamp is unknown.
ResolvedBy(h, answer) ==
  {e \in pending : /\ event[e].assigned = h
                   /\ \/ answer = "undated"
                      \/ answer = "closed" /\ e \in chat[h].before}

BugUnknownIsClosed(status, answer) ==
  IF answer \in {"live", "unloaded"} THEN "open" ELSE "closed"
BugClosureUnseen(status, answer) ==
  IF answer \in {"live", "unloaded"} THEN "open" ELSE status

\* A chat seen closed is closed, one seen otherwise is open, and an unknown
\* answer changes nothing.
StatusAfter(status, answer) ==
  CASE answer \in {"closed", "undated"} -> "closed"
    [] answer \in {"live", "unloaded"}  -> "open"
    [] OTHER -> status

\* The transaction of _inspect, for the poll (no rows in hand) and for a
\* delivery.
RecordInspection(r) ==
  LET h == tick[r].cur
      answer == tick[r].answer
      resolved == ResolvedBy(h, answer)
  IN
  /\ tick[r].pc = "inspected"
  /\ ws' = [ws EXCEPT
       ![h].status = StatusAfter(@, answer),
       ![h].project = IF answer = "unknown" THEN @ ELSE chat[h].project]
  /\ pending' = pending \ resolved
  /\ disposition' = [e \in Events |->
       IF e \in resolved THEN "resolved" ELSE disposition[e]]
  /\ tick' = [tick EXCEPT ![r] =
       IF @.rows = {} THEN [@ EXCEPT !.pc = "poll", !.cur = None, !.answer = "none"]
                      ELSE [@ EXCEPT !.pc = "decide"]]
  /\ UNCHANGED <<rule, event, lock, cooling, chat, net, edits, faults>>

CancelDisabled(r) ==
  LET cancelled == {e \in pending : rule[event[e].rule].state # "enabled"} IN
  /\ tick[r].pc = "poll" /\ tick[r].todo = {}
  /\ pending' = pending \ cancelled
  /\ disposition' = [e \in Events |->
       IF e \in cancelled THEN "cancelled" ELSE disposition[e]]
  /\ tick' = [tick EXCEPT ![r].pc = "list"]
  /\ UNCHANGED <<rule, ws, event, lock, cooling, chat, net, edits, faults>>

\* A group is listed by its first event if any of its rows is due.
ListGroups(r) ==
  /\ tick[r].pc = "list"
  /\ tick' = [tick EXCEPT ![r].pc = "next", ![r].groups =
       {e \in pending : /\ e = LeastOf(GroupOf(e))
                        /\ \E f \in GroupOf(e) : event[f].wait = "now"}]
  /\ UNCHANGED <<rule, database, lock, cooling, chat, net, edits, faults>>

EndTick(r) ==
  /\ tick[r].pc = "next" /\ tick[r].groups = {}
  /\ tick' = [tick EXCEPT ![r] = IdleTick]
  /\ lock' = None
  /\ UNCHANGED <<rule, database, cooling, chat, net, edits, faults>>

-----------------------------------------------------------------------------
(* Delivery of one group.                                                  *)

Head(r) == LeastOf(tick[r].groups)
GroupRows(r) == FirstRows({e \in pending : Key(e) = Key(Head(r))})

NextGroup(r) == tick[r].pc = "next" /\ tick[r].groups # {}

\* The group still has rows and the first of them is due.
HeadIsDue(r) ==
  \E e \in GroupRows(r) : event[e].wait = "now" /\ \A f \in GroupRows(r) : e <= f

\* An empty group, or one whose first row is not due.
SkipGroup(r) ==
  /\ NextGroup(r)
  /\ ~HeadIsDue(r)
  /\ tick' = [tick EXCEPT ![r].groups = @ \ {Head(r)}]
  /\ UNCHANGED <<rule, database, lock, cooling, chat, net, edits, faults>>

Deferred(rows, wait) ==
  [e \in Events |-> IF e \in rows \cap pending
                      THEN [event[e] EXCEPT !.wait = wait] ELSE event[e]]

\* The rule's own reading of owner and project, made with its current row
\* and the target's, must agree with what was frozen at enqueue.
SameProject(r) ==
  LET first == event[Head(r)]
  IN  Prepared(first.rule, TargetProject) = first.project

RefuseChangedProject(r) ==
  /\ NextGroup(r) /\ HeadIsDue(r)
  /\ ~SameProject(r)
  /\ event' = Deferred(GroupRows(r), "later")
  /\ tick' = [tick EXCEPT ![r].groups = @ \ {Head(r)}]
  /\ UNCHANGED <<rule, ws, pending, disposition, lock, cooling, chat, net, edits, faults>>

WorkstreamFor(r) ==
  LET first == event[Head(r)]
  IN  FindWorkstream(first.rule, first.project, rule[first.rule].by, KeySource(Head(r)))

Deliverable(r) == NextGroup(r) /\ HeadIsDue(r) /\ SameProject(r)

\* The cap counts every unclosed workstream; the ceiling counts openings of
\* the last minute, any of those made so far.
WaitForCapacity(r) ==
  /\ Deliverable(r)
  /\ WorkstreamFor(r) = None
  /\ \/ Cardinality(Active) >= MaxActive
     \/ Cardinality(Opened) >= RateCeiling
  /\ event' = Deferred(GroupRows(r), r)
  /\ tick' = [tick EXCEPT ![r].groups = @ \ {Head(r)}]
  /\ UNCHANGED <<rule, ws, pending, disposition, lock, cooling, chat, net, edits, faults>>

TakeUp(r, h) ==
  tick' = [tick EXCEPT ![r].pc = "assign", ![r].groups = @ \ {Head(r)},
                       ![r].rows = GroupRows(r), ![r].cur = h]

Reserve(r) ==
  /\ Deliverable(r)
  /\ WorkstreamFor(r) = None
  /\ Cardinality(Active) < MaxActive
  /\ Handles \ Opened # {}
  /\ LET h == LeastOf(Handles \ Opened)
         first == event[Head(r)]
     IN  /\ ws' = [ws EXCEPT ![h] =
              [status |-> "opening", rule |-> first.rule, source |-> first.host,
               project |-> first.project, seeded |-> FALSE]]
         /\ TakeUp(r, h)
  /\ UNCHANGED <<rule, event, pending, disposition, lock, cooling, chat, net, edits, faults>>

Adopt(r) ==
  /\ Deliverable(r)
  /\ WorkstreamFor(r) # None
  /\ TakeUp(r, WorkstreamFor(r))
  /\ UNCHANGED <<rule, database, lock, cooling, chat, net, edits, faults>>

\* "opening" and not attempted: the reservation was never asked for, or its
\* create was refused.
BugCreateUncertain(h) == ws[h].status \in {"opening", "uncertain"}
NeedsCreate(h) == ws[h].status = "opening"

Assign(r) ==
  /\ tick[r].pc = "assign"
  /\ event' = [e \in Events |-> IF e \in tick[r].rows \cap pending
                 THEN [event[e] EXCEPT !.assigned = tick[r].cur] ELSE event[e]]
  /\ tick' = [tick EXCEPT ![r].pc =
       IF NeedsCreate(tick[r].cur) THEN "attempt" ELSE "inspect"]
  /\ UNCHANGED <<rule, ws, pending, disposition, lock, cooling, chat, net, edits, faults>>

CreateRequest(h) == [kind |-> "create", handle |-> h, events |-> {}, seed |-> FALSE]

\* The attempt is committed, then the request leaves.
Attempt(r) ==
  LET h == tick[r].cur IN
  /\ tick[r].pc = "attempt"
  /\ ws' = [ws EXCEPT ![h].status = "uncertain"]
  /\ net' = net \cup {CreateRequest(h)}
  /\ tick' = [tick EXCEPT ![r].pc = "create"]
  /\ UNCHANGED <<rule, event, pending, disposition, lock, cooling, chat, edits, faults>>

\* What Turnstone does with a create: a live chat, with the project unless
\* the owner is not a member of it.
ChatCreated(h) ==
  [chat EXCEPT ![h].state = "live",
               ![h].project = IF ws[h].project \in KeptProjects
                                THEN ws[h].project ELSE NoProject]

\* The rows in hand that still exist wait for a later tick.
GiveUp(r) ==
  /\ event' = Deferred(tick[r].rows, "later")
  /\ tick' = [tick EXCEPT ![r] = BackToLoop(@)]

CreateAccepted(r) ==
  LET h == tick[r].cur IN
  /\ tick[r].pc = "create"
  /\ CreateRequest(h) \in net
  /\ chat[h].state = "none"
  /\ chat' = ChatCreated(h)
  /\ net' = net \ {CreateRequest(h)}
  /\ ws' = [ws EXCEPT ![h].status = "open"]
  /\ tick' = [tick EXCEPT ![r].pc = "inspect"]
  /\ UNCHANGED <<rule, event, pending, disposition, lock, cooling, edits, faults>>

\* A 4xx other than 409, or no token for the owner: retry_create.
CreateRefused(r) ==
  LET h == tick[r].cur IN
  /\ tick[r].pc = "create"
  /\ faults < MaxFaults /\ faults' = faults + 1
  /\ net' = net \ {CreateRequest(h)}
  /\ ws' = [ws EXCEPT ![h].status = "opening"]
  /\ GiveUp(r)
  /\ UNCHANGED <<rule, pending, disposition, lock, cooling, chat, edits>>

\* A timeout, a 5xx, a 409 or an answer with another id: the reservation
\* stays uncertain, and the request may still be served.
CreateUnknown(r) ==
  /\ tick[r].pc = "create"
  /\ faults < MaxFaults /\ faults' = faults + 1
  /\ GiveUp(r)
  /\ UNCHANGED <<rule, ws, pending, disposition, lock, cooling, chat, net, edits>>

\* After the second inspection: not live, or in another project.
HoldBack(r) ==
  /\ tick[r].pc = "decide"
  /\ \/ tick[r].answer # "live"
     \/ chat[tick[r].cur].project # event[LeastOf(tick[r].rows)].project
  /\ GiveUp(r)
  /\ UNCHANGED <<rule, ws, pending, disposition, lock, cooling, chat, net, edits, faults>>

MaySend(r) ==
  /\ tick[r].pc = "decide"
  /\ tick[r].answer = "live"
  /\ chat[tick[r].cur].project = event[LeastOf(tick[r].rows)].project

\* Less than feed_interval since the last send: the rows wait for the rest.
Throttle(r) ==
  /\ MaySend(r)
  /\ tick[r].cur \in cooling
  /\ cooling' = cooling \ {tick[r].cur}
  /\ GiveUp(r)
  /\ UNCHANGED <<rule, ws, pending, disposition, lock, chat, net, edits, faults>>

SendRequest(h, batch) ==
  [kind |-> "send", handle |-> h, events |-> batch, seed |-> ~ws[h].seeded]
Sent(r) == SendRequest(tick[r].cur, tick[r].rows)

\* The first rows, as many as fit in a message, with the seed if the chat
\* has not had it.
Send(r) ==
  /\ MaySend(r)
  /\ \E n \in tick[r].rows :
       LET batch == {e \in tick[r].rows : e <= n}
       IN  /\ tick' = [tick EXCEPT ![r].pc = "feed", ![r].rows = batch]
           /\ net' = net \cup {SendRequest(tick[r].cur, batch)}
  /\ UNCHANGED <<rule, database, lock, cooling, chat, edits, faults>>

\* What Turnstone does with a send to a live chat.
MessageTaken(q) ==
  [chat EXCEPT ![q.handle].got = @ \cup q.events,
               ![q.handle].briefed = @ \/ q.seed]

\* Accepted ("ok" or "queued"): the events leave the outbox.
FeedAccepted(r) ==
  LET h == tick[r].cur
      sent == tick[r].rows \cap {e \in Events : disposition[e] # "deleted"}
  IN
  /\ tick[r].pc = "feed"
  /\ Sent(r) \in net
  /\ chat[h].state = "live"
  /\ chat' = MessageTaken(Sent(r))
  /\ net' = net \ {Sent(r)}
  /\ ws' = [ws EXCEPT ![h].seeded = TRUE]
  /\ cooling' = cooling \cup {h}
  /\ pending' = pending \ tick[r].rows
  /\ disposition' = [e \in Events |->
       IF e \notin sent THEN disposition[e]
       ELSE IF ws[h].seeded THEN "fed" ELSE "opened"]
  /\ tick' = [tick EXCEPT ![r] = BackToLoop(@)]
  /\ UNCHANGED <<rule, event, lock, edits, faults>>

\* Refused: the queue is full, the chat is gone, no token, an error status.
FeedRefused(r) ==
  /\ tick[r].pc = "feed"
  /\ \/ chat[tick[r].cur].state # "live" /\ UNCHANGED faults
     \/ faults < MaxFaults /\ faults' = faults + 1
  /\ net' = net \ {Sent(r)}
  /\ GiveUp(r)
  /\ UNCHANGED <<rule, ws, pending, disposition, lock, cooling, chat, edits>>

BugUnansweredIsSeeded(r) ==
  /\ tick[r].pc = "feed"
  /\ faults < MaxFaults /\ faults' = faults + 1
  /\ ws' = [ws EXCEPT ![tick[r].cur].seeded = TRUE]
  /\ GiveUp(r)
  /\ UNCHANGED <<rule, pending, disposition, lock, cooling, chat, net, edits>>

\* No answer: the request may still be served.
FeedUnknown(r) ==
  /\ tick[r].pc = "feed"
  /\ faults < MaxFaults /\ faults' = faults + 1
  /\ GiveUp(r)
  /\ UNCHANGED <<rule, ws, pending, disposition, lock, cooling, chat, net, edits>>

-----------------------------------------------------------------------------
(* The environment: crashes, Turnstone, its users, operators and time.     *)

\* The process dies, or loses the connection that holds the lock, on which
\* it also writes: the tick is over and the lock free.
Crash(r) ==
  /\ tick[r].pc # "idle"
  /\ faults < MaxFaults /\ faults' = faults + 1
  /\ tick' = [tick EXCEPT ![r] = IdleTick]
  /\ lock' = IF lock = r THEN None ELSE lock
  /\ event' = [e \in Events |->
       [event[e] EXCEPT !.wait = IF @ = r THEN "later" ELSE @]]
  /\ UNCHANGED <<rule, ws, pending, disposition, cooling, chat, net, edits>>

Abandoned(q) ==
  \A r \in Replicas : /\ tick[r].pc = "create" => q # CreateRequest(tick[r].cur)
                      /\ tick[r].pc = "feed" => q # Sent(r)

\* A request nobody waits for is served; a send to a chat that is not live
\* has no effect.
ServeLate(q) ==
  /\ Abandoned(q)
  /\ net' = net \ {q}
  /\ chat' = CASE q.kind = "create" /\ chat[q.handle].state = "none" -> ChatCreated(q.handle)
               [] q.kind = "send" /\ chat[q.handle].state = "live"   -> MessageTaken(q)
               [] OTHER -> chat
  /\ UNCHANGED <<rule, database, lock, tick, cooling, edits, faults>>

\* One that never left, for its process died, or never arrived.
Lose(q) ==
  /\ Abandoned(q)
  /\ net' = net \ {q}
  /\ UNCHANGED <<rule, database, lock, tick, cooling, chat, edits, faults>>

CloseChat(h) ==
  /\ chat[h].state \in {"live", "unloaded"}
  /\ chat' = [chat EXCEPT ![h].state = "closed", ![h].before = Created]
  /\ UNCHANGED <<rule, database, lock, tick, cooling, net, edits, faults>>

UnloadChat(h) ==
  /\ chat[h].state = "live"
  /\ faults < MaxFaults /\ faults' = faults + 1
  /\ chat' = [chat EXCEPT ![h].state = "unloaded"]
  /\ UNCHANGED <<rule, database, lock, tick, cooling, net, edits>>

ReloadChat(h) ==
  /\ chat[h].state = "unloaded"
  /\ chat' = [chat EXCEPT ![h].state = "live"]
  /\ UNCHANGED <<rule, database, lock, tick, cooling, net, edits, faults>>

\* A rule whose target is gone stays so until it is bound to another.
EditRule(k, new) ==
  /\ edits < MaxEdits /\ edits' = edits + 1
  /\ rule[k].state # "deleted"
  /\ new # rule[k] /\ new.state # "deleted"
  /\ new.state = "untargeted" => rule[k].state = "untargeted"
  /\ rule' = [rule EXCEPT ![k] = new]
  /\ UNCHANGED <<database, lock, tick, cooling, chat, net, faults>>

\* The foreign keys delete the rule's events and rows, and clear rule_id in
\* its workstreams.
DeleteRule(k) ==
  LET gone == {e \in Created : event[e].rule = k} IN
  /\ "deleted" \in RuleStates
  /\ edits < MaxEdits /\ edits' = edits + 1
  /\ rule[k].state # "deleted"
  /\ rule' = [rule EXCEPT ![k].state = "deleted"]
  /\ pending' = pending \ gone
  /\ disposition' = [e \in Events |-> IF e \in gone THEN "deleted" ELSE disposition[e]]
  /\ ws' = [h \in Handles |-> [ws[h] EXCEPT !.rule = IF @ = k THEN None ELSE @]]
  /\ UNCHANGED <<event, lock, tick, cooling, chat, net, faults>>

\* A bug: the outbox has no foreign key on the target.
BugDeleteTarget(S) ==
  /\ "untargeted" \in RuleStates
  /\ edits < MaxEdits /\ edits' = edits + 1
  /\ S # {} /\ \A k \in S : rule[k].state \in {"enabled", "disabled"}
  /\ rule' = [k \in Rules |-> [rule[k] EXCEPT !.state = IF k \in S THEN "untargeted" ELSE @]]
  /\ event' = [e \in Events |-> [event[e] EXCEPT !.target = @ /\ event[e].rule \notin S]]
  /\ ws' = [h \in Handles |-> [ws[h] EXCEPT !.rule = IF @ \in S THEN None ELSE @]]
  /\ UNCHANGED <<pending, disposition, lock, tick, cooling, chat, net, faults>>

\* S are the rules bound to the target.  The foreign keys delete the rows of its
\* outbox and clear target_id in its events and its workstreams.
DeleteTarget(S) ==
  /\ "untargeted" \in RuleStates
  /\ edits < MaxEdits /\ edits' = edits + 1
  /\ S # {} /\ \A k \in S : rule[k].state \in {"enabled", "disabled"}
  /\ rule' = [k \in Rules |-> [rule[k] EXCEPT !.state = IF k \in S THEN "untargeted" ELSE @]]
  /\ pending' = {e \in pending : event[e].rule \notin S}
  /\ event' = [e \in Events |-> [event[e] EXCEPT !.target = @ /\ event[e].rule \notin S]]
  /\ ws' = [h \in Handles |-> [ws[h] EXCEPT !.rule = IF @ \in S THEN None ELSE @]]
  /\ UNCHANGED <<disposition, lock, tick, cooling, chat, net, faults>>

\* available_at is reached.
Wake(e) ==
  /\ e \in pending /\ event[e].wait # "now"
  /\ event' = [event EXCEPT ![e].wait = "now"]
  /\ UNCHANGED <<rule, ws, pending, disposition, lock, tick, cooling, chat, net, edits, faults>>

-----------------------------------------------------------------------------
\* Every step of a tick but its beginning and its crash.
Scheduler(r) ==
  \/ PollRead(r) \/ RecordInspection(r) \/ CancelDisabled(r) \/ ListGroups(r)
  \/ EndTick(r) \/ SkipGroup(r) \/ RefuseChangedProject(r) \/ WaitForCapacity(r)
  \/ Reserve(r) \/ Adopt(r) \/ Assign(r) \/ Attempt(r)
  \/ CreateAccepted(r) \/ CreateRefused(r) \/ CreateUnknown(r)
  \/ DeliveryRead(r) \/ HoldBack(r) \/ Throttle(r) \/ Send(r)
  \/ FeedAccepted(r) \/ FeedRefused(r) \/ FeedUnknown(r)

Collectors ==
  \E k \in Rules, host \in Hosts, path \in Paths : Enqueue(k, host, path)

Turnstone ==
  \/ \E q \in net : ServeLate(q) \/ Lose(q)
  \/ \E h \in Handles : CloseChat(h) \/ UnloadChat(h) \/ ReloadChat(h)

Operators ==
  \/ \E k \in Rules :
       \/ \E new \in [state : RuleStates, by : Groupings, project : Projects] : EditRule(k, new)
       \/ DeleteRule(k)
  \/ \E S \in SUBSET Rules : DeleteTarget(S)

Next ==
  \/ Collectors
  \/ \E r \in Replicas :
       (\E due \in SUBSET Handles : BeginTick(r, due)) \/ Scheduler(r) \/ Crash(r)
  \/ Turnstone
  \/ Operators
  \/ \E e \in Events : Wake(e)

Spec == Init /\ [][Next]_vars

\* What the deployment must give for anything to be delivered: replicas keep
\* ticking and a tick runs to its end; a chat's checked_at grows older than 30
\* seconds while ticks recur, so that some tick polls every chat; a request
\* that was sent is served; deferrals expire; users close their chats and an
\* unloaded chat is loaded again.  Faults are bounded by MaxFaults.
Fairness ==
  /\ \A r \in Replicas :
       /\ WF_vars(Scheduler(r))
       /\ SF_vars(BeginTick(r, {h \in Active : ws[h].status # "opening"}))
  /\ WF_vars(\E q \in net : ServeLate(q))
  /\ \A h \in Handles : WF_vars(CloseChat(h)) /\ WF_vars(ReloadChat(h))
  /\ \A e \in Events : WF_vars(Wake(e))

FairSpec == Spec /\ Fairness

-----------------------------------------------------------------------------
(* Invariants.                                                             *)

\* Every variable has its type.
TypeOK ==
  /\ rule \in [Rules -> [state : AllStates, by : Groupings, project : Projects]]
  /\ ws \in [Handles -> Workstream]
  /\ event \in [Events -> Event]
  /\ pending \in SUBSET Events
  /\ disposition \in [Events -> {"none", "queued", "opened", "fed", "resolved",
                                 "cancelled", "deleted"}]
  /\ lock \in Replicas \cup {None}
  /\ tick \in [Replicas -> Tick]
  /\ cooling \in SUBSET Handles
  /\ chat \in [Handles -> Chat]
  /\ net \in SUBSET Request
  /\ edits \in 0 .. MaxEdits
  /\ faults \in 0 .. MaxFaults

\* No more agent chats are unclosed in Turnstone than the cap allows, whatever
\* crashes, times out or lands late (agent_queue.py:3-6, 246-251).
Agents == {h \in Handles : chat[h].state \in {"live", "unloaded"}}
AgentCap == Cardinality(Agents) <= MaxActive

\* Every unclosed agent chat is tracked by an unclosed workstream whose
\* creation was attempted: none runs that the scheduler believes closed or
\* never asked for (agent_queue.py:261-265).
NoStrayAgent == \A h \in Agents : ws[h].status \in {"uncertain", "open"}

\* A create in flight is for a chat that does not exist yet and whose
\* reservation waits for it: after a crash or a timeout nobody asks again
\* (agent_queue.py:262-276, 409 in turnstone.py:98).
CreateNotRepeated ==
  \A q \in net : q.kind = "create" =>
    /\ chat[q.handle].state = "none"
    /\ ws[q.handle].status = "uncertain"

\* The unclosed workstreams of a rule differ in their host or their project:
\* a storm of one group is one chat (agent_queue.py:173-179).
OneChatPerGroup ==
  \A g, h \in Active :
    g # h => \/ ws[g].rule # ws[h].rule
             \/ ws[g].source # ws[h].source
             \/ ws[g].project # ws[h].project

\* Every event ever enqueued waits in the outbox, or reached a chat, or was
\* resolved by the closure of the chat it was assigned to, which it precedes,
\* or was dropped with its rule or its target (agent_queue.py:163-170, 197-204,
\* 315-323, agent_schema.sql:33-34).
Delivered(e) == \E h \in Handles : e \in chat[h].got
NothingLost ==
  \A e \in Events :
    /\ e \in pending <=> disposition[e] = "queued" /\ event[e].target
    /\ disposition[e] \in {"opened", "fed"} => Delivered(e)
    /\ disposition[e] = "resolved" =>
         /\ event[e].assigned # None
         /\ chat[event[e].assigned].state = "closed"
         /\ e \in chat[event[e].assigned].before

\* A chat that has received an event has received the seed, the instructions
\* of the rule (agent_queue.py:306-307, 316).
SeedFirst == \A h \in Handles : chat[h].got # {} => chat[h].briefed

\* An event that is recorded as queued waits in the outbox, since unbinding
\* cancels and pending entries do not expire (docs/incident-delivery.md:37-38,
\* 57-58).
QueuedWaits == \A e \in Events : disposition[e] = "queued" => e \in pending

\* An event that a rule without edits enqueued carries the project its
\* delivery will ask for, inherited from the target if the rule has none
\* (mcp_server.py:923-924, agent_queue.py:236-240).
InheritsProject ==
  edits = 0 => \A e \in pending :
    event[e].project = Prepared(event[e].rule, TargetProject)

-----------------------------------------------------------------------------
(* The inductive invariant behind AgentCap, NoStrayAgent and               *)
(* CreateNotRepeated.                                                      *)

Reached == {"uncertain", "open"}   \* statuses a chat is inspected in

\* Only the holder of the lock is inside a tick.
Exclusive == \A r \in Replicas : tick[r].pc # "idle" => lock = r

\* A tick that works on a workstream knows which.
InHand ==
  {"assign", "attempt", "create", "inspect", "inspected", "decide", "feed"}
CursorSet == \A r \in Replicas : tick[r].pc \in InHand => tick[r].cur \in Handles

\* What a tick remembers of the workstream in hand is still so in the
\* database and, as far as it is monotonic, in Turnstone.
Remembered(r) ==
  LET t == tick[r] IN
  /\ t.pc \notin {"poll", "inspected"} => t.todo = {}
  /\ t.pc \in {"idle", "poll"} => t.rows = {}
  /\ t.pc = "inspected" => /\ t.rows = {} \/ t.todo = {}
                           /\ t.cur \notin t.todo
  /\ \A h \in t.todo : ws[h].status \in Reached
  /\ t.pc = "assign" => t.cur \in Active
  /\ t.pc = "attempt" => ws[t.cur].status = "opening"
  /\ t.pc = "create" => CreateRequest(t.cur) \in net
  /\ t.pc \in {"inspect", "inspected"} => ws[t.cur].status \in Reached
  /\ t.pc = "inspected" =>
       /\ t.answer \in {"closed", "undated"} => chat[t.cur].state = "closed"
       /\ t.answer \in {"live", "unloaded"} => chat[t.cur].state # "none"

\* How a workstream, its chat and its create in flight go together.
Tracked(h) ==
  /\ ws[h].status \in {"none", "opening"} => chat[h].state = "none"
  /\ ws[h].status = "open" => chat[h].state # "none"
  /\ ws[h].status = "closed" => chat[h].state = "closed"

Reserved == Cardinality(Active) <= MaxActive
Creates == \A q \in net : q.kind = "create" => q = CreateRequest(q.handle)

\* Every unclosed chat is backed by a counted workstream, and the tick that
\* may change its status is alone and up to date (agent_queue.py:117-131,
\* 147-155, 245-282).
Backed ==
  /\ Exclusive /\ CursorSet /\ Reserved /\ Creates
  /\ CreateNotRepeated
  /\ \A r \in Replicas : Remembered(r)
  /\ \A h \in Handles : Tracked(h)

-----------------------------------------------------------------------------
(* Action properties.                                                      *)

\* A retry goes to the chat of the first attempt: an event changes
\* workstreams only when the one it was assigned to is closed
\* (agent_queue.py:5-9).
SameChat ==
  [][\A e \in Events :
       /\ event[e].assigned # None
       /\ event'[e].assigned # event[e].assigned
       => ws[event[e].assigned].status = "closed"]_vars

\* A closed workstream is never opened again, so its slot is never counted
\* twice (agent_queue.py:147-155).
ClosedIsFinal ==
  [][\A h \in Handles : ws[h].status = "closed" => ws'[h].status = "closed"]_vars

\* A create whose outcome is unknown is never replaced by another workstream
\* for the events that asked for it (agent_queue.py:5-6).
UncertainNotReplaced ==
  [][\A e \in Events :
       /\ event[e].assigned # None
       /\ ws[event[e].assigned].status = "uncertain"
       => event'[e].assigned = event[e].assigned]_vars

\* Nothing is sent for a rule that is disabled (agent_queue.py:196).
NothingSentWhenDisabled ==
  [][\A q \in net' \ net : \A e \in q.events : rule[event[e].rule].state = "enabled"]_vars

\* A new group is admitted only after the groups that came before it and wait
\* for capacity (docs/incident-delivery.md:36).
FifoAdmission ==
  [][\A h \in Handles : ws[h].status = "none" /\ ws'[h].status = "opening" =>
       \A e \in pending : event[e].wait \in Replicas =>
         LeastOf(tick'[lock].rows) < e]_vars

-----------------------------------------------------------------------------
(* Liveness.                                                               *)

\* The rule was moved to another project since: its delivery is refused.
Moved(e) == e \in pending /\ Prepared(event[e].rule, TargetProject) # event[e].project

\* A reservation that holds its slot for good unless something new comes: it was
\* never asked for, and no waiting event would take it up, for those that would
\* were cancelled, moved or dropped; or it was asked for in vain, and is left to
\* the operator (docs/incident-delivery.md:66-67).
Wedged(h) ==
  \/ /\ ws[h].status = "opening"
     /\ \A e \in pending :
          \/ Moved(e)
          \/ FindWorkstream(event[e].rule, event[e].project, rule[event[e].rule].by, KeySource(e)) # h
  \/ /\ ws[h].status = "uncertain" /\ chat[h].state = "none"
     /\ CreateRequest(h) \notin net

\* Every event eventually leaves the outbox, unless its rule stays moved to
\* another project, or the slots that its group waits for are held for good.
Settled ==
  \A e \in Events :
    <>[](~Moved(e) /\ \A h \in Handles : ~Wedged(h)) => (e \in pending ~> e \notin pending)

\* Closing a chat eventually releases its slot, without any new alert
\* (agent_queue.py:182).
SlotReleased == \A h \in Handles : chat[h].state = "closed" ~> ws[h].status = "closed"

-----------------------------------------------------------------------------
(* The promise of AgentOutbox, with the slots read off the workstreams and *)
(* the chats.                                                              *)

itemBar ==
  [e \in Events |->
     CASE disposition[e] = "none" -> "new"
       [] disposition[e] = "queued" -> IF event[e].target THEN "waiting" ELSE "stranded"
       [] disposition[e] \in {"opened", "fed"} -> "delivered"
       [] OTHER -> disposition[e]]

slotBar ==
  [h \in Handles |->
     CASE ws[h].status = "none" -> "free"
       [] ws[h].status = "closed" -> "released"
       [] OTHER -> CASE chat[h].state = "none" -> "claimed"
                     [] chat[h].state = "closed" -> "ended"
                     [] OTHER -> "running"]

Outbox == INSTANCE AgentOutbox
  WITH Items <- Events, Slots <- Handles, Cap <- MaxActive,
       item <- itemBar, slot <- slotBar

\* The scheduler implements the outbox: an agent starts only in a slot that
\* was counted against the cap, events are delivered only to a running agent,
\* and a slot is released only after its chat was closed.
ImplementsOutbox == Outbox!Spec

=============================================================================
