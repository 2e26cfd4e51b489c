# Ringdown: verification development

Ringdown receives logs (syslog over UDP and TCP, OTLP over HTTP), stores them in
PostgreSQL, matches them with two levels of alert rules (L1: regular
expressions as lines arrive; L2: a language model over windows of lines), and
dispatches what fires to push notifications or to agent chats in Turnstone.
This directory holds TLA+ models of the code under `src/ringdown`, the TLC runs
that check them on small instances, and TLAPS proofs of what holds for every
instance. `PROJECT.json` maps every definition to the lines it stands for, lists
the runs with their properties, and for each property a mutant of the model that
TLC finds with it.

Run a check with `tlc -config AgentQueue_core.cfg MCAgentQueue`, the proofs of a
module with `tlapm AgentQueueProofs.tla`, and likewise for the other modules of
section 11. Every module has a `TypeOK` (`JudgeTypeOK` in
`SemanticJudge`); those that no run lists can be checked by adding
`INVARIANT TypeOK` to the module's cfg.

## 1. The system

A collector process runs these tasks on one event loop: UDP and TCP listeners,
the OTLP receiver, the flusher, the L1 router, two LISTEN connections, daily
retention, the semantic judge, and the scheduler of the agent queue. Several
collectors may run on one database. The MCP server (control plane) and the web
UI are processes of their own. All of them meet in PostgreSQL only.

| Component | State it keeps | Operations | Meets | What is hard | What makes it correct |
|---|---|---|---|---|---|
| Durable agent queue, `agent_queue.py`, `agent_schema.sql` | `agent_pending`, `agent_workstreams`, dispositions in `alert_events`, an advisory lock | `enqueue`; a tick that polls, cancels, reserves, creates, inspects, sends | coordinator, Turnstone, control plane through the tables | several replicas; a crash between any two statements; requests served after their caller gave up; rules edited in the middle of a tick | the cap on agents, no agent unaccounted for, no event lost, one chat per group, capacity that comes back |
| Turnstone dispatcher, `dispatch/turnstone.py`, `obo.py` | token caches | `prepare`, `open`, `feed`, `inspect` | agent queue, Turnstone | ambiguous answers | every answer is sorted into success, refusal or unknown, on the safe side |
| Coordinator, `incidents.py`; ntfy, `dispatch/ntfy.py` | `alert_incidents`, a lock per incident and process | `handle`: hand over to the queue, or reuse, throttle, open, fall back | router, judge | two collectors on one incident; failure of the push, of the fallback and of the record | no firing without a push or a record; a throttle that counts real pushes |
| Semantic judge, `judge.py` | `semantic_rule_state`, cached cursors, call times, backoff | tick over the rules, bootstrap, judge, trace, dispatch, checkpoint | coordinator, `events` | crash between dispatch and checkpoint; two collectors with cached cursors; rows committed out of the order of their ids | each stored line is judged, at least once; the rates hold |
| L1 router and ruleset, `router.py`, `ruleset.py`, `db.listen` | compiled rules, running dispatch tasks | `consider`, `reload`, LISTEN with reconnection | flusher, coordinator, control plane by NOTIFY | reload of two queries without a snapshot; a reload that fails | an edit reaches every collector in the end |
| Collector, `collector.py`; OTLP, `otlp.py` | a bounded queue, the flusher's connection | receive, shed, flush, route, shut down | all of the above | commit and routing are two steps; a connection lost; shutdown with open readers | an accepted line is stored and routed, or reported as lost |
| Ingress filters, `filters.py` | the compiled filters, `ingress_filters` | partition, preview, purge, CRUD | collector, control plane | a live predicate and its SQL twin | they agree; a purge deletes what its filter drops |
| Control plane, `mcp_server.py` | none | CRUD of rules, targets, bindings, filters | tables and NOTIFY | read, check and write without a transaction | no lost update, no edit of a deleted row |
| Web UI, `webui.py` | `webui_sessions` | log-in, refresh, revocation, event stream | tables | two refreshes of one token; a stream cursor over ids | a valid session survives, a revoked one ends |
| Core schema, `schema.sql` | weekly partitions, triggers | `ensure_week`, retention | flusher | time zones, racing creation | a line finds its partition |
| Syslog parser, `syslog_parse.py` | none | parse, year inference, template mining | collector | New Year | the year is right for clocks off by less than a day |
| Configuration, migration, deployment, static files | none at run time | | | | |

`PROJECT.json` lists under `hazards` each place where this code is hard to
test, with the properties that would catch it going wrong.

## 2. Plan

Most important behaviour first: the agent queue is the only component that
starts something costly and hard to take back, and it is the one that crosses
processes, crashes and an unreliable service.

| Step | Module | About | State |
|---|---|---|---|
| 1 | `AgentOutbox` | abstract specification of the delivery | done |
| 2 | `AgentQueue`, `MCAgentQueue` | the queue, the scheduler, Turnstone's side, operators | done |
| 3 | `AgentQueueProofs` | types, the cap, stray agents, repeated creates, closures; the seed, lost events, one chat, the refinement of `AgentOutbox` | done |
| 4 | `SemanticJudge`, `MCSemanticJudge` | checkpoints, retries, two collectors, rows committed out of order | done |
| 5 | `Coordinator` | the stateless path: look-up, push, fallback, record, error, in two processes | done |
| 6 | `RuleSync` | the tools for rules, targets and bindings; NOTIFY, LISTEN, torn and failed reloads | done |
| 7 | `Ingress` | listeners, bounded queue, flusher, routing, shutdown | done |
| 8 | `WebUi`, `LiveView` | refresh and revocation; the stream, its cursor, its checks of the session; the browser's buffer | done |
| 9 | `Routing`, `Matching`, `LiveView`, `Decoding`, `Loops`, `MCFunctions` | pure algorithms against reference definitions | done |
| 10 | `FilterAdmin` | the tools that create, edit and purge ingress filters: read, check and write without a transaction | open |
| 11 | `CoordinatorProofs`, `RuleSyncProofs`, `IngressProofs`, `WebUiProofs`, `SemanticJudgeProofs`, `SetLemmas` | the safety and action properties of each, for every instance | done |
| 12 | `FunctionProofs` | the pure algorithms, for every input | done |

Composition. The modules meet at calls and tables, and each models the other
side by all of its outcomes: `Coordinator` hands stateful targets to what
`AgentQueue` calls `Enqueue`; `SemanticJudge` and `Ingress` end in a call of the
coordinator; `RuleSync` gives the staleness under which `AgentQueue` lets a
disabled rule fire; `Ingress` and `SemanticJudge` share `events`, which the one
writes and the other reads, and `MCFunctions` computes what `Ingress`, `RuleSync`
and `WebUi` take as a bit of the line, the rule or the row. `WebUi` and
`LiveView` are the two ends of one stream: the order and the gaps of what is sent
are the subject of the one, what is shown of it that of the other.

Every safety and action property that a passing run checks is also proved, of the
six state machines and of the pure algorithms (section 11). Left is `FilterAdmin`
with its properties.

## 3. The agent queue

### How the model corresponds to the code

`AgentQueue` has one variable per table or place where the code keeps state.

| Variable | Stands for |
|---|---|
| `rule` | `alert_rules` with their bindings: enabled, disabled or unbound, without its target, deleted; `group_by`; `project_id` |
| `ws` | `agent_workstreams`, by handle; `"none"` is no row |
| `event`, `pending`, `disposition` | `alert_events` and `agent_pending`; `pending` is the set of events that have a row in the outbox; `target` says whether `target_id` still names one |
| `lock` | the session advisory lock |
| `tick` | the local variables of a running tick, with a program counter |
| `cooling` | chats sent to less than `feed_interval` ago |
| `chat` | Turnstone's side: the state of each chat, the events and instructions it received, and which events were created before it was closed |
| `net` | HTTP requests sent and not yet served |
| `edits`, `faults` | counters that bound the model |

An action is the code between two points where another process can be seen: a
commit or an HTTP call. A tick is
`BeginTick`, then `PollRead` and `RecordInspection` for each chat due for a
poll, `CancelDisabled`, `ListGroups`, and for each group either a reason not to
deliver (`SkipGroup`, `RefuseChangedProject`, `WaitForCapacity`) or `Reserve` or
`Adopt`, `Assign`, `Attempt` and one of `CreateAccepted`, `CreateRefused`,
`CreateUnknown`, then `DeliveryRead`, `RecordInspection`, one of `HoldBack`,
`Throttle`, `Send`, and one of `FeedAccepted`, `FeedRefused`, `FeedUnknown`.
`EndTick` or `Crash` frees the lock. Collectors `Enqueue` at any moment;
operators `EditRule`, `DeleteRule` and `DeleteTarget` at any moment, with the foreign
keys' cascades; a request whose caller is gone is served by Turnstone (`ServeLate`) or
never arrives (`Lose`), and chats are closed, unloaded and loaded again.

`DeleteTarget` does what three foreign keys do: the target's outbox rows go
(`agent_schema.sql:34`), its workstreams lose their target and are found by no group
any more (`agent_schema.sql:9`), and its events lose it too but keep their disposition
(`schema.sql:327`). An event whose row was deleted while the scheduler was sending it
is still recorded as delivered if the answer arrives.

Abstractions that matter:

- **Time.** A deferred row waits either for the next tick of the replica that
  deferred it (deferral by `poll_interval`) or until the environment wakes it
  (longer deferrals). A chat polled less than 30 seconds ago may be left out of
  a poll: any subset of the chats may be due. Turnstone's closure timestamp is
  the set of the events created before the closure.
- **HTTP.** An answer and the statement that records it are one step. A crash in
  between is a crash while the request is in flight, which is then served late;
  the two leave the same state. This also covers the loss of the answer.
- **Rate ceiling.** The code counts the reservations of the last minute. The
  model lets any number of those made so far count, so that a group may be
  deferred as soon as the ceiling was reached once, and never must be.
- **Queries' limits.** The 64 groups, 64 polls and 256 rows per query exceed any
  instance checked and are not modelled; `BatchSize` is.
- **Targets.** A rule has one target, which may be shared with other rules; the keys of
  the code's groups name both, so that a rule with two targets behaves as two rules.
  A change of the target's own project (`update_target`) is the same for the queue as
  moving the rules that inherit it, which `EditRule` does.
- **Not modelled**: a deployment without the Turnstone dispatcher (the queue then
  only defers), the contents of messages (their size is the choice of how many
  rows are sent), and the owner of a chat, which is compared and refused as the
  project is.

`AgentOutbox` is what the queue promises without any of this: items are accepted
once and settle once, unless the target they wait for is deleted, which strands them;
an agent starts only in a slot claimed under the cap, events are delivered only to
running agents, and a slot is released only after its agent ended. `AgentQueue` is shown to implement it with `itemBar` and
`slotBar` as the refinement mapping: by TLC in `agent_operator`, and step by step in
`AgentQueueProofs`.

### Runs

| Run | Instance | Shows |
|---|---|---|
| `agent_core` | 2 replicas, 3 hosts, 3 events, 3 handles, cap 2, 2 faults | the safety properties that need no edit, and the inductive invariant `Backed` |
| `agent_operator` | 1 replica, 2 rules, 1 host, 2 events, 2 handles, cap 1, 2 projects of which Turnstone keeps one, 1 edit, 1 fault | `NothingLost` and `ImplementsOutbox`, with an operator who disables, deletes, regroups or moves a rule or deletes a target |
| `agent_live` | 1 replica, 2 hosts, 2 events, cap 1, 2 projects, 1 edit of any kind, 1 fault, `FairSpec` | `Settled` and `SlotReleased` |
| `agent_judge_project` | 1 replica, 2 hosts | finding 1 of section 10 |

Deadlock is checked in all of them.

Why the bounds are enough for what is asked: a violation of the cap takes one
chat more than the cap and one that is not counted, so three handles under a
cap of two; a second chat for a group takes two handles and two events of a
group; a replica interferes with another only through the lock, the tables and
requests left in flight, so two of them, and two faults allow a request to
outlive a crash and a second one to go wrong while it does. A batch of two
leaves a third event behind. Larger instances are the subject of the proofs.

### Properties

- `AgentCap`: never more unclosed agent chats in Turnstone than `max_active`.
- `NoStrayAgent`: an unclosed chat belongs to an unclosed workstream that was
  attempted.
- `CreateNotRepeated`: a create in flight is for a chat that does not exist.
- `OneChatPerGroup`: unclosed workstreams of a rule differ in host or project.
- `NothingLost`: every event is in the outbox, or reached a chat, or was
  resolved by a later closure of its own chat, or was dropped with its rule or its
  target. An event is recorded as queued exactly when it waits, but for those whose
  target was deleted.
- `SeedFirst`: a chat that received events received the rule's instructions.
- `SameChat`: an event changes chats only when the former is closed.
- `ClosedIsFinal`: a closed workstream stays closed.
- `ImplementsOutbox`: as above.
- `Settled`: every event leaves the outbox in the end, with two exceptions.
- `SlotReleased`: a closed chat gives its slot back without any new alert.

### Fairness

`FairSpec` assumes of each replica weak fairness of the steps of its tick, since
a tick is a coroutine that always runs on, and strong fairness of a tick that
polls all chats: ticks recur every `poll_interval`, and of those some come more
than 30 seconds after the last poll. It assumes of Turnstone that a request
that was sent is served, of time that deferrals end, and of users that chats
are closed (the cap of live chats is otherwise a legitimate reason to wait for
ever). Faults are finitely many (`MaxFaults`), enqueues too (`MaxEvents`).

Under this fairness an event still need not leave the outbox, and `Settled` states
the two conditions under which it does.

- `Moved`: the rule was moved to another project after the event was enqueued. Its
  delivery is refused and deferred by 300 seconds, for as long as the rule stays
  there (`agent_queue.py:236-240`).
- `Wedged`: a reservation holds its slot for good, and with a cap of one everybody
  waits for it. Either its create was asked for and never arrived, which the
  documentation leaves to the operator (`docs/incident-delivery.md:65-68`); or it was
  never asked for and the events that would ask again were cancelled, moved or
  dropped (section 10).

Lost requests are in all runs: `Lose` may take any request whose caller is gone, and
the fairness of serving only says that none stays in flight for ever.

## 4. The semantic judge

### How the model corresponds to the code

`SemanticJudge` has the tables `rule`, `line` (`events`, in the order of their ids:
a line belongs to its collector while the transaction is open, then is
committed or lost) and `stored` (`semantic_rule_state`); per collector the caches
`seen` and `rest` (`_seen`, `_last`), `wait` (the backoff), `calls`, and `tick`, the
local variables of `_eval`. `base`, `judged` and `alerted` record history for the
properties.

A tick reads the enabled rules (`BeginTick`) and takes them in any order, as the
query has none. A rule without a cursor in memory gets it from the checkpoint
(`LoadCursor`), or from a baseline that is chosen, then inserted against a race
(`ChooseBaseline`, `InsertBaseline`). Then it is not due (`Skip`), or the ceiling
ends the tick (`Break`), or its window is read and the model asked (`Ask`);
`JudgeFailed` keeps the window, `Verdict` goes on to `Dispatch`, once per target,
and `Checkpoint`. Any statement may fail (`TickFailed`), the checkpoint may be
committed without its answer (`CheckpointUnanswered`), and a collector may
`Crash`, losing its caches and its open batch. Operators disable, enable and
delete rules at any moment (`SetRule`).

Abstractions that matter: time since an evaluation is below the floor, between
floor and interval, or above, and moves on at any moment, also within a tick; a
backoff ends at any moment; a window with a line of `Alarming`
fires and any other may. Not modelled: outage notices, the trace of
evaluations (but the traces of an earlier version are, from `Histories`), retention of
lines before they are judged, an edit of a rule's scope, and a ceiling of 0 (no
ceiling).

### Runs

| Run | Instance | Shows |
|---|---|---|
| `judge_core` | 2 judges, 1 writer, 1 rule, 2 targets, 4 lines (one out of scope, two alarming, three stored before), every history of up to two windows of an earlier version, windows of 2, 1 edit, 2 faults | `NoneSkipped`, `CursorsSafe`, `AlarmsDelivered` |
| `judge_live` | 1 judge, 2 new rules, 3 lines, 1 call a minute, 1 fault, `FairSpec` | `EventuallyJudged`, `NoRepeat`, `CheckpointAdvances` |

The bounds: to skip a line takes a window, a line beyond it (windows of two,
three lines in scope) and a second reader of the checkpoint; two faults allow a lost
answer or a crash after a failed window. `NoneSkipped` holds with one collector
that stores lines, whose batches commit in the order of their ids, however many
judge them; with two it does not (section 10). `judge_live` has finitely many
lines, so it does not say that one rule cannot keep another from being judged
for as long as its own lines keep the ceiling reached.

Fairness: the loop and its ticks go on, batches commit, time passes, and only
`MaxFaults` calls of the model or the database fail.

## 5. The incident coordinator

`Coordinator` follows the firings of one dedup key (a rule, a target, a source)
through `Coordinator.handle`. Keys share neither lock nor row, so one is enough.

| Variable | Stands for |
|---|---|
| `kind`, `topic` | the target: a push, an agent or a type nobody registered; whether a fallback topic is configured |
| `ruleGone` | the rule or the target was deleted after the firing |
| `incident` | the row of `alert_incidents`: there is one, `last_fired` within the reuse TTL, `last_fed` within the throttle's interval |
| `holder` | `_locks`, one lock of the key per collector |
| `task` | the coroutine of each firing, with the disposition it will record |
| `pushed`, `records`, `recent` | history: what the channel and the tables saw |

A task begins when it gets the lock (`Begin`); then `HandOver` (queued),
`NoDispatcher`, or `LookUp`, which chooses between throttling, feeding and
opening without an await in between; `Pushed` is the POST with three outcomes,
`Upsert`, `Bump`, `Fallback`, `Record` and `MarkFired` are the statements that
follow. `StatementFails` enters the error path, `HandleError` and `RecordError`;
`Crash` ends a collector's tasks. Time (`Cool`, `Expire`) and `DeleteRule` come at
any moment.

Abstractions: a time is within its limit or not, and the reuse TTL is not
shorter than the throttle's interval (the defaults are 7200 s and 60 s). The
checks that a channel makes of its URL are part of the outcome "refused".

`coordinator` checks three firings in two collectors with one fault. Two
collectors are what it takes to miss the lock; three firings are an opening, a
repeat and one after the throttle; the fault, and a deletion at any moment, reach
every path of the error handling, including the record that fails after the
push.

- `NoSilentDrop`: with a fallback topic, a firing that was handled left a trace.
- `NotifiedWasHeard`: what the history calls opened or fed reached the channel.
- `PushRate`: until the throttle opens, one push per collector, and one more per
  fault.
- `FiringEnds`: no error path keeps the lock.

Fairness: a task is a coroutine each of whose calls has a timeout, and
`asyncio.Lock` serves those who wait in turn.

## 6. Rules, targets and the listener

`RuleSync` has the three tables (`rules`, `targets`, `binds`), the tools of the MCP
server as `call` (what a user's call has checked and not yet done), and the
collector's side: `link` (the LISTEN connection), `waiting` (notifications not yet
read), `reload` (the coroutine and what its two queries returned), `memory`
(`Ruleset._rules`) and `stale` (the last reload failed). `held` records, for the
properties, the newest pattern that each target was bound with.

A tool is a check of owner and existence (`CheckRegister`, `CheckRule`,
`CheckBind`, `CheckTarget`), then its statement, each committed by itself:
`InsertRule` and one `InsertBinding` per target, `UpdateRule`, `DisableRule`,
`DeleteRule`, `Bind`, `Unbind`, `RegisterTarget`, `UpdateTarget`, `DeleteTarget`.
Others edit and delete in between; an update of a row that is gone changes
nothing and notifies nobody, and a binding to it violates the foreign key.
Statements notify as the triggers do, to whoever listens at that moment. The
listener does `Connect` (LISTEN, then load once), `Receive`, `ReadRules`,
`ReadBinds` and `Install`, which compiles what the two queries found and replaces
the list: edits come in between the queries and between the second and its use. A
reload may fail at any of these steps (`ReloadFails`) and the connection may break
(`Disconnect`), with the notifications that were under way on it.

Abstractions: of a rule's columns the pattern and `stop_on_match` stand for all
that are compiled, of a target's the config.

`rules` checks two users, one of them an operator, one rule, two targets, four calls and
one fault. Two users make the smallest race between a check and a statement,
four calls are enough to register a target and a rule and to edit both behind a
reload's first query, and a fault breaks any one step. With one rule there is no
order between rules; that is the subject of `Routing`.

- `StaleExplained`: a collector with nothing left to read, whose last reload
  succeeded, has the rules of the database.
- `BoundByOwner`: nobody but an operator has bound what is not theirs.
- `UnboundBeforeEdit`: a copy torn between its two queries errs in one direction only.
  Its bindings are younger than its patterns, so whoever first unbinds a target and
  then widens the pattern can rely on it that the target is never notified of what
  the new pattern matches.
- `Propagates`: in the end the rules are those of the database, or the last
  reload failed.

`RuleSync_primed.cfg` is the same instance with `PrimedIsFresh`, which the failed reload
violates (section 10).

A torn copy may be wrong in other ways: a rule with `stop_on_match` whose first binding
is committed after the second query was taken is a silent block in memory. Its
notification is then waiting, and `StaleExplained` and `Propagates` say that the next
reload, if it does not fail, corrects the copy.

Fairness: the listener's coroutine runs on. Nothing is assumed of users.

## 7. Ingest

`Ingress` is one collector from its sockets to the router: lines that have not
arrived (`unsent`), lines a TCP reader holds while the queue is full (`held`), the
bounded `queue`, the flusher (`batch`, `pc`, and `open`, its connection), what the
database holds (`stored`, `counted`), what the rules saw (`routed`), what the log
called lost (`reported`), the `answer` to an export, and the shutdown (`stop`,
`closed`, `up`).

The listeners have three policies: `UdpArrives` sheds, `TcpReads` and `TcpPuts`
wait, `OtlpPost` admits a request as a whole or refuses it, and `OtlpRetry` is the
client that comes again. The flusher does `Take` until the batch is full or
late, then `Flush` (filter, rows and drop counters in one transaction) and `Route`,
which is a step of its own since the answer of the commit lies in between
(`AnswerLost`). `FlushFails` and `Rollback` lose the batch and say so; a rollback on a
broken connection raises and ends the task, as does a line whose parsing raises
(`TakeFails`, finding 2). `EditFilter`, `Signal`, `CloseListeners`, `Exit` and `Crash`
come at any moment.

Abstractions: a line is its listener, whether the filter matches it, and whether
the database refuses it. Templates and counters of sources are part of the
transaction. The start-up is not modelled: the flusher begins with a connection.

`ingress` checks one datagram, one TCP line that the database refuses, an export of
two records, a queue and batches of two, a filter that comes or goes once, and a
fault. The queue is then full with any two lines, an export fits or does not,
and a batch holds a line that is filtered with one that is not, or one that
is refused.

- `Accounted`: a line that was let in is in the flusher's hands, stored, counted
  or reported; rules fire for stored lines only, and for all of those that no
  report mentions.
- `ExportWhole`: an export is in the queue as a whole or not at all.
- `StopDrains`: a clean exit leaves only lines that came after the signal.
- `Progress`: no line waits for ever, and a process told to stop ends, unless it
  crashed or the flusher is dead.

Fairness: the flusher and `main` run on, and a reader that waits for room gets
it in the end, since `asyncio.Queue` wakes those who wait in turn (strong
fairness, as room comes and goes). Senders are not assumed to send; there are
finitely many lines, and the shutdown needs that: see section 10.

## 8. The web UI

`WebUi` models sessions and the stream. A session is a `row` of `webui_sessions`
(live, past its end, revoked, pruned) with its refresh `token`; `ka` is the keepalive
that each browser tab has in flight; Entra, which is external, knows whether the
operator has the role (`admin`) and which tokens were replaced (`spent`). A stream is
its cursor, what it sent, and its count of polls since it looked at its session.

A keepalive is `KaLoad` (row and token are read), `Redeem` or `Refuse` at Entra, and
`KaStore`, `StoreFails` or `KaRevoke`, with every await a boundary, so that a
`Logout`, a change of role, the retention (`Prune`) or another tab's keepalive comes
in between. A stream is `Open`, `Backfill`, and polls of `Tick` and `Fetch`; it ends
by `Disconnect`, a `Crash` or its look at the session.

The rows of a stream are inserted by transactions (`Insert` gives out the id,
`Commit` makes it visible), of which at most `Writers` are open at once. Lines come
from the one flusher of a collector, evaluations from its one judge: one writer.
Alerts are recorded by concurrent tasks over a pool of four connections
(`router.py:59`, `incidents.py:139-148`, `agent_queue.py:89-102`, where the id is held
through a second statement): several writers, and ids that commit out of their order.

Abstractions: the three kinds of rows that a stream can carry are polled with
cursors of their own, and the model follows one kind. A row that a search excludes
or whose transaction rolls back is an id that is not in `Shown`. The poll for
alerts and for evaluations has no limit, which is a `TailLimit` of `MaxRows`. Whether
Entra replaces a token is its choice, and a replaced one may be refused. The lifetime
of an access token is shorter than a session's and ends at any moment (`Age`).

`webui` checks one session in two tabs, one of which streams, with three rows of two
writers, limits of one row for backfill and poll, a look at the session every second poll,
the token of the login and one that replaces it, one change of role and one fault. Two
tabs are what two refreshes of one token take; limits of one make the second row the one
that a limit cuts off; two writers are what it takes to commit out of order, and three
rows to do so between two that were sent. `WebUi_alerts.cfg` has one tab and checks
`SentIsWhole` with a fourth id that is not shown, a backfill of two and polls without a
limit.

- `StaysSignedIn`: a session is revoked for a reason only, and the reasons are
  listed: logout, loss of the role, a failure, two refreshes at once.
- `EndedForGood`: no late refresh revives a session.
- `CutInTime`: a stream outlives its session by at most `RecheckEvery` polls.
- `SentIsWhole`: what a stream sent has no repetition, and no gap but for rows that
  became visible after a higher id. With one writer there is no such row and no gap;
  with several, those rows are skipped for ever (section 10), and no others.
- `Progress`: an operator who lost the role loses the session, and a stream that stays
  open gets past every row that is visible.

Fairness: access tokens grow old, an open page sends its keepalives
(`setInterval` in its script), and handlers run on.

`LiveView` is the script's side as pure functions: `Ingest` finds a row's place by
bisection, `Render` and `Trim` bound the nodes on screen, `Evict` the buffer, `Toggle`
rebuilds the screen after a checkbox.

## 9. Pure algorithms

Four modules of operators, and `MCFunctions`, whose behaviours take one input and
compute what the code computes. Loops of the code are `ForEach` of `Loops`, a
recursive function over the places of a sequence; sorts are the one sequence
that is in order (`CHOOSE`). Both can be reasoned about, which the operators of
the libraries for folding and sorting cannot be here.

| Module | Code | Compared with |
|---|---|---|
| `Routing` | `ruleset.reload`'s selection and order, the router's walk with severities, `stop_on_match` and coalescing | each target of a rule that the event meets, once, for the first such rule (`FirstRuleNotifies`) |
| `Matching` | substring and glob of a filter, live and as SQL, with the translation to LIKE | each other (`FilterAgrees`) |
| `LiveView` | the browser's buffer and screen | the newest rows that pass, of the newest that are kept (`ScreenIsNewest`) |
| `Decoding` | the year of an RFC 3164 date, severities, the nesting and the limit of an OTLP request, weekly partitions and retention | the line's own date, the order of urgency, the flattened request, the week that holds the event (`DecodedRight`) |

Inputs of the run `functions`: every three rules out of 25 kinds in two orders and two
severities; every pattern of up to two characters in bodies of up to three, with a
letter whose case folding is longer than itself; every glob of up to three
characters, LIKE's special ones among them, in texts of up to three; every sequence
of up to five rows, clicks and clears with a buffer of three and a screen of two; every day of eight
years with every age within one; every priority and mnemonic; every request of up to two groups,
one scope and two records, well formed or not; every hour and clock of three weeks. The
calendar is small (years of seven or eight days with a leap day, weeks of three
days of two hours), since the arithmetic depends on the presence of these
borders and not on their distance; the proofs (section 11) are for calendars of any
length.

Two dates are excepted in `DecodedRight`, because the code cannot know better or
does not: the leap day, and the first of January from a clock that is ahead; the
hour is exact, so `ringdown_retention` never drops a line younger than its term.
The weeks are those of a database session in UTC.

## 10. Findings

Each of these is a run that TLC ends with a counterexample.

1. `agent_judge_project` (a defect). `judge.py:194-196` does not read the target's
   `project_id`. The alert of a semantic rule without a project of its own is
   frozen with the deployment's default (`turnstone.py:145-146`); its delivery reads the
   target in full, computes another project, and refuses it every five minutes
   for ever (`agent_queue.py:236-240`).
2. `syslog_raises` (a defect). `_parse_5424_ts` catches `ValueError`, while
   `astimezone` raises `OverflowError` for a time that leaves datetime's range in
   UTC (`syslog_parse.py:48`). `parse_syslog` says that it never raises
   (`syslog_parse.py:110-111`), and the flusher calls it outside of its `try`
   (`collector.py:126`, `136`): its task ends, and the collector goes on
   without storing anything until it is told to stop. `TakeFails` of `Ingress` is
   this step.

Further counterexamples, each with a cfg of its own:

- `AgentQueue_stranded.cfg`, `QueuedWaits`. `delete_target` (`mcp_server.py:886`) takes the
  target's outbox rows with it and leaves their events recorded as `queued`, with
  nothing waiting for them: the tick's cancellation finds no row to cancel
  (`agent_queue.py:196-204`). The deletion removes the bindings too, and
  `docs/incident-delivery.md:37` says that unbinding a rule cancels its pending
  deliveries; line 57 says that pending entries do not silently expire.
- `RuleSync_primed.cfg`, `PrimedIsFresh`. A reload that fails is logged and nothing else
  (`collector.py:266-270`), also the one that follows LISTEN. The collector then
  listens, has nothing to read, and keeps its rules until the next edit, although
  `db.py:63-64` says that after the load on connecting nothing missed "can't leave us
  stale".
- `AgentQueue_regroup.cfg`, `UncertainNotReplaced`. A change of `group_by` while a
  create is uncertain makes the scheduler miss the reservation and make another
  one for the same events, against `agent_queue.py:5-6`.
- `AgentQueue_dropped_project.cfg`, `OneChatPerGroup`. When Turnstone creates a chat
  without the project, the inspection writes that to the workstream's row, which
  the group then no longer finds: it opens another chat. The first event keeps
  being held back.
- `AgentQueue_disabled.cfg`, `NothingSentWhenDisabled`. A rule disabled after the
  cancellation at the head of a tick still has its events delivered by that
  tick, against the comment of `agent_queue.py:196`.
- `AgentQueue_fifo.cfg`, `FifoAdmission`. A slot released during a tick goes to a
  later group than the one that waits for it, against
  `docs/incident-delivery.md:36`.
- `SemanticJudge_two_writers.cfg`, `NoneSkipped`. Lines take their id when inserted
  and become visible when committed. With two collectors a line may commit after
  a higher id has been judged; it is behind the cursor and no judge ever reads
  it, against `judge.py:15` ("Semantic windows are at-least-once"). The stream of
  the web UI follows ids in the same way.
- `SemanticJudge_backwards.cfg`, `CheckpointAdvances`. The checkpoint is overwritten
  without a comparison: of two judges with different windows in hand the slower
  one moves it back, against `schema.sql:302-303`. The windows in between are
  judged and dispatched again after a restart.
- `Functions_predicate.cfg`, `PredicateIsEquivalent`. The live filter folds case,
  the SQL predicate takes the lower case: a pattern `ss` drops a line with a sharp s,
  and neither the preview nor the purge finds it.

They run against `MCAgentQueue`, `RuleSync`, `MCSemanticJudge` and `MCFunctions`.

Without a run, but visible in the code:

- `stop_on_match` of a binding (`mcp_server.py:1145`, `schema.sql:314-318`) is stored
  and loaded (`ruleset.py:35`, `45`), and nothing reads it.
- A reservation whose create was not attempted, or was refused, is taken up by the
  next event of its group only: it is not polled (`agent_queue.py:188`) and nothing
  releases it. If its events are cancelled, its rule or target is deleted, or the rule
  moved, it counts against `max_active` for good (`Wedged`).
- An event of a rule that was moved to another project is refused every five
  minutes for as long as the rule stays there (`agent_queue.py:236-240`); nothing
  marks it as failed.
- The event stream skips an alert for ever if its transaction commits after one with a
  higher id was read, also with a single collector (`webui.py:638-644`); `SentIsWhole`
  names exactly those rows.
- A rule registered with `stop_on_match` is a silent block from its insert until
  its first binding is there (`mcp_server.py`, `register_alert`).
- A tool that updates a row which another call deleted after the check reports a
  success to the audit log and then fails on the missing row.
- Two keepalives that refresh at once may end the session that the first of
  them renewed (`webui.py:246`).
- At shutdown the flusher ends only when the queue is empty, and open TCP connections
  are not closed: senders that never pause keep the process from ending. An
  export under way at that moment may be answered with success after the
  flusher has ended.
- One line with a NUL makes the database refuse its whole batch.
- A failed repeat of a push is recorded as fallback without a fallback push, and
  counts as a push for the throttle (`incidents.py:102`).
- An RFC 3164 line of 1 January that arrives on 31 December, from a clock that is
  ahead by hours, is dated a year back; one of the leap day that arrives in the
  next year is dated by its arrival.
- The judge translates `*` and `?` of a source glob to LIKE without escaping `%` and
  `_` (`judge.py:291`), unlike the filters.
- The floor of the judge is measured from the last success (`judge.py:302-304`) and
  the first retries of a failed window come earlier (`judge.py:164-166`), while
  `config.py:154-155` calls it a "hard floor".

## 11. Proofs

Every theorem holds for all values of the constants that meet the assumptions
of its module, that is, for any numbers of processes, rules, lines, sessions,
edits and faults. Where a theorem has a hypothesis besides, the table says so and the
text says when it is met and what goes wrong without it.

Each proof has the same form. A state predicate is shown to hold initially and
to be preserved by every action, one lemma per action or group of actions, and
the property follows from it. Types are part of it or come first (`Typed`), since
the provers need them everywhere. Before a predicate was proved, TLC checked it
on a small instance:

| Invariant | Module | Config |
|---|---|---|
| `Backed` | `MCAgentQueue` | `AgentQueue_core.cfg` |
| `Instructed`, `Kept`, `RowsWait` | `AgentQueueProofs` | `AgentDelivery_inductive.cfg` (with edits, deletions and undated closures) |
| `Grouped` | `AgentQueueProofs` | `AgentDelivery_grouped.cfg` (under `RulesKept`, as an action constraint) |
| `Handled` | `CoordinatorProofs` | `Coordinator_inductive.cfg` |
| `Edited` | `RuleSyncProofs` | `RuleSync_inductive.cfg` |
| `Conveyed` | `IngressProofs` | `Ingress_inductive.cfg` |
| `Watched` | `WebUiProofs` | `WebUi_inductive.cfg` |
| `Judges` | `MCSemanticJudge` | `SemanticJudge_inductive.cfg` |
| `Alone` | `MCSemanticJudge` | `SemanticJudge_alone.cfg` |

`Spec` has no fairness in any of these modules; `FairSpec` adds it for the liveness
properties, and what is proved of `Spec` holds of `FairSpec` as well.

`SetLemmas` has what several modules need and the library does not state: a
non-empty set of numbers up to a bound has a least and a greatest member, induction
and recursion up to a number, a finite set in an order has a ranking that takes each element once
(`CHOOSE` picks it in the code's `ORDER BY`), and two facts about cardinalities.

### The agent queue

From `BoundsAssumption` (the bounds are numbers), `CapAssumption` (the cap and the
batch are positive; `AgentQueue.__init__` admits 1 to 4) and `NamesAssumption` (model
values differ from each other where the code's `NULL` and its states do).

| Theorem | States | Hypothesis |
|---|---|---|
| `TypeCorrect` | `Spec => []TypeOK` | |
| `AlwaysBacked` | `Spec => []Backed` | |
| `CapHolds` | `Spec => []AgentCap` | |
| `NoStrayAgents` | `Spec => []NoStrayAgent` | |
| `NoCreateRepeated` | `Spec => []CreateNotRepeated` | |
| `ClosedForGood` | `Spec => ClosedIsFinal` | |
| `SeedIsFirst` | `Spec => []SeedFirst` | |
| `NoneLost` | `Spec => []NothingLost` | `DatedClosures` |
| `OutboxImplemented` | `Spec => ImplementsOutbox` | |
| `OneChat` | `[]OneChatPerGroup` of `Spec /\ [][RulesKept]_rule` | `Members` |
| `RetriesStay` | `SameChat` of `Spec /\ [][RulesKept]_rule` | `Members` |

`AgentCap` speaks of Turnstone's chats, while the code counts rows
of its own table, so the cap is not inductive: nothing in it keeps a late
create from starting a chat nobody counts. `Backed` closes the gap with four
kinds of facts. (1) `Reserved`: counted rows are at most the cap, since only
`Reserve` adds one, after counting. (2) `Tracked`: the status of a row and the
state of its chat go together; an unclosed chat has a row that is counted, and
a closed row has a chat that is closed and never reopens. (3)
`CreateNotRepeated` and `Creates`: a create in flight has an uncertain row and
no chat yet, so that serving it, however late, keeps (2). (4) `Exclusive`,
`CursorSet` and `Remembered`: only the holder of the lock is inside a tick, and
what the tick remembers (the rows to poll, the workstream in hand, the answer
of an inspection) is still true when it is used, since only the tick changes
statuses and a chat's end is final. Each is needed for the step of another:
without (4) a stale answer could close the row of a live chat, without (3) a
refusal could free a reservation whose create still lands. From `Backed`,
every agent has a counted row, and `CapHolds` follows by cardinality.

`SeedFirst` is about chats, and what could break it is a request in flight.
`Instructed` adds that every send in flight either carries the instructions or goes
to a chat that has them, and that a row is marked as seeded only then.

`Kept` says of every event that it is in the outbox exactly when its disposition
is `queued`, and for each other disposition what has happened to it; `Answered`
carries the reason from the inspection of a chat to the resolution of its rows.
`NoneLost` needs `DatedClosures`, that Turnstone's closures carry a timestamp the
scheduler can parse: an undated one resolves whatever waits for the chat, also
events that came after the closure.

`OutboxImplemented` maps each action to the step of `AgentOutbox` it takes or to a
stutter. The two difficult ones are the feeds, where `RowsWait` is needed (the rows
in hand still wait when the answer arrives, or have gone with their rule, and an
answer for those must not settle them), and the inspection that finds a chat
closed, where `Kept` and `Backed` are (its rows settle as resolved, and the slot is
released after the agent's end). No hypothesis is needed: a `DatedClosures` that
is false, operators who edit and delete, crashes and late requests are all
steps of the outbox. An answer that arrives for rows whose target was deleted meanwhile
still records their events as delivered, which the outbox allows.

`Grouped` is the invariant of one chat for a group. The look-up of a group's
workstream is by rule, project and source, so what must not change under it is
how an event is looked up (`Fits`), and that a chat is recorded with the project it
has. It holds while no rule is regrouped and none loses itself or its target
(`RulesKept`; `Gone` are the two states), and each owner is
a member of the projects in use (`Members`, without which Turnstone creates the chat
with another project than was asked for). Both are conditions on operators, not on
the code, and neither can be dropped: `AgentQueue_regroup.cfg` and
`AgentQueue_dropped_project.cfg` (section 10) are the counterexamples. Enabling,
disabling, unbinding and moving a rule to another project are allowed.

### The coordinator

From `CoordinatorAssumption`: finitely many collectors.

| Theorem of `CoordinatorProofs` | States |
|---|---|
| `TypeCorrect` | `Spec => []TypeOK` |
| `FiringsTraced` | `Spec => []NoSilentDrop` |
| `HistoryTrue` | `Spec => []NotifiedWasHeard` |
| `RateHolds` | `Spec => []PushRate` |

`Handled` has three parts. `Locked`: the lock of a collector is held by its one task
that is under way. `Told`: for each step of a task, what its result, its records and
the channel can be; the two properties about traces are the cases of its last step.
`Throttled` is the counting argument behind the rate: while the throttle is open,
every push heard belongs to a task that has not closed it yet, of which there is one
per collector by `Locked`; once it is closed, only tasks that looked before can
still push; and a task that is lost in between uses up a fault.

### Rules, targets and the listener

From `RuleSyncAssumption`: operators are users, bounds are numbers.

| Theorem of `RuleSyncProofs` | States |
|---|---|
| `TypeCorrect` | `Spec => []TypeOK` |
| `OwnersBind` | `Spec => []BoundByOwner` |
| `CopyExplained` | `Spec => []StaleExplained` |
| `UnboundFirst` | `Spec => []UnboundBeforeEdit` |

`Edited` adds three things. `Entitled`: what a tool has checked before an await is true
when its statement runs, since ids are never reused and rows never change
owners. `Caught`: a collector that has read every notification has the rules of
the database, and during a reload what its queries returned is what they would
return now. Without the second conjunct the first is not preserved: a reload one of
whose queries is older than an edit must have a notification waiting. `Ranked` and
`Torn` are for `UnboundBeforeEdit`: `held` is never newer than the
pattern of its rule, and as new where the target is bound; the rows that a reload has
read are no newer than the rules when it reads the bindings, and so no newer than what
each of these was held with when it installs them.

### Ingest

From `IngressAssumption`: the three kinds of lines are disjoint and finitely many,
the queue and the batch hold at least one.

| Theorem of `IngressProofs` | States |
|---|---|
| `TypeCorrect` | `Spec => []TypeOK` |
| `LinesAccounted` | `Spec => []Accounted` |
| `ExportsWhole` | `Spec => []ExportWhole` |
| `StopHolds` | `Spec => []StopDrains` |

`Conveyed` strengthens the three by where a line can be: in one place at a time
(`Once`), and, in the flusher's hands, not yet stored before the flush, stored or
counted before the routing, reported before the rollback (`Hands`). `Drained` is the
form of `StopDrains` that survives an export that is admitted after the flusher has
ended.

### The web UI

From `WebAssumption`: finitely many sessions and tabs, positive limits.

| Theorem of `WebUiProofs` | States |
|---|---|
| `TypeCorrect` | `Spec => []TypeOK` |
| `SignedInHolds` | `Spec => []StaysSignedIn` |
| `CutInTimeHolds` | `Spec => []CutInTime` |
| `NoGaps` | `Spec => []SentIsWhole` |
| `EndedStays` | `Spec => EndedForGood` |

`Watched` is about tokens and about streams. `Apart`: a refresh token is known to one
session and to that session's requests only. `Clean`: a session without an excuse
has at most one request under way, and the token in that request, or in the row
when there is none, has not been replaced, so that Entra has no reason to refuse
it. `Counting`: the polls of a stream whose session is over are among those it
counted since it last looked. `Whole`: the cursor stands at the last row sent, and
everything visible between the first row sent and the cursor was sent or is late; the
two limits cut a query off at an end, where the next poll resumes. `Punctual` are
the visible rows that are not late, which a commit can extend only beyond every cursor;
`OneByOne` says that with one writer an open id is the newest, so that none is late.

### The semantic judge

From `JudgeBounds` and `JudgeNames`: positive limits, scopes are sets of lines.

| Theorem of `SemanticJudgeProofs` | States | Hypotheses |
|---|---|---|
| `TypeCorrect` | `Spec => []JudgeTypeOK` | |
| `NothingSkipped` | `Spec => []NoneSkipped` | `OneWriter`, `Chronological` |
| `MemoryIsSafe` | `Spec => []CursorsSafe` | `OneWriter`, `Chronological` |
| `AlarmsAreOut` | `Spec => []AlarmsDelivered` | `OneWriter`, `Chronological` |
| `NeverBack` | `Spec => CheckpointAdvances` | `OneJudge`, `Chronological` |
| `AsksOnce` | `Spec => NoRepeat` | `OneJudge`, `Chronological` |

`OneWriter` is the repository's own deployment (`deploy/ringdown-collector.service`, one
service): one collector that stores lines, whose flusher commits one batch after
the other. `OneJudge` says the same of the judge, which is a task of the collector.
`Chronological` is about the traces that an earlier version left: windows in the
order of their ids, none overlapping, since it wrote a trace after its cursor in
memory had advanced, also for a window that failed (`judge.py:212-213`). Without `OneWriter`
a line is skipped (`SemanticJudge_two_writers.cfg`), without `OneJudge` a checkpoint
goes back (`SemanticJudge_backwards.cfg`).

`Judges` holds for any number of judges. Its core is `Passed` for every cursor, stored
or in memory: each line behind it is judged, with its alarms out, or lost. A cursor
moves to the end of a window, so `Holds` says that a window in hand contains every
line up to its last one that is not done with, which stays true while other judges
work and other lines commit because of `Sequential`: ids commit or get lost in their
order. `Handled` follows a window from the verdict over its targets to the
checkpoint. `Alone` adds what only one judge has: its window follows its cursor and
reaches up to the checkpoint (`Follows`), which may be ahead by one lost answer
(`Ahead`), and judged lines are behind the cursor or in the window (`Once`, `Fresh`).

### The pure algorithms

From `CalendarAssumption` (a year has at least two days, its leap day is not the
first; weeks and days have a length) and `ViewAssumption` (the screen holds at least
one row, and no more than the buffer). `MCFunctions` takes bounded inputs; each
property is proved from a theorem about inputs of any size, which therefore says
more than the property.

| Theorem of `FunctionProofs` | States | Hypotheses |
|---|---|---|
| `TargetsNotifiedOnce` | for any finite table of rules, `Routed` has each pair of `Due` once | ids are a key |
| `FirstRule` | `Spec => []FirstRuleNotifies` | |
| `GlobIsLike` | `GlobMatch` and `LikeMatch` agree, for any glob and text | |
| `FiltersAgree` | `Spec => []FilterAgrees` | |
| `NewestOnScreen` | `ShowsNewest(ops, View(ops))`, for any sequence of calls | |
| `ScreenShowsNewest` | `Spec => []ScreenIsNewest` | |
| `DatedInYear` | `Inferred` finds a date's own year | the exceptions of section 9 |
| `UrgencyIsSeverity` | `ToOtel` is strictly falling, from 24 to no less than 5 | |
| `RequestIsWholeOrNothing` | `ParseOtlp` gives all records in order, or `None` | `None` is no sequence |
| `WeekOfEvent` | the week of `Ensured` holds the event | a session in UTC |
| `Decoded` | `Spec => []DecodedRight` | `None` differs from numbers and sequences; `Zones = {0}` |

The library's induction theorems cannot be used here, since they take a predicate as
a parameter. What they are needed for follows from the well-foundedness of inclusion on
finite sets instead, which the library states without one: a non-empty set of
numbers up to a bound has a least member (`LeastElement` of `SetLemmas`), so what holds
of 0, and of `n` when it holds of `n - 1`, holds up to the bound (`CountUp`); and a
function is given by its first value and its steps (`Iteration`). A set in an order is
ranked by one sequence (`RankingExists`, `RankingIsOnto`).

- **Routing.** After `n` of the compiled rules, what has been sent are the pairs that
  are due for those `n`, once each, and the walk is over exactly when one of them
  matched and stops (`Dispatched`). That rules left out change nothing is then a
  property of `Met`: without targets and without a stop they neither notify nor shield.
- **Globs.** Reading the translated pattern up to the end of what the first `n`
  characters of the glob became gives their tokens, with no escape pending
  (`LikeTokensAreGlobTokens`). An escaped character takes two steps of the reader.
- **The screen.** The rows shown are described by sets: the buffer ranks the top of the
  rows since the last clear, the screen ranks the top of those of them that pass (`Shows`),
  where the top of a set (`IsTop`) is what a limit leaves of it. Each call keeps that:
  halving finds the place of a row that came last (`Halving`, `FoundPlace`), the next item on
  screen marks the place on screen (`NextOnScreen`), what a trim or an eviction takes away is
  the last of its ranking (`Trimmed`, `Evicted`; the oldest row of the buffer is on screen
  only when every row that passes is), and a rebuild ranks the buffer's rows up to any place (`Rebuilt`). A set has
  one top and one ranking (`TopIsUnique`, `RankingIsUnique`), so the view is what
  `Newest` chooses.
- **Requests.** The three loops share one accumulator. `AddsUp` says of a part of a request
  that its loop appends the records of the part, or ends in `None` when something
  in it is malformed or the limit is passed; each level of the nesting is shown from
  the one below it (`RecordAdded`, `ScopeAdded`, `GroupAdded`, `RequestAdded`).
- **Dates.** A year begins where the one before ends (`NextYear`), later years lie beyond
  (`LaterYear`), and so a line received within a year is received in its own or the next
  (`ThisYearOrLast`).

`Decoded` is for sessions in UTC: the partition is asked for by the Monday in UTC
of the event, and a session of another time zone truncates that to its own week,
which need not hold the event.

### Checked by TLC only

- Liveness under fairness, which the prover cannot express: `Settled`,
  `SlotReleased`, `EventuallyJudged`, `FiringEnds`, `Propagates` and both `Progress`.
- The runs that expect a violation, and the counterexamples of section 10.

## 12. What is not modelled

- The tools that create, edit and purge ingress filters, in the MCP server and
  in the web UI: read, check and write without a transaction. They are the
  next module of the plan; what a filter matches is in `Matching`, what it does to
  lines in `Ingress`.
- The tools that only read; the pages of the web UI, its login's cookies and PKCE.
- Regular expressions (RE2 in the process, POSIX in the database), template
  mining, embeddings, the texts for the model and for messages.
- Attributes, values and timestamps of OTLP records, structured data of syslog.
- In `Ingress`, a TCP line longer than the reader's limit, at which `readline` raises and
  the connection's task ends (`collector.py:102-116`), and `router.consider` raising after
  the commit, which the flusher reports as the loss of a batch that is stored
  (`collector.py:141-148`): `Route` is taken not to fail, as it only matches and spawns.
- Cryptography and token validation, which belong to libraries; the token
  caches of `obo.py`, which one task uses.
- The judge's notices about an outage and the length of backoffs, there and in
  `db.listen`.
- The one-time import of incidents from before the agent queue, the migration
  runner, the collector's start-up.
- Configuration, provisioning scripts, deployment files, integrations and
  static assets, which have no state of the running system.

In the agent queue and in the judge, what sections 3 and 4 list.
