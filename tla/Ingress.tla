------------------------------ MODULE Ingress -------------------------------
(***************************************************************************)
(* The ingest path of one collector: the listeners (collector.py,          *)
(* otlp.py), the bounded queue, the flusher that filters, stores and       *)
(* routes in batches, and the shutdown.  Each line arrives once; the lines *)
(* of Otlp are one export request.                                         *)
(***************************************************************************)
EXTENDS Integers, Sequences, FiniteSets, SequencesExt

CONSTANTS
  Udp, Tcp, Otlp,  \* lines, by the listener they come in at
  Noisy,           \* those the ingress filter matches
  Bad,             \* those the database refuses, such as a body with a NUL
  QueueMax, BatchMax,
  MaxEdits,        \* reloads that add or remove the filter
  MaxFaults        \* unparsable lines, failing transactions, broken connections, crashes

Lines == Udp \cup Tcp \cup Otlp

ASSUME IngressAssumption ==
  /\ Udp \cap Tcp = {} /\ Udp \cap Otlp = {} /\ Tcp \cap Otlp = {}
  /\ Noisy \cup Bad \subseteq Lines /\ IsFiniteSet(Lines)
  /\ QueueMax \in Nat \ {0} /\ BatchMax \in Nat \ {0}
  /\ MaxEdits \in Nat /\ MaxFaults \in Nat

VARIABLES
  unsent,    \* lines that have not arrived
  held,      \* read from a TCP connection, waiting for a place in the queue
  queue,
  batch,     \* lines the flusher has taken
  pc,        \* the flusher: what it does next
  open,      \* whether its connection is open
  filter,    \* whether the filter is in memory
  stored,    \* rows of events
  counted,   \* lines in the drop counters
  routed,    \* lines matched against the rules
  reported,  \* lines the log says were lost
  answer,    \* to the export request
  stop, closed,  \* the signal; main has closed its listeners
  up,        \* the process: running, exited, or crashed
  late,      \* lines that came to the queue after the signal
  edits, faults

tables == <<stored, counted>>
outcome == <<routed, reported>>
arrivals == <<unsent, held, answer, late>>
flusher == <<batch, pc, open>>
process == <<stop, closed, up>>
vars == <<arrivals, queue, flusher, filter, tables, outcome, process, edits, faults>>

InBatch == ToSet(batch)
Queued == ToSet(queue)

TypeOK ==
  /\ unsent \subseteq Lines /\ held \subseteq Tcp
  /\ queue \in Seq(Lines) /\ Len(queue) <= QueueMax
  /\ batch \in Seq(Lines) /\ Len(batch) <= BatchMax
  /\ pc \in {"collect", "flush", "route", "rollback", "done", "dead"}
  /\ {open, filter, stop, closed} \subseteq BOOLEAN
  /\ stored \cup counted \cup routed \cup reported \cup late \subseteq Lines
  /\ answer \in {"none", "ok", "full", "error"} /\ up \in {"running", "exited", "crashed"}
  /\ edits \in 0 .. MaxEdits /\ faults \in 0 .. MaxFaults

Init ==
  /\ unsent = Lines /\ held = {} /\ queue = <<>> /\ batch = <<>>
  /\ pc = "collect" /\ open = TRUE /\ filter \in BOOLEAN
  /\ stored = {} /\ counted = {} /\ routed = {} /\ reported = {}
  /\ answer = "none" /\ stop = FALSE /\ closed = FALSE /\ up = "running"
  /\ late = {} /\ edits = 0 /\ faults = 0

Running == up = "running"
Fault == faults < MaxFaults /\ faults' = faults + 1

-----------------------------------------------------------------------------
(* The listeners: three policies for a full queue.                         *)

Full == Len(queue) >= QueueMax

Enqueue(ls) ==
  /\ queue' = queue \o SetToSeq(ls)
  /\ late' = IF stop THEN late \cup ls ELSE late

Rest == UNCHANGED <<flusher, filter, tables, outcome, process, edits, faults>>

\* datagram_received: shed when the queue is full.
UdpArrives(l) ==
  /\ Running /\ ~closed /\ l \in Udp \cap unsent /\ unsent' = unsent \ {l}
  /\ IF Full THEN UNCHANGED <<queue, late>> ELSE Enqueue({l})
  /\ UNCHANGED <<held, answer>> /\ Rest

\* _tcp_client: one line in hand, and no other until the queue has room for it;
\* closing the server leaves the open connections alone.
TcpReads(l) ==
  /\ Running /\ l \in Tcp \cap unsent
  /\ unsent' = unsent \ {l} /\ held' = held \cup {l}
  /\ UNCHANGED <<queue, late, answer>> /\ Rest

TcpPuts(l) ==
  /\ Running /\ l \in held /\ ~Full
  /\ held' = held \ {l} /\ Enqueue({l})
  /\ UNCHANGED <<unsent, answer>> /\ Rest

\* A bug: the request is admitted when the queue is not full.
BugFits(ls) == ~Full

Fits(ls) == Len(queue) + Cardinality(ls) <= QueueMax

\* export_logs, from the check of the free places to the answer, has no await.
\* put_nowait raises at the first line without a place, and the request ends
\* with the lines before it in the queue.  A request under way when the server
\* is told to stop is still answered.
OtlpPost ==
  /\ Running /\ Otlp # {} /\ Otlp \subseteq unsent /\ answer # "full"
  /\ IF Fits(Otlp)
     THEN \E put \in SUBSET Otlp :
            /\ Cardinality(put) = Min({Cardinality(Otlp), QueueMax - Len(queue)})
            /\ Enqueue(put) /\ unsent' = unsent \ put
            /\ answer' = IF put = Otlp THEN "ok" ELSE "error"
     ELSE answer' = "full" /\ UNCHANGED <<queue, late, unsent>>
  /\ UNCHANGED held /\ Rest

\* The client of a request that got 503 tries again.
OtlpRetry ==
  /\ Running /\ answer = "full" /\ ~closed /\ answer' = "none"
  /\ UNCHANGED <<unsent, held, queue, late>> /\ Rest

-----------------------------------------------------------------------------
(* The flusher.                                                            *)

More == Len(batch) < BatchMax

Take ==
  /\ Running /\ pc = "collect" /\ queue # <<>> /\ More
  /\ batch' = Append(batch, Head(queue)) /\ queue' = Tail(queue)
  /\ UNCHANGED <<arrivals, pc, open, filter, tables, outcome, process, edits, faults>>

\* parse_syslog raises for a line whose time, in UTC, is out of datetime's range;
\* the flusher calls it outside of its try, and its task ends with what it holds.
TakeFails ==
  /\ Running /\ pc = "collect" /\ queue # <<>> /\ More
  /\ Head(queue) \notin Otlp /\ Fault
  /\ batch' = Append(batch, Head(queue)) /\ queue' = Tail(queue) /\ pc' = "dead"
  /\ UNCHANGED <<arrivals, open, filter, tables, outcome, process, edits>>

\* partition: the filters in memory decide; the batch keeps what is accepted,
\* and the drop counts are written in the same transaction.
Dropped == IF filter THEN InBatch \cap Noisy ELSE {}
Accepted == InBatch \ Dropped

\* A bug: the counters are written in a transaction of their own.
BugStore(ls) == \/ stored' = stored \cup ls /\ counted' = counted \cup (InBatch \ ls)
                \/ stored' = stored /\ counted' = counted \cup (InBatch \ ls)

Store(ls) == stored' = stored \cup ls /\ counted' = counted \cup (InBatch \ ls)

\* flush: the batch is full or its time is up; one transaction.
Flush ==
  /\ Running /\ pc = "collect" /\ batch # <<>> /\ open
  /\ Accepted \cap Bad = {}
  /\ Store(Accepted) /\ pc' = "route"
  /\ UNCHANGED <<arrivals, queue, batch, open, filter, outcome, process, edits, faults>>

Routes == InBatch \cap stored

\* router.consider, once the commit has been answered.
Route ==
  /\ Running /\ pc = "route" /\ pc' = "collect" /\ batch' = <<>>
  /\ routed' = routed \cup Routes
  /\ UNCHANGED <<arrivals, queue, open, filter, tables, reported, process, edits, faults>>

\* A transaction that fails loses the batch, noisy lines included; the log says
\* so.  One line that the database refuses is enough.
FlushFails ==
  /\ Running /\ pc = "collect" /\ batch # <<>>
  /\ \/ Accepted \cap Bad # {} /\ UNCHANGED <<open, faults>>
     \/ ~open /\ UNCHANGED <<open, faults>>
     \/ Fault /\ open' \in {open, FALSE}
  /\ pc' = "rollback" /\ reported' = reported \cup InBatch
  /\ UNCHANGED <<arrivals, queue, batch, filter, tables, routed, process, edits>>

\* The connection breaks when the commit is done, but not answered yet.
AnswerLost ==
  /\ Running /\ pc = "route" /\ Fault /\ open' = FALSE
  /\ pc' = "rollback" /\ reported' = reported \cup InBatch
  /\ UNCHANGED <<arrivals, queue, batch, filter, tables, routed, process, edits>>

\* A bug: a batch that failed is kept for another try.
BugRollback ==
  /\ Running /\ pc = "rollback"
  /\ pc' = IF open THEN "collect" ELSE "dead"
  /\ UNCHANGED <<arrivals, queue, batch, open, filter, tables, outcome, process, edits, faults>>

\* Rollback raises on a connection that is broken, and that ends the task.
Rollback ==
  /\ Running /\ pc = "rollback" /\ batch' = <<>>
  /\ pc' = IF open THEN "collect" ELSE "dead"
  /\ UNCHANGED <<arrivals, queue, open, filter, tables, outcome, process, edits, faults>>

\* A bug: the flusher ends with the signal.
BugMayEnd == stop /\ batch = <<>>

MayEnd == stop /\ queue = <<>> /\ batch = <<>>

End ==
  /\ Running /\ pc = "collect" /\ MayEnd /\ pc' = "done"
  /\ UNCHANGED <<arrivals, queue, batch, open, filter, tables, outcome, process, edits, faults>>

-----------------------------------------------------------------------------
(* The rest of the process.                                                *)

\* filters_changed, and a reload.
EditFilter ==
  /\ Running /\ edits < MaxEdits /\ edits' = edits + 1 /\ filter' = ~filter
  /\ UNCHANGED <<arrivals, queue, flusher, tables, outcome, process, faults>>

Signal ==
  /\ Running /\ ~stop /\ stop' = TRUE
  /\ UNCHANGED <<arrivals, queue, flusher, filter, tables, outcome, closed, up, edits, faults>>

CloseListeners ==
  /\ Running /\ stop /\ ~closed /\ closed' = TRUE
  /\ UNCHANGED <<arrivals, queue, flusher, filter, tables, outcome, stop, up, edits, faults>>

\* main awaits the flusher, and nobody looks at it before.
Exit ==
  /\ Running /\ closed /\ pc \in {"done", "dead"} /\ up' = "exited"
  /\ UNCHANGED <<arrivals, queue, flusher, filter, tables, outcome, stop, closed, edits, faults>>

Crash ==
  /\ Running /\ Fault /\ up' = "crashed"
  /\ UNCHANGED <<arrivals, queue, flusher, filter, tables, outcome, stop, closed, edits>>

Flusher == Take \/ TakeFails \/ Flush \/ Route \/ FlushFails \/ AnswerLost \/ Rollback \/ End

Next ==
  \/ \E l \in Lines : UdpArrives(l) \/ TcpReads(l) \/ TcpPuts(l)
  \/ OtlpPost \/ OtlpRetry \/ Flusher
  \/ EditFilter \/ Signal \/ CloseListeners \/ Exit \/ Crash

Spec == Init /\ [][Next]_vars

\* The flusher's and main's coroutines run on, a batch has a deadline, and a
\* reader that waits for a place gets one.
FairSpec ==
  /\ Spec
  /\ WF_vars(Take) /\ WF_vars(Flush \/ FlushFails) /\ WF_vars(Route)
  /\ WF_vars(Rollback) /\ WF_vars(End) /\ WF_vars(CloseListeners) /\ WF_vars(Exit)
  /\ \A l \in Tcp : SF_vars(TcpPuts(l))

-----------------------------------------------------------------------------
(* Properties.                                                             *)

\* What left the queue is in the flusher's hands, stored, in the drop counters,
\* or reported as lost; stored and counted exclude each other.
Taken == (Lines \ unsent) \ (held \cup Queued)
Settled ==
  /\ Taken \cap (Tcp \cup Otlp) \subseteq InBatch \cup stored \cup counted \cup reported
  /\ stored \cap counted = {} /\ Queued \cap (InBatch \cup stored \cup counted) = {}

\* A rule fires only for an event that an agent can look up, and every stored
\* event meets the rules, unless the commit's answer was lost or the process
\* died first.
RoutedIsStored ==
  /\ routed \subseteq stored
  /\ stored \subseteq routed \cup reported \cup InBatch

\* No line that was let in disappears without a trace, between the listeners, the
\* filter, the transaction and the rules.  A flusher that died keeps what it had
\* in its hands, and nobody is told.
Accounted == Settled /\ RoutedIsStored

\* An export is admitted as a whole or not at all.
ExportWhole ==
  /\ answer = "ok" => Otlp \cap unsent = {}
  /\ answer # "ok" => Otlp \subseteq unsent

\* A clean exit leaves only lines behind that came after the signal: what a
\* reader held or put when the flusher had seen an empty queue.
StopDrains ==
  up = "exited" /\ pc = "done" => Queued \subseteq late

\* Every line that was let in is settled, unless the process ends or the
\* flusher has died.
LinesSettle ==
  \A l \in Lines :
    l \in Queued \cup InBatch ~>
      l \notin Queued \cup InBatch \/ ~Running \/ pc = "dead"

\* A process told to stop does, if its senders do not go on for ever.
Stops == stop ~> ~Running

\* The flusher neither hangs on a batch nor keeps the process from ending.
Progress == LinesSettle /\ Stops
=============================================================================
