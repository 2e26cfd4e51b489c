-------------------------- MODULE AgentQueueProofs --------------------------
(***************************************************************************)
(* Proofs about AgentQueue for every value of its constants: the type of   *)
(* its variables, the cap on agent chats, and that no chat runs untracked; *)
(* then what becomes of events: that none is lost, that each comes after   *)
(* its instructions and in one chat, and that the queue is an outbox.      *)
(***************************************************************************)
EXTENDS AgentQueue, SetLemmas, FiniteSetTheorems, TLAPS

-----------------------------------------------------------------------------
(* LeastOf and GreatestOf, which stand for ORDER BY ... LIMIT 1.           *)

\* The least of some of the first N numbers is one of them.
LEMMA LeastInSet ==
  ASSUME NEW N \in Nat, NEW S \in SUBSET (1 .. N), S # {}
  PROVE  /\ LeastOf(S) \in S
         /\ \A y \in S : LeastOf(S) <= y
<1>1. \E x \in S : \A y \in S : x <= y
  BY LeastElement
<1> QED
  BY <1>1 DEF LeastOf

\* So is the greatest.
LEMMA GreatestInSet ==
  ASSUME NEW N \in Nat, NEW S \in SUBSET (1 .. N), S # {}
  PROVE  GreatestOf(S) \in S
<1>1. \E x \in S : \A y \in S : x >= y
  BY GreatestElement
<1> QED
  BY <1>1 DEF GreatestOf

-----------------------------------------------------------------------------
(* Types of the helpers.                                                   *)

LEMMA FindWorkstreamType ==
  ASSUME NEW k, NEW project, NEW grouping, NEW source
  PROVE  FindWorkstream(k, project, grouping, source) \in Active \cup {None}
<1> DEFINE fits == {h \in Active : /\ ws[h].rule = k /\ ws[h].project = project
                                   /\ grouping = "rule" \/ ws[h].source = source}
<1>1. fits # {} => GreatestOf(fits) \in fits
  <2>1. fits \subseteq 1 .. MaxHandles /\ MaxHandles \in Nat
    BY BoundsAssumption DEF Active, Handles
  <2> HIDE DEF fits
  <2> QED
    BY <2>1, GreatestInSet
<1> QED
  BY <1>1 DEF FindWorkstream

LEMMA LeastHandle ==
  ASSUME NEW S \in SUBSET Handles, S # {}
  PROVE  LeastOf(S) \in S
BY LeastInSet, BoundsAssumption DEF Handles

LEMMA LeastEvent ==
  ASSUME NEW S \in SUBSET Events, S # {}
  PROVE  LeastOf(S) \in S
BY LeastInSet, BoundsAssumption DEF Events

-----------------------------------------------------------------------------
(* Types of the variables.                                                 *)

Typed == TypeOK /\ CursorSet

LEMMA TypedInit == Init => Typed
BY NamesAssumption, BoundsAssumption
   DEF Init, AllStates, Typed, TypeOK, CursorSet, InHand, Workstream, Event, Waits, Chat,
       Tick, IdleTick, Answers, AllProjects

LEMMA EnqueueTyped ==
  ASSUME Typed, NEW k \in Rules, NEW host \in Hosts, NEW path \in Paths,
         Enqueue(k, host, path)
  PROVE  Typed'
<1> DEFINE e == LeastOf(Events \ Created)
           judged == path = "judge"
           project == Prepared(k, IF judged THEN NoProject ELSE TargetProject)
           grouping == IF judged THEN "host" ELSE rule[k].by
           from == IF judged THEN "semantic" ELSE host
           source == IF grouping = "host" THEN from ELSE None
           found == FindWorkstream(k, project, grouping, source)
<1>1. e \in Events
  BY LeastEvent DEF Enqueue
<1>2. found \in Handles \cup {None}
  BY FindWorkstreamType DEF Active
<1>3. project \in AllProjects
  BY DEF Prepared, OrElse, AllProjects, Typed, TypeOK
<1>4. grouping \in {"host", "rule"} /\ from \in Sources
  BY NamesAssumption DEF Typed, TypeOK, Sources
<1>5. event' = [event EXCEPT ![e] =
        [rule |-> k, target |-> TRUE, host |-> from, by |-> grouping, project |-> project,
         assigned |-> found, wait |-> "now"]]
  BY DEF Enqueue
<1>8. event' \in [Events -> Event]
  <2> HIDE DEF e, judged, project, grouping, from, source, found
  <2> QED
    BY <1>1, <1>2, <1>3, <1>4, <1>5 DEF Typed, TypeOK, Event, Waits
<1>6. pending' \in SUBSET Events
  BY <1>1 DEF Enqueue, Typed, TypeOK
<1>7. disposition' \in [Events -> {"none", "queued", "opened", "fed", "resolved",
                                   "cancelled", "deleted"}]
  BY <1>1 DEF Enqueue, Typed, TypeOK
<1> QED
  BY <1>6, <1>7, <1>8 DEF Enqueue, Typed, TypeOK, CursorSet

LEMMA HeadType ==
  ASSUME TypeOK, NEW r \in Replicas, NextGroup(r)
  PROVE  Head(r) \in Events /\ Head(r) \in tick[r].groups
<1>1. tick[r].groups \subseteq Events /\ tick[r].groups # {}
  BY DEF TypeOK, Tick, NextGroup
<1> QED
  BY <1>1, LeastEvent DEF Head

LEMMA RowsType ==
  ASSUME TypeOK, NEW r
  PROVE  GroupRows(r) \subseteq Events
BY DEF TypeOK, GroupRows, FirstRows

LEMMA DeferredType ==
  ASSUME TypeOK, NEW rows, NEW wait \in Waits
  PROVE  Deferred(rows, wait) \in [Events -> Event]
<1>1. \A e \in Events : event[e] \in Event
  BY DEF TypeOK
<1>2. \A e \in Events : [event[e] EXCEPT !.wait = wait] \in Event
  BY <1>1 DEF Event
<1> QED
  BY <1>1, <1>2 DEF Deferred

LEMMA TickOfReplica ==
  ASSUME Typed
  PROVE  tick \in [Replicas -> Tick]
BY DEF Typed, TypeOK

LEMMA GiveUpTyped ==
  ASSUME Typed, NEW r \in Replicas, GiveUp(r)
  PROVE  /\ event' \in [Events -> Event]
         /\ tick' \in [Replicas -> Tick]
         /\ CursorSet'
<1>1. event' \in [Events -> Event]
  BY DeferredType DEF GiveUp, Typed, Waits
<1>2. tick' = [tick EXCEPT ![r] = BackToLoop(tick[r])]
  BY DEF GiveUp
<1>3. BackToLoop(tick[r]) \in Tick
  BY TickOfReplica DEF BackToLoop, Tick, Answers
<1>4. tick' \in [Replicas -> Tick]
  BY <1>2, <1>3 DEF Typed, TypeOK
<1>5. CursorSet'
  BY <1>2 DEF BackToLoop, Typed, TypeOK, Tick, CursorSet, InHand
<1> QED
  BY <1>1, <1>4, <1>5

LEMMA ChatCreatedType ==
  ASSUME TypeOK, NEW h \in Handles
  PROVE  ChatCreated(h) \in [Handles -> Chat]
<1> DEFINE project == IF ws[h].project \in KeptProjects THEN ws[h].project ELSE NoProject
           c == [chat[h] EXCEPT !.state = "live", !.project = project]
<1>1. project \in AllProjects
  BY DEF TypeOK, Workstream, AllProjects
<1>2. ChatCreated(h) = [chat EXCEPT ![h] = c]
  BY DEF ChatCreated, TypeOK, Chat
<1> HIDE DEF project
<1>3. c \in Chat
  BY <1>1 DEF TypeOK, Chat
<1> QED
  BY <1>2, <1>3 DEF TypeOK

LEMMA MessageTakenType ==
  ASSUME TypeOK, NEW q \in Request
  PROVE  MessageTaken(q) \in [Handles -> Chat]
<1> DEFINE h == q.handle
           got == chat[h].got \cup q.events
           briefed == chat[h].briefed \/ q.seed
           c == [chat[h] EXCEPT !.got = got, !.briefed = briefed]
<1>1. h \in Handles /\ q.events \subseteq Events /\ q.seed \in BOOLEAN
  BY DEF Request
<1>2. MessageTaken(q) = [chat EXCEPT ![h] = c]
  BY <1>1 DEF MessageTaken, TypeOK, Chat
<1>3. c \in Chat
  <2>1. briefed \in BOOLEAN
    OBVIOUS
  <2>2. got \in SUBSET Events
    BY <1>1 DEF TypeOK, Chat
  <2>3. chat[h] \in Chat
    BY <1>1 DEF TypeOK
  <2> HIDE DEF h, got, briefed
  <2> QED
    BY <2>1, <2>2, <2>3 DEF Chat
<1> HIDE DEF c
<1> QED
  BY <1>1, <1>2, <1>3 DEF TypeOK

LEMMA TickTyped ==
  ASSUME Typed, NEW r \in Replicas, NEW t \in Tick,
         tick' = [tick EXCEPT ![r] = t], t.pc \in InHand => t.cur \in Handles
  PROVE  tick' \in [Replicas -> Tick] /\ CursorSet'
BY DEF Typed, TypeOK, CursorSet

\* The steps of the poll.
LEMMA PollTyped ==
  ASSUME Typed, NEW r \in Replicas,
         \/ \E due \in SUBSET Handles : BeginTick(r, due)
         \/ PollRead(r) \/ DeliveryRead(r) \/ RecordInspection(r)
         \/ CancelDisabled(r) \/ ListGroups(r) \/ EndTick(r)
  PROVE  Typed'
<1>1. CASE \E due \in SUBSET Handles : BeginTick(r, due)
  <2>0. PICK due \in SUBSET Handles : BeginTick(r, due)
    BY <1>1
  <2>1. event' \in [Events -> Event]
    <3>1. ASSUME NEW e \in Events, NEW w \in Waits
          PROVE  [event[e] EXCEPT !.wait = w] \in Event
      BY DEF Typed, TypeOK, Event
    <3>2. ASSUME NEW e \in Events
          PROVE  (IF event[e].wait = r THEN "now" ELSE event[e].wait) \in Waits
      BY DEF Typed, TypeOK, Event, Waits
    <3> QED
      BY <2>0, <3>1, <3>2 DEF BeginTick
  <2>2. tick' \in [Replicas -> Tick] /\ CursorSet'
    <3> DEFINE t == [tick[r] EXCEPT !.pc = "poll", !.todo = due]
    <3>1. t \in Tick
      BY DEF Typed, TypeOK, Tick
    <3>2. tick' = [tick EXCEPT ![r] = t]
      BY <2>0 DEF BeginTick, Typed, TypeOK, Tick
    <3>3. t.pc \notin InHand
      BY DEF InHand, Typed, TypeOK, Tick
    <3> HIDE DEF t
    <3> QED
      BY <3>1, <3>2, <3>3, TickTyped
  <2> QED
    BY <2>0, <2>1, <2>2 DEF BeginTick, Typed, TypeOK
<1>2. ASSUME NEW h \in Handles, NEW answer \in Answers, Inspect(r, h, answer)
      PROVE  Typed'
  <2>1. tick' \in [Replicas -> Tick] /\ CursorSet'
    <3> DEFINE t == [tick[r] EXCEPT !.pc = "inspected", !.todo = @ \ {h},
                                    !.cur = h, !.answer = answer]
    <3>1. t \in Tick /\ t.cur \in Handles
      BY DEF Typed, TypeOK, Tick
    <3>2. tick' = [tick EXCEPT ![r] = t]
      BY <1>2 DEF Inspect, Typed, TypeOK, Tick
    <3> HIDE DEF t
    <3> QED
      BY <3>1, <3>2, TickTyped
  <2>2. faults' \in 0 .. MaxFaults
    BY <1>2, BoundsAssumption DEF Inspect, Typed, TypeOK
  <2> QED
    BY <1>2, <2>1, <2>2 DEF Inspect, Typed, TypeOK, database
<1>3. CASE PollRead(r)
  BY <1>2, <1>3 DEF PollRead, Typed, TypeOK, Tick
<1>4. CASE DeliveryRead(r)
  BY <1>2, <1>4 DEF DeliveryRead, Typed, CursorSet, InHand
<1>5. CASE RecordInspection(r)
  <2> DEFINE h == tick[r].cur
             answer == tick[r].answer
  <2>1. h \in Handles /\ chat[h].project \in AllProjects
    BY <1>5 DEF RecordInspection, Typed, TypeOK, CursorSet, InHand, Chat
  <2>2. ws' \in [Handles -> Workstream]
    <3> DEFINE status == StatusAfter(ws[h].status, answer)
               project == IF answer = "unknown" THEN ws[h].project ELSE chat[h].project
               w == [ws[h] EXCEPT !.status = status, !.project = project]
    <3>1. status \in {"none", "opening", "uncertain", "open", "closed"}
      BY <2>1 DEF StatusAfter, Typed, TypeOK, Workstream
    <3>2. w \in Workstream
      <4>1. project \in AllProjects
        BY <2>1 DEF Typed, TypeOK, Workstream
      <4>2. ws[h] \in Workstream
        BY <2>1 DEF Typed, TypeOK
      <4> HIDE DEF h, status, project
      <4> QED
        BY <3>1, <4>1, <4>2 DEF Workstream
    <3>3. ws' = [ws EXCEPT ![h] = w]
      BY <1>5, <2>1 DEF RecordInspection, Typed, TypeOK, Workstream
    <3> HIDE DEF w
    <3> QED
      BY <2>1, <3>2, <3>3 DEF Typed, TypeOK
  <2>3. pending' \in SUBSET Events
    BY <1>5 DEF RecordInspection, Typed, TypeOK
  <2>4. disposition' \in [Events -> {"none", "queued", "opened", "fed", "resolved",
                                     "cancelled", "deleted"}]
    BY <1>5 DEF RecordInspection, Typed, TypeOK
  <2>5. tick' \in [Replicas -> Tick] /\ CursorSet'
    <3> DEFINE t == IF tick[r].rows = {}
                      THEN [tick[r] EXCEPT !.pc = "poll", !.cur = None, !.answer = "none"]
                      ELSE [tick[r] EXCEPT !.pc = "decide"]
    <3>1. t \in Tick /\ (t.pc \in InHand => t.cur \in Handles)
      <4>1. tick[r] \in Tick
        BY TickOfReplica
      <4>2. CASE tick[r].rows = {}
        BY <4>1, <4>2 DEF Tick, Answers, InHand
      <4>3. CASE tick[r].rows # {}
        BY <2>1, <4>1, <4>3 DEF Tick
      <4> QED
        BY <4>2, <4>3
    <3>2. tick' = [tick EXCEPT ![r] = t]
      BY <1>5 DEF RecordInspection, Typed, TypeOK, Tick
    <3> HIDE DEF t
    <3> QED
      BY <3>1, <3>2, TickTyped
  <2> QED
    BY <1>5, <2>2, <2>3, <2>4, <2>5 DEF RecordInspection, Typed, TypeOK
<1>6. CASE CancelDisabled(r)
  <2>1. tick' \in [Replicas -> Tick] /\ CursorSet'
    <3> DEFINE t == [tick[r] EXCEPT !.pc = "list"]
    <3>1. t \in Tick /\ t.pc \notin InHand
      BY DEF Typed, TypeOK, Tick, InHand
    <3>2. tick' = [tick EXCEPT ![r] = t]
      BY <1>6 DEF CancelDisabled, Typed, TypeOK, Tick
    <3> HIDE DEF t
    <3> QED
      BY <3>1, <3>2, TickTyped
  <2> QED
    BY <1>6, <2>1 DEF CancelDisabled, Typed, TypeOK
<1>7. CASE ListGroups(r)
  <2>1. tick' \in [Replicas -> Tick] /\ CursorSet'
    <3> DEFINE listed == {e \in pending : /\ e = LeastOf(GroupOf(e))
                                          /\ \E f \in GroupOf(e) : event[f].wait = "now"}
               t == [tick[r] EXCEPT !.pc = "next", !.groups = listed]
    <3>1. listed \in SUBSET Events
      BY DEF Typed, TypeOK
    <3>2. tick' = [tick EXCEPT ![r] = t]
      BY <1>7 DEF ListGroups, Typed, TypeOK, Tick
    <3> HIDE DEF listed
    <3>3. t \in Tick /\ t.pc \notin InHand
      BY <3>1 DEF Typed, TypeOK, Tick, InHand
    <3> HIDE DEF t
    <3> QED
      BY <3>2, <3>3, TickTyped
  <2> QED
    BY <1>7, <2>1 DEF ListGroups, Typed, TypeOK, database
<1>8. CASE EndTick(r)
  <2>1. tick' \in [Replicas -> Tick] /\ CursorSet'
    <3>1. IdleTick \in Tick /\ IdleTick.pc \notin InHand
      BY DEF IdleTick, Answers, Tick, InHand
    <3>2. tick' = [tick EXCEPT ![r] = IdleTick]
      BY <1>8 DEF EndTick
    <3> QED
      BY <3>1, <3>2, TickTyped
  <2> QED
    BY <1>8, <2>1 DEF EndTick, Typed, TypeOK, database
<1> QED
  BY <1>1, <1>3, <1>4, <1>5, <1>6, <1>7, <1>8

\* The steps that choose a group and a workstream for it.
LEMMA SelectTyped ==
  ASSUME Typed, NEW r \in Replicas,
         \/ SkipGroup(r) \/ RefuseChangedProject(r) \/ WaitForCapacity(r)
         \/ Reserve(r) \/ Adopt(r) \/ Assign(r)
  PROVE  Typed'
<1>1. ASSUME tick' = [tick EXCEPT ![r].groups = @ \ {Head(r)}], tick[r].pc = "next"
      PROVE  tick' \in [Replicas -> Tick] /\ CursorSet'
  <2> DEFINE t == [tick[r] EXCEPT !.groups = @ \ {Head(r)}]
  <2>1. t \in Tick /\ t.pc \notin InHand
    BY <1>1 DEF Typed, TypeOK, Tick, InHand
  <2>2. tick' = [tick EXCEPT ![r] = t]
    BY <1>1 DEF Typed, TypeOK, Tick
  <2> HIDE DEF t
  <2> QED
    BY <2>1, <2>2, TickTyped
<1>2. CASE SkipGroup(r)
  BY <1>1, <1>2 DEF SkipGroup, NextGroup, Typed, TypeOK, database
<1>3. CASE RefuseChangedProject(r)
  <2>1. event' \in [Events -> Event]
    BY <1>3, DeferredType DEF RefuseChangedProject, Typed, Waits
  <2> QED
    BY <1>1, <1>3, <2>1 DEF RefuseChangedProject, NextGroup, Typed, TypeOK
<1>4. CASE WaitForCapacity(r)
  <2>1. event' \in [Events -> Event]
    BY <1>4, DeferredType DEF WaitForCapacity, Typed, Waits
  <2> QED
    BY <1>1, <1>4, <2>1 DEF WaitForCapacity, Deliverable, NextGroup, Typed, TypeOK
<1>5. ASSUME NEW h \in Handles, TakeUp(r, h), NextGroup(r)
      PROVE  tick' \in [Replicas -> Tick] /\ CursorSet'
  <2> DEFINE t == [tick[r] EXCEPT !.pc = "assign", !.groups = @ \ {Head(r)},
                                  !.rows = GroupRows(r), !.cur = h]
  <2>1. t \in Tick /\ t.cur \in Handles
    BY RowsType DEF Typed, TypeOK, Tick
  <2>2. tick' = [tick EXCEPT ![r] = t]
    BY <1>5 DEF TakeUp, Typed, TypeOK, Tick
  <2> HIDE DEF t
  <2> QED
    BY <2>1, <2>2, TickTyped
<1>6. CASE Reserve(r)
  <2> DEFINE h == LeastOf(Handles \ Opened)
             first == event[Head(r)]
             w == [status |-> "opening", rule |-> first.rule, source |-> first.host,
                   project |-> first.project, seeded |-> FALSE]
  <2>1. h \in Handles
    BY <1>6, LeastHandle DEF Reserve
  <2>2. Head(r) \in Events
    BY <1>6, HeadType DEF Reserve, Deliverable, Typed
  <2>3. w \in Workstream
    BY <2>2 DEF Typed, TypeOK, Event, Workstream
  <2>4. ws' = [ws EXCEPT ![h] = w] /\ TakeUp(r, h) /\ NextGroup(r)
    BY <1>6 DEF Reserve, Deliverable
  <2> HIDE DEF h, w
  <2>5. ws' \in [Handles -> Workstream]
    BY <2>3, <2>4 DEF Typed, TypeOK
  <2> QED
    BY <1>5, <1>6, <2>1, <2>4, <2>5 DEF Reserve, Typed, TypeOK
<1>7. CASE Adopt(r)
  <2>1. WorkstreamFor(r) \in Handles
    BY <1>7, FindWorkstreamType DEF Adopt, WorkstreamFor, Active
  <2> QED
    BY <1>5, <1>7, <2>1 DEF Adopt, Deliverable, Typed, TypeOK, database
<1>8. CASE Assign(r)
  <2> DEFINE t == [tick[r] EXCEPT !.pc =
                     IF NeedsCreate(tick[r].cur) THEN "attempt" ELSE "inspect"]
  <2>1. tick[r].cur \in Handles
    BY <1>8 DEF Assign, Typed, CursorSet, InHand
  <2>2. t \in Tick /\ t.cur \in Handles
    BY <2>1 DEF Typed, TypeOK, Tick
  <2>3. tick' = [tick EXCEPT ![r] = t]
    BY <1>8 DEF Assign, Typed, TypeOK, Tick
  <2> HIDE DEF t
  <2>4. tick' \in [Replicas -> Tick] /\ CursorSet'
    BY <2>2, <2>3, TickTyped
  <2>5. event' \in [Events -> Event]
    <3>1. ASSUME NEW e \in Events
          PROVE  [event[e] EXCEPT !.assigned = tick[r].cur] \in Event
      BY <2>1 DEF Typed, TypeOK, Event
    <3> QED
      BY <1>8, <3>1 DEF Assign, Typed, TypeOK
  <2> QED
    BY <1>8, <2>4, <2>5 DEF Assign, Typed, TypeOK
<1> QED
  BY <1>2, <1>3, <1>4, <1>6, <1>7, <1>8

\* The steps around the creation of a chat.
LEMMA CreateTyped ==
  ASSUME Typed, NEW r \in Replicas,
         Attempt(r) \/ CreateAccepted(r) \/ CreateRefused(r) \/ CreateUnknown(r)
  PROVE  Typed'
<1>1. ASSUME NEW status \in {"opening", "uncertain", "open"}, NEW h \in Handles,
             ws' = [ws EXCEPT ![h].status = status]
      PROVE  ws' \in [Handles -> Workstream]
  <2> DEFINE w == [ws[h] EXCEPT !.status = status]
  <2>1. w \in Workstream
    BY DEF Typed, TypeOK, Workstream
  <2>2. ws' = [ws EXCEPT ![h] = w]
    BY <1>1 DEF Typed, TypeOK, Workstream
  <2> QED
    BY <2>1, <2>2 DEF Typed, TypeOK
<1>2. tick[r].cur \in Handles
  BY DEF Attempt, CreateAccepted, CreateRefused, CreateUnknown, Typed, CursorSet, InHand
<1>3. ASSUME NEW pc \in {"create", "inspect"}, tick' = [tick EXCEPT ![r].pc = pc]
      PROVE  tick' \in [Replicas -> Tick] /\ CursorSet'
  <2> DEFINE t == [tick[r] EXCEPT !.pc = pc]
  <2>1. t \in Tick /\ t.cur \in Handles
    BY <1>2 DEF Typed, TypeOK, Tick
  <2>2. tick' = [tick EXCEPT ![r] = t]
    BY <1>3 DEF Typed, TypeOK, Tick
  <2> HIDE DEF t
  <2> QED
    BY <2>1, <2>2, TickTyped
<1>4. CASE Attempt(r)
  <2>1. net' \in SUBSET Request
    <3>1. CreateRequest(tick[r].cur) \in Request
      BY <1>2 DEF CreateRequest, Request
    <3> QED
      BY <1>4, <3>1 DEF Attempt, Typed, TypeOK
  <2>2. ws' \in [Handles -> Workstream]
    BY <1>1, <1>2, <1>4 DEF Attempt
  <2>3. tick' \in [Replicas -> Tick] /\ CursorSet'
    BY <1>3, <1>4 DEF Attempt
  <2> QED
    BY <1>4, <2>1, <2>2, <2>3 DEF Attempt, Typed, TypeOK
<1>5. CASE CreateAccepted(r)
  <2>1. ws' \in [Handles -> Workstream]
    BY <1>1, <1>2, <1>5 DEF CreateAccepted
  <2>2. tick' \in [Replicas -> Tick] /\ CursorSet'
    BY <1>3, <1>5 DEF CreateAccepted
  <2>3. chat' \in [Handles -> Chat]
    BY <1>2, <1>5, ChatCreatedType DEF CreateAccepted, Typed
  <2> QED
    BY <1>5, <2>1, <2>2, <2>3 DEF CreateAccepted, Typed, TypeOK
<1>6. CASE CreateRefused(r)
  <2>1. ws' \in [Handles -> Workstream]
    BY <1>1, <1>2, <1>6 DEF CreateRefused
  <2>2. faults' \in 0 .. MaxFaults
    BY <1>6, BoundsAssumption DEF CreateRefused, Typed, TypeOK
  <2> QED
    BY <1>6, <2>1, <2>2, GiveUpTyped DEF CreateRefused, Typed, TypeOK
<1>7. CASE CreateUnknown(r)
  <2>1. faults' \in 0 .. MaxFaults
    BY <1>7, BoundsAssumption DEF CreateUnknown, Typed, TypeOK
  <2> QED
    BY <1>7, <2>1, GiveUpTyped DEF CreateUnknown, Typed, TypeOK
<1> QED
  BY <1>4, <1>5, <1>6, <1>7

\* The steps after the inspection.
LEMMA SendTyped ==
  ASSUME Typed, NEW r \in Replicas,
         \/ HoldBack(r) \/ Throttle(r) \/ Send(r)
         \/ FeedAccepted(r) \/ FeedRefused(r) \/ FeedUnknown(r)
  PROVE  Typed'
<1>1. tick[r].cur \in Handles
  BY DEF HoldBack, Throttle, Send, MaySend, FeedAccepted, FeedRefused, FeedUnknown,
         Typed, CursorSet, InHand
<1>2. ASSUME NEW batch \in SUBSET Events
      PROVE  SendRequest(tick[r].cur, batch) \in Request
  <2>1. ws[tick[r].cur].seeded \in BOOLEAN
    BY <1>1 DEF Typed, TypeOK, Workstream
  <2> QED
    BY <1>1, <2>1 DEF SendRequest, Request
<1>3. tick[r].rows \in SUBSET Events
  BY DEF Typed, TypeOK, Tick
<1>4. CASE HoldBack(r)
  BY <1>4, GiveUpTyped DEF HoldBack, Typed, TypeOK
<1>5. CASE Throttle(r)
  BY <1>5, GiveUpTyped DEF Throttle, Typed, TypeOK
<1>6. CASE Send(r)
  <2>1. PICK n \in tick[r].rows :
          LET batch == {e \in tick[r].rows : e <= n}
          IN  /\ tick' = [tick EXCEPT ![r].pc = "feed", ![r].rows = batch]
              /\ net' = net \cup {SendRequest(tick[r].cur, batch)}
    BY <1>6 DEF Send
  <2> DEFINE batch == {e \in tick[r].rows : e <= n}
             t == [tick[r] EXCEPT !.pc = "feed", !.rows = batch]
  <2>2. batch \in SUBSET Events
    BY <1>3
  <2>3. tick' = [tick EXCEPT ![r] = t]
    BY <2>1 DEF Typed, TypeOK, Tick
  <2>4. net' \in SUBSET Request
    BY <1>2, <2>1, <2>2 DEF Typed, TypeOK
  <2> HIDE DEF batch
  <2>5. t \in Tick /\ t.cur \in Handles
    BY <1>1, <2>2 DEF Typed, TypeOK, Tick
  <2> HIDE DEF t
  <2>6. tick' \in [Replicas -> Tick] /\ CursorSet'
    BY <2>3, <2>5, TickTyped
  <2> QED
    BY <1>6, <2>4, <2>6 DEF Send, database, Typed, TypeOK
<1>7. CASE FeedAccepted(r)
  <2> DEFINE h == tick[r].cur
             w == [ws[h] EXCEPT !.seeded = TRUE]
             t == BackToLoop(tick[r])
  <2>1. ws' \in [Handles -> Workstream]
    <3>1. w \in Workstream
      <4>1. ws[h] \in Workstream /\ TRUE \in BOOLEAN
        BY <1>1 DEF Typed, TypeOK
      <4> HIDE DEF h
      <4> QED
        BY <4>1 DEF Workstream
    <3>2. ws' = [ws EXCEPT ![h] = w]
      BY <1>1, <1>7 DEF FeedAccepted, Typed, TypeOK, Workstream
    <3> HIDE DEF w
    <3> QED
      BY <1>1, <3>1, <3>2 DEF Typed, TypeOK
  <2>2. chat' \in [Handles -> Chat]
    BY <1>1, <1>2, <1>3, <1>7, MessageTakenType DEF FeedAccepted, Sent, Typed
  <2>3. tick' \in [Replicas -> Tick] /\ CursorSet'
    <3>1. t \in Tick /\ t.pc \notin InHand
      BY DEF BackToLoop, Answers, Typed, TypeOK, Tick, InHand
    <3>2. tick' = [tick EXCEPT ![r] = t]
      BY <1>7 DEF FeedAccepted
    <3> HIDE DEF t
    <3> QED
      BY <3>1, <3>2, TickTyped
  <2>4. disposition' \in [Events -> {"none", "queued", "opened", "fed", "resolved",
                                     "cancelled", "deleted"}]
    BY <1>7 DEF FeedAccepted, Typed, TypeOK
  <2> QED
    BY <1>1, <1>7, <2>1, <2>2, <2>3, <2>4 DEF FeedAccepted, Typed, TypeOK
<1>8. CASE FeedRefused(r)
  <2>1. faults' \in 0 .. MaxFaults
    BY <1>8, BoundsAssumption DEF FeedRefused, Typed, TypeOK
  <2> QED
    BY <1>8, <2>1, GiveUpTyped DEF FeedRefused, Typed, TypeOK
<1>9. CASE FeedUnknown(r)
  <2>1. faults' \in 0 .. MaxFaults
    BY <1>9, BoundsAssumption DEF FeedUnknown, Typed, TypeOK
  <2> QED
    BY <1>9, <2>1, GiveUpTyped DEF FeedUnknown, Typed, TypeOK
<1> QED
  BY <1>4, <1>5, <1>6, <1>7, <1>8, <1>9

\* The environment.
\* The deletion of a target only clears what named it.
LEMMA TargetGone ==
  ASSUME Typed, NEW S \in SUBSET Rules, DeleteTarget(S)
  PROVE  /\ rule' \in [Rules -> [state : AllStates, by : Groupings, project : Projects]]
         /\ ws' \in [Handles -> Workstream]
         /\ event' \in [Events -> Event]
         /\ pending' \in SUBSET Events
         /\ edits' \in 0 .. MaxEdits
         /\ \A h \in Handles : /\ ws'[h].status = ws[h].status
                               /\ ws'[h].seeded = ws[h].seeded
         /\ \A e \in Events :
              /\ event'[e].target <=> event[e].target /\ event[e].rule \notin S
              /\ event'[e].assigned = event[e].assigned
<1>0. TypeOK
  BY DEF Typed
<1>1. ASSUME NEW k \in Rules
      PROVE  [rule[k] EXCEPT !.state = IF k \in S THEN "untargeted" ELSE rule[k].state]
               \in [state : AllStates, by : Groupings, project : Projects]
  BY <1>0 DEF TypeOK, AllStates
<1>2. ASSUME NEW h \in Handles, NEW new,
             new = [ws[h] EXCEPT !.rule = IF ws[h].rule \in S THEN None ELSE ws[h].rule]
      PROVE  new \in Workstream /\ new.status = ws[h].status /\ new.seeded = ws[h].seeded
  BY <1>0, <1>2 DEF TypeOK, Workstream
<1>3. ASSUME NEW e \in Events, NEW new,
             new = [event[e] EXCEPT !.target = event[e].target /\ event[e].rule \notin S]
      PROVE  /\ new \in Event /\ new.assigned = event[e].assigned
             /\ new.target <=> event[e].target /\ event[e].rule \notin S
  BY <1>0, <1>3 DEF TypeOK, Event
<1>4. rule' \in [Rules -> [state : AllStates, by : Groupings, project : Projects]]
  BY <1>0, <1>1 DEF DeleteTarget, TypeOK
<1>5. /\ ws' \in [Handles -> Workstream]
      /\ \A h \in Handles : ws'[h].status = ws[h].status /\ ws'[h].seeded = ws[h].seeded
  BY <1>2 DEF DeleteTarget
<1>6. /\ event' \in [Events -> Event]
      /\ \A e \in Events :
           /\ event'[e].target <=> event[e].target /\ event[e].rule \notin S
           /\ event'[e].assigned = event[e].assigned
  BY <1>3 DEF DeleteTarget
<1>7. pending' \in SUBSET Events /\ edits' \in 0 .. MaxEdits
  BY <1>0, BoundsAssumption DEF DeleteTarget, TypeOK
<1> QED
  BY <1>4, <1>5, <1>6, <1>7

LEMMA EnvironmentTyped ==
  ASSUME Typed,
         \/ \E r \in Replicas : Crash(r)
         \/ Turnstone \/ Operators \/ \E e \in Events : Wake(e)
  PROVE  Typed'
<1>1. ASSUME NEW r \in Replicas, Crash(r)
      PROVE  Typed'
  <2>1. event' \in [Events -> Event]
    <3>1. ASSUME NEW e \in Events, NEW wait \in Waits
          PROVE  [event[e] EXCEPT !.wait = wait] \in Event
      BY DEF Typed, TypeOK, Event
    <3>2. ASSUME NEW e \in Events
          PROVE  (IF event[e].wait = r THEN "later" ELSE event[e].wait) \in Waits
      BY DEF Typed, TypeOK, Event, Waits
    <3> QED
      BY <1>1, <3>1, <3>2 DEF Crash
  <2>2. tick' \in [Replicas -> Tick] /\ CursorSet'
    <3>1. IdleTick \in Tick /\ IdleTick.pc \notin InHand
      BY DEF IdleTick, Answers, Tick, InHand
    <3> QED
      BY <1>1, <3>1, TickTyped DEF Crash
  <2>3. faults' \in 0 .. MaxFaults
    BY <1>1, BoundsAssumption DEF Crash, Typed, TypeOK
  <2> QED
    BY <1>1, <2>1, <2>2, <2>3 DEF Crash, Typed, TypeOK
<1>2. ASSUME NEW q \in net, ServeLate(q)
      PROVE  Typed'
  <2>1. q \in Request /\ q.handle \in Handles
    BY DEF Typed, TypeOK, Request
  <2>2. ChatCreated(q.handle) \in [Handles -> Chat]
    BY <2>1, ChatCreatedType DEF Typed
  <2>3. MessageTaken(q) \in [Handles -> Chat]
    BY <2>1, MessageTakenType DEF Typed
  <2>4. chat' \in {ChatCreated(q.handle), MessageTaken(q), chat}
    BY <1>2 DEF ServeLate
  <2>5. chat' \in [Handles -> Chat]
    BY <2>2, <2>3, <2>4 DEF Typed, TypeOK
  <2> QED
    BY <1>2, <2>5 DEF ServeLate, database, Typed, TypeOK, CursorSet
<1>3. ASSUME NEW h \in Handles, CloseChat(h) \/ UnloadChat(h) \/ ReloadChat(h)
      PROVE  Typed'
  <2>1. chat' \in [Handles -> Chat]
    <3>1. [chat[h] EXCEPT !.state = "closed", !.before = Created] \in Chat
      BY DEF Typed, TypeOK, Chat, Created
    <3>2. [chat[h] EXCEPT !.state = "unloaded"] \in Chat
      BY DEF Typed, TypeOK, Chat
    <3>3. [chat[h] EXCEPT !.state = "live"] \in Chat
      BY DEF Typed, TypeOK, Chat
    <3>4. \E c \in Chat : chat' = [chat EXCEPT ![h] = c]
      BY <1>3, <3>1, <3>2, <3>3 DEF CloseChat, UnloadChat, ReloadChat, Typed, TypeOK, Chat
    <3> QED
      BY <3>4 DEF Typed, TypeOK
  <2>2. faults' \in 0 .. MaxFaults
    BY <1>3, BoundsAssumption DEF CloseChat, UnloadChat, ReloadChat, Typed, TypeOK
  <2> QED
    BY <1>3, <2>1, <2>2
       DEF CloseChat, UnloadChat, ReloadChat, database, Typed, TypeOK, CursorSet
<1>4. ASSUME NEW k \in Rules,
             NEW new \in [state : RuleStates, by : Groupings, project : Projects],
             EditRule(k, new)
      PROVE  Typed'
  <2>1. rule' \in [Rules -> [state : AllStates, by : Groupings, project : Projects]]
    BY <1>4, NamesAssumption DEF EditRule, Typed, TypeOK
  <2>2. edits' \in 0 .. MaxEdits
    BY <1>4, BoundsAssumption DEF EditRule, Typed, TypeOK
  <2> QED
    BY <1>4, <2>1, <2>2 DEF EditRule, database, Typed, TypeOK, CursorSet
<1>5. ASSUME NEW k \in Rules, DeleteRule(k)
      PROVE  Typed'
  <2>1. rule' \in [Rules -> [state : AllStates, by : Groupings, project : Projects]]
    <3> DEFINE new == [rule[k] EXCEPT !.state = "deleted"]
    <3>1. new \in [state : AllStates, by : Groupings, project : Projects]
      BY DEF Typed, TypeOK, AllStates
    <3>2. rule' = [rule EXCEPT ![k] = new]
      BY <1>5 DEF DeleteRule, Typed, TypeOK
    <3> HIDE DEF new
    <3> QED
      BY <3>1, <3>2 DEF Typed, TypeOK
  <2>2. ws' \in [Handles -> Workstream]
    <3>1. ASSUME NEW h \in Handles, NEW owner \in Rules \cup {None}
          PROVE  [ws[h] EXCEPT !.rule = owner] \in Workstream
      BY DEF Typed, TypeOK, Workstream
    <3>2. ASSUME NEW h \in Handles
          PROVE  (IF ws[h].rule = k THEN None ELSE ws[h].rule) \in Rules \cup {None}
      BY DEF Typed, TypeOK, Workstream
    <3> QED
      BY <1>5, <3>1, <3>2 DEF DeleteRule
  <2>3. edits' \in 0 .. MaxEdits
    BY <1>5, BoundsAssumption DEF DeleteRule, Typed, TypeOK
  <2> QED
    BY <1>5, <2>1, <2>2, <2>3 DEF DeleteRule, Typed, TypeOK, CursorSet
<1>6. ASSUME NEW e \in Events, Wake(e)
      PROVE  Typed'
  <2>1. event' \in [Events -> Event]
    <3>1. [event[e] EXCEPT !.wait = "now"] \in Event
      <4>1. event[e] \in Event
        BY DEF Typed, TypeOK
      <4> QED
        BY <4>1 DEF Event, Waits
    <3>2. event' = [event EXCEPT ![e] = [event[e] EXCEPT !.wait = "now"]]
      BY <1>6 DEF Wake, Typed, TypeOK, Event
    <3> QED
      BY <3>1, <3>2 DEF Typed, TypeOK
  <2> QED
    BY <1>6, <2>1 DEF Wake, Typed, TypeOK, CursorSet
<1>7. ASSUME NEW S \in SUBSET Rules, DeleteTarget(S)
      PROVE  Typed'
  BY <1>7, TargetGone DEF DeleteTarget, Typed, TypeOK, CursorSet
<1>8. ASSUME NEW q \in net, Lose(q)
      PROVE  Typed'
  BY <1>8 DEF Lose, database, Typed, TypeOK, CursorSet
<1> QED
  BY <1>1, <1>2, <1>3, <1>4, <1>5, <1>6, <1>7, <1>8 DEF Turnstone, Operators

LEMMA TypedStep ==
  ASSUME Typed, [Next]_vars
  PROVE  Typed'
<1>1. CASE Collectors
  BY <1>1, EnqueueTyped DEF Collectors
<1>2. ASSUME NEW r \in Replicas,
             (\E due \in SUBSET Handles : BeginTick(r, due)) \/ Scheduler(r)
      PROVE  Typed'
  BY <1>2, PollTyped, SelectTyped, CreateTyped, SendTyped DEF Scheduler
<1>3. CASE UNCHANGED vars
  BY <1>3 DEF vars, Typed, TypeOK, CursorSet
<1> QED
  BY <1>1, <1>2, <1>3, EnvironmentTyped DEF Next

\* Every variable keeps its type, for any replicas, rules, hosts and bounds
\* (the rows of agent_workstreams and agent_pending, and the variables of
\* AgentQueue._tick_locked and _deliver).
THEOREM TypeCorrect == Spec => []TypeOK
<1>1. Init => Typed
  BY TypedInit
<1>2. Typed /\ [Next]_vars => Typed'
  BY TypedStep
<1>3. Typed => TypeOK
  BY DEF Typed
<1> QED
  BY <1>1, <1>2, <1>3, PTL DEF Spec

-----------------------------------------------------------------------------
(* The cap.                                                                *)

LEMMA FiniteActive ==
  /\ IsFiniteSet(Handles)
  /\ IsFiniteSet(Active)
<1>1. IsFiniteSet(Handles)
  BY FS_Interval, BoundsAssumption DEF Handles
<1>2. Active \in SUBSET Handles
  BY DEF Active
<1> QED
  BY <1>1, <1>2, FS_Subset

LEMMA FewerReserved ==
  ASSUME Reserved, Active' \subseteq Active
  PROVE  Reserved'
<1>1. Cardinality(Active') <= Cardinality(Active)
  BY FiniteActive, FS_Subset
<1>2. Cardinality(Active) \in Nat /\ Cardinality(Active') \in Nat
  <2>1. IsFiniteSet(Active')
    BY FiniteActive, FS_Subset
  <2> QED
    BY <2>1, FiniteActive, FS_CardinalityType
<1> QED
  BY <1>1, <1>2, CapAssumption DEF Reserved

\* Statuses, states and creates in flight are as before, but for creates
\* that have gone.
Still ==
  /\ \A h \in Handles : ws'[h].status = ws[h].status
  /\ \A h \in Handles : chat'[h].state = chat[h].state
  /\ \A q \in net' : q.kind = "create" => q \in net

LEMMA StillBacked ==
  ASSUME Typed, Backed, Typed', Still
  PROVE  /\ Reserved' /\ Creates' /\ CreateNotRepeated'
         /\ \A h \in Handles : Tracked(h)'
<1>1. Reserved'
  <2>1. Active' \subseteq Active
    BY DEF Still, Active
  <2> QED
    BY <2>1, FewerReserved DEF Backed
<1>2. Creates'
  BY DEF Still, Backed, Creates, CreateRequest
<1>3. CreateNotRepeated'
  <2>1. \A q \in net' : q.handle \in Handles
    BY DEF Typed, TypeOK, Request
  <2> QED
    BY <2>1 DEF Still, Backed, CreateNotRepeated
<1>4. \A h \in Handles : Tracked(h)'
  BY DEF Still, Backed, Tracked
<1> QED
  BY <1>1, <1>2, <1>3, <1>4

\* A step of the tick that holds the lock leaves the others idle.
LEMMA HolderBacked ==
  ASSUME Typed, Backed, Typed', NEW r \in Replicas, NEW t,
         tick[r].pc # "idle", tick' = [tick EXCEPT ![r] = t], lock' = lock,
         Remembered(r)', Reserved', Creates', CreateNotRepeated',
         \A h \in Handles : Tracked(h)'
  PROVE  Backed'
<1>1. \A s \in Replicas : s # r => tick[s].pc = "idle"
  BY DEF Backed, Exclusive
<1>2. \A s \in Replicas : s # r => tick'[s] = tick[s]
  BY DEF Typed, TypeOK
<1>3. Exclusive'
  BY <1>1, <1>2 DEF Backed, Exclusive
<1>4. ASSUME NEW s \in Replicas, s # r
      PROVE  Remembered(s)'
  BY <1>1, <1>2, <1>4 DEF Backed, Remembered
<1> QED
  BY <1>3, <1>4 DEF Backed, Typed

\* The inspection of a chat.
LEMMA InspectBacked ==
  ASSUME Typed, Backed, Typed', NEW r \in Replicas,
         PollRead(r) \/ DeliveryRead(r)
  PROVE  Backed'
<1>1. PICK h \in Handles, answer \in Answers :
        /\ Inspect(r, h, answer)
        /\ \/ tick[r].pc = "poll" /\ h \in tick[r].todo
           \/ tick[r].pc = "inspect" /\ h = tick[r].cur
  BY DEF PollRead, DeliveryRead, Typed, TypeOK, Tick, CursorSet, InHand
<1> DEFINE t == [tick[r] EXCEPT !.pc = "inspected", !.todo = @ \ {h},
                                !.cur = h, !.answer = answer]
<1>2. tick' = [tick EXCEPT ![r] = t] /\ tick'[r] = t
  <2>1. tick' = [tick EXCEPT ![r] = t]
    BY <1>1 DEF Inspect
  <2> QED
    BY <2>1 DEF Typed, TypeOK
<1>3. /\ t.pc = "inspected" /\ t.todo = tick[r].todo \ {h} /\ t.cur = h
      /\ t.answer = answer /\ t.rows = tick[r].rows
  BY DEF Typed, TypeOK, Tick
<1>4. Still
  BY <1>1 DEF Inspect, Still, database
<1>5. ws[h].status \in Reached
  BY <1>1 DEF Backed, Remembered
<1>6. t.rows = {} \/ t.todo = {}
  BY <1>1, <1>3 DEF Backed, Remembered
<1>7. /\ answer \in {"closed", "undated"} => chat[h].state = "closed"
      /\ answer \in {"live", "unloaded"} => chat[h].state # "none"
  BY <1>1 DEF Inspect, AnswersFor, Typed, TypeOK, Chat
<1> HIDE DEF t
<1>8. Remembered(r)'
  <2>1. \A g \in t.todo : ws[g].status \in Reached
    BY <1>3 DEF Backed, Remembered
  <2>2. ws' = ws /\ chat' = chat
    BY <1>1 DEF Inspect, database
  <2> QED
    BY <1>2, <1>3, <1>5, <1>6, <1>7, <2>1, <2>2 DEF Remembered
<1>9. lock' = lock /\ tick[r].pc # "idle"
  BY <1>1 DEF Inspect
<1> QED
  BY <1>2, <1>4, <1>8, <1>9, StillBacked, HolderBacked

\* What the inspection records.
LEMMA RecordBacked ==
  ASSUME Typed, Backed, Typed', NEW r \in Replicas, RecordInspection(r)
  PROVE  Backed'
<1> DEFINE h == tick[r].cur
           answer == tick[r].answer
           t == IF tick[r].rows = {}
                  THEN [tick[r] EXCEPT !.pc = "poll", !.cur = None, !.answer = "none"]
                  ELSE [tick[r] EXCEPT !.pc = "decide"]
<1>1. tick[r].pc = "inspected" /\ h \in Handles
  BY DEF RecordInspection, Typed, CursorSet, InHand
<1>2. /\ ws[h].status \in Reached /\ h \notin tick[r].todo
      /\ tick[r].rows = {} \/ tick[r].todo = {}
      /\ answer \in {"closed", "undated"} => chat[h].state = "closed"
      /\ answer \in {"live", "unloaded"} => chat[h].state # "none"
  BY <1>1 DEF Backed, Remembered
<1>3. /\ ws'[h].status = StatusAfter(ws[h].status, answer)
      /\ \A g \in Handles : g # h => ws'[g].status = ws[g].status
  <2>1. ws \in [Handles -> Workstream]
    BY DEF Typed, TypeOK
  <2> QED
    BY <1>1, <2>1 DEF RecordInspection, Workstream
<1>4. chat' = chat /\ net' = net /\ lock' = lock
  BY DEF RecordInspection
<1>5. tick' = [tick EXCEPT ![r] = t] /\ tick'[r] = t
  BY DEF RecordInspection, Typed, TypeOK
<1>6. Reserved'
  <2>1. Active' \subseteq Active
    BY <1>1, <1>2, <1>3 DEF Active, Reached
  <2> QED
    BY <2>1, FewerReserved DEF Backed
<1>7. Creates'
  BY <1>4 DEF Backed, Creates, CreateRequest
<1>8. CreateNotRepeated'
  <2>1. \A q \in net : q.handle \in Handles
    BY DEF Typed, TypeOK, Request
  <2>2. ASSUME NEW q \in net, q.kind = "create", q.handle = h
        PROVE  ws'[h].status = "uncertain"
    <3>1. chat[h].state = "none" /\ ws[h].status = "uncertain"
      BY <2>2 DEF Backed, CreateNotRepeated
    <3>2. answer \notin {"closed", "undated", "live", "unloaded"}
      BY <3>1, <1>2
    <3> QED
      BY <1>3, <3>1, <3>2 DEF StatusAfter
  <2> QED
    BY <1>3, <1>4, <2>1, <2>2 DEF Backed, CreateNotRepeated
<1>9. \A g \in Handles : Tracked(g)'
  BY <1>2, <1>3, <1>4 DEF Backed, Tracked, StatusAfter, Reached
<1>10. Remembered(r)'
  <2>1. /\ t.pc \in {"poll", "decide"} /\ t.todo = tick[r].todo
        /\ t.rows = tick[r].rows
        /\ t.pc = "poll" <=> t.rows = {}
    BY DEF Typed, TypeOK, Tick
  <2>2. \A g \in t.todo : ws'[g].status \in Reached
    <3>1. t.todo \subseteq Handles
      BY <2>1 DEF Typed, TypeOK, Tick
    <3> HIDE DEF t
    <3> QED
      BY <1>2, <1>3, <2>1, <3>1 DEF Backed, Remembered
  <2> HIDE DEF t
  <2> QED
    BY <1>2, <1>5, <2>1, <2>2 DEF Remembered
<1> HIDE DEF t
<1> QED
  BY <1>1, <1>4, <1>5, <1>6, <1>7, <1>8, <1>9, <1>10, HolderBacked

\* The steps that begin and end a tick.
LEMMA LockBacked ==
  ASSUME Typed, Backed, Typed', NEW r \in Replicas,
         \/ \E due \in SUBSET Handles : BeginTick(r, due)
         \/ EndTick(r) \/ Crash(r)
  PROVE  Backed'
<1>1. Still
  BY DEF BeginTick, EndTick, Crash, Still, database
<1>2. Reserved' /\ Creates' /\ CreateNotRepeated' /\ \A h \in Handles : Tracked(h)'
  BY <1>1, StillBacked
<1>3. CASE \E due \in SUBSET Handles : BeginTick(r, due)
  <2>1. PICK due \in SUBSET Handles : BeginTick(r, due)
    BY <1>3
  <2> DEFINE t == [tick[r] EXCEPT !.pc = "poll", !.todo = due]
  <2>2. tick' = [tick EXCEPT ![r] = t] /\ tick'[r] = t
    <3>1. tick' = [tick EXCEPT ![r] = t]
      BY <2>1, TickOfReplica DEF BeginTick, Tick
    <3> QED
      BY <3>1 DEF Typed, TypeOK
  <2>3. t.pc = "poll" /\ t.todo = due /\ t.rows = tick[r].rows
    BY DEF Typed, TypeOK, Tick
  <2>4. \A s \in Replicas : tick[s].pc = "idle"
    BY <2>1, NamesAssumption DEF BeginTick, LockFree, Backed, Exclusive
  <2>5. \A h \in due : ws'[h].status \in Reached
    <3>1. \A h \in due : h \in Handles /\ ws'[h].status = ws[h].status
                        /\ ws[h].status \notin {"none", "closed", "opening"}
      BY <2>1 DEF BeginTick, Active
    <3> QED
      BY <3>1 DEF Reached, Typed, TypeOK, Workstream
  <2> HIDE DEF t
  <2>6. Remembered(r)'
    BY <2>2, <2>3, <2>4, <2>5 DEF Backed, Remembered
  <2>7. \A s \in Replicas : s # r => tick'[s] = tick[s]
    BY <2>2 DEF Typed, TypeOK
  <2>8. Exclusive'
    BY <2>1, <2>4, <2>7 DEF BeginTick, Exclusive
  <2>9. ASSUME NEW s \in Replicas, s # r
        PROVE  Remembered(s)'
    BY <2>4, <2>7, <2>9 DEF Backed, Remembered
  <2> QED
    BY <1>2, <2>6, <2>8, <2>9 DEF Backed, Typed
<1>4. CASE EndTick(r) \/ Crash(r)
  <2>1. tick' = [tick EXCEPT ![r] = IdleTick] /\ tick'[r] = IdleTick
        /\ tick[r].pc # "idle"
    BY <1>4 DEF EndTick, Crash, Typed, TypeOK
  <2>2. \A s \in Replicas : s # r => tick[s].pc = "idle" /\ tick'[s] = tick[s]
    BY <2>1 DEF Backed, Exclusive, Typed, TypeOK
  <2>3. Exclusive'
    BY <2>1, <2>2 DEF Exclusive, IdleTick
  <2>4. Remembered(r)'
    BY <2>1 DEF Remembered, IdleTick
  <2>5. ASSUME NEW s \in Replicas, s # r
        PROVE  Remembered(s)'
    BY <2>2, <2>5 DEF Backed, Remembered
  <2> QED
    BY <1>2, <2>3, <2>4, <2>5 DEF Backed, Typed
<1> QED
  BY <1>3, <1>4

\* The steps that choose a group and adopt a workstream.
LEMMA SelectBacked ==
  ASSUME Typed, Backed, Typed', NEW r \in Replicas,
         \/ CancelDisabled(r) \/ ListGroups(r) \/ SkipGroup(r)
         \/ RefuseChangedProject(r) \/ WaitForCapacity(r) \/ Adopt(r) \/ Assign(r)
  PROVE  Backed'
<1>0. PICK t : t = tick'[r]
  OBVIOUS
<1>1. /\ tick[r].pc \in {"poll", "list", "next", "assign"}
      /\ tick[r].todo = {}
      /\ lock' = lock
  BY DEF CancelDisabled, ListGroups, SkipGroup, RefuseChangedProject, WaitForCapacity,
         Adopt, Assign, Deliverable, NextGroup, Backed, Remembered
<1>2. Still /\ ws' = ws /\ chat' = chat /\ net' = net
  BY DEF CancelDisabled, ListGroups, SkipGroup, RefuseChangedProject, WaitForCapacity,
         Adopt, Assign, Still, database
<1>3. tick' = [tick EXCEPT ![r] = t]
  BY <1>0 DEF CancelDisabled, ListGroups, SkipGroup, RefuseChangedProject, WaitForCapacity,
         Adopt, Assign, TakeUp, Typed, TypeOK
<1>4. ASSUME ~Adopt(r) /\ ~Assign(r)
      PROVE  Remembered(r)'
  <2>1. ASSUME CancelDisabled(r)
        PROVE  t.pc = "list" /\ t.todo = {}
    BY <1>0, <1>1, <2>1 DEF CancelDisabled, Typed, TypeOK, Tick
  <2>2. ASSUME ListGroups(r)
        PROVE  t.pc = "next" /\ t.todo = {}
    <3>1. PICK listed : t = [tick[r] EXCEPT !.pc = "next", !.groups = listed]
      BY <1>0, <2>2 DEF ListGroups, Typed, TypeOK
    <3> QED
      BY <1>1, <3>1 DEF Typed, TypeOK, Tick
  <2>3. ASSUME SkipGroup(r) \/ RefuseChangedProject(r) \/ WaitForCapacity(r)
        PROVE  t.pc = "next" /\ t.todo = {}
    <3>1. tick' = [tick EXCEPT ![r].groups = @ \ {Head(r)}] /\ tick[r].pc = "next"
      BY <2>3 DEF SkipGroup, RefuseChangedProject, WaitForCapacity, Deliverable, NextGroup
    <3> QED
      BY <1>0, <1>1, <3>1 DEF Typed, TypeOK, Tick
  <2>4. t.pc \in {"list", "next"} /\ t.todo = {}
    BY <1>4, <2>1, <2>2, <2>3
  <2> QED
    BY <1>0, <1>2, <2>4 DEF Remembered
<1>5. ASSUME Adopt(r)
      PROVE  Remembered(r)'
  <2>1. WorkstreamFor(r) \in Active
    BY <1>5, FindWorkstreamType DEF Adopt, WorkstreamFor
  <2>2. t.pc = "assign" /\ t.todo = {} /\ t.cur = WorkstreamFor(r)
    BY <1>0, <1>1, <1>5 DEF Adopt, TakeUp, Typed, TypeOK, Tick
  <2>3. Active' = Active
    BY <1>2 DEF Active
  <2> QED
    BY <1>0, <1>2, <2>1, <2>2, <2>3 DEF Remembered
<1>6. ASSUME Assign(r)
      PROVE  Remembered(r)'
  <2>1. tick[r].cur \in Active /\ tick[r].cur \in Handles
    BY <1>6 DEF Assign, Backed, Remembered, CursorSet, InHand
  <2>2. /\ t.pc = IF NeedsCreate(tick[r].cur) THEN "attempt" ELSE "inspect"
        /\ t.todo = {} /\ t.cur = tick[r].cur
    BY <1>0, <1>1, <1>6 DEF Assign, Typed, TypeOK, Tick
  <2>3. CASE NeedsCreate(tick[r].cur)
    BY <1>0, <1>2, <2>2, <2>3 DEF Remembered, NeedsCreate
  <2>4. CASE ~NeedsCreate(tick[r].cur)
    <3>1. ws[tick[r].cur].status \in Reached
      BY <2>1, <2>4 DEF NeedsCreate, Active, Reached, Typed, TypeOK, Workstream
    <3> QED
      BY <1>0, <1>2, <2>2, <2>4, <3>1 DEF Remembered
  <2> QED
    BY <2>3, <2>4
<1>7. Remembered(r)'
  BY <1>4, <1>5, <1>6
<1> QED
  BY <1>1, <1>2, <1>3, <1>7, StillBacked, HolderBacked

\* A reservation takes a handle of its own and is made below the cap.
LEMMA ReserveBacked ==
  ASSUME Typed, Backed, Typed', NEW r \in Replicas, Reserve(r)
  PROVE  Backed'
<1> DEFINE h == LeastOf(Handles \ Opened)
           t == [tick[r] EXCEPT !.pc = "assign", !.groups = @ \ {Head(r)},
                                !.rows = GroupRows(r), !.cur = h]
<1>1. h \in Handles /\ ws[h].status = "none"
  BY LeastHandle DEF Reserve, Opened
<1>2. /\ ws'[h].status = "opening"
      /\ \A g \in Handles : g # h => ws'[g].status = ws[g].status
      /\ chat' = chat /\ net' = net /\ lock' = lock
  BY <1>1 DEF Reserve, Typed, TypeOK
<1>3. /\ tick' = [tick EXCEPT ![r] = t] /\ tick'[r] = t /\ tick[r].pc = "next"
      /\ t.pc = "assign" /\ t.todo = tick[r].todo /\ t.cur = h
  <2>1. tick' = [tick EXCEPT ![r] = t] /\ tick[r].pc = "next"
    <3>1. TakeUp(r, h) /\ tick[r].pc = "next"
      BY DEF Reserve, Deliverable, NextGroup
    <3> HIDE DEF h
    <3> QED
      BY <3>1, TickOfReplica DEF TakeUp, Tick
  <2>2. tick'[r] = t
    BY <2>1 DEF Typed, TypeOK
  <2>3. t.pc = "assign" /\ t.todo = tick[r].todo /\ t.cur = h
    BY DEF Typed, TypeOK, Tick
  <2> QED
    BY <2>1, <2>2, <2>3
<1> HIDE DEF h, t
<1>4. Active' = Active \cup {h} /\ h \notin Active
  BY <1>1, <1>2 DEF Active
<1>5. Reserved'
  <2>1. Cardinality(Active') = Cardinality(Active) + 1
    BY <1>4, FiniteActive, FS_AddElement
  <2>2. Cardinality(Active) \in Nat /\ Cardinality(Active) < MaxActive
    BY FiniteActive, FS_CardinalityType DEF Reserve
  <2> QED
    BY <2>1, <2>2, CapAssumption DEF Reserved
<1>6. Creates'
  BY <1>2 DEF Backed, Creates, CreateRequest
<1>7. CreateNotRepeated'
  <2>1. \A q \in net : q.handle \in Handles
    BY DEF Typed, TypeOK, Request
  <2> QED
    BY <1>1, <1>2, <2>1 DEF Backed, CreateNotRepeated
<1>8. \A g \in Handles : Tracked(g)'
  BY <1>1, <1>2 DEF Backed, Tracked
<1>9. Remembered(r)'
  <2>1. tick[r].todo = {}
    BY <1>3 DEF Backed, Remembered
  <2> QED
    BY <1>3, <1>4, <2>1 DEF Remembered
<1> QED
  BY <1>2, <1>3, <1>5, <1>6, <1>7, <1>8, <1>9, HolderBacked

\* The creation of the chat: only the tick that holds the lock asks, and
\* only for a chat that was never asked for or was refused.
LEMMA CreateBacked ==
  ASSUME Typed, Backed, Typed', NEW r \in Replicas,
         Attempt(r) \/ CreateAccepted(r) \/ CreateRefused(r)
  PROVE  Backed'
<1>1. PICK h \in Handles : h = tick[r].cur
  BY DEF Attempt, CreateAccepted, CreateRefused, Typed, CursorSet, InHand
<1>2. /\ tick[r].pc \in {"attempt", "create"}
      /\ tick[r].todo = {}
      /\ lock' = lock
  BY DEF Attempt, CreateAccepted, CreateRefused, Backed, Remembered
<1>3. /\ ws[h].status \in {"opening", "uncertain"}
      /\ chat[h].state = "none"
  <2>1. CASE tick[r].pc = "attempt"
    BY <1>1, <2>1 DEF Backed, Remembered, Tracked
  <2>2. CASE tick[r].pc = "create"
    <3>1. CreateRequest(h) \in net
      BY <1>1, <2>2 DEF Backed, Remembered
    <3> QED
      BY <3>1 DEF Backed, CreateNotRepeated, CreateRequest
  <2> QED
    BY <1>2, <2>1, <2>2
<1>4. /\ ws'[h].status \in {"opening", "uncertain", "open"}
      /\ \A g \in Handles : g # h => ws'[g].status = ws[g].status
      /\ \A g \in Handles : g # h => chat'[g].state = chat[g].state
      /\ ws'[h].status \in {"opening", "uncertain"} => chat'[h].state = "none"
      /\ ws'[h].status = "open" => chat'[h].state = "live"
  <2>1. CASE Attempt(r)
    BY <1>1, <1>3, <2>1 DEF Attempt, Typed, TypeOK, Workstream
  <2>2. CASE CreateAccepted(r)
    <3>1. ws \in [Handles -> Workstream] /\ chat \in [Handles -> Chat]
      BY DEF Typed, TypeOK
    <3>2. /\ ws'[h].status = "open"
          /\ \A g \in Handles : g # h => ws'[g].status = ws[g].status
      BY <1>1, <2>2, <3>1 DEF CreateAccepted, Workstream
    <3>3. /\ chat'[h].state = "live"
          /\ \A g \in Handles : g # h => chat'[g].state = chat[g].state
      BY <1>1, <2>2, <3>1 DEF CreateAccepted, ChatCreated, Chat
    <3> QED
      BY <3>2, <3>3
  <2>3. CASE CreateRefused(r)
    BY <1>1, <1>3, <2>3 DEF CreateRefused, Typed, TypeOK, Workstream
  <2> QED
    BY <2>1, <2>2, <2>3
<1>5. Reserved'
  <2>1. Active' \subseteq Active
    BY <1>3, <1>4 DEF Active
  <2> QED
    BY <2>1, FewerReserved DEF Backed
<1>6. Creates'
  <2>1. net' \subseteq net \cup {CreateRequest(h)}
    BY <1>1 DEF Attempt, CreateAccepted, CreateRefused
  <2> QED
    BY <2>1 DEF Backed, Creates, CreateRequest
<1>7. CreateNotRepeated'
  <2>1. ASSUME NEW q \in net', q.kind = "create", q.handle = h
        PROVE  ws'[h].status = "uncertain"
    <3>1. CASE Attempt(r)
      BY <1>1, <3>1 DEF Attempt, Typed, TypeOK, Workstream
    <3>2. CASE CreateAccepted(r) \/ CreateRefused(r)
      <4>1. net' = net \ {CreateRequest(h)}
        BY <1>1, <3>2 DEF CreateAccepted, CreateRefused
      <4>2. q = CreateRequest(h)
        BY <2>1, <4>1 DEF Backed, Creates
      <4> QED
        BY <4>1, <4>2
    <3> QED
      BY <3>1, <3>2
  <2>2. ASSUME NEW q \in net', q.kind = "create", q.handle # h
        PROVE  q \in net /\ q.handle \in Handles
    <3>1. net' \subseteq net \cup {CreateRequest(h)}
      BY <1>1 DEF Attempt, CreateAccepted, CreateRefused
    <3> QED
      BY <2>2, <3>1 DEF CreateRequest, Typed, TypeOK, Request
  <2> QED
    BY <1>4, <2>1, <2>2 DEF Backed, CreateNotRepeated
<1>8. \A g \in Handles : Tracked(g)'
  BY <1>4 DEF Backed, Tracked
<1>9. PICK t : t = tick'[r] /\ tick' = [tick EXCEPT ![r] = t]
  BY DEF Attempt, CreateAccepted, CreateRefused, GiveUp, Typed, TypeOK
<1>10. Remembered(r)'
  <2>1. ASSUME Attempt(r)
        PROVE  Remembered(r)'
    <3>1. t.pc = "create" /\ t.todo = {} /\ t.cur = h
      <4>1. t = [tick[r] EXCEPT !.pc = "create"]
        BY <1>9, <2>1 DEF Attempt, Typed, TypeOK
      <4> QED
        BY <1>1, <1>2, <4>1 DEF Typed, TypeOK, Tick
    <3>2. CreateRequest(h) \in net'
      BY <1>1, <2>1 DEF Attempt
    <3> QED
      BY <1>9, <3>1, <3>2 DEF Remembered, CreateRequest
  <2>2. ASSUME CreateAccepted(r)
        PROVE  Remembered(r)'
    <3>1. t.pc = "inspect" /\ t.todo = {} /\ t.cur = h
      <4>1. t = [tick[r] EXCEPT !.pc = "inspect"]
        BY <1>9, <2>2 DEF CreateAccepted, Typed, TypeOK
      <4> QED
        BY <1>1, <1>2, <4>1 DEF Typed, TypeOK, Tick
    <3>2. ws'[h].status = "open"
      BY <1>1, <2>2 DEF CreateAccepted, Typed, TypeOK, Workstream
    <3> QED
      BY <1>9, <3>1, <3>2 DEF Remembered, Reached
  <2>3. ASSUME CreateRefused(r)
        PROVE  Remembered(r)'
    <3>1. t.pc = "next" /\ t.todo = {} /\ t.rows = {}
      <4>1. t = BackToLoop(tick[r])
        BY <1>9, <2>3 DEF CreateRefused, GiveUp, Typed, TypeOK
      <4> QED
        BY <1>2, <4>1 DEF BackToLoop, Typed, TypeOK, Tick
    <3> QED
      BY <1>9, <3>1 DEF Remembered
  <2> QED
    BY <2>1, <2>2, <2>3
<1> QED
  BY <1>2, <1>5, <1>6, <1>7, <1>8, <1>9, <1>10, HolderBacked

\* The rest of a tick neither opens nor closes anything.
LEMMA SendBacked ==
  ASSUME Typed, Backed, Typed', NEW r \in Replicas,
         \/ CreateUnknown(r) \/ HoldBack(r) \/ Throttle(r) \/ Send(r)
         \/ FeedAccepted(r) \/ FeedRefused(r) \/ FeedUnknown(r)
  PROVE  Backed'
<1>1. /\ tick[r].pc \in {"create", "decide", "feed"}
      /\ tick[r].todo = {}
      /\ lock' = lock
  BY DEF CreateUnknown, HoldBack, Throttle, Send, MaySend, FeedAccepted, FeedRefused,
         FeedUnknown, Backed, Remembered
<1>2. Still
  <2>1. CASE FeedAccepted(r)
    <3>1. \A h \in Handles : ws'[h].status = ws[h].status
      BY <2>1 DEF FeedAccepted, Typed, TypeOK, Workstream
    <3>2. \A h \in Handles : chat'[h].state = chat[h].state
      BY <2>1 DEF FeedAccepted, MessageTaken, Typed, TypeOK, Chat
    <3> QED
      BY <2>1, <3>1, <3>2 DEF Still, FeedAccepted
  <2>2. CASE Send(r)
    BY <2>2 DEF Send, SendRequest, Still, database
  <2> QED
    BY <2>1, <2>2 DEF CreateUnknown, HoldBack, Throttle, FeedRefused, FeedUnknown, Still
<1>3. PICK t : t = tick'[r] /\ tick' = [tick EXCEPT ![r] = t]
  BY DEF CreateUnknown, HoldBack, Throttle, Send, FeedAccepted, FeedRefused, FeedUnknown,
         GiveUp, Typed, TypeOK
<1>4. t.pc \in {"next", "feed"} /\ t.todo = {}
  <2>1. CASE Send(r)
    <3>1. PICK batch : t = [tick[r] EXCEPT !.pc = "feed", !.rows = batch]
      BY <1>3, <2>1 DEF Send, Typed, TypeOK
    <3> QED
      BY <1>1, <3>1 DEF Typed, TypeOK, Tick
  <2>2. CASE ~Send(r)
    <3>1. t = BackToLoop(tick[r])
      BY <1>3, <2>2 DEF CreateUnknown, HoldBack, Throttle, FeedAccepted, FeedRefused,
                        FeedUnknown, GiveUp, Typed, TypeOK
    <3> QED
      BY <1>1, <3>1 DEF BackToLoop, Typed, TypeOK, Tick
  <2> QED
    BY <2>1, <2>2
<1>5. Remembered(r)'
  BY <1>3, <1>4 DEF Remembered
<1> QED
  BY <1>1, <1>2, <1>3, <1>5, StillBacked, HolderBacked

\* Collectors, Turnstone, its users and operators: tick and lock stay, a chat
\* is never forgotten and a closed one stays closed, and a create leaves the
\* network unasked only when no tick waits for it.
LEMMA OutsideBacked ==
  ASSUME Typed, Backed, Typed', tick' = tick, lock' = lock,
         \A h \in Handles : ws'[h].status = ws[h].status,
         \A h \in Handles : /\ chat[h].state # "none" => chat'[h].state # "none"
                            /\ chat[h].state = "closed" => chat'[h].state = "closed",
         \A r \in Replicas : /\ tick[r].pc = "create"
                             /\ CreateRequest(tick[r].cur) \in net
                             => CreateRequest(tick[r].cur) \in net',
         Creates', CreateNotRepeated', \A h \in Handles : Tracked(h)'
  PROVE  Backed'
<1>1. Active' = Active
  BY DEF Active
<1>2. Reserved'
  BY <1>1, FewerReserved DEF Backed
<1>3. ASSUME NEW r \in Replicas
      PROVE  Remembered(r)'
  <2>1. Remembered(r) /\ tick[r].todo \subseteq Handles
    BY DEF Backed, Typed, TypeOK, Tick
  <2>2. tick[r].pc \in InHand => tick[r].cur \in Handles
    BY DEF Typed, CursorSet
  <2>3. CreateRequest(tick[r].cur)' = CreateRequest(tick[r].cur)
    BY DEF CreateRequest
  <2> QED
    BY <1>1, <2>1, <2>2, <2>3 DEF Remembered, InHand
<1> QED
  BY <1>2, <1>3 DEF Backed, Exclusive, Typed

LEMMA EnvironmentBacked ==
  ASSUME Typed, Backed, Typed',
         Collectors \/ Turnstone \/ Operators \/ \E e \in Events : Wake(e)
  PROVE  Backed'
<1>1. ASSUME Still, tick' = tick, lock' = lock, net' = net
      PROVE  Backed'
  <2>1. Creates' /\ CreateNotRepeated' /\ \A h \in Handles : Tracked(h)'
    BY <1>1, StillBacked
  <2> QED
    BY <1>1, <2>1, OutsideBacked DEF Still
<1>2. CASE Collectors \/ \E e \in Events : Wake(e)
  BY <1>1, <1>2 DEF Collectors, Enqueue, Wake, Still
<1>3. CASE Operators
  <2>1. CASE \E k \in Rules : DeleteRule(k)
    <3>1. \A h \in Handles : ws'[h].status = ws[h].status
      BY <2>1 DEF DeleteRule, Typed, TypeOK, Workstream
    <3> QED
      BY <1>1, <2>1, <3>1 DEF DeleteRule, Still
  <2>2. CASE \E S \in SUBSET Rules : DeleteTarget(S)
    <3>1. PICK S \in SUBSET Rules : DeleteTarget(S)
      BY <2>2
    <3>2. \A h \in Handles : ws'[h].status = ws[h].status
      BY <3>1, TargetGone
    <3> QED
      BY <1>1, <3>1, <3>2 DEF DeleteTarget, Still
  <2>3. CASE \E k \in Rules, new \in [state : RuleStates, by : Groupings, project : Projects] :
               EditRule(k, new)
    BY <1>1, <2>3 DEF EditRule, database, Still
  <2> QED
    BY <1>3, <2>1, <2>2, <2>3 DEF Operators
<1>4. ASSUME NEW h \in Handles, CloseChat(h) \/ UnloadChat(h) \/ ReloadChat(h)
      PROVE  Backed'
  <2>1. /\ chat[h].state \in {"live", "unloaded"}
        /\ chat'[h].state \in {"live", "unloaded", "closed"}
        /\ \A g \in Handles : g # h => chat'[g].state = chat[g].state
        /\ ws' = ws /\ net' = net /\ tick' = tick /\ lock' = lock
    BY <1>4 DEF CloseChat, UnloadChat, ReloadChat, database, Typed, TypeOK, Chat
  <2>2. Creates'
    BY <2>1 DEF Backed, Creates, CreateRequest
  <2>3. CreateNotRepeated'
    <3>1. \A q \in net : q.handle \in Handles
      BY DEF Typed, TypeOK, Request
    <3> QED
      BY <2>1, <3>1 DEF Backed, CreateNotRepeated
  <2>4. \A g \in Handles : Tracked(g)'
    BY <2>1 DEF Backed, Tracked
  <2> QED
    BY <2>1, <2>2, <2>3, <2>4, OutsideBacked
<1>5. ASSUME NEW q \in net, ServeLate(q) \/ Lose(q)
      PROVE  Backed'
  <2>1. q.handle \in Handles /\ q.kind \in {"create", "send"}
    BY DEF Typed, TypeOK, Request
  <2>2. /\ ws' = ws /\ tick' = tick /\ lock' = lock /\ net' = net \ {q}
    BY <1>5 DEF ServeLate, Lose, database
  <2>3. Creates'
    BY <2>2 DEF Backed, Creates, CreateRequest
  <2>4. \A r \in Replicas : tick[r].pc = "create" => q # CreateRequest(tick[r].cur)
    BY <1>5 DEF ServeLate, Lose, Abandoned
  <2>5. CASE ServeLate(q) /\ q.kind = "create" /\ chat[q.handle].state = "none"
    <3>1. /\ chat'[q.handle].state = "live"
          /\ \A g \in Handles : g # q.handle => chat'[g].state = chat[g].state
      BY <2>1, <2>5 DEF ServeLate, ChatCreated, Typed, TypeOK, Chat
    <3>2. ws[q.handle].status = "uncertain" /\ q = CreateRequest(q.handle)
      BY <2>5 DEF Backed, CreateNotRepeated, Creates
    <3>3. CreateNotRepeated'
      <4>1. ASSUME NEW p \in net', p.kind = "create"
            PROVE  p.handle \in Handles /\ p.handle # q.handle
        BY <2>2, <3>2, <4>1 DEF Backed, Creates, Typed, TypeOK, Request
      <4> QED
        BY <2>2, <3>1, <4>1 DEF Backed, CreateNotRepeated
    <3>4. \A g \in Handles : Tracked(g)'
      BY <2>2, <3>1, <3>2 DEF Backed, Tracked
    <3> QED
      BY <2>1, <2>2, <2>3, <2>4, <2>5, <3>1, <3>3, <3>4, OutsideBacked
  <2>6. CASE ~(ServeLate(q) /\ q.kind = "create" /\ chat[q.handle].state = "none")
    <3>1. \A g \in Handles : chat'[g].state = chat[g].state
      <4>1. chat' = MessageTaken(q) \/ chat' = chat
        BY <1>5, <2>6 DEF ServeLate, Lose
      <4> QED
        BY <4>1 DEF MessageTaken, Typed, TypeOK, Chat
    <3>2. Still
      BY <2>2, <3>1 DEF Still
    <3>3. CreateNotRepeated' /\ \A h \in Handles : Tracked(h)'
      BY <3>2, StillBacked
    <3> QED
      BY <2>2, <2>3, <2>4, <3>1, <3>3, OutsideBacked
  <2> QED
    BY <2>5, <2>6
<1> QED
  BY <1>2, <1>3, <1>4, <1>5 DEF Turnstone

LEMMA BackedInit == Init => Backed
<1> SUFFICES ASSUME Init PROVE Backed
  OBVIOUS
<1>1. Reserved
  <2>1. Active = {}
    BY DEF Init, Active
  <2> QED
    BY <2>1, FS_EmptySet, CapAssumption DEF Reserved
<1>2. Exclusive /\ CursorSet /\ Creates /\ CreateNotRepeated
  BY DEF Init, Exclusive, CursorSet, InHand, IdleTick, Creates, CreateNotRepeated
<1>3. \A r \in Replicas : Remembered(r)
  BY DEF Init, Remembered, IdleTick
<1>4. \A h \in Handles : Tracked(h)
  BY DEF Init, Tracked
<1> QED
  BY <1>1, <1>2, <1>3, <1>4 DEF Backed

LEMMA BackedStep ==
  ASSUME Typed, Backed, [Next]_vars
  PROVE  Backed'
<1>1. Typed'
  BY TypedStep
<1>2. ASSUME NEW r \in Replicas,
             \/ \E due \in SUBSET Handles : BeginTick(r, due)
             \/ Scheduler(r) \/ Crash(r)
      PROVE  Backed'
  BY <1>1, <1>2, LockBacked, InspectBacked, RecordBacked, SelectBacked, ReserveBacked,
     CreateBacked, SendBacked DEF Scheduler
<1>3. CASE UNCHANGED vars
  <2>1. Still
    BY <1>3 DEF vars, Still
  <2>2. Creates' /\ CreateNotRepeated' /\ \A h \in Handles : Tracked(h)'
    BY <1>1, <2>1, StillBacked
  <2> QED
    BY <1>1, <1>3, <2>2, OutsideBacked DEF vars
<1> QED
  BY <1>1, <1>2, <1>3, EnvironmentBacked DEF Next

\* The inductive invariant: whatever crashes, times out or lands late, every
\* unclosed chat is backed by a counted workstream (agent_queue.py:117-131,
\* 147-155, 245-282).
THEOREM AlwaysBacked == Spec => []Backed
<1>1. Init => Typed /\ Backed
  BY TypedInit, BackedInit
<1>2. Typed /\ Backed /\ [Next]_vars => Typed' /\ Backed'
  BY TypedStep, BackedStep
<1> QED
  BY <1>1, <1>2, PTL DEF Spec

\* No chat runs that the scheduler believes closed or never asked for.
THEOREM NoStrayAgents == Spec => []NoStrayAgent
<1>1. Typed /\ Backed => NoStrayAgent
  BY DEF Typed, TypeOK, Workstream, Backed, Tracked, NoStrayAgent, Agents
<1>2. Init => Typed /\ Backed
  BY TypedInit, BackedInit
<1>3. Typed /\ Backed /\ [Next]_vars => Typed' /\ Backed'
  BY TypedStep, BackedStep
<1> QED
  BY <1>1, <1>2, <1>3, PTL DEF Spec

\* At most MaxActive agent chats are unclosed in Turnstone at any time, for
\* any number of replicas, chats, alerts, crashes and late requests.
THEOREM CapHolds == Spec => []AgentCap
<1>1. Typed /\ Backed => AgentCap
  <2> SUFFICES ASSUME Typed, Backed PROVE AgentCap
    OBVIOUS
  <2>1. Agents \subseteq Active
    BY DEF Typed, TypeOK, Workstream, Backed, Tracked, Agents, Active
  <2>2. Cardinality(Agents) <= Cardinality(Active)
    BY <2>1, FiniteActive, FS_Subset
  <2>3. Cardinality(Agents) \in Nat /\ Cardinality(Active) \in Nat
    BY <2>1, FiniteActive, FS_Subset, FS_CardinalityType
  <2> QED
    BY <2>2, <2>3, CapAssumption DEF Backed, Reserved, AgentCap
<1>2. Init => Typed /\ Backed
  BY TypedInit, BackedInit
<1>3. Typed /\ Backed /\ [Next]_vars => Typed' /\ Backed'
  BY TypedStep, BackedStep
<1> QED
  BY <1>1, <1>2, <1>3, PTL DEF Spec

\* No create is asked for twice.
THEOREM NoCreateRepeated == Spec => []CreateNotRepeated
<1>1. Backed => CreateNotRepeated
  BY DEF Backed
<1> QED
  BY <1>1, AlwaysBacked, PTL

-----------------------------------------------------------------------------
(* A closed workstream stays closed.                                       *)

LEMMA ClosedStep ==
  ASSUME Typed, Backed, [Next]_vars, NEW h \in Handles, ws[h].status = "closed"
  PROVE  ws'[h].status = "closed"
<1>1. ASSUME NEW r \in Replicas, RecordInspection(r)
      PROVE  ws'[h].status = ws[h].status
  <2>1. ws[tick[r].cur].status \in Reached
    BY <1>1 DEF RecordInspection, Backed, Remembered
  <2>2. h # tick[r].cur
    BY <2>1 DEF Reached
  <2> QED
    BY <1>1, <2>2 DEF RecordInspection, Typed, TypeOK
<1>2. ASSUME NEW r \in Replicas, Reserve(r)
      PROVE  ws'[h].status = ws[h].status
  <2>1. h # LeastOf(Handles \ Opened)
    BY <1>2, LeastHandle DEF Reserve, Opened
  <2> QED
    BY <1>2, <2>1 DEF Reserve, Typed, TypeOK
<1>3. ASSUME NEW r \in Replicas, Attempt(r) \/ CreateAccepted(r) \/ CreateRefused(r)
      PROVE  ws'[h].status = ws[h].status
  <2>1. CASE Attempt(r)
    <3>1. h # tick[r].cur
      BY <2>1 DEF Attempt, Backed, Remembered
    <3> QED
      BY <2>1, <3>1 DEF Attempt, Typed, TypeOK
  <2>2. CASE CreateAccepted(r) \/ CreateRefused(r)
    <3>1. CreateRequest(tick[r].cur) \in net
      BY <2>2 DEF CreateAccepted, CreateRefused, Backed, Remembered
    <3>2. h # tick[r].cur
      BY <3>1 DEF CreateRequest, Backed, CreateNotRepeated
    <3> QED
      BY <2>2, <3>2 DEF CreateAccepted, CreateRefused, Typed, TypeOK
  <2> QED
    BY <1>3, <2>1, <2>2
<1>4. ASSUME NEW r \in Replicas, FeedAccepted(r)
      PROVE  ws'[h].status = ws[h].status
  BY <1>4 DEF FeedAccepted, Typed, TypeOK, Workstream
<1>5. ASSUME NEW k \in Rules, DeleteRule(k)
      PROVE  ws'[h].status = ws[h].status
  BY <1>5 DEF DeleteRule, Typed, TypeOK, Workstream
<1>8. ASSUME NEW S \in SUBSET Rules, DeleteTarget(S)
      PROVE  ws'[h].status = ws[h].status
  BY <1>8, TargetGone
<1>6. ASSUME NEW r \in Replicas,
             \/ \E due \in SUBSET Handles : BeginTick(r, due)
             \/ Crash(r) \/ PollRead(r) \/ DeliveryRead(r)
             \/ CancelDisabled(r) \/ ListGroups(r) \/ EndTick(r) \/ SkipGroup(r)
             \/ RefuseChangedProject(r) \/ WaitForCapacity(r) \/ Adopt(r) \/ Assign(r)
             \/ CreateUnknown(r) \/ HoldBack(r) \/ Throttle(r) \/ Send(r)
             \/ FeedRefused(r) \/ FeedUnknown(r)
      PROVE  ws' = ws
  BY <1>6 DEF BeginTick, Crash, PollRead, DeliveryRead, Inspect, CancelDisabled,
              ListGroups, EndTick, SkipGroup, RefuseChangedProject, WaitForCapacity,
              Adopt, Assign, CreateUnknown, HoldBack, Throttle, Send, FeedRefused,
              FeedUnknown, database
<1>7. ASSUME \/ Collectors \/ Turnstone \/ \E e \in Events : Wake(e)
             \/ \E k \in Rules,
                   new \in [state : RuleStates, by : Groupings, project : Projects] :
                     EditRule(k, new)
             \/ UNCHANGED vars
      PROVE  ws' = ws
  BY <1>7 DEF Collectors, Enqueue, Turnstone, ServeLate, Lose, CloseChat, UnloadChat,
              ReloadChat, Wake, EditRule, vars, database
<1> QED
  BY <1>1, <1>2, <1>3, <1>4, <1>5, <1>6, <1>7, <1>8 DEF Next, Scheduler, Operators

\* A workstream recorded as closed is never reopened, so its slot is never
\* counted twice and its group gets a chat of its own (agent_queue.py:147-155).
THEOREM ClosedForGood == Spec => ClosedIsFinal
<1>1. Init => Typed /\ Backed
  BY TypedInit, BackedInit
<1>2. Typed /\ Backed /\ [Next]_vars => Typed' /\ Backed'
  BY TypedStep, BackedStep
<1>3. Typed /\ Backed /\ [Next]_vars =>
        [\A h \in Handles : ws[h].status = "closed" => ws'[h].status = "closed"]_vars
  BY ClosedStep
<1> QED
  BY <1>1, <1>2, <1>3, PTL DEF Spec, ClosedIsFinal

-----------------------------------------------------------------------------
(***************************************************************************)
(* What AgentQueue delivers: the seed before anything else, no event lost, *)
(* one chat for a group and for every retry, and the promise of            *)
(* AgentOutbox.  Typed and Backed carry all of them.                       *)
(***************************************************************************)
-----------------------------------------------------------------------------
(* What has to hold of every state.                                        *)

\* A chat is briefed when its workstream is marked as seeded, and every send
\* in flight carries the seed or follows it.
Instructed ==
  /\ SeedFirst
  /\ \A h \in Handles : ws[h].seeded => chat[h].briefed
  /\ \A q \in net : q.kind = "send" => q.seed \/ chat[q.handle].briefed

\* Every inspection has an answer, and a dated closure is not taken for an
\* undated one.
Answered ==
  \A r \in Replicas :
    /\ DatedClosures => tick[r].answer # "undated"
    /\ tick[r].pc = "inspected" => tick[r].answer # "none"

\* Where every event ever enqueued is: NothingLost, but for closures without
\* a date, which resolve whatever waits for the chat.
Settling(e) ==
  /\ e \in pending <=> disposition[e] = "queued" /\ event[e].target
  /\ disposition[e] \in {"opened", "fed"} => Delivered(e)
  /\ disposition[e] = "resolved" =>
       /\ event[e].assigned # None
       /\ chat[event[e].assigned].state = "closed"
       /\ DatedClosures => e \in chat[event[e].assigned].before
Kept == Answered /\ \A e \in Events : Settling(e)

\* The rows in hand are events that were created, and unless their chat was
\* found closed they still wait, or have gone with their rule or their target.
FoundClosed(r) == tick[r].pc = "decide" /\ tick[r].answer \in {"closed", "undated"}
RowsWait ==
  \A r \in Replicas :
    /\ tick[r].rows \subseteq Created
    /\ ~FoundClosed(r) =>
         \A e \in tick[r].rows : disposition[e] \in {"queued", "deleted"}

-----------------------------------------------------------------------------
(* One chat for a group and for every retry.  It takes rules that keep     *)
(* their grouping and their target, and projects that Turnstone attaches:  *)
(* without either, the code opens a second chat (README, section 10).      *)

\* No rule is regrouped, and none is deleted nor its target.
Gone == {"untargeted", "deleted"}
RulesKept ==
  \A k \in Rules :
    /\ rule'[k].by = rule[k].by
    /\ rule'[k].state \in Gone => rule[k].state \in Gone

\* The owner of every chat is a member of its project.
Members == AllProjects \ {NoProject} \subseteq KeptProjects

\* The workstream is where a delivery of the event would look.
Fits(h, e) ==
  /\ ws[h].rule = event[e].rule
  /\ ws[h].project = event[e].project
  /\ rule[event[e].rule].by = "rule" \/ ws[h].source = event[e].host

\* Two unclosed workstreams of a rule and a project are for two hosts.
Apart ==
  \A g, h \in Active :
    g # h /\ ws[g].rule = ws[h].rule /\ ws[g].project = ws[h].project =>
      /\ rule[ws[g].rule].by = "host"
      /\ ws[g].source # ws[h].source

\* An event is where it came from and where it was put.
Placed(e) ==
  /\ e \notin Created => event[e].assigned = None
  /\ e \in Created => /\ event[e].rule \in Rules
                      /\ event[e].by = "host" \/ rule[event[e].rule].by = "rule"
  /\ event[e].assigned # None => event[e].assigned \in Opened
  /\ e \in pending /\ event[e].assigned \in Active => Fits(event[e].assigned, e)

\* The rows of a group, before they are assigned to the workstream found for
\* it, wait for that one or for none that is unclosed.
Gathered(r) ==
  tick[r].pc = "assign" =>
    \A e \in tick[r].rows \cap pending :
      /\ Fits(tick[r].cur, e)
      /\ event[e].assigned \in Active => event[e].assigned = tick[r].cur

Grouped ==
  /\ \A k \in Rules : rule[k].state \notin Gone
  /\ \A h \in Opened : ws[h].rule \in Rules
  /\ \A h \in Handles : chat[h].state # "none" => chat[h].project = ws[h].project
  /\ Apart
  /\ \A e \in Events : Placed(e)
  /\ \A r \in Replicas : Gathered(r)

-----------------------------------------------------------------------------
(* The seed comes first.                                                   *)

\* No chat receives anything and nothing else is sent to one.
Silent ==
  /\ \A h \in Handles : ws'[h].seeded => ws[h].seeded
  /\ \A h \in Handles : chat'[h].got = chat[h].got /\ chat'[h].briefed = chat[h].briefed
  /\ \A q \in net' : q.kind = "send" => q \in net

LEMMA SilentInstructed ==
  ASSUME Typed, Instructed, Typed', Silent
  PROVE  Instructed'
<1>1. \A q \in net' : q.handle \in Handles
  BY DEF Typed, TypeOK, Request
<1> QED
  BY <1>1 DEF Instructed, SeedFirst, Silent

\* A chat takes a message that carries the seed or that follows it.
LEMMA TakenInstructed ==
  ASSUME Typed, Instructed, Typed', NEW q \in net, q.kind = "send",
         chat' = MessageTaken(q), net' \subseteq net,
         \A h \in Handles : ws'[h].seeded => ws[h].seeded \/ h = q.handle
  PROVE  Instructed'
<1>1. q.handle \in Handles /\ q.seed \in BOOLEAN /\ chat \in [Handles -> Chat]
  BY DEF Typed, TypeOK, Request
<1>2. /\ chat'[q.handle].briefed = (chat[q.handle].briefed \/ q.seed)
      /\ \A h \in Handles : h # q.handle => chat'[h] = chat[h]
  BY <1>1 DEF MessageTaken, Chat
<1>3. chat'[q.handle].briefed
  BY <1>2 DEF Instructed
<1>4. \A p \in net' : p.handle \in Handles
  BY DEF Typed, TypeOK, Request
<1> QED
  BY <1>1, <1>2, <1>3, <1>4 DEF Instructed, SeedFirst

LEMMA InstructedStep ==
  ASSUME Typed, Instructed, [Next]_vars
  PROVE  Instructed'
<1>0. Typed'
  BY TypedStep
<1>1. ASSUME NEW r \in Replicas, FeedAccepted(r)
      PROVE  Instructed'
  <2>1. tick[r].cur \in Handles
    BY <1>1 DEF FeedAccepted, Typed, CursorSet, InHand
  <2>2. PICK q \in net : q = Sent(r)
    BY <1>1 DEF FeedAccepted
  <2>3. q.kind = "send" /\ q.handle = tick[r].cur
    BY <2>2 DEF Sent, SendRequest
  <2>4. \A h \in Handles : ws'[h].seeded => ws[h].seeded \/ h = q.handle
    BY <1>1, <2>1, <2>3 DEF FeedAccepted, Typed, TypeOK, Workstream
  <2> QED
    BY <1>0, <1>1, <2>2, <2>3, <2>4, TakenInstructed DEF FeedAccepted
<1>2. ASSUME NEW r \in Replicas, Send(r)
      PROVE  Instructed'
  <2>1. tick[r].cur \in Handles
    BY <1>2 DEF Send, MaySend, Typed, CursorSet, InHand
  <2>2. PICK batch : net' = net \cup {SendRequest(tick[r].cur, batch)}
    BY <1>2 DEF Send
  <2>3. ws' = ws /\ chat' = chat
    BY <1>2 DEF Send, database
  <2> DEFINE p == SendRequest(tick[r].cur, batch)
  <2>4. p.handle = tick[r].cur /\ p.seed = ~ws[tick[r].cur].seeded
    BY DEF SendRequest
  <2>5. p.seed \/ chat[p.handle].briefed
    BY <2>1, <2>4 DEF Instructed, Typed, TypeOK, Workstream
  <2>6. net' = net \cup {p}
    BY <2>2
  <2> HIDE DEF p
  <2> QED
    BY <2>3, <2>5, <2>6 DEF Instructed, SeedFirst
<1>3. ASSUME NEW q \in net, ServeLate(q)
      PROVE  Instructed'
  <2>1. q.handle \in Handles /\ chat \in [Handles -> Chat]
    BY DEF Typed, TypeOK, Request
  <2>2. ws' = ws /\ net' \subseteq net
    BY <1>3 DEF ServeLate, database
  <2>3. CASE q.kind = "send" /\ chat[q.handle].state = "live"
    BY <1>0, <1>3, <2>2, <2>3, TakenInstructed DEF ServeLate
  <2>4. CASE ~(q.kind = "send" /\ chat[q.handle].state = "live")
    <3>1. chat' = ChatCreated(q.handle) \/ chat' = chat
      BY <1>3, <2>4 DEF ServeLate
    <3>2. \A h \in Handles : chat'[h].got = chat[h].got /\ chat'[h].briefed = chat[h].briefed
      BY <2>1, <3>1 DEF ChatCreated, Chat
    <3> QED
      BY <1>0, <2>2, <3>2, SilentInstructed DEF Silent
  <2> QED
    BY <2>3, <2>4
<1>4. ASSUME NEW r \in Replicas, RecordInspection(r) \/ Reserve(r)
      PROVE  Silent
  <2>1. \A h \in Handles : ws'[h].seeded => ws[h].seeded
    <3>1. CASE RecordInspection(r)
      BY <3>1 DEF RecordInspection, Typed, TypeOK, Workstream
    <3>2. CASE Reserve(r)
      BY <3>2 DEF Reserve, Typed, TypeOK, Workstream
    <3> QED
      BY <1>4, <3>1, <3>2
  <2> QED
    BY <1>4, <2>1 DEF RecordInspection, Reserve, Silent
<1>5. ASSUME NEW r \in Replicas, Attempt(r) \/ CreateAccepted(r) \/ CreateRefused(r)
      PROVE  Silent
  <2>1. \A h \in Handles : ws'[h].seeded = ws[h].seeded
    <3>1. CASE Attempt(r)
      BY <3>1 DEF Attempt, Typed, TypeOK, Workstream
    <3>2. CASE CreateAccepted(r)
      BY <3>2 DEF CreateAccepted, Typed, TypeOK, Workstream
    <3>3. CASE CreateRefused(r)
      BY <3>3 DEF CreateRefused, Typed, TypeOK, Workstream
    <3> QED
      BY <1>5, <3>1, <3>2, <3>3
  <2>2. \A h \in Handles : chat'[h].got = chat[h].got /\ chat'[h].briefed = chat[h].briefed
    BY <1>5 DEF Attempt, CreateAccepted, CreateRefused, ChatCreated, Typed, TypeOK, Chat
  <2>3. \A q \in net' : q.kind = "send" => q \in net
    BY <1>5 DEF Attempt, CreateAccepted, CreateRefused, CreateRequest
  <2> QED
    BY <2>1, <2>2, <2>3 DEF Silent
<1>6. ASSUME NEW k \in Rules, DeleteRule(k)
      PROVE  Silent
  <2>1. chat' = chat /\ net' = net
    BY <1>6 DEF DeleteRule
  <2>2. ws' = [h \in Handles |-> [ws[h] EXCEPT !.rule = IF @ = k THEN None ELSE @]]
    BY <1>6 DEF DeleteRule
  <2>3. \A h \in Handles : ws'[h].seeded = ws[h].seeded
    BY <2>2 DEF Typed, TypeOK, Workstream
  <2> QED
    BY <2>1, <2>3 DEF Silent
<1>11. ASSUME NEW S \in SUBSET Rules, DeleteTarget(S)
       PROVE  Silent
  <2>1. \A h \in Handles : ws'[h].seeded = ws[h].seeded
    BY <1>11, TargetGone
  <2> QED
    BY <1>11, <2>1 DEF DeleteTarget, Silent
<1>12. ASSUME NEW q \in net, Lose(q)
       PROVE  Silent
  BY <1>12 DEF Lose, database, Silent
<1>7. ASSUME NEW h \in Handles, CloseChat(h) \/ UnloadChat(h) \/ ReloadChat(h)
      PROVE  Silent
  <2>1. \A g \in Handles : chat'[g].got = chat[g].got /\ chat'[g].briefed = chat[g].briefed
    BY <1>7 DEF CloseChat, UnloadChat, ReloadChat, Typed, TypeOK, Chat
  <2> QED
    BY <1>7, <2>1 DEF CloseChat, UnloadChat, ReloadChat, database, Silent
<1>8. ASSUME NEW r \in Replicas,
             \/ \E due \in SUBSET Handles : BeginTick(r, due)
             \/ Crash(r) \/ PollRead(r) \/ DeliveryRead(r)
             \/ CancelDisabled(r) \/ ListGroups(r) \/ EndTick(r) \/ SkipGroup(r)
             \/ RefuseChangedProject(r) \/ WaitForCapacity(r) \/ Adopt(r) \/ Assign(r)
             \/ CreateUnknown(r) \/ HoldBack(r) \/ Throttle(r)
             \/ FeedRefused(r) \/ FeedUnknown(r)
      PROVE  Silent
  BY <1>8 DEF BeginTick, Crash, PollRead, DeliveryRead, Inspect, CancelDisabled,
              ListGroups, EndTick, SkipGroup, RefuseChangedProject, WaitForCapacity,
              Adopt, Assign, CreateUnknown, HoldBack, Throttle, FeedRefused,
              FeedUnknown, database, Silent
<1>9. ASSUME \/ Collectors \/ \E e \in Events : Wake(e)
             \/ \E k \in Rules,
                   new \in [state : RuleStates, by : Groupings, project : Projects] :
                     EditRule(k, new)
             \/ UNCHANGED vars
      PROVE  Silent
  BY <1>9 DEF Collectors, Enqueue, Wake, EditRule, vars, database, Silent
<1>10. Silent => Instructed'
  BY <1>0, SilentInstructed
<1> QED
  BY <1>1, <1>2, <1>3, <1>4, <1>5, <1>6, <1>7, <1>8, <1>9, <1>10, <1>11, <1>12
     DEF Next, Scheduler, Operators, Turnstone

\* A chat that has received an event has received the instructions of its
\* rule: a lost answer or a send that lands late never puts events before
\* them (agent_queue.py:306-307, 316).
THEOREM SeedIsFirst == Spec => []SeedFirst
<1>1. Init => Typed /\ Instructed
  <2>1. Init => Instructed
    BY DEF Init, Instructed, SeedFirst
  <2> QED
    BY <2>1, TypedInit
<1>2. Typed /\ Instructed /\ [Next]_vars => Typed' /\ Instructed'
  BY TypedStep, InstructedStep
<1>3. Instructed => SeedFirst
  BY DEF Instructed
<1> QED
  BY <1>1, <1>2, <1>3, PTL DEF Spec

-----------------------------------------------------------------------------
(* No event is lost.                                                       *)

\* Chats forget nothing, and a closed one stays as it was closed.
ChatsKeep ==
  \A h \in Handles :
    /\ chat[h].got \subseteq chat'[h].got
    /\ chat[h].state = "closed" =>
         chat'[h].state = "closed" /\ chat'[h].before = chat[h].before

LEMMA ChatsStep ==
  ASSUME Typed, [Next]_vars
  PROVE  ChatsKeep
<1>0. chat \in [Handles -> Chat]
  BY DEF Typed, TypeOK
<1>1. ASSUME NEW r \in Replicas, CreateAccepted(r)
      PROVE  ChatsKeep
  BY <1>0, <1>1 DEF CreateAccepted, ChatCreated, ChatsKeep, Chat
<1>2. ASSUME NEW q \in net, chat' = MessageTaken(q), chat[q.handle].state = "live"
      PROVE  ChatsKeep
  BY <1>0, <1>2 DEF MessageTaken, ChatsKeep, Chat
<1>3. ASSUME NEW r \in Replicas, FeedAccepted(r)
      PROVE  ChatsKeep
  <2>1. Sent(r).handle = tick[r].cur
    BY DEF Sent, SendRequest
  <2> QED
    BY <1>2, <1>3, <2>1 DEF FeedAccepted
<1>4. ASSUME NEW q \in net, ServeLate(q)
      PROVE  ChatsKeep
  <2>1. CASE q.kind = "create" /\ chat[q.handle].state = "none"
    BY <1>0, <1>4, <2>1 DEF ServeLate, ChatCreated, ChatsKeep, Chat
  <2>2. CASE q.kind = "send" /\ chat[q.handle].state = "live"
    BY <1>2, <1>4, <2>2 DEF ServeLate
  <2>3. CASE /\ ~(q.kind = "create" /\ chat[q.handle].state = "none")
             /\ ~(q.kind = "send" /\ chat[q.handle].state = "live")
    BY <1>4, <2>3 DEF ServeLate, ChatsKeep
  <2> QED
    BY <2>1, <2>2, <2>3
<1>5. ASSUME NEW h \in Handles, CloseChat(h) \/ UnloadChat(h) \/ ReloadChat(h)
      PROVE  ChatsKeep
  BY <1>0, <1>5 DEF CloseChat, UnloadChat, ReloadChat, ChatsKeep, Chat
<1>6. ASSUME NEW r \in Replicas,
             \/ \E due \in SUBSET Handles : BeginTick(r, due)
             \/ Crash(r) \/ PollRead(r) \/ DeliveryRead(r) \/ RecordInspection(r)
             \/ CancelDisabled(r) \/ ListGroups(r) \/ EndTick(r) \/ SkipGroup(r)
             \/ RefuseChangedProject(r) \/ WaitForCapacity(r) \/ Reserve(r) \/ Adopt(r)
             \/ Assign(r) \/ Attempt(r) \/ CreateRefused(r) \/ CreateUnknown(r)
             \/ HoldBack(r) \/ Throttle(r) \/ Send(r) \/ FeedRefused(r) \/ FeedUnknown(r)
      PROVE  chat' = chat
  BY <1>6 DEF BeginTick, Crash, PollRead, DeliveryRead, Inspect, RecordInspection,
              CancelDisabled, ListGroups, EndTick, SkipGroup, RefuseChangedProject,
              WaitForCapacity, Reserve, Adopt, Assign, Attempt, CreateRefused,
              CreateUnknown, HoldBack, Throttle, Send, FeedRefused, FeedUnknown
<1>7. ASSUME \/ Collectors \/ Operators \/ \E e \in Events : Wake(e)
             \/ UNCHANGED vars
      PROVE  chat' = chat
  BY <1>7 DEF Collectors, Enqueue, Operators, EditRule, DeleteRule, DeleteTarget, Wake, vars
<1>8. chat' = chat => ChatsKeep
  BY DEF ChatsKeep
<1>9. ASSUME NEW q \in net, Lose(q)
      PROVE  chat' = chat
  BY <1>9 DEF Lose
<1> QED
  BY <1>1, <1>3, <1>4, <1>5, <1>6, <1>7, <1>8, <1>9 DEF Next, Scheduler, Turnstone

\* What an event settled to is not undone.
LEMMA SettlingStays ==
  ASSUME Typed, Typed', ChatsKeep, NEW e \in Events, Settling(e),
         disposition'[e] = disposition[e], e \in pending' <=> e \in pending,
         event'[e].target = event[e].target,
         disposition[e] = "resolved" => event'[e].assigned = event[e].assigned
  PROVE  Settling(e)'
<1>1. Delivered(e) => Delivered(e)'
  BY DEF Delivered, ChatsKeep
<1>2. disposition[e] = "resolved" => event[e].assigned \in Handles
  BY DEF Settling, Typed, TypeOK, Event
<1> QED
  BY <1>1, <1>2 DEF Settling, ChatsKeep

\* Deferring and waking leave the workstream an event is assigned to.
LEMMA DeferredAssigned ==
  ASSUME TypeOK, NEW rows, NEW wait, NEW e \in Events
  PROVE  /\ Deferred(rows, wait)[e].assigned = event[e].assigned
         /\ Deferred(rows, wait)[e].rule = event[e].rule
         /\ Deferred(rows, wait)[e].target = event[e].target
         /\ Deferred(rows, wait)[e].host = event[e].host
         /\ Deferred(rows, wait)[e].by = event[e].by
         /\ Deferred(rows, wait)[e].project = event[e].project
<1>1. event[e] \in Event
  BY DEF TypeOK
<1> QED
  BY <1>1 DEF Deferred, Event

\* Only an operator takes the target from an event.
LEMMA TargetStays ==
  ASSUME Typed,
         \/ \E r \in Replicas : \/ \E due \in SUBSET Handles : BeginTick(r, due)
                               \/ Scheduler(r) \/ Crash(r)
         \/ \E e \in Events : Wake(e)
  PROVE  \A e \in Events : event'[e].target = event[e].target
<1>0. \A e \in Events : event[e] \in Event
  BY DEF Typed, TypeOK
<1>1. ASSUME NEW r \in Replicas, (\E due \in SUBSET Handles : BeginTick(r, due)) \/ Crash(r)
      PROVE  \A e \in Events : event'[e].target = event[e].target
  BY <1>0, <1>1 DEF BeginTick, Crash, Event
<1>2. ASSUME NEW r \in Replicas, Assign(r)
      PROVE  \A e \in Events : event'[e].target = event[e].target
  BY <1>0, <1>2 DEF Assign, Event
<1>3. ASSUME NEW r \in Replicas,
             \/ RefuseChangedProject(r) \/ WaitForCapacity(r) \/ CreateRefused(r)
             \/ CreateUnknown(r) \/ HoldBack(r) \/ Throttle(r) \/ FeedRefused(r)
             \/ FeedUnknown(r)
      PROVE  \A e \in Events : event'[e].target = event[e].target
  <2>1. \E rows, wait : event' = Deferred(rows, wait)
    BY <1>3 DEF RefuseChangedProject, WaitForCapacity, CreateRefused, CreateUnknown,
                HoldBack, Throttle, FeedRefused, FeedUnknown, GiveUp
  <2> QED
    BY <2>1, DeferredAssigned DEF Typed
<1>4. ASSUME NEW r \in Replicas,
             \/ PollRead(r) \/ RecordInspection(r) \/ CancelDisabled(r) \/ ListGroups(r)
             \/ EndTick(r) \/ SkipGroup(r) \/ Reserve(r) \/ Adopt(r) \/ Attempt(r)
             \/ CreateAccepted(r) \/ DeliveryRead(r) \/ Send(r) \/ FeedAccepted(r)
      PROVE  event' = event
  BY <1>4 DEF PollRead, RecordInspection, CancelDisabled, ListGroups, EndTick, SkipGroup,
              Reserve, Adopt, Attempt, CreateAccepted, DeliveryRead, Inspect, Send,
              FeedAccepted, database
<1>5. ASSUME NEW e \in Events, Wake(e)
      PROVE  \A f \in Events : event'[f].target = event[f].target
  BY <1>0, <1>5 DEF Wake, Typed, TypeOK, Event
<1> QED
  BY <1>1, <1>2, <1>3, <1>4, <1>5 DEF Scheduler

\* The steps that leave the dispositions alone.
LEMMA WaitingStays ==
  ASSUME Typed, Kept, [Next]_vars, pending' = pending, disposition' = disposition,
         \A e \in Events : event'[e].target = event[e].target,
         \A e \in Events : event'[e].assigned = event[e].assigned \/ e \in pending
  PROVE  \A e \in Events : Settling(e)'
<1>1. ASSUME NEW e \in Events
      PROVE  Settling(e)'
  <2>1. Settling(e)
    BY DEF Kept
  <2>2. disposition[e] = "resolved" => e \notin pending
    BY <2>1 DEF Settling
  <2> QED
    BY <2>1, <2>2, TypedStep, ChatsStep, SettlingStays
<1> QED
  BY <1>1

LEMMA AnsweredStep ==
  ASSUME Typed, Answered, [Next]_vars
  PROVE  Answered'
<1>1. ASSUME NEW r \in Replicas, NEW t, tick' = [tick EXCEPT ![r] = t],
             DatedClosures => t.answer \in {"none", "unknown", "live", "unloaded", "closed"},
             t.pc = "inspected" => t.answer # "none"
      PROVE  Answered'
  BY <1>1 DEF Answered, Typed, TypeOK
<1>2. tick \in [Replicas -> Tick]
  BY TickOfReplica
<1>3. ASSUME NEW r \in Replicas
      PROVE  DatedClosures =>
               tick[r].answer \in {"none", "unknown", "live", "unloaded", "closed"}
  BY <1>2 DEF Answered, Tick, Answers
<1>4. ASSUME NEW r \in Replicas, PollRead(r) \/ DeliveryRead(r)
      PROVE  Answered'
  <2>1. PICK h \in Handles, answer \in Answers : Inspect(r, h, answer)
    BY <1>4 DEF PollRead, DeliveryRead, Typed, TypeOK, Tick, CursorSet, InHand
  <2> DEFINE t == [tick[r] EXCEPT !.pc = "inspected", !.todo = @ \ {h},
                                  !.cur = h, !.answer = answer]
  <2>2. tick' = [tick EXCEPT ![r] = t]
    BY <1>2, <2>1 DEF Inspect, Tick
  <2>3. t.answer = answer
    BY <1>2 DEF Tick
  <2>4. /\ DatedClosures => answer \in {"none", "unknown", "live", "unloaded", "closed"}
        /\ answer # "none"
    BY <2>1 DEF Inspect, AnswersFor, Typed, TypeOK, Chat
  <2> HIDE DEF t
  <2> QED
    BY <1>1, <2>2, <2>3, <2>4
<1>5. ASSUME NEW r \in Replicas,
             \/ CreateRefused(r) \/ CreateUnknown(r) \/ HoldBack(r) \/ Throttle(r)
             \/ FeedAccepted(r) \/ FeedRefused(r) \/ FeedUnknown(r)
      PROVE  Answered'
  <2>1. tick' = [tick EXCEPT ![r] = BackToLoop(tick[r])]
    BY <1>5 DEF CreateRefused, CreateUnknown, HoldBack, Throttle, FeedAccepted,
                FeedRefused, FeedUnknown, GiveUp
  <2>2. BackToLoop(tick[r]).answer = "none" /\ BackToLoop(tick[r]).pc = "next"
    BY <1>2 DEF BackToLoop, Tick
  <2> QED
    BY <1>1, <2>1, <2>2
<1>6. ASSUME NEW r \in Replicas, EndTick(r) \/ Crash(r)
      PROVE  Answered'
  BY <1>1, <1>6 DEF EndTick, Crash, IdleTick
<1>7. ASSUME NEW r \in Replicas, RecordInspection(r)
      PROVE  Answered'
  <2> DEFINE t == IF tick[r].rows = {}
                    THEN [tick[r] EXCEPT !.pc = "poll", !.cur = None, !.answer = "none"]
                    ELSE [tick[r] EXCEPT !.pc = "decide"]
  <2>1. tick' = [tick EXCEPT ![r] = t]
    BY <1>7 DEF RecordInspection
  <2>2. t.answer \in {"none", tick[r].answer} /\ t.pc # "inspected"
    BY <1>2 DEF Tick
  <2> HIDE DEF t
  <2> QED
    BY <1>1, <1>3, <2>1, <2>2
<1>8. ASSUME NEW r \in Replicas,
             \/ \E due \in SUBSET Handles : BeginTick(r, due)
             \/ CancelDisabled(r) \/ ListGroups(r) \/ SkipGroup(r)
             \/ RefuseChangedProject(r) \/ WaitForCapacity(r) \/ Reserve(r) \/ Adopt(r)
             \/ Assign(r) \/ Attempt(r) \/ CreateAccepted(r) \/ Send(r)
      PROVE  Answered'
  <2>1. \A s \in Replicas : tick'[s].answer = tick[s].answer
    BY <1>2, <1>8 DEF BeginTick, CancelDisabled, ListGroups, SkipGroup,
                      RefuseChangedProject, WaitForCapacity, Reserve, Adopt, TakeUp,
                      Assign, Attempt, CreateAccepted, Send, Tick
  <2>2. \A s \in Replicas : tick'[s].pc = "inspected" => tick[s].pc = "inspected"
    BY <1>2, <1>8 DEF BeginTick, CancelDisabled, ListGroups, SkipGroup,
                      RefuseChangedProject, WaitForCapacity, Reserve, Adopt, TakeUp,
                      Assign, Attempt, CreateAccepted, Send, Tick
  <2> QED
    BY <2>1, <2>2 DEF Answered
<1>9. ASSUME Collectors \/ Turnstone \/ Operators \/ (\E e \in Events : Wake(e))
             \/ UNCHANGED vars
      PROVE  tick' = tick
  BY <1>9 DEF Collectors, Enqueue, Turnstone, ServeLate, Lose, CloseChat, UnloadChat,
              ReloadChat, Operators, EditRule, DeleteRule, DeleteTarget, Wake, vars
<1> QED
  BY <1>4, <1>5, <1>6, <1>7, <1>8, <1>9 DEF Next, Scheduler, Answered

\* The steps that settle events.
LEMMA EnqueueKept ==
  ASSUME Typed, Kept, [Next]_vars, NEW k, NEW host, NEW path, Enqueue(k, host, path)
  PROVE  \A e \in Events : Settling(e)'
<1>1. PICK n : n = LeastOf(Events \ Created)
  OBVIOUS
<1>2. n \in Events /\ n \notin Created
  BY <1>1, LeastEvent DEF Enqueue
<1>3. /\ pending' = pending \cup {n}
      /\ disposition' = [disposition EXCEPT ![n] = "queued"]
      /\ \A e \in Events : e # n => event'[e] = event[e]
      /\ event'[n].target
  BY <1>1, <1>2 DEF Enqueue, Typed, TypeOK
<1>4. Settling(n)'
  BY <1>2, <1>3 DEF Settling, Typed, TypeOK
<1>5. ASSUME NEW e \in Events, e # n
      PROVE  Settling(e)'
  <2>1. disposition'[e] = disposition[e] /\ (e \in pending' <=> e \in pending)
    BY <1>3, <1>5 DEF Typed, TypeOK
  <2> QED
    BY <1>3, <1>5, <2>1, TypedStep, ChatsStep, SettlingStays DEF Kept
<1> QED
  BY <1>4, <1>5

LEMMA RecordKept ==
  ASSUME Typed, Backed, Kept, [Next]_vars, NEW r \in Replicas, RecordInspection(r)
  PROVE  \A e \in Events : Settling(e)'
<1>1. PICK h \in Handles : h = tick[r].cur
  BY DEF RecordInspection, Typed, CursorSet, InHand
<1>2. PICK answer : answer = tick[r].answer
  OBVIOUS
<1>3. PICK resolved : resolved = ResolvedBy(h, answer)
  OBVIOUS
<1>4. /\ pending' = pending \ resolved
      /\ disposition' = [e \in Events |->
           IF e \in resolved THEN "resolved" ELSE disposition[e]]
      /\ event' = event /\ chat' = chat
  BY <1>1, <1>2, <1>3 DEF RecordInspection
<1>5. answer \in {"closed", "undated"} => chat[h].state = "closed"
  BY <1>1, <1>2 DEF RecordInspection, Backed, Remembered
<1>6. DatedClosures => answer # "undated"
  BY <1>2 DEF Kept, Answered
<1>7. h # None
  BY NamesAssumption DEF Handles
<1>8. ASSUME NEW e \in Events
      PROVE  Settling(e)'
  <2>1. CASE e \in resolved
    <3>1. /\ e \in pending /\ event[e].assigned = h
          /\ \/ answer = "undated"
             \/ answer = "closed" /\ e \in chat[h].before
      BY <1>3, <2>1 DEF ResolvedBy
    <3>2. disposition'[e] = "resolved" /\ e \notin pending'
      BY <1>4, <2>1
    <3> QED
      BY <1>4, <1>5, <1>6, <1>7, <3>1, <3>2 DEF Settling
  <2>2. CASE e \notin resolved
    <3>1. disposition'[e] = disposition[e] /\ (e \in pending' <=> e \in pending)
      BY <1>4, <2>2
    <3> QED
      BY <1>4, <3>1, TypedStep, ChatsStep, SettlingStays DEF Kept
  <2> QED
    BY <2>1, <2>2
<1> QED
  BY <1>8

LEMMA FeedKept ==
  ASSUME Typed, Kept, [Next]_vars, NEW r \in Replicas, FeedAccepted(r)
  PROVE  \A e \in Events : Settling(e)'
<1>1. PICK h \in Handles : h = tick[r].cur
  BY DEF FeedAccepted, Typed, CursorSet, InHand
<1>2. PICK rows : rows = tick[r].rows
  OBVIOUS
<1>3. /\ pending' = pending \ rows
      /\ event' = event
      /\ \A e \in Events : disposition'[e] =
           IF e \in rows /\ disposition[e] # "deleted"
             THEN IF ws[h].seeded THEN "fed" ELSE "opened" ELSE disposition[e]
  BY <1>1, <1>2 DEF FeedAccepted
<1>4. rows \subseteq chat'[h].got
  <2>1. Sent(r).handle = h /\ Sent(r).events = rows
    BY <1>1, <1>2 DEF Sent, SendRequest
  <2> QED
    BY <1>1, <2>1 DEF FeedAccepted, MessageTaken, Typed, TypeOK, Chat
<1>5. ASSUME NEW e \in Events
      PROVE  Settling(e)'
  <2>0. disposition[e] = "queued" \/ e \notin pending
    BY DEF Kept, Settling
  <2>1. CASE e \in rows /\ disposition[e] # "deleted"
    <3>1. disposition'[e] \in {"fed", "opened"} /\ e \notin pending'
      BY <1>3, <2>1
    <3>2. Delivered(e)'
      BY <1>4, <2>1 DEF Delivered
    <3> QED
      BY <3>1, <3>2 DEF Settling
  <2>2. CASE ~(e \in rows /\ disposition[e] # "deleted")
    <3>1. disposition'[e] = disposition[e]
      BY <1>3, <2>2
    <3>2. e \in pending' <=> e \in pending
      BY <1>3, <2>0, <2>2
    <3> QED
      BY <1>3, <3>1, <3>2, TypedStep, ChatsStep, SettlingStays DEF Kept
  <2> QED
    BY <2>1, <2>2
<1> QED
  BY <1>5

\* The rows of disabled rules are cancelled, those of a deleted rule go.
LEMMA DropKept ==
  ASSUME Typed, Kept, [Next]_vars,
         (\E r \in Replicas : CancelDisabled(r)) \/ (\E k \in Rules : DeleteRule(k))
  PROVE  \A e \in Events : Settling(e)'
<1>1. PICK gone, how :
        /\ how \in {"cancelled", "deleted"}
        /\ pending' = pending \ gone
        /\ disposition' = [e \in Events |-> IF e \in gone THEN how ELSE disposition[e]]
        /\ event' = event
  <2>1. CASE \E r \in Replicas : CancelDisabled(r)
    BY <2>1 DEF CancelDisabled
  <2>2. CASE \E k \in Rules : DeleteRule(k)
    BY <2>2 DEF DeleteRule
  <2> QED
    BY <2>1, <2>2
<1>2. ASSUME NEW e \in Events
      PROVE  Settling(e)'
  <2>1. CASE e \in gone
    BY <1>1, <2>1 DEF Settling
  <2>2. CASE e \notin gone
    <3>1. disposition'[e] = disposition[e] /\ (e \in pending' <=> e \in pending)
      BY <1>1, <2>2
    <3> QED
      BY <1>1, <3>1, TypedStep, ChatsStep, SettlingStays DEF Kept
  <2> QED
    BY <2>1, <2>2
<1> QED
  BY <1>2

\* Those of a deleted target go, and leave their events as they were.
LEMMA StrandedKept ==
  ASSUME Typed, Kept, NEW S \in SUBSET Rules, DeleteTarget(S)
  PROVE  \A e \in Events : Settling(e)'
<1>1. ASSUME NEW e \in Events
      PROVE  Settling(e)'
  <2>1. /\ event'[e].target <=> event[e].target /\ event[e].rule \notin S
        /\ event'[e].assigned = event[e].assigned
    BY TargetGone
  <2>2. e \in pending' <=> e \in pending /\ event[e].rule \notin S
    BY DEF DeleteTarget
  <2>3. disposition' = disposition /\ chat' = chat
    BY DEF DeleteTarget
  <2> QED
    BY <2>1, <2>2, <2>3 DEF Kept, Settling, Delivered
<1> QED
  BY <1>1

LEMMA KeptStep ==
  ASSUME Typed, Backed, Kept, [Next]_vars
  PROVE  Kept'
<1>1. ASSUME NEW r \in Replicas,
             \/ RefuseChangedProject(r) \/ WaitForCapacity(r) \/ CreateRefused(r)
             \/ CreateUnknown(r) \/ HoldBack(r) \/ Throttle(r) \/ FeedRefused(r)
             \/ FeedUnknown(r)
      PROVE  \A e \in Events : Settling(e)'
  <2>1. PICK rows, wait : event' = Deferred(rows, wait)
    BY <1>1 DEF RefuseChangedProject, WaitForCapacity, CreateRefused, CreateUnknown,
                HoldBack, Throttle, FeedRefused, FeedUnknown, GiveUp
  <2>2. pending' = pending /\ disposition' = disposition
    BY <1>1 DEF RefuseChangedProject, WaitForCapacity, CreateRefused, CreateUnknown,
                HoldBack, Throttle, FeedRefused, FeedUnknown
  <2>3. \A e \in Events : /\ event'[e].assigned = event[e].assigned
                          /\ event'[e].target = event[e].target
    BY <2>1, DeferredAssigned DEF Typed
  <2> QED
    BY <2>2, <2>3, WaitingStays
<1>2. ASSUME \/ \E r \in Replicas :
                  (\E due \in SUBSET Handles : BeginTick(r, due)) \/ Crash(r) \/ Assign(r)
             \/ \E e \in Events : Wake(e)
      PROVE  \A e \in Events : Settling(e)'
  <2>1. pending' = pending /\ disposition' = disposition
    BY <1>2 DEF BeginTick, Crash, Assign, Wake
  <2>2. \A e \in Events : event'[e].assigned = event[e].assigned \/ e \in pending
    <3>1. CASE \E r \in Replicas :
                 (\E due \in SUBSET Handles : BeginTick(r, due)) \/ Crash(r)
      BY <3>1 DEF BeginTick, Crash, Typed, TypeOK, Event
    <3>2. CASE \E r \in Replicas : Assign(r)
      BY <3>2 DEF Assign
    <3>3. CASE \E e \in Events : Wake(e)
      BY <3>3 DEF Wake, Typed, TypeOK, Event
    <3> QED
      BY <1>2, <3>1, <3>2, <3>3
  <2>3. \A e \in Events : event'[e].target = event[e].target
    BY <1>2, TargetStays DEF Scheduler
  <2> QED
    BY <2>1, <2>2, <2>3, WaitingStays
<1>3. ASSUME NEW r \in Replicas,
             \/ PollRead(r) \/ DeliveryRead(r) \/ ListGroups(r) \/ EndTick(r)
             \/ SkipGroup(r) \/ Reserve(r) \/ Adopt(r) \/ Attempt(r)
             \/ CreateAccepted(r) \/ Send(r)
      PROVE  \A e \in Events : Settling(e)'
  <2>1. pending' = pending /\ disposition' = disposition /\ event' = event
    BY <1>3 DEF PollRead, DeliveryRead, Inspect, ListGroups, EndTick, SkipGroup,
                Reserve, Adopt, Attempt, CreateAccepted, Send, database
  <2> QED
    BY <2>1, WaitingStays
<1>4. ASSUME \/ Turnstone
             \/ \E k \in Rules,
                   new \in [state : RuleStates, by : Groupings, project : Projects] :
                     EditRule(k, new)
             \/ UNCHANGED vars
      PROVE  \A e \in Events : Settling(e)'
  <2>1. pending' = pending /\ disposition' = disposition /\ event' = event
    BY <1>4 DEF Turnstone, ServeLate, Lose, CloseChat, UnloadChat, ReloadChat, EditRule,
                vars, database
  <2> QED
    BY <2>1, WaitingStays
<1>5. \A e \in Events : Settling(e)'
  BY <1>1, <1>2, <1>3, <1>4, EnqueueKept, RecordKept, FeedKept, DropKept, StrandedKept
     DEF Next, Scheduler, Operators, Collectors
<1> QED
  BY <1>5, AnsweredStep DEF Kept

LEMMA KeptInit == Init => Kept
BY DEF Init, Kept, Answered, Settling, IdleTick

\* If Turnstone's closure timestamps can be parsed, every event ever enqueued
\* waits in the outbox, or reached a chat, or was resolved by the closure of
\* the chat it was assigned to, which it precedes, or was dropped with its
\* rule or its target: no crash, lost answer or concurrent closure loses one
\* (agent_queue.py:163-170, 197-204, 315-323, agent_schema.sql:33-34).
THEOREM NoneLost ==
  ASSUME DatedClosures
  PROVE  Spec => []NothingLost
<1>1. Init => Typed /\ Backed /\ Kept
  BY TypedInit, BackedInit, KeptInit
<1>2. Typed /\ Backed /\ Kept /\ [Next]_vars => Typed' /\ Backed' /\ Kept'
  BY TypedStep, BackedStep, KeptStep
<1>3. Kept => NothingLost
  BY DEF Kept, Settling, NothingLost
<1> QED
  BY <1>1, <1>2, <1>3, PTL DEF Spec

-----------------------------------------------------------------------------
(* The rows a tick has in hand.                                            *)

\* A tick that keeps its rows, or drops some, while nobody settles them.
LEMMA RowsStay ==
  ASSUME Typed, RowsWait, Typed',
         \A s \in Replicas : /\ tick'[s].rows \subseteq tick[s].rows
                             /\ \/ tick'[s].rows = {}
                                \/ FoundClosed(s) => FoundClosed(s)',
         \A e \in Created : disposition'[e] \in {disposition[e], "deleted"}
  PROVE  RowsWait'
<1>1. Created \subseteq Created'
  BY DEF Created
<1> QED
  BY <1>1 DEF RowsWait

\* A step of the tick that holds the lock: the others have no rows.
LEMMA RowsOfHolder ==
  ASSUME Typed, Backed, Typed', NEW r \in Replicas, NEW t,
         tick[r].pc # "idle", tick' = [tick EXCEPT ![r] = t],
         t.rows \subseteq Created',
         \/ t.pc = "decide" /\ t.answer \in {"closed", "undated"}
         \/ \A e \in t.rows : disposition'[e] \in {"queued", "deleted"}
  PROVE  RowsWait'
<1>1. tick'[r] = t
  BY DEF Typed, TypeOK
<1>2. ASSUME NEW s \in Replicas, s # r
      PROVE  tick'[s].rows = {}
  <2>1. tick'[s] = tick[s] /\ tick[s].pc = "idle"
    BY <1>2 DEF Backed, Exclusive, Typed, TypeOK
  <2> QED
    BY <2>1 DEF Backed, Remembered
<1> QED
  BY <1>1, <1>2 DEF RowsWait, FoundClosed

LEMMA RowsStep ==
  ASSUME Typed, Backed, Kept, RowsWait, [Next]_vars
  PROVE  RowsWait'
<1>0. Typed' /\ tick \in [Replicas -> Tick]
  BY TypedStep, TickOfReplica
<1>1. ASSUME NEW r \in Replicas,
             \/ CreateRefused(r) \/ CreateUnknown(r) \/ HoldBack(r) \/ Throttle(r)
             \/ FeedAccepted(r) \/ FeedRefused(r) \/ FeedUnknown(r)
             \/ EndTick(r) \/ Crash(r)
      PROVE  RowsWait'
  <2>1. PICK t : tick' = [tick EXCEPT ![r] = t] /\ t \in {BackToLoop(tick[r]), IdleTick}
    BY <1>1 DEF CreateRefused, CreateUnknown, HoldBack, Throttle, FeedAccepted,
                FeedRefused, FeedUnknown, GiveUp, EndTick, Crash
  <2>2. t.rows = {}
    <3>1. BackToLoop(tick[r]).rows = {} /\ IdleTick.rows = {}
      BY <1>0 DEF BackToLoop, IdleTick, Tick
    <3> QED
      BY <2>1, <3>1
  <2>3. tick[r].pc # "idle"
    BY <1>1 DEF CreateRefused, CreateUnknown, HoldBack, MaySend, Throttle, FeedAccepted,
                FeedRefused, FeedUnknown, EndTick, Crash
  <2> QED
    BY <1>0, <2>1, <2>2, <2>3, RowsOfHolder
<1>2. ASSUME NEW r \in Replicas, Reserve(r) \/ Adopt(r)
      PROVE  RowsWait'
  <2>1. PICK h : TakeUp(r, h)
    BY <1>2 DEF Reserve, Adopt
  <2> DEFINE t == [tick[r] EXCEPT !.pc = "assign", !.groups = @ \ {Head(r)},
                                  !.rows = GroupRows(r), !.cur = h]
  <2>2. tick' = [tick EXCEPT ![r] = t] /\ t.rows = GroupRows(r)
    BY <1>0, <2>1 DEF TakeUp, Tick
  <2>3. tick[r].pc = "next" /\ disposition' = disposition
    BY <1>2 DEF Reserve, Adopt, Deliverable, NextGroup, database
  <2>4. \A e \in GroupRows(r) : e \in Events /\ disposition[e] = "queued"
    BY DEF GroupRows, FirstRows, Kept, Settling, Typed, TypeOK
  <2>5. t.rows \subseteq Created'
    BY <2>2, <2>3, <2>4 DEF Created
  <2> HIDE DEF t
  <2> QED
    BY <1>0, <2>2, <2>3, <2>4, <2>5, RowsOfHolder
<1>3. ASSUME NEW r \in Replicas, RecordInspection(r)
      PROVE  RowsWait'
  <2> DEFINE t == IF tick[r].rows = {}
                    THEN [tick[r] EXCEPT !.pc = "poll", !.cur = None, !.answer = "none"]
                    ELSE [tick[r] EXCEPT !.pc = "decide"]
  <2>1. tick' = [tick EXCEPT ![r] = t] /\ tick[r].pc = "inspected"
    BY <1>3 DEF RecordInspection
  <2>2. /\ t.rows = tick[r].rows
        /\ t.rows # {} => t.pc = "decide" /\ t.answer = tick[r].answer
    BY <1>0 DEF Tick
  <2>3. Created \subseteq Created'
    BY <1>3 DEF RecordInspection, Created
  <2>4. ASSUME tick[r].answer \notin {"closed", "undated"}
        PROVE  disposition' = disposition
    <3>1. ResolvedBy(tick[r].cur, tick[r].answer) = {}
      BY <2>4 DEF ResolvedBy
    <3> QED
      BY <1>3, <3>1 DEF RecordInspection, Typed, TypeOK
  <2>5. /\ tick[r].rows \subseteq Created
        /\ \A e \in tick[r].rows : disposition[e] \in {"queued", "deleted"}
    BY <2>1 DEF RowsWait, FoundClosed
  <2> HIDE DEF t
  <2> QED
    BY <1>0, <2>1, <2>2, <2>3, <2>4, <2>5, RowsOfHolder
<1>4. ASSUME NEW r \in Replicas, CancelDisabled(r)
      PROVE  RowsWait'
  <2>1. tick' = [tick EXCEPT ![r] = [tick[r] EXCEPT !.pc = "list"]]
    BY <1>0, <1>4 DEF CancelDisabled, Tick
  <2>2. tick[r].pc = "poll" /\ tick[r].rows = {}
    BY <1>4 DEF CancelDisabled, Backed, Remembered
  <2>3. [tick[r] EXCEPT !.pc = "list"].rows = {}
    BY <1>0, <2>2 DEF Tick
  <2> QED
    BY <1>0, <2>1, <2>2, <2>3, RowsOfHolder
<1>5. ASSUME NEW r \in Replicas, Send(r)
      PROVE  RowsWait'
  <2>1. PICK n \in tick[r].rows :
          tick' = [tick EXCEPT ![r].pc = "feed",
                               ![r].rows = {e \in tick[r].rows : e <= n}]
    BY <1>5 DEF Send
  <2>2. ~FoundClosed(r) /\ disposition' = disposition
    BY <1>5 DEF Send, MaySend, FoundClosed, database
  <2>3. \A s \in Replicas : /\ tick'[s].rows \subseteq tick[s].rows
                            /\ s # r => tick'[s] = tick[s]
    BY <1>0, <2>1 DEF Tick
  <2>4. \A s \in Replicas : FoundClosed(s) => FoundClosed(s)'
    BY <2>2, <2>3 DEF FoundClosed
  <2> QED
    BY <1>0, <2>2, <2>3, <2>4, RowsStay
<1>6. ASSUME NEW r \in Replicas, PollRead(r) \/ DeliveryRead(r)
      PROVE  RowsWait'
  <2>1. PICK h \in Handles, answer \in Answers : Inspect(r, h, answer)
    BY <1>6 DEF PollRead, DeliveryRead, Typed, TypeOK, Tick, CursorSet, InHand
  <2>2. \A s \in Replicas : /\ tick'[s].rows = tick[s].rows
                            /\ s # r => tick'[s] = tick[s]
    BY <1>0, <2>1 DEF Inspect, Tick
  <2>3. tick[r].pc # "decide" /\ disposition' = disposition
    BY <1>6, <2>1 DEF PollRead, DeliveryRead, Inspect, database
  <2>4. \A s \in Replicas : FoundClosed(s) => FoundClosed(s)'
    BY <2>2, <2>3 DEF FoundClosed
  <2> QED
    BY <1>0, <2>2, <2>3, <2>4, RowsStay
<1>7. ASSUME NEW r \in Replicas,
             \/ \E due \in SUBSET Handles : BeginTick(r, due)
             \/ ListGroups(r) \/ SkipGroup(r) \/ RefuseChangedProject(r)
             \/ WaitForCapacity(r) \/ Assign(r) \/ Attempt(r) \/ CreateAccepted(r)
      PROVE  RowsWait'
  <2>1. tick[r].pc # "decide" /\ disposition' = disposition
    BY <1>7 DEF BeginTick, ListGroups, SkipGroup, RefuseChangedProject, WaitForCapacity,
                Deliverable, NextGroup, Assign, Attempt, CreateAccepted, database
  <2>2. \A s \in Replicas : tick'[s].rows = tick[s].rows
    BY <1>0, <1>7 DEF BeginTick, ListGroups, SkipGroup, RefuseChangedProject,
                      WaitForCapacity, Assign, Attempt, CreateAccepted, Tick
  <2>3. \A s \in Replicas : s # r => tick'[s] = tick[s]
    BY <1>0, <1>7 DEF BeginTick, ListGroups, SkipGroup, RefuseChangedProject,
                      WaitForCapacity, Assign, Attempt, CreateAccepted
  <2>4. \A s \in Replicas : FoundClosed(s) => FoundClosed(s)'
    BY <2>1, <2>3 DEF FoundClosed
  <2> QED
    BY <1>0, <2>1, <2>2, <2>4, RowsStay
<1>8. ASSUME Collectors \/ Turnstone \/ Operators \/ (\E e \in Events : Wake(e))
             \/ UNCHANGED vars
      PROVE  RowsWait'
  <2>1. tick' = tick
    BY <1>8 DEF Collectors, Enqueue, Turnstone, ServeLate, Lose, CloseChat, UnloadChat,
                ReloadChat, Operators, EditRule, DeleteRule, DeleteTarget, Wake, vars
  <2>2. \A e \in Created : disposition'[e] \in {disposition[e], "deleted"}
    <3>1. CASE Collectors
      <4>1. PICK k \in Rules, host \in Hosts, path \in Paths : Enqueue(k, host, path)
        BY <3>1 DEF Collectors
      <4>2. LeastOf(Events \ Created) \notin Created
        BY <4>1, LeastEvent DEF Enqueue
      <4>3. \A e \in Created : disposition'[e] = disposition[e]
        BY <4>1, <4>2 DEF Enqueue, Created, Typed, TypeOK
      <4> QED
        BY <4>3
    <3>2. CASE \E k \in Rules : DeleteRule(k)
      BY <3>2 DEF DeleteRule, Created
    <3>3. CASE ~Collectors /\ ~(\E k \in Rules : DeleteRule(k))
      <4>1. disposition' = disposition
        BY <1>8, <3>3 DEF Turnstone, ServeLate, Lose, CloseChat, UnloadChat, ReloadChat,
                          Operators, EditRule, DeleteTarget, Wake, vars, database
      <4> QED
        BY <4>1
    <3> QED
      BY <3>1, <3>2, <3>3
  <2>3. \A s \in Replicas : FoundClosed(s) => FoundClosed(s)'
    BY <2>1 DEF FoundClosed
  <2> QED
    BY <1>0, <2>1, <2>2, <2>3, RowsStay
<1> QED
  BY <1>1, <1>2, <1>3, <1>4, <1>5, <1>6, <1>7, <1>8 DEF Next, Scheduler

-----------------------------------------------------------------------------
(* The promise of AgentOutbox.                                             *)

SameTargets == \A e \in Events : event'[e].target = event[e].target

\* Items that are settled together.
LEMMA ItemsSettle ==
  ASSUME SameTargets, NEW S, NEW how \in {"delivered", "cancelled", "resolved", "deleted"},
         \A e \in Events :
           /\ e \in S => \/ disposition'[e] = how
                         \/ how = "delivered" /\ disposition'[e] \in {"opened", "fed"}
           /\ e \notin S => disposition'[e] = disposition[e]
  PROVE  itemBar' = [i \in Events |-> IF i \in S THEN how ELSE itemBar[i]]
<1>1. \A e \in Events : itemBar'[e] = IF e \in S THEN how ELSE itemBar[e]
  BY DEF itemBar, SameTargets
<1>2. itemBar' = [e \in Events |-> itemBar'[e]]
  BY DEF itemBar
<1> QED
  BY <1>1, <1>2

LEMMA ItemsStay ==
  ASSUME disposition' = disposition, SameTargets
  PROVE  itemBar' = itemBar
BY DEF itemBar, SameTargets

\* A workstream is free, in use or released.
SameUse(h) ==
  /\ ws'[h].status = "none" <=> ws[h].status = "none"
  /\ ws'[h].status = "closed" <=> ws[h].status = "closed"

LEMMA SlotsStay ==
  ASSUME \A h \in Handles : SameUse(h) /\ chat'[h].state = chat[h].state
  PROVE  slotBar' = slotBar
<1>1. \A h \in Handles : slotBar'[h] = slotBar[h]
  BY DEF slotBar, SameUse
<1>2. slotBar' = [h \in Handles |-> slotBar'[h]] /\ slotBar = [h \in Handles |-> slotBar[h]]
  BY DEF slotBar
<1> QED
  BY <1>1, <1>2

LEMMA SlotMoves ==
  ASSUME NEW h \in Handles,
         \A g \in Handles : g # h => SameUse(g) /\ chat'[g].state = chat[g].state
  PROVE  slotBar' = [slotBar EXCEPT ![h] = slotBar'[h]]
<1>1. \A g \in Handles : g # h => slotBar'[g] = slotBar[g]
  BY DEF slotBar, SameUse
<1>2. slotBar' = [g \in Handles |-> slotBar'[g]] /\ slotBar = [g \in Handles |-> slotBar[g]]
  BY DEF slotBar
<1> QED
  BY <1>1, <1>2

\* The slots that count are the unclosed workstreams.
LEMMA UnreleasedActive ==
  ASSUME Typed
  PROVE  Outbox!Unreleased = Active
<1>1. \A h \in Handles :
        slotBar[h] \in {"claimed", "running", "ended"} <=>
          ws[h].status \notin {"none", "closed"}
  BY DEF slotBar
<1> QED
  BY <1>1 DEF Outbox!Unreleased, Active

LEMMA WaitingPending ==
  ASSUME Kept, Typed
  PROVE  pending \subseteq Outbox!Waiting
<1>1. \A e \in pending : e \in Events /\ disposition[e] = "queued" /\ event[e].target
  BY DEF Kept, Settling, Typed, TypeOK
<1> QED
  BY <1>1 DEF Outbox!Waiting, itemBar

\* Each step of the scheduler is a step of the outbox or none.
Simulated == Outbox!Next \/ UNCHANGED <<itemBar, slotBar>>

LEMMA EnqueueSimulated ==
  ASSUME Typed, NEW k, NEW host, NEW path, Enqueue(k, host, path)
  PROVE  Simulated
<1>1. PICK n : n = LeastOf(Events \ Created)
  OBVIOUS
<1>2. n \in Events /\ disposition[n] = "none"
  BY <1>1, LeastEvent DEF Enqueue, Created
<1>3. /\ disposition' = [disposition EXCEPT ![n] = "queued"] /\ ws' = ws /\ chat' = chat
      /\ event'[n].target /\ \A e \in Events : e # n => event'[e] = event[e]
  BY <1>1, <1>2 DEF Enqueue, Typed, TypeOK
<1>4. itemBar[n] = "new" /\ itemBar' = [itemBar EXCEPT ![n] = "waiting"]
  <2>1. itemBar'[n] = "waiting" /\ itemBar[n] = "new"
    BY <1>2, <1>3 DEF itemBar, Typed, TypeOK
  <2>2. \A e \in Events : e # n => itemBar'[e] = itemBar[e]
    BY <1>2, <1>3 DEF itemBar, Typed, TypeOK
  <2>3. itemBar' = [e \in Events |-> itemBar'[e]] /\ itemBar = [e \in Events |-> itemBar[e]]
    BY DEF itemBar
  <2> QED
    BY <1>2, <2>1, <2>2, <2>3
<1>5. slotBar' = slotBar
  BY <1>3, SlotsStay DEF SameUse
<1> QED
  BY <1>2, <1>4, <1>5 DEF Simulated, Outbox!Next, Outbox!Accept

\* A closure that is recorded releases the slot.
LEMMA RecordSimulated ==
  ASSUME Typed, Backed, Kept, NEW r \in Replicas, RecordInspection(r)
  PROVE  Simulated
<1>1. PICK h \in Handles : h = tick[r].cur
  BY DEF RecordInspection, Typed, CursorSet, InHand
<1>2. PICK answer : answer = tick[r].answer
  OBVIOUS
<1>3. PICK S \in SUBSET pending : S = ResolvedBy(h, answer)
  BY DEF ResolvedBy
<1>4. /\ disposition' = [e \in Events |-> IF e \in S THEN "resolved" ELSE disposition[e]]
      /\ chat' = chat /\ SameTargets
  BY <1>1, <1>2, <1>3 DEF RecordInspection, SameTargets
<1>5. /\ ws'[h].status = StatusAfter(ws[h].status, answer)
      /\ \A g \in Handles : g # h => ws'[g].status = ws[g].status
  BY <1>1, <1>2 DEF RecordInspection, Typed, TypeOK, Workstream
<1>6. /\ ws[h].status \in Reached
      /\ answer \in {"closed", "undated"} => chat[h].state = "closed"
  BY <1>1, <1>2 DEF RecordInspection, Backed, Remembered
<1>7. CASE answer \in {"closed", "undated"}
  <2>1. slotBar[h] = "ended" /\ slotBar'[h] = "released"
    BY <1>4, <1>5, <1>6, <1>7 DEF slotBar, StatusAfter, Reached
  <2>2. slotBar' = [slotBar EXCEPT ![h] = "released"]
    BY <1>4, <1>5, <2>1, SlotMoves DEF SameUse
  <2>3. itemBar' = [i \in Events |-> IF i \in S THEN "resolved" ELSE itemBar[i]]
    BY <1>4, ItemsSettle
  <2>4. S \subseteq Outbox!Waiting /\ S \in SUBSET Events
    BY <1>3, WaitingPending DEF Typed, TypeOK
  <2>5. Outbox!Release(h, S)
    BY <2>1, <2>2, <2>3, <2>4 DEF Outbox!Release, Outbox!Settle, Outbox!Move
  <2> QED
    BY <2>4, <2>5 DEF Simulated, Outbox!Next
<1>8. CASE answer \notin {"closed", "undated"}
  <2>1. disposition' = disposition
    BY <1>3, <1>4, <1>8 DEF ResolvedBy, Typed, TypeOK
  <2>2. \A g \in Handles : SameUse(g)
    BY <1>5, <1>6, <1>8 DEF StatusAfter, Reached, SameUse
  <2> QED
    BY <1>4, <2>1, <2>2, ItemsStay, SlotsStay DEF Simulated
<1> QED
  BY <1>7, <1>8

\* A reservation claims a slot below the cap.
LEMMA ReserveSimulated ==
  ASSUME Typed, Backed, NEW r \in Replicas, Reserve(r)
  PROVE  Simulated
<1>1. PICK h : h = LeastOf(Handles \ Opened)
  OBVIOUS
<1>2. h \in Handles /\ ws[h].status = "none"
  BY <1>1, LeastHandle DEF Reserve, Opened
<1>3. /\ ws'[h].status = "opening" /\ chat' = chat /\ disposition' = disposition
      /\ \A g \in Handles : g # h => ws'[g] = ws[g]
      /\ SameTargets
  BY <1>1, <1>2 DEF Reserve, SameTargets, Typed, TypeOK
<1>4. chat[h].state = "none"
  BY <1>2 DEF Backed, Tracked
<1>5. slotBar[h] = "free" /\ slotBar'[h] = "claimed"
  BY <1>2, <1>3, <1>4 DEF slotBar
<1>6. slotBar' = [slotBar EXCEPT ![h] = "claimed"]
  BY <1>2, <1>3, <1>5, SlotMoves DEF SameUse
<1>7. Outbox!Cardinality(Outbox!Unreleased) < MaxActive
  <2>1. \A S : Outbox!Cardinality(S) = Cardinality(S)
    BY DEF Outbox!Cardinality, Cardinality
  <2> QED
    BY <2>1, UnreleasedActive DEF Reserve
<1>8. itemBar' = itemBar
  BY <1>3, ItemsStay
<1>9. Outbox!Claim(h)
  BY <1>5, <1>6, <1>7, <1>8 DEF Outbox!Claim, Outbox!Move
<1> QED
  BY <1>2, <1>9 DEF Simulated, Outbox!Next

\* A create that is served starts the agent, whether anybody waits or not.
LEMMA CreateSimulated ==
  ASSUME Typed, Backed, NEW h \in Handles, CreateRequest(h) \in net,
         chat' = ChatCreated(h), disposition' = disposition, SameTargets,
         ws'[h].status \in Reached,
         \A g \in Handles : g # h => ws'[g] = ws[g]
  PROVE  Simulated
<1>1. chat[h].state = "none" /\ ws[h].status = "uncertain"
  BY DEF Backed, CreateNotRepeated, CreateRequest
<1>2. /\ chat'[h].state = "live"
      /\ \A g \in Handles : g # h => chat'[g] = chat[g]
  BY DEF ChatCreated, Typed, TypeOK, Chat
<1>3. slotBar[h] = "claimed" /\ slotBar'[h] = "running"
  BY <1>1, <1>2 DEF slotBar, Reached
<1>4. slotBar' = [slotBar EXCEPT ![h] = "running"]
  BY <1>2, <1>3, SlotMoves DEF SameUse
<1> QED
  BY <1>3, <1>4, ItemsStay DEF Simulated, Outbox!Next, Outbox!Start, Outbox!Move

\* The rows of an accepted batch still waited, unless their rule or their
\* target has gone.
LEMMA FeedSimulated ==
  ASSUME Typed, Backed, Kept, RowsWait, NEW r \in Replicas, FeedAccepted(r)
  PROVE  Simulated
<1>1. PICK h \in Handles : h = tick[r].cur
  BY DEF FeedAccepted, Typed, CursorSet, InHand
<1>2. PICK S : S = tick[r].rows \cap {e \in Events : disposition[e] # "deleted"}
  OBVIOUS
<1>3. S \in SUBSET Events /\ \A e \in S : itemBar[e] \in {"waiting", "stranded"}
  <2>1. ~FoundClosed(r)
    BY DEF FeedAccepted, FoundClosed
  <2>2. \A e \in S : e \in Events /\ disposition[e] = "queued"
    BY <1>2, <2>1 DEF RowsWait
  <2> QED
    BY <2>2 DEF itemBar
<1>4. /\ disposition' = [e \in Events |->
           IF e \notin S THEN disposition[e]
           ELSE IF ws[h].seeded THEN "fed" ELSE "opened"]
      /\ chat[h].state = "live" /\ SameTargets
  BY <1>1, <1>2 DEF FeedAccepted, SameTargets
<1>5. \A g \in Handles : ws'[g].status = ws[g].status
  BY DEF FeedAccepted, Typed, TypeOK, Workstream
<1>6. \A g \in Handles : chat'[g].state = chat[g].state
  BY DEF FeedAccepted, MessageTaken, Typed, TypeOK, Chat
<1>7. slotBar[h] = "running"
  BY <1>4 DEF slotBar, Backed, Tracked
<1>8. slotBar' = slotBar
  BY <1>5, <1>6, SlotsStay DEF SameUse
<1>9. itemBar' = [i \in Events |-> IF i \in S THEN "delivered" ELSE itemBar[i]]
  BY <1>4, ItemsSettle
<1>10. Outbox!Deliver(S, h)
  BY <1>3, <1>7, <1>8, <1>9 DEF Outbox!Deliver, Outbox!Settle
<1> QED
  BY <1>3, <1>10 DEF Simulated, Outbox!Next

\* Rules are disabled or deleted.
LEMMA DropSimulated ==
  ASSUME Typed, Kept,
         (\E r \in Replicas : CancelDisabled(r)) \/ (\E k \in Rules : DeleteRule(k))
  PROVE  Simulated
<1>0. SameTargets
  BY DEF CancelDisabled, DeleteRule, SameTargets
<1>1. slotBar' = slotBar
  <2>1. /\ \A h \in Handles : ws'[h].status = ws[h].status
        /\ chat' = chat
    BY DEF CancelDisabled, DeleteRule, Typed, TypeOK, Workstream
  <2> QED
    BY <2>1, SlotsStay DEF SameUse
<1>2. CASE \E r \in Replicas : CancelDisabled(r)
  <2>1. PICK S \in SUBSET pending :
          disposition' = [e \in Events |-> IF e \in S THEN "cancelled" ELSE disposition[e]]
    BY <1>2 DEF CancelDisabled
  <2>2. S \subseteq Outbox!Waiting /\ S \in SUBSET Events
    BY WaitingPending DEF Typed, TypeOK
  <2>3. itemBar' = [i \in Events |-> IF i \in S THEN "cancelled" ELSE itemBar[i]]
    BY <1>0, <2>1, ItemsSettle
  <2>4. Outbox!Cancel(S)
    BY <1>1, <2>2, <2>3 DEF Outbox!Cancel, Outbox!Settle
  <2> QED
    BY <2>2, <2>4 DEF Simulated, Outbox!Next
<1>3. CASE \E k \in Rules : DeleteRule(k)
  <2>1. PICK S \in SUBSET Created :
          disposition' = [e \in Events |-> IF e \in S THEN "deleted" ELSE disposition[e]]
    BY <1>3 DEF DeleteRule
  <2>2. S \in SUBSET Events /\ \A e \in S : itemBar[e] # "new"
    BY DEF Created, itemBar, Typed, TypeOK
  <2>3. itemBar' = [i \in Events |-> IF i \in S THEN "deleted" ELSE itemBar[i]]
    BY <1>0, <2>1, ItemsSettle
  <2>4. Outbox!Forget(S)
    BY <1>1, <2>2, <2>3 DEF Outbox!Forget, Outbox!Settle
  <2> QED
    BY <2>2, <2>4 DEF Simulated, Outbox!Next
<1> QED
  BY <1>2, <1>3

\* A target is deleted.
LEMMA StrandSimulated ==
  ASSUME Typed, Kept, NEW S \in SUBSET Rules, DeleteTarget(S)
  PROVE  Simulated
<1> DEFINE T == {e \in pending : event[e].rule \in S}
<1>1. slotBar' = slotBar
  <2>1. \A h \in Handles : ws'[h].status = ws[h].status
    BY TargetGone
  <2> QED
    BY <2>1, SlotsStay DEF SameUse, DeleteTarget
<1>2. T \in SUBSET Events /\ T \subseteq Outbox!Waiting
  BY WaitingPending DEF Typed, TypeOK
<1>3. ASSUME NEW e \in Events
      PROVE  itemBar'[e] = IF e \in T THEN "stranded" ELSE itemBar[e]
  <2>1. event'[e].target <=> event[e].target /\ event[e].rule \notin S
    BY TargetGone
  <2>2. e \in pending <=> disposition[e] = "queued" /\ event[e].target
    BY DEF Kept, Settling
  <2>3. disposition'[e] = disposition[e]
    BY DEF DeleteTarget
  <2> QED
    BY <2>1, <2>2, <2>3 DEF itemBar
<1>4. itemBar' = [i \in Events |-> IF i \in T THEN "stranded" ELSE itemBar[i]]
  <2>1. itemBar' = [i \in Events |-> itemBar'[i]]
    BY DEF itemBar
  <2> QED
    BY <1>3, <2>1
<1>5. Outbox!Strand(T)
  BY <1>1, <1>2, <1>4 DEF Outbox!Strand, Outbox!Settle
<1> QED
  BY <1>2, <1>5 DEF Simulated, Outbox!Next

LEMMA TurnstoneSimulated ==
  ASSUME Typed, Backed, Turnstone
  PROVE  Simulated
<1>0. ws' = ws /\ disposition' = disposition /\ SameTargets
  BY DEF Turnstone, ServeLate, Lose, CloseChat, UnloadChat, ReloadChat, database,
         SameTargets
<1>1. ASSUME NEW q \in net, ServeLate(q)
      PROVE  Simulated
  <2>1. CASE q.kind = "create" /\ chat[q.handle].state = "none"
    <3>1. q = CreateRequest(q.handle) /\ q.handle \in Handles
      BY <2>1 DEF Backed, Creates, Typed, TypeOK, Request
    <3>2. ws[q.handle].status \in Reached
      BY <2>1 DEF Backed, CreateNotRepeated, Reached
    <3>3. chat' = ChatCreated(q.handle)
      BY <1>1, <2>1 DEF ServeLate
    <3> QED
      BY <1>0, <3>1, <3>2, <3>3, CreateSimulated
  <2>2. CASE ~(q.kind = "create" /\ chat[q.handle].state = "none")
    <3>1. chat' = MessageTaken(q) \/ chat' = chat
      BY <1>1, <2>2 DEF ServeLate
    <3>2. \A g \in Handles : chat'[g].state = chat[g].state
      BY <3>1 DEF MessageTaken, Typed, TypeOK, Chat
    <3> QED
      BY <1>0, <3>2, ItemsStay, SlotsStay DEF Simulated, SameUse
  <2> QED
    BY <2>1, <2>2
<1>4. ASSUME NEW q \in net, Lose(q)
      PROVE  Simulated
  BY <1>0, <1>4, ItemsStay, SlotsStay DEF Lose, Simulated, SameUse
<1>2. ASSUME NEW h \in Handles, CloseChat(h)
      PROVE  Simulated
  <2>1. /\ chat[h].state \in {"live", "unloaded"} /\ chat'[h].state = "closed"
        /\ \A g \in Handles : g # h => chat'[g] = chat[g]
    BY <1>2 DEF CloseChat, Typed, TypeOK, Chat
  <2>2. ws[h].status \notin {"none", "closed"}
    BY <2>1 DEF Backed, Tracked
  <2>3. slotBar[h] = "running" /\ slotBar'[h] = "ended"
    BY <1>0, <2>1, <2>2 DEF slotBar
  <2>4. slotBar' = [slotBar EXCEPT ![h] = "ended"]
    BY <1>0, <2>1, <2>3, SlotMoves DEF SameUse
  <2> QED
    BY <1>0, <2>3, <2>4, ItemsStay DEF Simulated, Outbox!Next, Outbox!End, Outbox!Move
<1>3. ASSUME NEW h \in Handles, UnloadChat(h) \/ ReloadChat(h)
      PROVE  Simulated
  <2>1. /\ chat[h].state \in {"live", "unloaded"}
        /\ chat'[h].state \in {"live", "unloaded"}
        /\ \A g \in Handles : g # h => chat'[g] = chat[g]
    BY <1>3 DEF UnloadChat, ReloadChat, Typed, TypeOK, Chat
  <2>2. slotBar'[h] = slotBar[h]
    BY <1>0, <2>1 DEF slotBar
  <2>3. slotBar' = [slotBar EXCEPT ![h] = slotBar'[h]]
    BY <1>0, <2>1, SlotMoves DEF SameUse
  <2>4. slotBar' = slotBar
    BY <2>2, <2>3 DEF slotBar
  <2> QED
    BY <1>0, <2>4, ItemsStay DEF Simulated
<1> QED
  BY <1>1, <1>2, <1>3, <1>4 DEF Turnstone

LEMMA OutboxStep ==
  ASSUME Typed, Backed, Kept, RowsWait, [Next]_vars
  PROVE  Simulated
<1>0. ASSUME \/ \E r \in Replicas : \/ \E due \in SUBSET Handles : BeginTick(r, due)
                                   \/ Scheduler(r) \/ Crash(r)
             \/ \E e \in Events : Wake(e)
      PROVE  SameTargets
  BY <1>0, TargetStays DEF SameTargets
<1>1. ASSUME NEW r \in Replicas, CreateAccepted(r)
      PROVE  Simulated
  <2>1. PICK h \in Handles : h = tick[r].cur
    BY <1>1 DEF CreateAccepted, Typed, CursorSet, InHand
  <2>2. /\ CreateRequest(h) \in net /\ chat' = ChatCreated(h)
        /\ disposition' = disposition /\ SameTargets
    BY <1>0, <1>1, <2>1 DEF CreateAccepted, Scheduler
  <2>3. /\ ws'[h].status \in Reached
        /\ \A g \in Handles : g # h => ws'[g] = ws[g]
    BY <1>1, <2>1 DEF CreateAccepted, Reached, Typed, TypeOK, Workstream
  <2> QED
    BY <2>2, <2>3, CreateSimulated
<1>2. ASSUME NEW r \in Replicas, Attempt(r) \/ CreateRefused(r)
      PROVE  Simulated
  <2>1. PICK h \in Handles : h = tick[r].cur
    BY <1>2 DEF Attempt, CreateRefused, Typed, CursorSet, InHand
  <2>2. ws[h].status \in {"opening", "uncertain"}
    <3>1. CASE Attempt(r)
      BY <2>1, <3>1 DEF Attempt, Backed, Remembered
    <3>2. CASE CreateRefused(r)
      <4>1. CreateRequest(h) \in net
        BY <2>1, <3>2 DEF CreateRefused, Backed, Remembered
      <4> QED
        BY <4>1 DEF Backed, CreateNotRepeated, CreateRequest
    <3> QED
      BY <1>2, <3>1, <3>2
  <2>3. /\ ws'[h].status \in {"opening", "uncertain"}
        /\ \A g \in Handles : g # h => ws'[g] = ws[g]
        /\ chat' = chat /\ disposition' = disposition
    BY <1>2, <2>1 DEF Attempt, CreateRefused, Typed, TypeOK, Workstream
  <2>5. SameTargets
    BY <1>0, <1>2 DEF Scheduler
  <2>4. \A g \in Handles : SameUse(g)
    BY <2>2, <2>3 DEF SameUse
  <2> QED
    BY <2>3, <2>4, <2>5, ItemsStay, SlotsStay DEF Simulated
<1>3. ASSUME NEW r \in Replicas,
             \/ \E due \in SUBSET Handles : BeginTick(r, due)
             \/ Crash(r) \/ PollRead(r) \/ DeliveryRead(r) \/ ListGroups(r) \/ EndTick(r)
             \/ SkipGroup(r) \/ RefuseChangedProject(r) \/ WaitForCapacity(r)
             \/ Adopt(r) \/ Assign(r) \/ CreateUnknown(r) \/ HoldBack(r) \/ Throttle(r)
             \/ Send(r) \/ FeedRefused(r) \/ FeedUnknown(r)
      PROVE  ws' = ws /\ chat' = chat /\ disposition' = disposition /\ SameTargets
  <2>1. ws' = ws /\ chat' = chat /\ disposition' = disposition
    BY <1>3 DEF BeginTick, Crash, PollRead, DeliveryRead, Inspect, ListGroups, EndTick,
                SkipGroup, RefuseChangedProject, WaitForCapacity, Adopt, Assign,
                CreateUnknown, HoldBack, Throttle, Send, FeedRefused, FeedUnknown, database
  <2>2. SameTargets
    BY <1>0, <1>3 DEF Scheduler
  <2> QED
    BY <2>1, <2>2
<1>4. ASSUME \/ \E k \in Rules,
                   new \in [state : RuleStates, by : Groupings, project : Projects] :
                     EditRule(k, new)
             \/ \E e \in Events : Wake(e)
             \/ UNCHANGED vars
      PROVE  ws' = ws /\ chat' = chat /\ disposition' = disposition /\ SameTargets
  <2>1. ws' = ws /\ chat' = chat /\ disposition' = disposition
    BY <1>4 DEF EditRule, Wake, vars, database
  <2>2. CASE \E e \in Events : Wake(e)
    BY <1>0, <2>1, <2>2
  <2>3. CASE ~\E e \in Events : Wake(e)
    BY <1>4, <2>1, <2>3 DEF EditRule, vars, database, SameTargets
  <2> QED
    BY <2>2, <2>3
<1>5. ASSUME ws' = ws, chat' = chat, disposition' = disposition, SameTargets
      PROVE  Simulated
  BY <1>5, ItemsStay, SlotsStay DEF Simulated, SameUse
<1> QED
  BY <1>1, <1>2, <1>3, <1>4, <1>5, EnqueueSimulated, RecordSimulated, ReserveSimulated,
     FeedSimulated, DropSimulated, StrandSimulated, TurnstoneSimulated
     DEF Next, Scheduler, Operators, Collectors

\* The scheduler, with its lock, its retries and its crashes, implements the
\* outbox: an agent starts only in a slot that was counted against the cap,
\* events are delivered only to a running agent and settle once, and a slot
\* is released only after its chat was closed (agent_queue.py:3-9).
THEOREM OutboxImplemented == Spec => ImplementsOutbox
<1>1. Init => Outbox!Init
  BY DEF Init, Outbox!Init, itemBar, slotBar
<1>2. Init => Typed /\ Backed /\ Kept /\ RowsWait
  <2>1. Init => RowsWait
    BY DEF Init, RowsWait, IdleTick
  <2> QED
    BY <2>1, TypedInit, BackedInit, KeptInit
<1>3. Typed /\ Backed /\ Kept /\ RowsWait /\ [Next]_vars =>
        Typed' /\ Backed' /\ Kept' /\ RowsWait'
  BY TypedStep, BackedStep, KeptStep, RowsStep
<1>4. Typed /\ Backed /\ Kept /\ RowsWait /\ [Next]_vars =>
        [Outbox!Next]_<<itemBar, slotBar>>
  BY OutboxStep DEF Simulated
<1> QED
  BY <1>1, <1>2, <1>3, <1>4, PTL DEF Spec, ImplementsOutbox, Outbox!Spec, Outbox!outbox

-----------------------------------------------------------------------------
(* One chat for a group and for every retry.                               *)

\* What FindWorkstream finds, and when it finds nothing.
LEMMA Found ==
  ASSUME NEW k, NEW project, NEW grouping, NEW source, NEW found,
         found = FindWorkstream(k, project, grouping, source)
  PROVE  /\ found # None =>
              /\ found \in Active /\ ws[found].rule = k /\ ws[found].project = project
              /\ grouping = "rule" \/ ws[found].source = source
         /\ found = None =>
              \A h \in Active : ws[h].rule = k /\ ws[h].project = project =>
                grouping # "rule" /\ ws[h].source # source
<1> DEFINE fits == {h \in Active : /\ ws[h].rule = k /\ ws[h].project = project
                                   /\ grouping = "rule" \/ ws[h].source = source}
<1>1. found = IF fits = {} THEN None ELSE GreatestOf(fits)
  BY DEF FindWorkstream
<1>2. fits # {} => GreatestOf(fits) \in fits
  <2>1. fits \subseteq 1 .. MaxHandles /\ MaxHandles \in Nat
    BY BoundsAssumption DEF Active, Handles
  <2> HIDE DEF fits
  <2> QED
    BY <2>1, GreatestInSet
<1>3. fits # {} => GreatestOf(fits) # None
  BY <1>2, NamesAssumption DEF Active, Handles
<1>4. found # None => found \in fits
  BY <1>1, <1>2
<1>5. found = None => fits = {}
  BY <1>1, <1>3
<1> QED
  BY <1>4, <1>5

\* Neither rules, workstreams nor events move; closures are recorded.
Fixed ==
  /\ \A h \in Handles : /\ ws'[h].rule = ws[h].rule
                        /\ ws'[h].source = ws[h].source
                        /\ ws'[h].project = ws[h].project
  /\ Active' \subseteq Active /\ Opened' = Opened
  /\ \A h \in Handles : chat'[h].state # "none" => chat'[h].project = ws[h].project
Unmoved ==
  /\ \A e \in Events : /\ event'[e].assigned = event[e].assigned
                       /\ event'[e].rule = event[e].rule
                       /\ event'[e].host = event[e].host
                       /\ event'[e].by = event[e].by
                       /\ event'[e].project = event[e].project
  /\ pending' \subseteq pending /\ Created' = Created
NotTaken ==
  \A r \in Replicas : tick'[r].pc = "assign" =>
    tick[r].pc = "assign" /\ tick'[r].rows = tick[r].rows /\ tick'[r].cur = tick[r].cur

LEMMA GroupedStays ==
  ASSUME Typed, Backed, Grouped, Typed', RulesKept, Fixed, Unmoved, NotTaken
  PROVE  Grouped'
<1>1. \A h \in Active : h \in Handles /\ ws[h].rule \in Rules
  BY DEF Active, Opened, Grouped
<1>2. ASSUME NEW h \in Handles, h \in Active, NEW e \in Events,
             event[e].rule \in Rules, Fits(h, e)
      PROVE  Fits(h, e)'
  BY <1>1, <1>2 DEF Fixed, Unmoved, RulesKept, Fits
<1>3. Apart'
  BY <1>1 DEF Fixed, RulesKept, Grouped, Apart
<1>4. ASSUME NEW e \in Events
      PROVE  Placed(e)'
  <2>1. Placed(e)
    BY DEF Grouped
  <2>2. PICK h : h = event[e].assigned
    OBVIOUS
  <2>3. e \in pending' /\ h \in Active' => Fits(h, e)'
    <3>1. SUFFICES ASSUME e \in pending', h \in Active' PROVE Fits(h, e)'
      OBVIOUS
    <3>2. e \in pending /\ h \in Active /\ h \in Handles
      BY <3>1 DEF Fixed, Unmoved, Active
    <3>3. Fits(h, e)
      BY <2>1, <2>2, <3>2 DEF Placed
    <3>4. event[e].rule \in Rules
      BY <1>1, <3>2, <3>3 DEF Fits
    <3> QED
      BY <1>2, <3>2, <3>3, <3>4
  <2>4. event'[e].assigned = h
    BY <2>2 DEF Unmoved
  <2>5. /\ e \notin Created' => event'[e].assigned = None
        /\ e \in Created' => /\ event'[e].rule \in Rules
                             /\ \/ event'[e].by = "host"
                                \/ rule'[event'[e].rule].by = "rule"
        /\ event'[e].assigned # None => event'[e].assigned \in Opened'
    BY <2>1 DEF Placed, Fixed, Unmoved, RulesKept
  <2> QED
    BY <2>3, <2>4, <2>5 DEF Placed
<1>5. ASSUME NEW r \in Replicas
      PROVE  Gathered(r)'
  <2>1. SUFFICES ASSUME tick'[r].pc = "assign" PROVE Gathered(r)'
    BY DEF Gathered
  <2>2. PICK h : h = tick[r].cur
    OBVIOUS
  <2>3. /\ tick[r].pc = "assign" /\ tick'[r].rows = tick[r].rows
        /\ tick'[r].cur = h /\ h \in Active /\ h \in Handles
    BY <2>1, <2>2 DEF NotTaken, Backed, Remembered, Active
  <2>4. ASSUME NEW e \in Events, e \in tick[r].rows, e \in pending'
        PROVE  Fits(h, e)' /\ (event'[e].assigned \in Active' => event'[e].assigned = h)
    <3>1. Fits(h, e) /\ (event[e].assigned \in Active => event[e].assigned = h)
      BY <2>2, <2>3, <2>4 DEF Grouped, Gathered, Unmoved
    <3>2. event[e].rule \in Rules
      BY <1>1, <2>3, <3>1 DEF Fits
    <3> QED
      BY <1>2, <2>3, <3>1, <3>2 DEF Fixed, Unmoved
  <2>5. pending' \subseteq Events
    BY DEF Typed, TypeOK
  <2> QED
    BY <2>3, <2>4, <2>5 DEF Gathered
<1>6. /\ \A k \in Rules : rule'[k].state \notin Gone
      /\ \A h \in Opened' : ws'[h].rule \in Rules
      /\ \A h \in Handles : chat'[h].state # "none" => chat'[h].project = ws'[h].project
  BY DEF Grouped, RulesKept, Fixed, Opened
<1> QED
  BY <1>3, <1>4, <1>5, <1>6 DEF Grouped

\* The rows of a group agree in everything a workstream is found by.
LEMMA GroupAgrees ==
  ASSUME Typed, Kept, Grouped, NEW r \in Replicas, NextGroup(r), HeadIsDue(r),
         NEW first, first = event[Head(r)]
  PROVE  /\ first.rule \in Rules
         /\ rule[first.rule].by = "rule" \/ KeySource(Head(r)) = first.host
         /\ \A e \in GroupRows(r) :
              /\ e \in Events /\ e \in pending
              /\ event[e].rule = first.rule /\ event[e].project = first.project
              /\ rule[first.rule].by = "rule" \/ event[e].host = first.host
<1>1. Head(r) \in Events
  BY HeadType DEF Typed
<1>2. ASSUME NEW e \in GroupRows(r)
      PROVE  /\ e \in Events /\ e \in pending /\ e \in Created
             /\ event[e].rule = first.rule /\ event[e].project = first.project
             /\ event[e].by = first.by
             /\ KeySource(e) = KeySource(Head(r))
  <2>1. e \in pending /\ Key(e) = Key(Head(r))
    BY DEF GroupRows, FirstRows
  <2>2. e \in Events /\ disposition[e] = "queued"
    BY <2>1 DEF Kept, Settling, Typed, TypeOK
  <2> QED
    BY <2>1, <2>2 DEF Key, Created
<1>3. PICK n : n \in GroupRows(r)
  BY DEF HeadIsDue
<1>4. first.rule \in Rules /\ (first.by = "host" \/ rule[first.rule].by = "rule")
  BY <1>2, <1>3 DEF Grouped, Placed
<1>5. first.by = "host" => KeySource(Head(r)) = first.host
  BY DEF KeySource
<1>6. ASSUME NEW e \in GroupRows(r), first.by = "host"
      PROVE  event[e].host = first.host
  BY <1>2, <1>5, <1>6 DEF KeySource
<1> QED
  BY <1>2, <1>4, <1>5, <1>6

LEMMA EnqueueGrouped ==
  ASSUME Typed, Backed, Kept, RowsWait, Grouped, Typed', NEW k \in Rules,
         NEW host \in Hosts, NEW path \in Paths, Enqueue(k, host, path)
  PROVE  Grouped'
<1> DEFINE judged == path = "judge"
           project == Prepared(k, IF judged THEN NoProject ELSE TargetProject)
           grouping == IF judged THEN "host" ELSE rule[k].by
           from == IF judged THEN "semantic" ELSE host
           source == IF grouping = "host" THEN from ELSE None
<1>1. PICK n : n = LeastOf(Events \ Created)
  OBVIOUS
<1>2. PICK found : found = FindWorkstream(k, project, grouping, source)
  OBVIOUS
<1>3. PICK row : row = [rule |-> k, target |-> TRUE, host |-> from, by |-> grouping,
                        project |-> project, assigned |-> found, wait |-> "now"]
  OBVIOUS
<1>4. n \in Events /\ n \notin Created
  BY <1>1, LeastEvent DEF Enqueue
<1>5. /\ event' = [event EXCEPT ![n] = row]
      /\ pending' = pending \cup {n}
      /\ disposition' = [disposition EXCEPT ![n] = "queued"]
      /\ ws' = ws /\ chat' = chat /\ rule' = rule /\ tick' = tick
  BY <1>1, <1>2, <1>3 DEF Enqueue
<1>6. /\ row.rule = k /\ row.assigned = found /\ row.project = project
      /\ row.host = from /\ row.by = grouping
  BY <1>3
<1>7. grouping \in {"host", "rule"} /\ (grouping = "host" \/ rule[k].by = "rule")
  BY NamesAssumption DEF Typed, TypeOK
<1>8. found # None => /\ found \in Active /\ ws[found].rule = k
                      /\ ws[found].project = project
                      /\ grouping = "rule" \/ ws[found].source = source
  BY <1>2, Found
<1>9. found # None => rule[k].by = "rule" \/ ws[found].source = from
  BY <1>7, <1>8
<1> HIDE DEF judged, project, grouping, from, source
<1>10. /\ event'[n] = row /\ \A e \in Events : e # n => event'[e] = event[e]
       /\ Created' = Created \cup {n} /\ Active' = Active /\ Opened' = Opened
  BY <1>4, <1>5 DEF Created, Active, Opened, Typed, TypeOK
<1>11. Placed(n)'
  <2>1. found # None => found \in Opened
    BY <1>8 DEF Active, Opened
  <2>2. found # None => Fits(found, n)'
    BY <1>5, <1>6, <1>8, <1>9, <1>10 DEF Fits
  <2>3. found \in Active' => found # None
    BY NamesAssumption DEF Active, Handles
  <2> QED
    BY <1>4, <1>5, <1>6, <1>7, <1>10, <2>1, <2>2, <2>3 DEF Placed
<1>12. ASSUME NEW e \in Events, e # n
       PROVE  Placed(e)'
  BY <1>5, <1>10, <1>12 DEF Grouped, Placed, Fits
<1>13. ASSUME NEW r \in Replicas
       PROVE  Gathered(r)'
  <2>1. n \notin tick[r].rows
    BY <1>4 DEF RowsWait
  <2>2. \A e \in tick[r].rows \cap pending' : e \in pending /\ e \in Events /\ e # n
    BY <1>5, <2>1 DEF Typed, TypeOK
  <2> QED
    BY <1>5, <1>10, <2>2 DEF Grouped, Gathered, Fits
<1> QED
  BY <1>5, <1>10, <1>11, <1>12, <1>13 DEF Grouped, Apart

LEMMA ReserveGrouped ==
  ASSUME Typed, Backed, Kept, Grouped, Typed', NEW r \in Replicas, Reserve(r)
  PROVE  Grouped'
<1>1. PICK h : h = LeastOf(Handles \ Opened)
  OBVIOUS
<1>2. h \in Handles /\ h \notin Opened
  BY <1>1, LeastHandle DEF Reserve
<1>3. PICK first : first = event[Head(r)]
  OBVIOUS
<1>4. PICK w : w = [status |-> "opening", rule |-> first.rule, source |-> first.host,
                    project |-> first.project, seeded |-> FALSE]
  OBVIOUS
<1>5. /\ ws' = [ws EXCEPT ![h] = w] /\ TakeUp(r, h)
      /\ event' = event /\ chat' = chat /\ rule' = rule /\ pending' = pending
      /\ disposition' = disposition
  BY <1>1, <1>3, <1>4 DEF Reserve
<1>6. /\ ws'[h] = w /\ \A g \in Handles : g # h => ws'[g] = ws[g]
  BY <1>2, <1>5 DEF Typed, TypeOK
<1>7. /\ w.status = "opening" /\ w.rule = first.rule /\ w.source = first.host
      /\ w.project = first.project
  BY <1>4
<1>8. /\ Active' = Active \cup {h} /\ Opened' = Opened \cup {h} /\ Created' = Created
      /\ h \notin Active
  BY <1>2, <1>5, <1>6, <1>7 DEF Active, Opened, Created
<1>9. /\ first.rule \in Rules
      /\ rule[first.rule].by = "rule" \/ KeySource(Head(r)) = first.host
      /\ \A e \in GroupRows(r) :
           /\ e \in Events /\ e \in pending
           /\ event[e].rule = first.rule /\ event[e].project = first.project
           /\ rule[first.rule].by = "rule" \/ event[e].host = first.host
  BY <1>3, GroupAgrees DEF Reserve, Deliverable
<1>10. \A g \in Active : ws[g].rule = first.rule /\ ws[g].project = first.project =>
         rule[first.rule].by # "rule" /\ ws[g].source # first.host
  <2>1. \A g \in Active : ws[g].rule = first.rule /\ ws[g].project = first.project =>
          rule[first.rule].by # "rule" /\ ws[g].source # KeySource(Head(r))
    BY <1>3, Found DEF Reserve, WorkstreamFor
  <2> QED
    BY <1>9, <2>1
<1>11. rule[first.rule].by \in {"host", "rule"}
  BY <1>9, NamesAssumption DEF Typed, TypeOK
<1>12. Apart'
  <2>1. ASSUME NEW g \in Handles, g \in Active, w.rule = ws[g].rule, w.project = ws[g].project
        PROVE  rule[w.rule].by = "host" /\ w.source # ws[g].source
    BY <1>7, <1>10, <1>11, <2>1
  <2>2. ASSUME NEW f \in Handles, NEW g \in Handles, f \in Active', g \in Active', f # g,
               ws'[f].rule = ws'[g].rule, ws'[f].project = ws'[g].project
        PROVE  rule'[ws'[f].rule].by = "host" /\ ws'[f].source # ws'[g].source
    <3>1. CASE f = h
      BY <1>5, <1>6, <1>8, <2>1, <2>2, <3>1
    <3>2. CASE g = h
      BY <1>5, <1>6, <1>8, <2>1, <2>2, <3>2
    <3>3. CASE f # h /\ g # h
      BY <1>5, <1>6, <1>8, <2>2, <3>3 DEF Grouped, Apart
    <3> QED
      BY <3>1, <3>2, <3>3
  <2>3. Active' \subseteq Handles
    BY DEF Active
  <2> QED
    BY <2>2, <2>3 DEF Apart
<1>13. ASSUME NEW e \in Events
       PROVE  Placed(e)'
  <2>1. Placed(e) /\ event[e].assigned # h
    BY <1>2, NamesAssumption DEF Grouped, Placed, Handles
  <2>2. PICK g : g = event[e].assigned
    OBVIOUS
  <2>3. e \in pending /\ g \in Active' => Fits(g, e)'
    <3>1. g \in Active' => g \in Active /\ g \in Handles /\ g # h
      BY <1>8, <2>1, <2>2 DEF Active
    <3> QED
      BY <1>5, <1>6, <2>1, <2>2, <3>1 DEF Placed, Fits
  <2> QED
    BY <1>5, <1>8, <2>1, <2>2, <2>3 DEF Placed
<1>14. ASSUME NEW s \in Replicas
       PROVE  Gathered(s)'
  <2>1. CASE s = r
    <3>1. tick'[r].rows = GroupRows(r) /\ tick'[r].cur = h
      BY <1>5 DEF TakeUp, Typed, TypeOK, Tick
    <3>2. ASSUME NEW e \in Events, e \in GroupRows(r)
          PROVE  Fits(h, e)' /\ event[e].assigned \notin Active'
      <4>1. Fits(h, e)'
        BY <1>5, <1>6, <1>7, <1>9, <3>2 DEF Fits
      <4>2. event[e].assigned \notin Active
        BY <1>9, <1>10, <3>2 DEF Grouped, Placed, Fits
      <4>3. event[e].assigned # h
        BY <1>2, NamesAssumption DEF Grouped, Placed, Handles
      <4> QED
        BY <1>8, <4>1, <4>2, <4>3
    <3> QED
      BY <1>5, <1>9, <2>1, <3>1, <3>2 DEF Gathered
  <2>2. CASE s # r
    <3>1. tick'[s] = tick[s] /\ tick[s].pc = "idle"
      BY <1>5, <2>2 DEF TakeUp, Reserve, Deliverable, NextGroup, Backed, Exclusive, Typed, TypeOK
    <3> QED
      BY <3>1 DEF Gathered
  <2> QED
    BY <2>1, <2>2
<1>15. /\ \A g \in Opened' : ws'[g].rule \in Rules
       /\ \A g \in Handles : chat'[g].state # "none" => chat'[g].project = ws'[g].project
  <2>1. chat[h].state = "none"
    BY <1>2 DEF Opened, Backed, Tracked
  <2> QED
    BY <1>5, <1>6, <1>7, <1>8, <1>9, <2>1 DEF Grouped, Opened
<1> QED
  BY <1>5, <1>12, <1>13, <1>14, <1>15 DEF Grouped

LEMMA AdoptGrouped ==
  ASSUME Typed, Backed, Kept, Grouped, NEW r \in Replicas, Adopt(r)
  PROVE  Grouped'
<1>1. PICK h : h = WorkstreamFor(r)
  OBVIOUS
<1>2. PICK first : first = event[Head(r)]
  OBVIOUS
<1>3. /\ TakeUp(r, h) /\ h # None
      /\ ws' = ws /\ event' = event /\ chat' = chat /\ rule' = rule /\ pending' = pending
      /\ disposition' = disposition
  BY <1>1 DEF Adopt, database
<1>4. /\ h \in Active /\ ws[h].rule = first.rule /\ ws[h].project = first.project
      /\ rule[first.rule].by = "rule" \/ ws[h].source = KeySource(Head(r))
  BY <1>1, <1>2, <1>3, Found DEF WorkstreamFor
<1>5. /\ rule[first.rule].by = "rule" \/ KeySource(Head(r)) = first.host
      /\ \A e \in GroupRows(r) :
           /\ e \in Events /\ e \in pending
           /\ event[e].rule = first.rule /\ event[e].project = first.project
           /\ rule[first.rule].by = "rule" \/ event[e].host = first.host
  BY <1>2, GroupAgrees DEF Adopt, Deliverable
<1>6. ASSUME NEW e \in GroupRows(r)
      PROVE  /\ Fits(h, e)
             /\ event[e].assigned \in Active => event[e].assigned = h
  <2>1. Fits(h, e)
    BY <1>4, <1>5 DEF Fits
  <2>2. event[e].assigned \in Active => Fits(event[e].assigned, e)
    BY <1>5 DEF Grouped, Placed
  <2>3. rule[event[e].rule].by = "host" => rule[event[e].rule].by # "rule"
    OBVIOUS
  <2> QED
    BY <1>4, <2>1, <2>2, <2>3 DEF Grouped, Apart, Fits
<1>7. Active' = Active /\ Opened' = Opened /\ Created' = Created
  BY <1>3 DEF Active, Opened, Created
<1>8. tick'[r].rows = GroupRows(r) /\ tick'[r].cur = h
  BY <1>3 DEF TakeUp, Typed, TypeOK, Tick
<1>9. \A s \in Replicas : s # r => tick'[s] = tick[s]
  BY <1>3 DEF TakeUp, Typed, TypeOK
<1>10. ASSUME NEW s \in Replicas
       PROVE  Gathered(s)'
  <2>1. CASE s = r
    BY <1>3, <1>6, <1>7, <1>8, <2>1 DEF Gathered, Fits
  <2>2. CASE s # r
    BY <1>3, <1>7, <1>9, <2>2 DEF Grouped, Gathered, Fits
  <2> QED
    BY <2>1, <2>2
<1> QED
  BY <1>3, <1>7, <1>10 DEF Grouped, Apart, Placed, Fits

LEMMA AssignGrouped ==
  ASSUME Typed, Backed, Kept, Grouped, NEW r \in Replicas, Assign(r)
  PROVE  Grouped'
<1>1. PICK h \in Handles : h = tick[r].cur
  BY DEF Assign, Typed, CursorSet, InHand
<1>2. PICK S : S = tick[r].rows \cap pending
  OBVIOUS
<1>3. /\ event' = [e \in Events |-> IF e \in S THEN [event[e] EXCEPT !.assigned = h]
                                               ELSE event[e]]
      /\ ws' = ws /\ chat' = chat /\ rule' = rule /\ pending' = pending
      /\ disposition' = disposition
  BY <1>1, <1>2 DEF Assign
<1>4. /\ \A e \in Events : /\ event'[e].rule = event[e].rule
                           /\ event'[e].host = event[e].host
                           /\ event'[e].by = event[e].by
                           /\ event'[e].project = event[e].project
      /\ \A e \in Events : event'[e].assigned = IF e \in S THEN h ELSE event[e].assigned
  BY <1>3 DEF Typed, TypeOK, Event
<1>5. Active' = Active /\ Opened' = Opened /\ Created' = Created
  BY <1>3 DEF Active, Opened, Created
<1>6. h \in Active /\ h \in Opened
  BY <1>1 DEF Assign, Backed, Remembered, Active, Opened
<1>7. ASSUME NEW e \in Events
      PROVE  Placed(e)'
  <2>1. Placed(e)
    BY DEF Grouped
  <2>2. CASE e \in S
    <3>1. Fits(h, e) /\ e \in Created
      BY <1>1, <1>2, <2>2 DEF Assign, Grouped, Gathered, Kept, Settling, Created
    <3>2. Fits(h, e)'
      BY <1>3, <1>4, <3>1 DEF Fits
    <3>3. event'[e].assigned = h /\ e \in Created'
      BY <1>4, <1>5, <2>2, <3>1
    <3>4. event'[e].rule \in Rules /\ (event'[e].by = "host" \/ rule'[event'[e].rule].by = "rule")
      BY <1>3, <1>4, <2>1, <3>1 DEF Placed
    <3> QED
      BY <1>5, <1>6, <3>2, <3>3, <3>4 DEF Placed
  <2>3. CASE e \notin S
    BY <1>3, <1>4, <1>5, <2>1, <2>3 DEF Placed, Fits
  <2> QED
    BY <2>2, <2>3
<1>8. ASSUME NEW s \in Replicas
      PROVE  Gathered(s)'
  <2>1. CASE s = r
    <3>1. tick'[r].pc # "assign"
      BY DEF Assign, Typed, TypeOK, Tick
    <3> QED
      BY <2>1, <3>1 DEF Gathered
  <2>2. CASE s # r
    <3>1. tick'[s] = tick[s] /\ tick[s].pc = "idle"
      BY <2>2 DEF Assign, Backed, Exclusive, Typed, TypeOK
    <3> QED
      BY <3>1 DEF Gathered
  <2> QED
    BY <2>1, <2>2
<1> QED
  BY <1>3, <1>5, <1>7, <1>8 DEF Grouped, Apart

\* An inspection finds the chat in the project it was asked for.
LEMMA RecordFixed ==
  ASSUME Typed, Backed, Kept, Grouped, NEW r \in Replicas, RecordInspection(r)
  PROVE  Fixed
<1>1. PICK h \in Handles : h = tick[r].cur
  BY DEF RecordInspection, Typed, CursorSet, InHand
<1>2. PICK answer \in Answers : answer = tick[r].answer
  BY DEF Typed, TypeOK, Tick
<1>3. /\ \A g \in Handles : /\ ws'[g].rule = ws[g].rule
                            /\ ws'[g].source = ws[g].source
                            /\ g # h => ws'[g] = ws[g]
      /\ ws'[h].status = StatusAfter(ws[h].status, answer)
      /\ ws'[h].project = IF answer = "unknown" THEN ws[h].project ELSE chat[h].project
      /\ chat' = chat
  BY <1>1, <1>2 DEF RecordInspection, Typed, TypeOK, Workstream
<1>4. /\ ws[h].status \in Reached
      /\ answer \in {"closed", "undated", "live", "unloaded"} => chat[h].state # "none"
  BY <1>1, <1>2 DEF RecordInspection, Backed, Remembered
<1>5. Active' \subseteq Active /\ Opened' = Opened
  BY <1>3, <1>4 DEF Active, Opened, Reached, StatusAfter
<1>6. answer # "none"
  BY <1>2 DEF RecordInspection, Kept, Answered
<1> QED
  BY <1>2, <1>3, <1>4, <1>5, <1>6 DEF Grouped, Fixed, Answers

\* A rule or a target is deleted.
Removal ==
  \/ \E k \in Rules : DeleteRule(k)
  \/ \E S \in SUBSET Rules : DeleteTarget(S)

LEMMA FixedStep ==
  ASSUME Typed, Backed, Kept, Grouped, Members, [Next]_vars,
         ~\E r \in Replicas : Reserve(r), ~Removal
  PROVE  Fixed
<1>0. ws \in [Handles -> Workstream] /\ chat \in [Handles -> Chat]
  BY DEF Typed, TypeOK
<1>1. ASSUME NEW h \in Handles, CreateRequest(h) \in net, chat' = ChatCreated(h),
             \A g \in Handles : /\ ws'[g].rule = ws[g].rule
                                /\ ws'[g].source = ws[g].source
                                /\ ws'[g].project = ws[g].project
                                /\ g # h => ws'[g].status = ws[g].status,
             ws'[h].status \in Reached
      PROVE  Fixed
  <2>1. ws[h].status = "uncertain"
    BY <1>1 DEF Backed, CreateNotRepeated, CreateRequest
  <2>2. Active' \subseteq Active /\ Opened' = Opened
    BY <1>1, <2>1 DEF Active, Opened, Reached
  <2>3. ws[h].project \in KeptProjects \/ ws[h].project = NoProject
    BY <1>0 DEF Members, Workstream
  <2>4. /\ chat'[h].project = ws[h].project
        /\ \A g \in Handles : g # h => chat'[g] = chat[g]
    BY <1>0, <1>1, <2>3 DEF ChatCreated, Chat
  <2> QED
    BY <1>1, <2>2, <2>4 DEF Grouped, Fixed
<1>2. ASSUME NEW r \in Replicas, CreateAccepted(r)
      PROVE  Fixed
  <2>1. PICK h \in Handles : h = tick[r].cur
    BY <1>2 DEF CreateAccepted, Typed, CursorSet, InHand
  <2>2. CreateRequest(h) \in net /\ chat' = ChatCreated(h)
    BY <1>2, <2>1 DEF CreateAccepted
  <2>3. \A g \in Handles : /\ ws'[g].rule = ws[g].rule
                           /\ ws'[g].source = ws[g].source
                           /\ ws'[g].project = ws[g].project
                           /\ g # h => ws'[g].status = ws[g].status
    BY <1>0, <1>2, <2>1 DEF CreateAccepted, Workstream
  <2>4. ws'[h].status \in Reached
    BY <1>0, <1>2, <2>1 DEF CreateAccepted, Workstream, Reached
  <2> QED
    BY <1>1, <2>2, <2>3, <2>4
<1>3. ASSUME NEW q \in net, ServeLate(q)
      PROVE  Fixed
  <2>0. ws' = ws /\ Active' = Active /\ Opened' = Opened
    BY <1>3 DEF ServeLate, database, Active, Opened
  <2>1. CASE q.kind = "create" /\ chat[q.handle].state = "none"
    <3>1. q = CreateRequest(q.handle) /\ q.handle \in Handles
      BY <2>1 DEF Backed, Creates, Typed, TypeOK, Request
    <3>2. ws[q.handle].status \in Reached
      BY <2>1 DEF Backed, CreateNotRepeated, Reached
    <3> QED
      BY <1>1, <1>3, <2>0, <2>1, <3>1, <3>2 DEF ServeLate
  <2>2. CASE ~(q.kind = "create" /\ chat[q.handle].state = "none")
    <3>1. chat' = MessageTaken(q) \/ chat' = chat
      BY <1>3, <2>2 DEF ServeLate
    <3>2. \A g \in Handles : chat'[g].state = chat[g].state /\ chat'[g].project = chat[g].project
      BY <1>0, <3>1 DEF MessageTaken, Chat
    <3> QED
      BY <2>0, <3>2 DEF Grouped, Fixed
  <2> QED
    BY <2>1, <2>2
<1>4. ASSUME NEW r \in Replicas, Attempt(r) \/ CreateRefused(r)
      PROVE  Fixed
  <2>1. PICK h \in Handles : h = tick[r].cur
    BY <1>4 DEF Attempt, CreateRefused, Typed, CursorSet, InHand
  <2>2. ws[h].status \in {"opening", "uncertain"}
    <3>1. CASE Attempt(r)
      BY <2>1, <3>1 DEF Attempt, Backed, Remembered
    <3>2. CASE CreateRefused(r)
      <4>1. CreateRequest(h) \in net
        BY <2>1, <3>2 DEF CreateRefused, Backed, Remembered
      <4> QED
        BY <4>1 DEF Backed, CreateNotRepeated, CreateRequest
    <3> QED
      BY <1>4, <3>1, <3>2
  <2>3. /\ \A g \in Handles : /\ ws'[g].rule = ws[g].rule
                              /\ ws'[g].source = ws[g].source
                              /\ ws'[g].project = ws[g].project
                              /\ g # h => ws'[g].status = ws[g].status
        /\ ws'[h].status \in {"opening", "uncertain"}
        /\ chat' = chat
    BY <1>0, <1>4, <2>1 DEF Attempt, CreateRefused, Workstream
  <2>4. Active' = Active /\ Opened' = Opened
    BY <2>2, <2>3 DEF Active, Opened
  <2> QED
    BY <2>3, <2>4 DEF Grouped, Fixed
<1>5. ASSUME NEW r \in Replicas, FeedAccepted(r)
      PROVE  Fixed
  <2>1. /\ \A g \in Handles : /\ ws'[g].rule = ws[g].rule
                              /\ ws'[g].source = ws[g].source
                              /\ ws'[g].project = ws[g].project
                              /\ ws'[g].status = ws[g].status
        /\ \A g \in Handles : /\ chat'[g].state = chat[g].state
                              /\ chat'[g].project = chat[g].project
    BY <1>0, <1>5 DEF FeedAccepted, MessageTaken, Workstream, Chat
  <2>2. Active' = Active /\ Opened' = Opened
    BY <2>1 DEF Active, Opened
  <2> QED
    BY <2>1, <2>2 DEF Grouped, Fixed
<1>10. ASSUME NEW q \in net, Lose(q)
       PROVE  ws' = ws /\ chat' = chat
  BY <1>10 DEF Lose, database
<1>6. ASSUME NEW h \in Handles, CloseChat(h) \/ UnloadChat(h) \/ ReloadChat(h)
      PROVE  Fixed
  <2>1. /\ \A g \in Handles : /\ chat'[g].state # "none" => chat[g].state # "none"
                              /\ chat'[g].project = chat[g].project
        /\ ws' = ws
    BY <1>0, <1>6 DEF CloseChat, UnloadChat, ReloadChat, database, Chat
  <2>2. Active' = Active /\ Opened' = Opened
    BY <2>1 DEF Active, Opened
  <2> QED
    BY <2>1, <2>2 DEF Grouped, Fixed
<1>7. ASSUME NEW r \in Replicas,
             \/ \E due \in SUBSET Handles : BeginTick(r, due)
             \/ Crash(r) \/ PollRead(r) \/ DeliveryRead(r)
             \/ CancelDisabled(r) \/ ListGroups(r) \/ EndTick(r) \/ SkipGroup(r)
             \/ RefuseChangedProject(r) \/ WaitForCapacity(r) \/ Adopt(r) \/ Assign(r)
             \/ CreateUnknown(r) \/ HoldBack(r) \/ Throttle(r) \/ Send(r)
             \/ FeedRefused(r) \/ FeedUnknown(r)
      PROVE  ws' = ws /\ chat' = chat
  BY <1>7 DEF BeginTick, Crash, PollRead, DeliveryRead, Inspect, CancelDisabled,
              ListGroups, EndTick, SkipGroup, RefuseChangedProject, WaitForCapacity,
              Adopt, Assign, CreateUnknown, HoldBack, Throttle, Send, FeedRefused,
              FeedUnknown, database
<1>8. ASSUME \/ Collectors \/ \E e \in Events : Wake(e)
             \/ \E k \in Rules,
                   new \in [state : RuleStates, by : Groupings, project : Projects] :
                     EditRule(k, new)
             \/ UNCHANGED vars
      PROVE  ws' = ws /\ chat' = chat
  BY <1>8 DEF Collectors, Enqueue, Wake, EditRule, vars, database
<1>9. ASSUME ws' = ws, chat' = chat
      PROVE  Fixed
  BY <1>9 DEF Grouped, Fixed, Active, Opened
<1> QED
  BY <1>2, <1>3, <1>4, <1>5, <1>6, <1>7, <1>8, <1>9, <1>10, RecordFixed
     DEF Next, Scheduler, Operators, Turnstone, Removal

LEMMA UnmovedStep ==
  ASSUME Typed, Kept, RowsWait, [Next]_vars,
         ~Collectors, ~\E r \in Replicas : Assign(r), ~Removal
  PROVE  Unmoved
<1>1. ASSUME pending' \subseteq pending,
             \A e \in Events : disposition'[e] = "none" <=> disposition[e] = "none",
             \/ event' = event
             \/ \E rows, wait : event' = Deferred(rows, wait)
             \/ \A e \in Events : \E wait : event'[e] = [event[e] EXCEPT !.wait = wait]
      PROVE  Unmoved
  <2>1. Created' = Created
    BY <1>1 DEF Created
  <2>2. CASE \E rows, wait : event' = Deferred(rows, wait)
    BY <1>1, <2>1, <2>2, DeferredAssigned DEF Unmoved, Typed
  <2>3. CASE \A e \in Events : \E wait : event'[e] = [event[e] EXCEPT !.wait = wait]
    <3>1. \A e \in Events : event[e] \in Event
      BY DEF Typed, TypeOK
    <3> QED
      BY <1>1, <2>1, <2>3, <3>1 DEF Unmoved, Event
  <2> QED
    BY <1>1, <2>1, <2>2, <2>3 DEF Unmoved
<1>2. ASSUME NEW r \in Replicas,
             \/ RefuseChangedProject(r) \/ WaitForCapacity(r) \/ CreateRefused(r)
             \/ CreateUnknown(r) \/ HoldBack(r) \/ Throttle(r) \/ FeedRefused(r)
             \/ FeedUnknown(r)
      PROVE  Unmoved
  <2>1. \E rows, wait : event' = Deferred(rows, wait)
    BY <1>2 DEF RefuseChangedProject, WaitForCapacity, CreateRefused, CreateUnknown,
                HoldBack, Throttle, FeedRefused, FeedUnknown, GiveUp
  <2>2. pending' = pending /\ disposition' = disposition
    BY <1>2 DEF RefuseChangedProject, WaitForCapacity, CreateRefused, CreateUnknown,
                HoldBack, Throttle, FeedRefused, FeedUnknown
  <2> QED
    BY <1>1, <2>1, <2>2
<1>3. ASSUME \/ \E r \in Replicas :
                  (\E due \in SUBSET Handles : BeginTick(r, due)) \/ Crash(r)
             \/ \E e \in Events : Wake(e)
      PROVE  Unmoved
  <2>1. pending' = pending /\ disposition' = disposition
    BY <1>3 DEF BeginTick, Crash, Wake
  <2>2. \A e \in Events : \E wait : event'[e] = [event[e] EXCEPT !.wait = wait]
    <3>1. CASE \E r \in Replicas :
                 (\E due \in SUBSET Handles : BeginTick(r, due)) \/ Crash(r)
      BY <3>1 DEF BeginTick, Crash
    <3>2. CASE \E e \in Events : Wake(e)
      <4>1. \A e \in Events : event[e] = [event[e] EXCEPT !.wait = event[e].wait]
        BY DEF Typed, TypeOK, Event
      <4>2. PICK n \in Events : Wake(n)
        BY <3>2
      <4>3. \A e \in Events : e # n => event'[e] = event[e]
        BY <4>2 DEF Wake
      <4>4. event'[n] = [event[n] EXCEPT !.wait = "now"]
        BY <4>2 DEF Wake, Typed, TypeOK
      <4>5. ASSUME NEW e \in Events
            PROVE  \E wait : event'[e] = [event[e] EXCEPT !.wait = wait]
        <5>1. CASE e = n
          BY <4>4, <5>1
        <5>2. CASE e # n
          <6>1. event'[e] = [event[e] EXCEPT !.wait = event[e].wait]
            BY <4>1, <4>3, <5>2
          <6> QED
            BY <6>1
        <5> QED
          BY <5>1, <5>2
      <4> QED
        BY <4>5
    <3> QED
      BY <1>3, <3>1, <3>2
  <2> QED
    BY <1>1, <2>1, <2>2
<1>4. ASSUME NEW r \in Replicas,
             \/ PollRead(r) \/ DeliveryRead(r) \/ ListGroups(r) \/ EndTick(r)
             \/ SkipGroup(r) \/ Reserve(r) \/ Adopt(r) \/ Attempt(r)
             \/ CreateAccepted(r) \/ Send(r)
      PROVE  pending' = pending /\ disposition' = disposition /\ event' = event
  BY <1>4 DEF PollRead, DeliveryRead, Inspect, ListGroups, EndTick, SkipGroup,
              Reserve, Adopt, Attempt, CreateAccepted, Send, database
<1>5. ASSUME \/ Turnstone
             \/ \E k \in Rules,
                   new \in [state : RuleStates, by : Groupings, project : Projects] :
                     EditRule(k, new)
             \/ UNCHANGED vars
      PROVE  pending' = pending /\ disposition' = disposition /\ event' = event
  BY <1>5 DEF Turnstone, ServeLate, Lose, CloseChat, UnloadChat, ReloadChat, EditRule,
              vars, database
<1>6. ASSUME NEW r \in Replicas,
             RecordInspection(r) \/ CancelDisabled(r) \/ FeedAccepted(r)
      PROVE  Unmoved
  <2>1. pending' \subseteq pending /\ event' = event
    BY <1>6 DEF RecordInspection, CancelDisabled, FeedAccepted
  <2>2. \A e \in pending : disposition[e] = "queued"
    BY DEF Kept, Settling, Typed, TypeOK
  <2>3. \A e \in tick[r].rows : disposition[e] # "none"
    BY DEF RowsWait, Created
  <2>4. \A e \in Events : disposition'[e] = "none" <=> disposition[e] = "none"
    <3>1. CASE RecordInspection(r)
      BY <2>2, <3>1 DEF RecordInspection, ResolvedBy
    <3>2. CASE CancelDisabled(r)
      BY <2>2, <3>2 DEF CancelDisabled
    <3>3. CASE FeedAccepted(r)
      BY <2>3, <3>3 DEF FeedAccepted
    <3> QED
      BY <1>6, <3>1, <3>2, <3>3
  <2> QED
    BY <1>1, <2>1, <2>4
<1> QED
  BY <1>1, <1>2, <1>3, <1>4, <1>5, <1>6 DEF Next, Scheduler, Operators, Removal

LEMMA NotTakenStep ==
  ASSUME Typed, [Next]_vars, ~\E r \in Replicas : Reserve(r) \/ Adopt(r)
  PROVE  NotTaken
<1>0. tick \in [Replicas -> Tick]
  BY TickOfReplica
<1>1. ASSUME NEW r \in Replicas, NEW t, tick' = [tick EXCEPT ![r] = t], t.pc # "assign"
      PROVE  NotTaken
  BY <1>0, <1>1 DEF NotTaken
<1>2. ASSUME NEW r \in Replicas,
             \/ CreateRefused(r) \/ CreateUnknown(r) \/ HoldBack(r) \/ Throttle(r)
             \/ FeedAccepted(r) \/ FeedRefused(r) \/ FeedUnknown(r)
      PROVE  NotTaken
  <2>1. tick' = [tick EXCEPT ![r] = BackToLoop(tick[r])]
    BY <1>2 DEF CreateRefused, CreateUnknown, HoldBack, Throttle, FeedAccepted,
                FeedRefused, FeedUnknown, GiveUp
  <2>2. BackToLoop(tick[r]).pc # "assign"
    BY <1>0 DEF BackToLoop, Tick
  <2> QED
    BY <1>1, <2>1, <2>2
<1>3. ASSUME NEW r \in Replicas, EndTick(r) \/ Crash(r)
      PROVE  NotTaken
  <2>1. tick' = [tick EXCEPT ![r] = IdleTick]
    BY <1>3 DEF EndTick, Crash
  <2>2. IdleTick.pc # "assign"
    BY DEF IdleTick
  <2> QED
    BY <1>1, <2>1, <2>2
<1>4. ASSUME NEW r \in Replicas, RecordInspection(r)
      PROVE  NotTaken
  <2> DEFINE t == IF tick[r].rows = {}
                    THEN [tick[r] EXCEPT !.pc = "poll", !.cur = None, !.answer = "none"]
                    ELSE [tick[r] EXCEPT !.pc = "decide"]
  <2>1. tick' = [tick EXCEPT ![r] = t] /\ t.pc # "assign"
    BY <1>0, <1>4 DEF RecordInspection, Tick
  <2> HIDE DEF t
  <2> QED
    BY <1>1, <2>1
<1>5. ASSUME NEW r \in Replicas, PollRead(r) \/ DeliveryRead(r)
      PROVE  NotTaken
  <2>1. PICK h, answer : Inspect(r, h, answer)
    BY <1>5 DEF PollRead, DeliveryRead
  <2>2. tick'[r].pc = "inspected" /\ \A s \in Replicas : s # r => tick'[s] = tick[s]
    BY <1>0, <2>1 DEF Inspect, Tick
  <2> QED
    BY <2>2 DEF NotTaken
<1>6. ASSUME NEW r \in Replicas,
             \/ \E due \in SUBSET Handles : BeginTick(r, due)
             \/ CancelDisabled(r) \/ ListGroups(r) \/ SkipGroup(r)
             \/ RefuseChangedProject(r) \/ WaitForCapacity(r)
             \/ Assign(r) \/ Attempt(r) \/ CreateAccepted(r) \/ Send(r)
      PROVE  NotTaken
  <2>1. \A s \in Replicas : s # r => tick'[s] = tick[s]
    BY <1>0, <1>6 DEF BeginTick, CancelDisabled, ListGroups, SkipGroup,
                      RefuseChangedProject, WaitForCapacity, Assign, Attempt,
                      CreateAccepted, Send
  <2>2. tick'[r].pc # "assign"
    BY <1>0, <1>6 DEF BeginTick, CancelDisabled, ListGroups, SkipGroup,
                      RefuseChangedProject, WaitForCapacity, Deliverable, NextGroup,
                      Assign, Attempt, CreateAccepted, Send, Tick
  <2> QED
    BY <2>1, <2>2 DEF NotTaken
<1>7. ASSUME Collectors \/ Turnstone \/ Operators \/ (\E e \in Events : Wake(e))
             \/ UNCHANGED vars
      PROVE  tick' = tick
  BY <1>7 DEF Collectors, Enqueue, Turnstone, ServeLate, Lose, CloseChat, UnloadChat,
              ReloadChat, Operators, EditRule, DeleteRule, DeleteTarget, Wake, vars
<1>8. tick' = tick => NotTaken
  BY DEF NotTaken
<1> QED
  BY <1>2, <1>3, <1>4, <1>5, <1>6, <1>7, <1>8 DEF Next, Scheduler

\* Rules that are kept are not deleted, nor are their targets.
LEMMA KeptRules ==
  ASSUME Typed, Grouped, [Next]_vars, [RulesKept]_rule
  PROVE  RulesKept /\ ~Removal
<1>1. rule' = rule => RulesKept
  BY DEF RulesKept
<1>2. ASSUME NEW k \in Rules, DeleteRule(k), RulesKept
      PROVE  FALSE
  <2>1. rule'[k].state = "deleted"
    BY <1>2 DEF DeleteRule, Typed, TypeOK
  <2> QED
    BY <1>2, <2>1 DEF Grouped, RulesKept, Gone
<1>3. ASSUME NEW S \in SUBSET Rules, DeleteTarget(S), RulesKept
      PROVE  FALSE
  <2>1. PICK k \in S : TRUE
    BY <1>3 DEF DeleteTarget
  <2>2. rule'[k].state = "untargeted"
    BY <1>3 DEF DeleteTarget, Typed, TypeOK
  <2> QED
    BY <1>3, <2>2 DEF Grouped, RulesKept, Gone
<1> QED
  BY <1>1, <1>2, <1>3 DEF Removal

LEMMA GroupedStep ==
  ASSUME Typed, Backed, Kept, RowsWait, Grouped, Members, [Next]_vars, [RulesKept]_rule
  PROVE  Grouped'
<1>1. Typed' /\ RulesKept /\ ~Removal
  BY TypedStep, KeptRules
<1>2. CASE Collectors
  BY <1>1, <1>2, EnqueueGrouped DEF Collectors
<1>3. CASE \E r \in Replicas : Reserve(r) \/ Adopt(r) \/ Assign(r)
  BY <1>1, <1>3, ReserveGrouped, AdoptGrouped, AssignGrouped
<1>4. CASE ~Collectors /\ ~\E r \in Replicas : Reserve(r) \/ Adopt(r) \/ Assign(r)
  <2>1. Fixed /\ Unmoved /\ NotTaken
    BY <1>1, <1>4, FixedStep, UnmovedStep, NotTakenStep
  <2> QED
    BY <1>1, <2>1, GroupedStays
<1> QED
  BY <1>2, <1>3, <1>4

LEMMA GroupedInit ==
  ASSUME Init
  PROVE  Grouped
<1>1. Active = {} /\ Opened = {} /\ Created = {}
  BY DEF Init, Active, Opened, Created
<1> QED
  BY <1>1 DEF Init, Grouped, Gone, Apart, Placed, Gathered, IdleTick

LEMMA SameChatStep ==
  ASSUME Typed, Backed, Kept, RowsWait, Grouped, [Next]_vars, [RulesKept]_rule,
         NEW e \in Events, event[e].assigned # None,
         event'[e].assigned # event[e].assigned
  PROVE  ws[event[e].assigned].status = "closed"
<1>1. ~Unmoved
  BY DEF Unmoved
<1>2. PICK h : h = event[e].assigned
  OBVIOUS
<1>3. h \in Opened /\ e \in Created
  BY <1>2 DEF Grouped, Placed
<1>4. CASE Collectors
  <2>1. PICK k \in Rules, host \in Hosts, path \in Paths : Enqueue(k, host, path)
    BY <1>4 DEF Collectors
  <2>2. PICK n : n = LeastOf(Events \ Created)
    OBVIOUS
  <2>3. n \notin Created
    BY <2>1, <2>2, LeastEvent DEF Enqueue
  <2>4. event'[e] = event[e]
    BY <1>3, <2>1, <2>2, <2>3 DEF Enqueue, Typed, TypeOK
  <2> QED
    BY <2>4
<1>5. ASSUME NEW r \in Replicas, Assign(r)
      PROVE  ws[h].status = "closed"
  <2>1. e \in tick[r].rows \cap pending /\ event'[e].assigned = tick[r].cur
    BY <1>5 DEF Assign, Typed, TypeOK, Event
  <2>2. h \notin Active
    BY <1>2, <1>5, <2>1 DEF Assign, Grouped, Gathered
  <2> QED
    BY <1>3, <2>2 DEF Active, Opened
<1> QED
  BY <1>1, <1>2, <1>4, <1>5, KeptRules, UnmovedStep

LEMMA GroupedAlways ==
  ASSUME Members
  PROVE  Spec /\ [][RulesKept]_rule => [](Typed /\ Backed /\ Kept /\ RowsWait /\ Grouped)
<1>1. Init => Typed /\ Backed /\ Kept /\ RowsWait /\ Grouped
  <2>1. Init => RowsWait
    BY DEF Init, RowsWait, IdleTick
  <2> QED
    BY <2>1, TypedInit, BackedInit, KeptInit, GroupedInit
<1>2. Typed /\ Backed /\ Kept /\ RowsWait /\ Grouped /\ [Next]_vars /\ [RulesKept]_rule =>
        Typed' /\ Backed' /\ Kept' /\ RowsWait' /\ Grouped'
  BY TypedStep, BackedStep, KeptStep, RowsStep, GroupedStep
<1> QED
  BY <1>1, <1>2, PTL DEF Spec

\* While no rule is regrouped, no rule and no target is deleted, and the owners
\* are members of their projects, the unclosed workstreams of a rule differ in their host or their
\* project: a storm of one group is one chat (agent_queue.py:173-179, 243-266).
THEOREM OneChat ==
  ASSUME Members
  PROVE  Spec /\ [][RulesKept]_rule => []OneChatPerGroup
<1>1. Grouped => OneChatPerGroup
  BY DEF Grouped, Apart, OneChatPerGroup
<1> QED
  BY <1>1, GroupedAlways, PTL

\* Under the same conditions a retry goes to the chat of the first attempt:
\* an event changes workstreams only when the one it was assigned to is
\* closed (agent_queue.py:5-9).
THEOREM RetriesStay ==
  ASSUME Members
  PROVE  Spec /\ [][RulesKept]_rule => SameChat
<1>1. Typed /\ Backed /\ Kept /\ RowsWait /\ Grouped /\ [Next]_vars /\ [RulesKept]_rule =>
        [\A e \in Events :
           /\ event[e].assigned # None
           /\ event'[e].assigned # event[e].assigned
           => ws[event[e].assigned].status = "closed"]_vars
  BY SameChatStep
<1> QED
  BY <1>1, GroupedAlways, PTL DEF Spec, SameChat
=============================================================================
