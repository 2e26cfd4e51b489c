------------------------- MODULE CoordinatorProofs --------------------------
(***************************************************************************)
(* Proofs about Coordinator for every number of collectors, firings and    *)
(* faults: types, that no firing is dropped in silence, that the history   *)
(* does not overstate, and the rate of pushes.                             *)
(***************************************************************************)
EXTENDS Coordinator, SetLemmas, FiniteSetTheorems, TLAPS

-----------------------------------------------------------------------------
(* The inductive invariant.                                                *)

Busy(f) == task[f].pc \notin {"new", "done", "lost"}

\* The lock of a collector is held by its one task that is under way.
Locked ==
  /\ \A f \in Firings : Busy(f) => /\ task[f].at \in Collectors
                                   /\ holder[task[f].at] = f
  /\ \A c \in Collectors : holder[c] # 0 => Busy(holder[c]) /\ task[holder[c]].at = c

\* What the history and the channel know of a firing, by the step of its task.
Told(f) ==
  /\ task[f].pc \in {"new", "start", "open", "feed"} =>
       task[f].result = None /\ records[f] = {} /\ pushed[f] = "no"
  /\ task[f].pc \in {"upsert", "bump", "fallback", "record", "mark"} =>
       task[f].result # None
  /\ task[f].result \in {"opened", "fed"} \/ records[f] \cap {"opened", "fed"} # {} =>
       pushed[f] = "heard"
  /\ task[f].pc = "mark" => records[f] # {}
  /\ task[f].pc = "errorRecord" /\ topic => pushed[f] # "no"
  /\ task[f].pc = "done" /\ topic => records[f] # {} \/ pushed[f] # "no"

Heard == {f \in Firings : pushed[f] = "heard"}

\* Collectors whose task will push next, whatever the throttle says now, and
\* those whose task has pushed, but has not closed the throttle yet.
Pushing == {c \in Collectors : holder[c] # 0 /\ task[holder[c]].pc \in {"open", "feed"}}
Sent(f) ==
  task[f].pc = "upsert" \/ (task[f].pc = "bump" /\ task[f].result # "throttled")
Closing == {c \in Collectors : holder[c] # 0 /\ Sent(holder[c])}

\* The throttle.  While it is open, each push heard is still to close it; once
\* it is closed, only those who looked before can push.
Throttled ==
  ~ruleGone =>
    /\ \A f \in Firings :
         task[f].pc = "feed" \/ (task[f].pc = "bump" /\ task[f].result # "throttled")
           => incident.row
    /\ incident.fed => incident.live /\ incident.row
    /\ IF incident.fed
       THEN recent + Cardinality(Pushing) <= Cardinality(Collectors) + faults
       ELSE recent <= Cardinality(Closing) + faults

Handled ==
  /\ TypeOK /\ Locked
  /\ \A f \in Firings : Told(f)
  /\ recent <= Cardinality(Heard)
  /\ Throttled

-----------------------------------------------------------------------------
(* Tasks and the lock.                                                     *)

Task == [pc : Steps, at : Collectors \cup {None}, result : Dispositions \cup {None}]

\* What a step of one task leaves of the others, and when it lets go.
Alone(f) ==
  /\ task' \in [Firings -> Task]
  /\ \A g \in Firings \ {f} : /\ task'[g] = task[g] /\ pushed'[g] = pushed[g]
                              /\ records'[g] = records[g]
  /\ task'[f].at = task[f].at
  /\ Busy(f) /\ task'[f].pc \notin {"new", "start", "lost"}
  /\ holder' = IF task'[f].pc = "done" THEN [holder EXCEPT ![task[f].at] = 0] ELSE holder
  /\ pushed' \in [Firings -> {"no", "tried", "heard"}]
  /\ records' \in [Firings -> SUBSET Dispositions]
  /\ UNCHANGED <<setting, ruleGone>>
  /\ faults' \in {faults, faults + 1} /\ faults' <= MaxFaults

LEMMA GotoEffect ==
  ASSUME TypeOK, NEW f \in Firings, NEW pc \in Steps, Goto(f, pc)
  PROVE  /\ task' \in [Firings -> Task]
         /\ task'[f].pc = pc /\ task'[f].at = task[f].at /\ task'[f].result = task[f].result
         /\ \A g \in Firings \ {f} : task'[g] = task[g]
<1>1. task \in [Firings -> Task]
  BY DEF TypeOK, Task
<1>2. task' = [task EXCEPT ![f] = [task[f] EXCEPT !.pc = pc]]
  BY <1>1 DEF Goto, Task
<1> QED
  BY <1>1, <1>2 DEF Task

LEMMA ThenEffect ==
  ASSUME TypeOK, NEW f \in Firings, NEW pc \in Steps, NEW result \in Dispositions,
         Then(f, pc, result)
  PROVE  /\ task' \in [Firings -> Task]
         /\ task'[f].pc = pc /\ task'[f].at = task[f].at /\ task'[f].result = result
         /\ \A g \in Firings \ {f} : task'[g] = task[g]
<1>1. task \in [Firings -> Task]
  BY DEF TypeOK, Task
<1>2. task' = [task EXCEPT ![f] = [task[f] EXCEPT !.pc = pc, !.result = result]]
  BY <1>1 DEF Then, Task
<1> QED
  BY <1>1, <1>2 DEF Task

LEMMA FaultEffect ==
  ASSUME TypeOK, Fault \/ NoFault
  PROVE  faults' \in {faults, faults + 1} /\ faults' <= MaxFaults
BY CoordinatorAssumption DEF TypeOK, Fault, NoFault

LEMMA StepAlone ==
  ASSUME TypeOK, NEW f \in Firings, Told(f), Step(f)
  PROVE  Alone(f)
<1> USE DEF At, Steps, Dispositions
<1>1. CASE HandOver(f)
  BY <1>1, GotoEffect, FaultEffect
     DEF HandOver, Release, Alone, Busy, TypeOK, setting, pushes, NoFault
<1>2. CASE NoDispatcher(f)
  BY <1>2, ThenEffect, FaultEffect
     DEF NoDispatcher, Alone, Busy, TypeOK, setting, pushes, NoFault
<1>3. CASE LookUp(f)
  BY <1>3, GotoEffect, ThenEffect, FaultEffect
     DEF LookUp, Alone, Busy, TypeOK, setting, pushes, NoFault
<1>4. ASSUME NEW ok \in BOOLEAN, Push(f, ok),
             UNCHANGED <<setting, ruleGone, incident, holder, records>>
      PROVE  Alone(f)
  <2>1. /\ Fault \/ NoFault
        /\ pushed' \in [Firings -> {"no", "tried", "heard"}]
        /\ \A g \in Firings \ {f} : pushed'[g] = pushed[g]
    BY <1>4 DEF Push, Post, TypeOK
  <2>2. /\ task' \in [Firings -> Task] /\ task'[f].at = task[f].at
        /\ Busy(f) /\ task'[f].pc \in {"upsert", "fallback", "bump"}
        /\ \A g \in Firings \ {f} : task'[g] = task[g]
    BY <1>4, ThenEffect DEF Push, Busy
  <2> QED
    BY <1>4, <2>1, <2>2, FaultEffect DEF Alone, TypeOK
<1>5. ASSUME FallbackPush(f)
      PROVE  /\ pushed' \in [Firings -> {"no", "tried", "heard"}]
             /\ \A g \in Firings \ {f} : pushed'[g] = pushed[g]
  BY <1>5 DEF FallbackPush, pushes, TypeOK
<1>6. CASE Fallback(f) \/ HandleError(f)
  BY <1>5, <1>6, GotoEffect, FaultEffect
     DEF Fallback, HandleError, ErrorPush, Alone, Busy, TypeOK, NoFault
<1>7. CASE Upsert(f) \/ Bump(f)
  BY <1>7, GotoEffect, FaultEffect
     DEF Upsert, Bump, Alone, Busy, TypeOK, setting, pushes, NoFault
<1>8. CASE Record(f)
  <2>1. /\ records' \in [Firings -> SUBSET Dispositions]
        /\ \A g \in Firings \ {f} : records'[g] = records[g]
    BY <1>8 DEF Record, TypeOK, Told
  <2>2. Fault \/ NoFault
    BY <1>8 DEF Record
  <2>3. \/ Goto(f, "mark") /\ UNCHANGED holder
        \/ Goto(f, "done") /\ Release(f)
        \/ Goto(f, "errorPush") /\ UNCHANGED holder
    BY <1>8 DEF Record
  <2> QED
    BY <1>8, <2>1, <2>2, <2>3, GotoEffect, FaultEffect
       DEF Record, Release, Alone, Busy, TypeOK, setting, pushes
<1>9. CASE MarkFired(f)
  BY <1>9, GotoEffect, FaultEffect
     DEF MarkFired, Release, Alone, Busy, TypeOK, setting, pushes, NoFault
<1>10. CASE StatementFails(f)
  <2>1. (Fault \/ NoFault) /\ Busy(f)
    BY <1>10 DEF StatementFails, Busy
  <2> QED
    BY <1>10, <2>1, GotoEffect, FaultEffect
       DEF StatementFails, Alone, TypeOK, setting, pushes
<1>11. CASE RecordError(f)
  <2>1. Fault \/ NoFault
    BY <1>11 DEF RecordError
  <2>2. /\ records' \in [Firings -> SUBSET Dispositions]
        /\ \A g \in Firings \ {f} : records'[g] = records[g]
    BY <1>11 DEF RecordError, TypeOK
  <2> QED
    BY <1>11, <2>1, <2>2, GotoEffect, FaultEffect
       DEF RecordError, Release, Alone, Busy, TypeOK, setting, pushes
<1> QED
  BY <1>1, <1>2, <1>3, <1>4, <1>6, <1>7, <1>8, <1>9, <1>10, <1>11 DEF Step, Pushed

LEMMA LockedStep ==
  ASSUME TypeOK, Locked, NEW f \in Firings, Alone(f)
  PROVE  Locked'
<1>1. f # 0 /\ 0 \notin Firings
  BY DEF Firings
<1>2. task[f].at \in Collectors /\ holder[task[f].at] = f
  BY DEF Locked, Alone
<1>3. ASSUME NEW g \in Firings, Busy(g)'
      PROVE  task'[g].at \in Collectors /\ holder'[task'[g].at] = g
  <2>1. CASE g = f
    BY <1>2, <1>3, <2>1 DEF Alone, Busy
  <2>2. CASE g # f
    <3>1. Busy(g) /\ task'[g] = task[g]
      BY <1>3, <2>2 DEF Alone, Busy
    <3>2. task[g].at # task[f].at
      BY <1>2, <2>2, <3>1 DEF Locked
    <3> QED
      BY <3>1, <3>2 DEF Locked, Alone, TypeOK
  <2> QED
    BY <2>1, <2>2
<1>4. ASSUME NEW c \in Collectors, holder'[c] # 0
      PROVE  Busy(holder[c])' /\ task'[holder'[c]].at = c
  <2>1. holder'[c] = holder[c]
    BY <1>2, <1>4 DEF Alone, TypeOK
  <2>2. holder[c] \in Firings /\ Busy(holder[c]) /\ task[holder[c]].at = c
    BY <1>4, <2>1 DEF Locked, TypeOK, Firings
  <2>3. CASE holder[c] = f
    <3>1. task'[f].pc # "done"
      BY <1>1, <1>2, <1>4, <2>2, <2>3 DEF Alone, TypeOK
    <3> QED
      BY <2>1, <2>2, <2>3, <3>1 DEF Alone, Busy
  <2>4. CASE holder[c] # f
    BY <2>1, <2>2, <2>4 DEF Alone, Busy
  <2> QED
    BY <2>3, <2>4
<1> QED
  BY <1>3, <1>4 DEF Locked

\* The holders of locks are tasks under way, of their collectors.
LEMMA HoldersTyped ==
  ASSUME Locked, holder \in [Collectors -> 0 .. NumFirings], NEW c \in Collectors, holder[c] # 0
  PROVE  holder[c] \in Firings /\ task[holder[c]].at = c /\ ~At(holder[c], "done")
BY DEF Locked, Firings, Busy, At

-----------------------------------------------------------------------------
(* The history.                                                            *)

LEMMA ToldOthers ==
  ASSUME NEW f \in Firings, Alone(f), \A g \in Firings : Told(g)
  PROVE  \A g \in Firings \ {f} : Told(g)'
<1> SUFFICES ASSUME NEW g \in Firings \ {f}
             PROVE  Told(g)'
  OBVIOUS
<1>1. task'[g] = task[g] /\ pushed'[g] = pushed[g] /\ records'[g] = records[g] /\ topic' = topic
  BY DEF Alone, setting
<1> QED
  BY <1>1 DEF Told

LEMMA FallbackTells ==
  ASSUME TypeOK, NEW f \in Firings, FallbackPush(f)
  PROVE  /\ pushed[f] = "heard" => pushed'[f] = "heard"
         /\ topic => pushed'[f] # "no"
         /\ recent' = recent
BY DEF FallbackPush, TypeOK, pushes

LEMMA ToldSelf ==
  ASSUME TypeOK, NEW f \in Firings, Told(f), Step(f)
  PROVE  Told(f)'
<1> USE DEF At, Steps, Dispositions, Told
<1>1. CASE HandOver(f)
  BY <1>1, GotoEffect DEF HandOver, TypeOK, setting, pushes, None
<1>2. CASE NoDispatcher(f)
  BY <1>2, ThenEffect DEF NoDispatcher, TypeOK, setting, pushes, None
<1>3. CASE LookUp(f)
  BY <1>3, GotoEffect, ThenEffect DEF LookUp, TypeOK, setting, pushes, None
<1>4. ASSUME NEW ok \in BOOLEAN, Push(f, ok),
             UNCHANGED <<setting, ruleGone, incident, holder, records>>
      PROVE  Told(f)'
  <2>1. pushed'[f] \in {"tried", "heard"} /\ (ok => pushed'[f] = "heard")
    BY <1>4 DEF Push, Post, TypeOK
  <2>2. /\ task'[f].pc \in {"upsert", "fallback", "bump"}
        /\ task'[f].result \in Dispositions
        /\ task'[f].result \in {"opened", "fed"} => ok
    BY <1>4, ThenEffect DEF Push
  <2>3. records[f] = {}
    BY <1>4 DEF Push
  <2> QED
    BY <1>4, <2>1, <2>2, <2>3 DEF None
<1>5. CASE Fallback(f)
  BY <1>5, GotoEffect, FallbackTells DEF Fallback, setting
<1>6. CASE Upsert(f) \/ Bump(f)
  BY <1>6, GotoEffect DEF Upsert, Bump, setting, pushes
<1>7. CASE Record(f)
  <2>1. records'[f] = records[f] \cup {task[f].result} /\ task[f].result \in Dispositions
    BY <1>7 DEF Record, TypeOK
  <2>2. task'[f].pc \in {"mark", "done", "errorPush"} /\ task'[f].result = task[f].result
    BY <1>7, GotoEffect DEF Record
  <2> QED
    BY <1>7, <2>1, <2>2 DEF Record, setting, pushes
<1>8. CASE MarkFired(f)
  BY <1>8, GotoEffect DEF MarkFired, setting, pushes
<1>9. CASE StatementFails(f)
  BY <1>9, GotoEffect DEF StatementFails, setting, pushes
<1>10. CASE HandleError(f)
  BY <1>10, GotoEffect, FallbackTells DEF HandleError, ErrorPush, setting
<1>11. CASE RecordError(f)
  <2>1. records'[f] \subseteq records[f] \cup {"error"}
    BY <1>11 DEF RecordError, TypeOK
  <2> QED
    BY <1>11, <2>1, GotoEffect DEF RecordError, setting, pushes
<1> QED
  BY <1>1, <1>2, <1>3, <1>4, <1>5, <1>6, <1>7, <1>8, <1>9, <1>10, <1>11 DEF Step, Pushed

-----------------------------------------------------------------------------
(* The pushes heard.                                                       *)

LEMMA FiniteFirings == IsFiniteSet(Firings) /\ Cardinality(Firings) = NumFirings
BY FS_Interval, CoordinatorAssumption DEF Firings

LEMMA HeardFinite ==
  IsFiniteSet(Heard) /\ Cardinality(Heard) \in 0 .. NumFirings
<1>1. Heard \subseteq Firings
  BY DEF Heard
<1> QED
  BY <1>1, FiniteFirings, FS_Subset, FS_CardinalityType, CoordinatorAssumption

\* No firing is heard twice, so that there are no more pushes than firings.
LEMMA HeardStep ==
  ASSUME TypeOK, \A g \in Firings : Told(g), recent <= Cardinality(Heard),
         NEW f \in Firings, Step(f)
  PROVE  recent' <= Cardinality(Heard') /\ recent' \in Nat
<1>1. recent \in Nat
  BY DEF TypeOK
<1>2. Alone(f) /\ Told(f)
  BY StepAlone
<1>3. CASE recent' = recent /\ (pushed[f] = "heard" => pushed'[f] = "heard")
  <2>1. Heard \subseteq Heard'
    BY <1>2, <1>3 DEF Heard, Alone
  <2>2. IsFiniteSet(Heard')
    <3>1. Heard' \subseteq Firings
      BY DEF Heard
    <3> QED
      BY <3>1, FiniteFirings, FS_Subset
  <2>3. Cardinality(Heard) <= Cardinality(Heard')
    BY <2>1, <2>2, FS_Subset
  <2>4. Cardinality(Heard) \in Nat /\ Cardinality(Heard') \in Nat
    BY <2>2, HeardFinite, FS_CardinalityType
  <2> QED
    BY <1>1, <1>3, <2>3, <2>4
<1>4. CASE recent' = recent + 1 /\ pushed[f] = "no" /\ pushed'[f] = "heard"
  <2>1. Heard' = Heard \cup {f} /\ f \notin Heard
    BY <1>2, <1>4 DEF Heard, Alone
  <2>2. Cardinality(Heard') = Cardinality(Heard) + 1 /\ Cardinality(Heard) \in Nat
    BY <2>1, HeardFinite, FS_AddElement, FS_CardinalityType
  <2> QED
    BY <1>1, <1>4, <2>2
<1>5. ASSUME NEW ok \in BOOLEAN, Push(f, ok)
      PROVE  \/ recent' = recent /\ pushed[f] = "no"
             \/ recent' = recent + 1 /\ pushed[f] = "no" /\ pushed'[f] = "heard"
  BY <1>1, <1>2, <1>5 DEF Push, Post, At, Told, TypeOK
<1>6. CASE Pushed(f)
  BY <1>3, <1>4, <1>5, <1>6 DEF Pushed
<1>7. CASE Fallback(f) \/ HandleError(f)
  BY <1>3, <1>7, FallbackTells DEF Fallback, HandleError, ErrorPush
<1>8. CASE UNCHANGED pushes
  BY <1>3, <1>8 DEF pushes
<1> QED
  BY <1>6, <1>7, <1>8
     DEF Step, HandOver, NoDispatcher, LookUp, Upsert, Bump, Record, MarkFired,
         StatementFails, RecordError

-----------------------------------------------------------------------------
(* The throttle.                                                           *)

LEMMA FiniteCollectors ==
  /\ IsFiniteSet(Pushing) /\ IsFiniteSet(Closing)
  /\ Cardinality(Collectors) \in Nat
  /\ Cardinality(Pushing) \in Nat /\ Cardinality(Closing) \in Nat
  /\ Cardinality(Pushing) + Cardinality(Closing) <= Cardinality(Collectors)
<1>1. Pushing \subseteq Collectors /\ Closing \subseteq Collectors
  BY DEF Pushing, Closing
<1>2. Pushing \cap Closing = {}
  BY DEF Pushing, Closing, Sent
<1>3. IsFiniteSet(Collectors) /\ IsFiniteSet(Pushing) /\ IsFiniteSet(Closing)
  BY <1>1, CoordinatorAssumption, FS_Subset
<1>4. Cardinality(Pushing \cup Closing) = Cardinality(Pushing) + Cardinality(Closing)
  BY <1>2, <1>3, DisjointUnion
<1>5. Cardinality(Pushing \cup Closing) <= Cardinality(Collectors)
  BY <1>1, <1>3, FS_Subset
<1> QED
  BY <1>3, <1>4, <1>5, FS_CardinalityType

\* The collector of a task is counted by what its task does; the others stay.
LEMMA Counts ==
  ASSUME TypeOK, Locked, NEW f \in Firings, Alone(f)
  PROVE  \E p, q \in Nat :
           /\ p + q + 1 <= Cardinality(Collectors)
           /\ Cardinality(Pushing) = p + (IF task[f].pc \in {"open", "feed"} THEN 1 ELSE 0)
           /\ Cardinality(Closing) = q + (IF Sent(f) THEN 1 ELSE 0)
           /\ Cardinality(Pushing') = p + (IF task'[f].pc \in {"open", "feed"} THEN 1 ELSE 0)
           /\ Cardinality(Closing') = q + (IF Sent(f)' THEN 1 ELSE 0)
<1> DEFINE c == task[f].at
           P == Pushing \ {c}
           Q == Closing \ {c}
<1>1. c \in Collectors /\ holder[c] = f /\ f # 0
  BY DEF Alone, Locked, Firings
<1>2. \A d \in Collectors \ {c} :
        /\ holder'[d] = holder[d]
        /\ holder[d] # 0 => holder[d] \in Firings \ {f}
  BY <1>1 DEF Alone, Locked, TypeOK, Firings
<1>3. \A d \in Collectors \ {c} : holder[d] # 0 => task'[holder'[d]] = task[holder[d]]
  BY <1>2 DEF Alone
<1>4. holder'[c] = (IF task'[f].pc = "done" THEN 0 ELSE f)
  BY <1>1 DEF Alone, TypeOK
<1>5. Pushing' \ {c} = P /\ Closing' \ {c} = Q
  BY <1>2, <1>3 DEF Pushing, Closing, Sent
<1>6. /\ c \in Pushing <=> task[f].pc \in {"open", "feed"}
      /\ c \in Closing <=> Sent(f)
      /\ c \in Pushing' <=> task'[f].pc \in {"open", "feed"}
      /\ c \in Closing' <=> Sent(f)'
  BY <1>1, <1>4 DEF Pushing, Closing, Sent
<1>7. IsFiniteSet(Collectors) /\ IsFiniteSet(Pushing') /\ IsFiniteSet(Closing')
  <2>1. Pushing' \subseteq Collectors /\ Closing' \subseteq Collectors
    BY DEF Pushing, Closing
  <2> QED
    BY <2>1, CoordinatorAssumption, FS_Subset
<1>8. Cardinality(P) + Cardinality(Q) + 1 <= Cardinality(Collectors)
  <2>1. P \subseteq Collectors \ {c} /\ Q \subseteq Collectors \ {c} /\ P \cap Q = {}
    BY DEF Pushing, Closing, Sent
  <2>2. IsFiniteSet(P) /\ IsFiniteSet(Q) /\ IsFiniteSet(Collectors \ {c})
    BY <1>7, FiniteCollectors, CountWithout
  <2>3. Cardinality(P \cup Q) = Cardinality(P) + Cardinality(Q)
    BY <2>1, <2>2, DisjointUnion
  <2>4. Cardinality(P \cup Q) <= Cardinality(Collectors \ {c})
    BY <2>1, <2>2, FS_Subset
  <2>5. Cardinality(Collectors) = Cardinality(Collectors \ {c}) + 1
    BY <1>1, <1>7, CountWithout
  <2> QED
    BY <2>2, <2>3, <2>4, <2>5, FS_CardinalityType
<1>9. /\ Cardinality(P) \in Nat /\ Cardinality(Q) \in Nat
      /\ Cardinality(Pushing) = Cardinality(P) + (IF c \in Pushing THEN 1 ELSE 0)
      /\ Cardinality(Closing) = Cardinality(Q) + (IF c \in Closing THEN 1 ELSE 0)
      /\ Cardinality(Pushing') = Cardinality(P) + (IF c \in Pushing' THEN 1 ELSE 0)
      /\ Cardinality(Closing') = Cardinality(Q) + (IF c \in Closing' THEN 1 ELSE 0)
  <2>1. /\ Cardinality(P) \in Nat /\ Cardinality(Q) \in Nat
        /\ Cardinality(Pushing) = Cardinality(P) + (IF c \in Pushing THEN 1 ELSE 0)
        /\ Cardinality(Closing) = Cardinality(Q) + (IF c \in Closing THEN 1 ELSE 0)
    BY FiniteCollectors, CountWithout
  <2>2. /\ Cardinality(Pushing') = Cardinality(Pushing' \ {c}) + (IF c \in Pushing' THEN 1 ELSE 0)
        /\ Cardinality(Closing') = Cardinality(Closing' \ {c}) + (IF c \in Closing' THEN 1 ELSE 0)
    BY <1>7, CountWithout
  <2> HIDE DEF P, Q, c
  <2> QED
    BY <2>1, <2>2, <1>5
<1> HIDE DEF P, Q, c
<1> QED
  BY <1>6, <1>8, <1>9

\* The incident is typed, and once there it stays.
LEMMA IncidentStep ==
  ASSUME TypeOK, NEW f \in Firings, Step(f)
  PROVE  /\ incident' \in [row : BOOLEAN, live : BOOLEAN, fed : BOOLEAN]
         /\ incident.row => incident'.row
         /\ Upsert(f) => incident'.row /\ incident'.live /\ incident'.fed
         /\ Bump(f) => /\ incident'.row = incident.row /\ incident'.live = incident.row
                       /\ incident'.fed <=>
                            incident.row /\ (incident.fed \/ task[f].result # "throttled")
<1>1. incident \in [row : BOOLEAN, live : BOOLEAN, fed : BOOLEAN]
  BY DEF TypeOK
<1>2. ASSUME Upsert(f)
      PROVE  /\ incident' \in [row : BOOLEAN, live : BOOLEAN, fed : BOOLEAN]
             /\ incident'.row /\ incident'.live /\ incident'.fed
  BY <1>2 DEF Upsert
<1>3. ASSUME Bump(f)
      PROVE  /\ incident' \in [row : BOOLEAN, live : BOOLEAN, fed : BOOLEAN]
             /\ incident'.row = incident.row /\ incident'.live = incident.row
             /\ incident'.fed <=> incident.row /\ (incident.fed \/ task[f].result # "throttled")
  <2> DEFINE closed == incident.row /\ (incident.fed \/ task[f].result # "throttled")
  <2>1. incident' = [incident EXCEPT !.live = incident.row, !.fed = closed]
    BY <1>3 DEF Bump
  <2>2. closed \in BOOLEAN
    OBVIOUS
  <2>3. incident'.fed = closed
    <3> HIDE DEF closed
    <3> QED
      BY <1>1, <2>1, <2>2
  <2>4. /\ incident' \in [row : BOOLEAN, live : BOOLEAN, fed : BOOLEAN]
        /\ incident'.row = incident.row /\ incident'.live = incident.row
    <3> HIDE DEF closed
    <3> QED
      BY <1>1, <2>1, <2>2
  <2> QED
    BY <2>3, <2>4
<1>4. Upsert(f) \/ Bump(f) \/ UNCHANGED incident
  BY DEF Step, HandOver, NoDispatcher, LookUp, Pushed, Fallback, Record, MarkFired,
         StatementFails, HandleError, RecordError
<1>5. /\ incident' \in [row : BOOLEAN, live : BOOLEAN, fed : BOOLEAN]
      /\ incident.row => incident'.row
  <2>1. CASE Upsert(f)
    BY <1>2, <2>1
  <2>2. CASE Bump(f)
    BY <1>3, <2>2
  <2>3. CASE incident' = incident
    BY <1>1, <2>3
  <2> QED
    BY <1>4, <2>1, <2>2, <2>3
<1> QED
  BY <1>2, <1>3, <1>5, Zenon

LEMMA ThrottledStep ==
  ASSUME TypeOK, Locked, NEW f \in Firings, Told(f), Throttled, Step(f)
  PROVE  Throttled'
<1> USE DEF At, Steps, Dispositions
<1> DEFINE Owed(g) == task[g].pc = "feed" \/ (task[g].pc = "bump" /\ task[g].result # "throttled")
           Rate == IF incident.fed
                   THEN recent + Cardinality(Pushing) <= Cardinality(Collectors) + faults
                   ELSE recent <= Cardinality(Closing) + faults
           Good == /\ Owed(f) => incident.row
                   /\ incident.fed => incident.live /\ incident.row
                   /\ Rate
<1>1. Alone(f)
  BY StepAlone
<1> SUFFICES ASSUME ~ruleGone
             PROVE  Good'
  <2>1. ruleGone' = ruleGone
    BY <1>1 DEF Alone
  <2>2. ASSUME NEW g \in Firings \ {f}, ~ruleGone, Owed(g)'
        PROVE  incident'.row
    BY <1>1, <2>2, IncidentStep DEF Alone, Throttled
  <2> QED
    BY <2>1, <2>2 DEF Throttled
<1>2. Good
  BY DEF Throttled
<1>3. PICK p \in Nat, q \in Nat :
        /\ p + q + 1 <= Cardinality(Collectors)
        /\ Cardinality(Pushing) = p + (IF task[f].pc \in {"open", "feed"} THEN 1 ELSE 0)
        /\ Cardinality(Closing) = q + (IF Sent(f) THEN 1 ELSE 0)
        /\ Cardinality(Pushing') = p + (IF task'[f].pc \in {"open", "feed"} THEN 1 ELSE 0)
        /\ Cardinality(Closing') = q + (IF Sent(f)' THEN 1 ELSE 0)
  BY <1>1, Counts
<1>4. recent \in Nat /\ faults \in Nat /\ Cardinality(Collectors) \in Nat
  BY FiniteCollectors, CoordinatorAssumption DEF TypeOK
<1>5. incident \in [row : BOOLEAN, live : BOOLEAN, fed : BOOLEAN]
  BY DEF TypeOK
\* A push: the collector leaves those that push, and if it was heard without
\* a fault it enters those that are to close the throttle.
<1>6. ASSUME NEW ok \in BOOLEAN, Push(f, ok), incident' = incident
      PROVE  Good'
  <2>1. /\ recent' \in {recent, recent + 1} /\ faults' \in {faults, faults + 1}
        /\ faults' = faults + 1 \/ ok \/ recent' = recent
    BY <1>4, <1>6 DEF Push, Post, Fault, NoFault
  <2>2. /\ task[f].pc \in {"open", "feed"} /\ task'[f].pc \notin {"open", "feed"}
        /\ task'[f].pc = "bump" => task[f].pc = "feed"
        /\ ok => Sent(f)'
        /\ ~Sent(f)
    BY <1>6, ThenEffect DEF Push, Sent
  <2>3. (Owed(f) => incident.row)' /\ (incident.fed => incident.live /\ incident.row)'
    BY <1>2, <1>6, <2>2
  <2>4. Cardinality(Pushing) = p + 1 /\ Cardinality(Closing) = q /\ Cardinality(Pushing') = p
    BY <1>3, <2>2
  <2>5. /\ Cardinality(Closing') = q \/ Cardinality(Closing') = q + 1
        /\ ok => Cardinality(Closing') = q + 1
    BY <1>3, <2>2
  <2>6. CASE incident.fed
    <3>1. recent + p + 1 <= Cardinality(Collectors) + faults
      BY <1>2, <1>3, <1>4, <2>4, <2>6
    <3>2. recent' + p <= Cardinality(Collectors) + faults'
      BY <1>3, <1>4, <2>1, <3>1
    <3> QED
      BY <1>6, <2>3, <2>4, <2>6, <3>2
  <2>7. CASE ~incident.fed
    <3>1. recent <= q + faults
      BY <1>2, <2>4, <2>7
    <3>2. recent' <= Cardinality(Closing') + faults'
      <4>1. CASE faults' = faults + 1
        BY <1>3, <1>4, <2>1, <2>5, <3>1, <4>1
      <4>2. CASE ok /\ faults' = faults
        BY <1>3, <1>4, <2>1, <2>5, <3>1, <4>2
      <4>3. CASE recent' = recent
        <5>1. faults' \in Nat /\ faults <= faults'
          BY <1>4, <2>1
        <5>2. Cardinality(Closing') \in Nat /\ q <= Cardinality(Closing')
          BY <1>3, <2>5
        <5>3. q \in Nat /\ faults \in Nat /\ recent \in Nat
          BY <1>4
        <5>4. q + faults <= Cardinality(Closing') + faults'
          BY <5>1, <5>2, <5>3
        <5> QED
          BY <3>1, <4>3, <5>1, <5>2, <5>3, <5>4
      <4> QED
        BY <2>1, <4>1, <4>2, <4>3
    <3> QED
      BY <1>6, <2>3, <2>7, <3>2
  <2> QED
    BY <2>6, <2>7
\* The throttle is looked at: whoever is to push saw it open.
<1>7. CASE LookUp(f)
  <2>1. recent' = recent /\ faults' = faults /\ task[f].pc = "start" /\ incident' = incident
    BY <1>7 DEF LookUp, pushes
  <2>2. /\ task'[f].pc \in {"bump", "open", "feed"}
        /\ task'[f].pc = "bump" => task'[f].result = "throttled"
        /\ task'[f].pc = "feed" => incident.row /\ ~incident.fed
        /\ task'[f].pc = "open" => ~(incident.row /\ incident.live)
    BY <1>7, GotoEffect, ThenEffect DEF LookUp
  <2>3. ~Sent(f) /\ ~Sent(f)'
    BY <2>1, <2>2 DEF Sent
  <2>4. task'[f].pc \in {"open", "feed"} => ~incident.fed
    BY <1>2, <2>2
  <2>5. Rate'
    BY <1>2, <1>3, <1>4, <2>1, <2>3, <2>4
  <2> QED
    BY <1>2, <2>1, <2>2, <2>5
\* The throttle is closed: by then each collector counts for at most one.
<1>8. CASE Upsert(f) \/ Bump(f)
  <2>1. recent' = recent /\ faults' = faults
    BY <1>8 DEF Upsert, Bump, pushes
  <2>2. task'[f].pc = "record" /\ task[f].pc \in {"upsert", "bump"}
    BY <1>8, GotoEffect DEF Upsert, Bump
  <2>3. ~Sent(f)' /\ Cardinality(Pushing) = p /\ Cardinality(Pushing') = p /\ Cardinality(Closing') = q
    BY <1>3, <2>2 DEF Sent
  <2>4. CASE incident'.fed
    BY <1>2, <1>3, <1>4, <1>8, <2>1, <2>2, <2>3, <2>4, IncidentStep DEF Sent
  <2>5. CASE ~incident'.fed
    <3>1. ~Upsert(f) /\ Bump(f)
      BY <1>8, <2>5, IncidentStep
    <3>2. task[f].pc = "bump"
      BY <3>1 DEF Bump
    <3>3. ~incident.fed /\ ~Sent(f)
      BY <1>2, <2>5, <3>1, <3>2, IncidentStep DEF Sent
    <3>4. recent <= q + faults
      BY <1>2, <1>3, <3>3
    <3>5. Rate'
      BY <2>1, <2>3, <2>5, <3>4
    <3> QED
      BY <2>2, <2>5, <3>5
  <2> QED
    BY <2>4, <2>5
\* Only a fault takes from a task the duty to close it.
<1>9. ASSUME incident' = incident, recent' = recent,
             task[f].pc \notin {"open", "feed"} \/ faults' = faults + 1,
             task'[f].pc \notin {"open", "feed", "bump"}, ~Sent(f)',
             ~Sent(f) \/ faults' = faults + 1
      PROVE  Good'
  <2>1. faults' \in {faults, faults + 1}
    BY <1>1 DEF Alone
  <2>2. Rate'
    BY <1>2, <1>3, <1>4, <1>9, <2>1
  <2> QED
    BY <1>2, <1>9, <2>2
<1>10. CASE HandOver(f) \/ NoDispatcher(f) \/ Fallback(f) \/ HandleError(f) \/ MarkFired(f)
  <2>1. recent' = recent
    BY <1>10, FallbackTells
       DEF HandOver, NoDispatcher, Fallback, HandleError, ErrorPush, MarkFired, pushes
  <2>2. task[f].pc \notin {"open", "feed", "upsert", "bump"}
    BY <1>10 DEF HandOver, NoDispatcher, Fallback, HandleError, MarkFired
  <2>3. task'[f].pc \notin {"open", "feed", "upsert", "bump"}
    BY <1>10, GotoEffect, ThenEffect DEF HandOver, NoDispatcher, Fallback, HandleError, MarkFired
  <2> QED
    BY <1>9, <1>10, <2>1, <2>2, <2>3
       DEF HandOver, NoDispatcher, Fallback, HandleError, MarkFired, Sent
<1>11. CASE Record(f) \/ RecordError(f)
  <2>1. recent' = recent /\ incident' = incident
    BY <1>11 DEF Record, RecordError, pushes
  <2>2. task[f].pc \notin {"open", "feed", "upsert", "bump"}
    BY <1>11 DEF Record, RecordError
  <2>3. task'[f].pc \notin {"open", "feed", "upsert", "bump"}
    BY <1>11, GotoEffect DEF Record, RecordError
  <2> QED
    BY <1>9, <2>1, <2>2, <2>3 DEF Sent
<1>12. CASE StatementFails(f)
  <2>1. recent' = recent /\ incident' = incident /\ task'[f].pc = "errorPush"
    BY <1>12, GotoEffect DEF StatementFails, pushes
  <2>2. faults' = faults + 1
    BY <1>12 DEF StatementFails, Fault
  <2> QED
    BY <1>9, <2>1, <2>2 DEF Sent
<1> QED
  BY <1>6, <1>7, <1>8, <1>10, <1>11, <1>12 DEF Step, Pushed

-----------------------------------------------------------------------------
(* The other actions.                                                      *)

LEMMA BeginStep ==
  ASSUME Handled, NEW f \in Firings, NEW c \in Collectors, Begin(f, c)
  PROVE  Handled'
<1> USE DEF At, Steps, Dispositions
<1>1. /\ task \in [Firings -> Task] /\ holder \in [Collectors -> 0 .. NumFirings]
      /\ f \in 1 .. NumFirings /\ f # 0
  BY DEF Handled, TypeOK, Task, Firings
<1>2. /\ task' \in [Firings -> Task]
      /\ task'[f].pc = "start" /\ task'[f].at = c /\ task'[f].result = task[f].result
      /\ \A g \in Firings \ {f} : task'[g] = task[g]
  <2>1. task' = [task EXCEPT ![f] = [task[f] EXCEPT !.pc = "start", !.at = c]]
    BY <1>1 DEF Begin, Task
  <2> QED
    BY <1>1, <2>1 DEF Task
<1>3. /\ task[f].pc = "new" /\ holder[c] = 0 /\ holder' = [holder EXCEPT ![c] = f]
      /\ UNCHANGED <<kind, topic, ruleGone, incident, pushed, recent, records, faults>>
  BY DEF Begin, LockFree, setting, pushes
<1>4. Locked'
  <2>1. ASSUME NEW g \in Firings, Busy(g)'
        PROVE  task'[g].at \in Collectors /\ holder'[task'[g].at] = g
    <3>1. CASE g = f
      BY <1>1, <1>2, <1>3, <3>1
    <3>2. CASE g # f
      <4>1. task'[g] = task[g] /\ Busy(g) /\ task[g].at \in Collectors /\ holder[task[g].at] = g
        BY <1>2, <2>1, <3>2 DEF Handled, Locked, Busy
      <4>2. task[g].at # c
        BY <1>1, <1>3, <4>1 DEF Firings
      <4> QED
        BY <1>1, <1>3, <4>1, <4>2
    <3> QED
      BY <3>1, <3>2
  <2>2. ASSUME NEW d \in Collectors, holder'[d] # 0
        PROVE  Busy(holder[d])' /\ task'[holder'[d]].at = d
    <3>1. CASE d = c
      BY <1>1, <1>2, <1>3, <3>1 DEF Busy
    <3>2. CASE d # c
      <4>1. holder'[d] = holder[d] /\ holder[d] \in Firings /\ Busy(holder[d]) /\ task[holder[d]].at = d
        BY <1>1, <1>3, <2>2, <3>2 DEF Handled, Locked, Firings
      <4> QED
        BY <1>2, <1>3, <4>1 DEF Busy
    <3> QED
      BY <3>1, <3>2
  <2> QED
    BY <2>1, <2>2 DEF Locked
<1>5. TypeOK'
  <2>1. holder' \in [Collectors -> 0 .. NumFirings]
    BY <1>1, <1>3
  <2>2. \A d \in Collectors : holder'[d] # 0 =>
          task'[holder'[d]].at = d /\ task'[holder'[d]].pc # "done"
    BY <1>4 DEF Locked, Busy
  <2> QED
    BY <1>2, <1>3, <2>1, <2>2 DEF Handled, TypeOK, Task
<1>6. ASSUME NEW g \in Firings
      PROVE  Told(g)'
  BY <1>2, <1>3 DEF Handled, Told
<1>7. Heard' = Heard
  BY <1>3 DEF Heard
<1>8. Pushing' = Pushing /\ Closing' = Closing
  <2>1. \A d \in Collectors \ {c} : holder'[d] = holder[d] /\ (holder[d] # 0 => holder[d] \in Firings \ {f})
    BY <1>1, <1>3 DEF Handled, Locked, Busy, Firings
  <2>2. \A d \in Collectors \ {c} : holder[d] # 0 => task'[holder'[d]] = task[holder[d]]
    BY <1>2, <2>1
  <2>3. c \notin Pushing /\ c \notin Closing /\ c \notin Pushing' /\ c \notin Closing'
    BY <1>1, <1>2, <1>3 DEF Pushing, Closing, Sent
  <2> QED
    BY <2>1, <2>2, <2>3 DEF Pushing, Closing, Sent
<1>9. Throttled'
  BY <1>2, <1>3, <1>8 DEF Handled, Throttled
<1> QED
  BY <1>3, <1>4, <1>5, <1>6, <1>7, <1>9 DEF Handled

LEMMA CrashStep ==
  ASSUME Handled, NEW c \in Collectors, Crash(c)
  PROVE  Handled'
<1> USE DEF At, Steps, Dispositions
<1>1. /\ task \in [Firings -> Task] /\ holder \in [Collectors -> 0 .. NumFirings]
      /\ \A f \in Firings : f # 0
      /\ recent \in Nat /\ faults \in Nat /\ faults' = faults + 1 /\ faults' <= MaxFaults
  BY CoordinatorAssumption DEF Handled, TypeOK, Task, Firings, Crash, Fault
<1>2. /\ task' \in [Firings -> Task]
      /\ \A f \in Firings :
           /\ task'[f].at = task[f].at /\ task'[f].result = task[f].result
           /\ IF task[f].at = c /\ task[f].pc # "done" THEN task'[f].pc = "lost"
              ELSE task'[f] = task[f]
  BY <1>1 DEF Crash, Task
<1>3. /\ holder' = [holder EXCEPT ![c] = 0]
      /\ UNCHANGED <<kind, topic, ruleGone, incident, pushed, recent, records>>
  BY DEF Crash, setting, pushes
<1>4. \A d \in Collectors \ {c} :
        /\ holder'[d] = holder[d]
        /\ holder[d] # 0 => holder[d] \in Firings /\ task'[holder'[d]] = task[holder[d]]
  BY <1>1, <1>2, <1>3 DEF Handled, Locked, Firings
<1>5. Locked'
  <2>1. ASSUME NEW g \in Firings, Busy(g)'
        PROVE  task'[g].at \in Collectors /\ holder'[task'[g].at] = g
    <3>1. task'[g] = task[g] /\ Busy(g) /\ task[g].at # c
      BY <1>2, <2>1 DEF Busy
    <3> QED
      BY <1>4, <3>1 DEF Handled, Locked
  <2>2. ASSUME NEW d \in Collectors, holder'[d] # 0
        PROVE  Busy(holder[d])' /\ task'[holder'[d]].at = d
    BY <1>1, <1>3, <1>4, <2>2 DEF Handled, Locked, Busy
  <2> QED
    BY <2>1, <2>2 DEF Locked
<1>6. TypeOK'
  <2>1. holder' \in [Collectors -> 0 .. NumFirings]
    BY <1>1, <1>3, CoordinatorAssumption
  <2>2. \A d \in Collectors : holder'[d] # 0 =>
          task'[holder'[d]].at = d /\ task'[holder'[d]].pc # "done"
    BY <1>5 DEF Locked, Busy
  <2>3. faults' \in 0 .. MaxFaults
    BY <1>1, CoordinatorAssumption
  <2> QED
    BY <1>2, <1>3, <2>1, <2>2, <2>3 DEF Handled, TypeOK, Task
<1>7. ASSUME NEW g \in Firings
      PROVE  Told(g)'
  BY <1>2, <1>3 DEF Handled, Told
<1>8. Heard' = Heard
  BY <1>3 DEF Heard
<1>9. Pushing' = Pushing \ {c} /\ Closing' = Closing \ {c}
  <2>1. c \notin Pushing' /\ c \notin Closing'
    BY <1>1, <1>3 DEF Pushing, Closing
  <2> QED
    BY <1>4, <2>1 DEF Pushing, Closing, Sent
<1>10. Throttled'
  <2> SUFFICES ASSUME ~ruleGone
               PROVE  Throttled'
    BY <1>3 DEF Throttled
  <2>1. /\ Cardinality(Pushing') \in Nat /\ Cardinality(Closing') \in Nat
        /\ Cardinality(Pushing') <= Cardinality(Pushing)
        /\ Cardinality(Closing) <= Cardinality(Closing') + 1
    <3>1. /\ Cardinality(Pushing \ {c}) \in Nat /\ Cardinality(Closing \ {c}) \in Nat
          /\ Cardinality(Pushing) = Cardinality(Pushing \ {c}) + (IF c \in Pushing THEN 1 ELSE 0)
          /\ Cardinality(Closing) = Cardinality(Closing \ {c}) + (IF c \in Closing THEN 1 ELSE 0)
      BY FiniteCollectors, CountWithout
    <3> QED
      BY <1>9, <3>1
  <2>2. /\ Cardinality(Pushing) \in Nat /\ Cardinality(Closing) \in Nat
        /\ Cardinality(Collectors) \in Nat
    BY FiniteCollectors
  <2>3. \A f \in Firings :
          task'[f].pc = "feed" \/ (task'[f].pc = "bump" /\ task'[f].result # "throttled")
            => incident.row
    BY <1>2 DEF Handled, Throttled
  <2>4. CASE incident.fed
    <3>1. recent + Cardinality(Pushing) <= Cardinality(Collectors) + faults
      BY <2>4 DEF Handled, Throttled
    <3>2. recent + Cardinality(Pushing') <= Cardinality(Collectors) + faults'
      BY <1>1, <2>1, <2>2, <3>1
    <3> QED
      BY <1>3, <2>3, <2>4, <3>2 DEF Handled, Throttled
  <2>5. CASE ~incident.fed
    <3>1. recent <= Cardinality(Closing) + faults
      BY <2>5 DEF Handled, Throttled
    <3>2. recent <= Cardinality(Closing') + faults'
      BY <1>1, <2>1, <2>2, <3>1
    <3> QED
      BY <1>3, <2>3, <2>5, <3>2 DEF Handled, Throttled
  <2> QED
    BY <2>4, <2>5
<1> QED
  BY <1>3, <1>5, <1>6, <1>7, <1>8, <1>10 DEF Handled

\* Time passes, or the rule is deleted: no task and no lock is touched.
LEMMA OutsideStep ==
  ASSUME Handled, Cool \/ Expire \/ DeleteRule \/ UNCHANGED vars
  PROVE  Handled'
<1>1. /\ UNCHANGED <<kind, topic, holder, task, pushed, records, faults>>
      /\ recent' \in {0, recent} /\ ruleGone' \in BOOLEAN
  BY DEF Cool, Expire, DeleteRule, vars, setting, pushes, Handled, TypeOK
<1>2. incident' \in [row : BOOLEAN, live : BOOLEAN, fed : BOOLEAN]
  <2>1. incident \in [row : BOOLEAN, live : BOOLEAN, fed : BOOLEAN]
    BY DEF Handled, TypeOK
  <2>2. CASE Cool
    BY <2>1, <2>2 DEF Cool
  <2>3. CASE Expire
    BY <2>1, <2>3 DEF Expire
  <2>4. CASE DeleteRule
    BY <2>4 DEF DeleteRule, NoIncident
  <2>5. CASE UNCHANGED vars
    BY <2>1, <2>5 DEF vars
  <2> QED
    BY <2>2, <2>3, <2>4, <2>5
<1>3. TypeOK'
  BY <1>1, <1>2, CoordinatorAssumption DEF Handled, TypeOK, At
<1>4. Locked' /\ \A f \in Firings : Told(f)'
  BY <1>1 DEF Handled, Locked, Told, Busy
<1>5. recent' <= Cardinality(Heard')
  <2>1. Heard' = Heard
    BY <1>1 DEF Heard
  <2> QED
    BY <1>1, <2>1, HeardFinite DEF Handled
<1>6. Throttled'
  <2>1. Pushing' = Pushing /\ Closing' = Closing
    BY <1>1 DEF Pushing, Closing, Sent
  <2>2. CASE Cool \/ Expire
    <3>1. /\ recent' = 0 /\ ruleGone' = ruleGone
          /\ ~incident'.fed /\ incident'.row = incident.row
      BY <2>2 DEF Cool, Expire, Handled, TypeOK
    <3>2. recent' <= Cardinality(Closing') + faults'
      BY <1>1, <2>1, <3>1, FiniteCollectors, CoordinatorAssumption DEF Handled, TypeOK
    <3> QED
      BY <1>1, <3>1, <3>2 DEF Handled, Throttled
  <2>3. CASE DeleteRule
    BY <2>3 DEF DeleteRule, Throttled
  <2>4. CASE UNCHANGED vars
    BY <1>1, <2>1, <2>4 DEF vars, pushes, Handled, Throttled
  <2> QED
    BY <2>2, <2>3, <2>4
<1> QED
  BY <1>3, <1>4, <1>5, <1>6 DEF Handled

LEMMA HandledInit == Init => Handled
<1> SUFFICES ASSUME Init
             PROVE  Handled
  OBVIOUS
<1> USE DEF At, Steps, Dispositions
<1>1. TypeOK
  <2>1. kind \in {"ntfy", "agent", "unknown"} /\ topic \in BOOLEAN /\ ruleGone \in BOOLEAN
    BY DEF Init
  <2>2. incident \in [row : BOOLEAN, live : BOOLEAN, fed : BOOLEAN]
    BY DEF Init, NoIncident
  <2>3. holder \in [Collectors -> 0 .. NumFirings] /\ \A c \in Collectors : holder[c] = 0
    BY CoordinatorAssumption DEF Init
  <2>4. task \in [Firings -> [pc : Steps, at : Collectors \cup {None},
                             result : Dispositions \cup {None}]]
    BY DEF Init
  <2>5. /\ pushed \in [Firings -> {"no", "tried", "heard"}]
        /\ records \in [Firings -> SUBSET Dispositions]
        /\ recent \in 0 .. NumFirings /\ faults \in 0 .. MaxFaults
    BY CoordinatorAssumption DEF Init
  <2> QED
    BY <2>1, <2>2, <2>3, <2>4, <2>5 DEF TypeOK
<1>2. Locked /\ \A f \in Firings : Told(f)
  BY DEF Init, Locked, Told, Busy, None
<1>3. recent <= Cardinality(Heard)
  BY HeardFinite DEF Init
<1>4. Throttled
  <2>1. recent <= Cardinality(Closing) + faults
    BY FiniteCollectors DEF Init
  <2> QED
    BY <2>1 DEF Init, Throttled, NoIncident
<1> QED
  BY <1>1, <1>2, <1>3, <1>4 DEF Handled

LEMMA HandledStep == Handled /\ [Next]_vars => Handled'
<1> SUFFICES ASSUME Handled, [Next]_vars
             PROVE  Handled'
  OBVIOUS
<1>1. ASSUME NEW f \in Firings, Step(f)
      PROVE  Handled'
  <2>1. Alone(f) /\ Locked' /\ Told(f)'
    BY <1>1, StepAlone, LockedStep, ToldSelf DEF Handled
  <2>2. \A g \in Firings : Told(g)'
    BY <2>1, ToldOthers DEF Handled
  <2>3. recent' <= Cardinality(Heard') /\ recent' \in 0 .. NumFirings
    <3>1. Cardinality(Heard') \in 0 .. NumFirings
      <4>1. Heard' \subseteq Firings
        BY DEF Heard
      <4> QED
        BY <4>1, FiniteFirings, FS_Subset, FS_CardinalityType, CoordinatorAssumption
    <3>2. recent' \in Nat /\ recent' <= Cardinality(Heard')
      BY <1>1, HeardStep DEF Handled
    <3> QED
      BY <3>1, <3>2, CoordinatorAssumption
  <2>4. TypeOK'
    <3>1. holder' \in [Collectors -> 0 .. NumFirings]
      <4>1. 0 \in 0 .. NumFirings /\ holder \in [Collectors -> 0 .. NumFirings]
        BY CoordinatorAssumption DEF Handled, TypeOK
      <4> QED
        BY <2>1, <4>1 DEF Alone
    <3>2. \A c \in Collectors : holder'[c] # 0 =>
            task'[holder'[c]].at = c /\ task'[holder'[c]].pc # "done"
      BY <2>1 DEF Locked, Busy
    <3>3. faults' \in 0 .. MaxFaults
      BY <2>1, CoordinatorAssumption DEF Alone, Handled, TypeOK
    <3> QED
      BY <1>1, <2>1, <2>3, <3>1, <3>2, <3>3, IncidentStep
         DEF Alone, Handled, TypeOK, At, Task, setting
  <2>5. Throttled'
    BY <1>1, ThrottledStep DEF Handled
  <2> QED
    BY <2>1, <2>2, <2>3, <2>4, <2>5 DEF Handled
<1> QED
  BY <1>1, BeginStep, CrashStep, OutsideStep DEF Next

LEMMA HandledAlways == Spec => []Handled
BY HandledInit, HandledStep, PTL DEF Spec

-----------------------------------------------------------------------------
(* The theorems.                                                           *)

\* Every reachable state is typed; in particular a lock that is taken belongs
\* to a task of that collector which has not ended (incidents.py, handle).
THEOREM TypeCorrect == Spec => []TypeOK
BY HandledAlways, PTL DEF Handled

\* With a fallback topic, no firing whose task has ended is without a trace:
\* every way out of handle and of its except clause passes a record or a push.
THEOREM FiringsTraced == Spec => []NoSilentDrop
<1>1. Handled => NoSilentDrop
  BY DEF Handled, Told, NoSilentDrop, At
<1> QED
  BY <1>1, HandledAlways, PTL

\* What _record writes as opened or fed was accepted by the channel first, for
\* every interleaving, error and crash.
THEOREM HistoryTrue == Spec => []NotifiedWasHeard
<1>1. Handled => NotifiedWasHeard
  BY DEF Handled, Told, NotifiedWasHeard
<1> QED
  BY <1>1, HandledAlways, PTL

\* Between two moments at which the throttle of _dispatch_locked opens, the
\* channel hears at most one push of each collector and one for each fault.
THEOREM RateHolds == Spec => []PushRate
<1>1. ASSUME Handled
      PROVE  PushRate
  <2> SUFFICES ASSUME ~ruleGone
               PROVE  recent <= Cardinality(Collectors) + faults
    BY DEF PushRate
  <2>1. recent \in Nat /\ faults \in Nat
    BY <1>1, CoordinatorAssumption DEF Handled, TypeOK
  <2>2. CASE incident.fed
    BY <1>1, <2>1, <2>2, FiniteCollectors DEF Handled, Throttled
  <2>3. CASE ~incident.fed
    <3>1. recent <= Cardinality(Closing) + faults
      BY <1>1, <2>3 DEF Handled, Throttled
    <3>2. Cardinality(Closing) \in Nat /\ Cardinality(Closing) <= Cardinality(Collectors)
      BY FiniteCollectors
    <3> QED
      BY <2>1, <3>1, <3>2, FiniteCollectors
  <2> QED
    BY <2>2, <2>3
<1> QED
  BY <1>1, HandledAlways, PTL
=============================================================================
