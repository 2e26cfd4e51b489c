-------------------------------- MODULE WebUi --------------------------------
(***************************************************************************)
(* The web UI (webui.py): server-side sessions that a keepalive refreshes  *)
(* with the identity provider (Entra, external), and the live stream, which *)
(* sends the latest rows, then what comes, and looks at its session now    *)
(* and then.  Every await is a step boundary, and the handlers of several  *)
(* browser tabs, which share a cookie, interleave.                         *)
(***************************************************************************)
EXTENDS Integers, Sequences, FiniteSets, SequencesExt

CONSTANTS
  Sids,          \* sessions, each created by one login
  Tabs,          \* browser tabs that send keepalives
  Viewers,       \* those of them that show the stream
  Shown,         \* ids of the rows that are kept and match the stream's query
  Writers,       \* transactions on the stream's table that are open at once
  BackLimit, TailLimit,   \* rows of the backfill and of one poll
  RecheckEvery,  \* polls between two looks at the session
  MaxRows, MaxTokens, MaxRoles, MaxFaults,
  None

ASSUME WebAssumption ==
  /\ IsFiniteSet(Sids) /\ IsFiniteSet(Tabs) /\ Viewers \subseteq Tabs
  /\ Writers \in Nat \ {0} /\ BackLimit \in Nat \ {0} /\ TailLimit \in Nat \ {0} /\ RecheckEvery \in Nat \ {0}
  /\ {MaxRows, MaxTokens, MaxRoles, MaxFaults} \subseteq Nat
  /\ Shown \subseteq 1 .. MaxRows /\ None \notin Sids

VARIABLES
  row,      \* webui_sessions: none | live | over (past its end) | revoked | pruned
  due,      \* sessions whose access token is about to expire
  token,    \* the refresh token that the row holds
  cookie,   \* the browser's session
  ka,       \* each tab's keepalive request
  admin,    \* Entra: whether the operator has the role
  issued, spent,   \* Entra: refresh tokens given out, and replaced
  excused,  \* history: sessions that have a reason to be revoked
  events,   \* the newest id of the stream's table
  open,     \* ids given out by transactions that have not ended
  late,     \* history: ids that became visible after a higher one
  stream,   \* each viewer's stream
  overdue,  \* history: polls of the stream since its session ended
  roles, faults

session == <<row, due, token, cookie>>
entra == <<admin, issued, spent, roles>>
keep == <<ka, excused>>
table == <<events, open, late>>
tail == <<stream, overdue>>
vars == <<session, entra, keep, table, tail, faults>>

Idle == [pc |-> "idle", sid |-> None, tok |-> 0]
Off == [pc |-> "off", sid |-> None, cursor |-> 0, sent |-> <<>>, recheck |-> 0]

TypeOK ==
  /\ row \in [Sids -> {"none", "live", "over", "revoked", "pruned"}]
  /\ due \cup excused \subseteq Sids
  /\ token \in [Sids -> 0 .. MaxTokens] /\ cookie \in Sids \cup {None}
  /\ \A b \in Tabs : /\ ka[b].pc \in {"idle", "redeem", "store", "revoke"}
                     /\ ka[b].sid \in Sids \cup {None} /\ ka[b].tok \in 0 .. MaxTokens
  /\ admin \in BOOLEAN /\ issued \in 0 .. MaxTokens /\ spent \subseteq 1 .. issued
  /\ events \in 0 .. MaxRows /\ open \cup late \subseteq 1 .. events
  /\ \A b \in Viewers : /\ stream[b].pc \in {"off", "backfill", "tick", "fetch"}
                        /\ stream[b].sent \in Seq(Shown)
                        /\ stream[b].recheck \in 0 .. RecheckEvery - 1
  /\ roles \in 0 .. MaxRoles /\ faults \in 0 .. MaxFaults

Init ==
  /\ row = [s \in Sids |-> "none"] /\ due = {}
  /\ token = [s \in Sids |-> 0] /\ cookie = None
  /\ ka = [b \in Tabs |-> Idle] /\ admin = TRUE /\ issued = 0 /\ spent = {}
  /\ excused = {} /\ events = 0 /\ open = {} /\ late = {}
  /\ stream = [b \in Viewers |-> Off] /\ overdue = [b \in Viewers |-> 0]
  /\ roles = 0 /\ faults = 0

Fault == faults < MaxFaults /\ faults' = faults + 1

\* _load_session; access_exp is no part of it.
Alive(s) == s # None /\ row[s] = "live"

-----------------------------------------------------------------------------
(* Sessions.                                                               *)

\* callback: the role is in the token, and nobody knows the sid before the row
\* is there.
Login(s) ==
  /\ row[s] = "none" /\ admin /\ issued < MaxTokens
  /\ row' = [row EXCEPT ![s] = "live"] /\ cookie' = s
  /\ issued' = issued + 1 /\ token' = [token EXCEPT ![s] = issued + 1]
  /\ UNCHANGED <<due, admin, spent, roles, keep, table, tail, faults>>

Revoked(s) == [row EXCEPT ![s] = IF @ = "pruned" THEN @ ELSE "revoked"]

Logout ==
  /\ cookie # None /\ row' = Revoked(cookie) /\ cookie' = None
  /\ excused' = excused \cup {cookie}
  /\ UNCHANGED <<due, token, entra, ka, table, tail, faults>>

\* keepalive: the row is read with its token, and that is what _do_refresh uses.
\* A request that starts while another of the session is at Entra may lose.
KaLoad(b) ==
  /\ ka[b] = Idle /\ Alive(cookie) /\ cookie \in due
  /\ ka' = [ka EXCEPT ![b] = [pc |-> "redeem", sid |-> cookie, tok |-> token[cookie]]]
  /\ excused' = IF \E o \in Tabs : ka[o].sid = cookie THEN excused \cup {cookie} ELSE excused
  /\ UNCHANGED <<session, entra, table, tail, faults>>

Answered(b, pc, tok) == ka' = [ka EXCEPT ![b].pc = pc, ![b].tok = tok]

\* A bug: who is refreshed is not checked again.
BugStillAdmin == TRUE

StillAdmin == admin

\* Entra redeems the token and replaces it, or lets it stand; the role is in the
\* new id token.  A token that was replaced may be refused.
Redeem(b) ==
  /\ ka[b].pc = "redeem"
  /\ \E new \in {ka[b].tok, issued + 1} :
       /\ new <= MaxTokens /\ (new = ka[b].tok => new \notin spent)
       /\ issued' = IF new = ka[b].tok THEN issued ELSE new
       /\ spent' = IF new = ka[b].tok THEN spent ELSE spent \cup {ka[b].tok}
       /\ Answered(b, IF StillAdmin THEN "store" ELSE "revoke", new)
  /\ excused' = IF admin THEN excused ELSE excused \cup {ka[b].sid}
  /\ UNCHANGED <<session, admin, roles, table, tail, faults>>

\* No answer, or none that is 2xx.
Refuse(b) ==
  /\ ka[b].pc = "redeem" /\ Answered(b, "revoke", ka[b].tok)
  /\ \/ ka[b].tok \in spent /\ UNCHANGED <<excused, faults>>
     \/ Fault /\ excused' = excused \cup {ka[b].sid}
  /\ UNCHANGED <<session, entra, table, tail>>

\* Bugs: the update revives the row; the old token is kept.
BugRefreshed(s, new) ==
  /\ row' = [row EXCEPT ![s] = IF @ = "revoked" THEN "live" ELSE @]
  /\ token' = [token EXCEPT ![s] = new] /\ due' = due \ {s}
BugRotate(s, new) == due' = due \ {s} /\ UNCHANGED <<row, token>>

Refreshed(s, new) ==
  /\ UNCHANGED row
  /\ IF row[s] = "pruned" THEN UNCHANGED <<token, due>>
     ELSE token' = [token EXCEPT ![s] = new] /\ due' = due \ {s}

\* The update of _do_refresh; it neither looks at revoked nor sets it.
KaStore(b) ==
  /\ ka[b].pc = "store" /\ Refreshed(ka[b].sid, ka[b].tok)
  /\ ka' = [ka EXCEPT ![b] = Idle]
  /\ UNCHANGED <<cookie, entra, excused, table, tail, faults>>

\* The update fails, or its answer is lost.
StoreFails(b) ==
  /\ ka[b].pc = "store" /\ Fault /\ Answered(b, "revoke", ka[b].tok)
  /\ Refreshed(ka[b].sid, ka[b].tok) \/ UNCHANGED <<row, token, due>>
  /\ excused' = excused \cup {ka[b].sid}
  /\ UNCHANGED <<cookie, entra, table, tail>>

\* Any failure revokes the session, unless that fails, too.
KaRevoke(b) ==
  /\ ka[b].pc = "revoke"
  /\ \/ row' = Revoked(ka[b].sid) /\ UNCHANGED faults
     \/ Fault /\ UNCHANGED row
  /\ ka' = [ka EXCEPT ![b] = Idle]
  /\ UNCHANGED <<due, token, cookie, entra, excused, table, tail>>

\* ringdown_retention.
Prune(s) ==
  /\ row[s] \in {"revoked", "over"} /\ row' = [row EXCEPT ![s] = "pruned"]
  /\ token' = [token EXCEPT ![s] = 0] /\ due' = due \ {s}
  /\ UNCHANGED <<cookie, entra, keep, table, tail, faults>>

\* Time passes: the access token and the session grow old.
Age(s) ==
  /\ row[s] = "live" /\ s \notin due /\ due' = due \cup {s}
  /\ UNCHANGED <<row, token, cookie, entra, keep, table, tail, faults>>

Expire(s) ==
  /\ row[s] = "live" /\ row' = [row EXCEPT ![s] = "over"]
  /\ UNCHANGED <<due, token, cookie, entra, keep, table, tail, faults>>

RoleChanges ==
  /\ roles < MaxRoles /\ roles' = roles + 1 /\ admin' = ~admin
  /\ UNCHANGED <<session, issued, spent, keep, table, tail, faults>>

-----------------------------------------------------------------------------
(* The stream.                                                             *)

\* Lines are inserted by the flusher and evaluations by the judge, one
\* transaction after the other; firings by tasks of one collector, at once on
\* the connections of its pool.
\* A row takes its id when it is inserted, and is seen when its transaction ends.
Insert ==
  /\ events < MaxRows /\ Cardinality(open) < Writers
  /\ events' = events + 1 /\ open' = open \cup {events + 1}
  /\ UNCHANGED <<session, entra, keep, late, tail, faults>>

Visible == ((1 .. events) \ open) \cap Shown

\* One that rolls back leaves an id that is never Shown.
Commit(e) ==
  /\ e \in open /\ open' = open \ {e}
  /\ late' = IF \E f \in Visible : f > e THEN late \cup {e} ELSE late
  /\ UNCHANGED <<session, entra, keep, events, tail, faults>>

Ascending(ids) ==
  CHOOSE seq \in [1 .. Cardinality(ids) -> ids] :
    \A i, j \in DOMAIN seq : i < j => seq[i] < seq[j]

\* ORDER BY id DESC LIMIT, turned round, and ORDER BY id LIMIT.
Latest(ids) ==
  LET all == Ascending(ids)
  IN IF Len(all) <= BackLimit THEN all ELSE SubSeq(all, Len(all) - BackLimit + 1, Len(all))
Earliest(ids) ==
  LET all == Ascending(ids)
  IN SubSeq(all, 1, IF Len(all) < TailLimit THEN Len(all) ELSE TailLimit)

LastOr(seq, default) == IF seq = <<>> THEN default ELSE seq[Len(seq)]

Streams(b, new) ==
  /\ stream' = [stream EXCEPT ![b] = new]
  /\ UNCHANGED <<session, entra, keep, table, faults>>

\* stream, up to the answer's head.  An EventSource that lost its connection
\* comes back by itself.
Open(b) ==
  /\ stream[b].pc = "off" /\ Alive(cookie)
  /\ Streams(b, [Off EXCEPT !.pc = "backfill", !.sid = cookie])
  /\ overdue' = [overdue EXCEPT ![b] = 0]

\* The latest rows, oldest first; the tail goes on behind the newest.
Backfill(b) ==
  /\ stream[b].pc = "backfill"
  /\ LET rows == Latest(Visible)
     IN Streams(b, [stream[b] EXCEPT !.pc = "tick", !.sent = rows, !.cursor = LastOr(rows, 0)])
  /\ UNCHANGED overdue

\* A bug: only polls that send nothing count, as for the heartbeat.
BugCounted(b) ==
  IF \E e \in Visible : e > stream[b].cursor THEN stream[b].recheck ELSE stream[b].recheck + 1

Counted(b) == stream[b].recheck + 1

Looks(b) == Counted(b) >= RecheckEvery

Tick(b) ==
  /\ stream[b].pc = "tick"
  /\ IF ~Looks(b)
     THEN Streams(b, [stream[b] EXCEPT !.pc = "fetch", !.recheck = Counted(b)])
     ELSE IF Alive(stream[b].sid)
     THEN Streams(b, [stream[b] EXCEPT !.pc = "fetch", !.recheck = 0])
     ELSE Streams(b, Off)
  /\ UNCHANGED overdue

\* A bug: the cursor goes to the newest row, whatever the limit left out.
BugCursor(b, rows) == LastOr(Ascending(Visible \cup {stream[b].cursor}), 0)

CursorAfter(b, rows) == LastOr(rows, stream[b].cursor)

Fetch(b) ==
  /\ stream[b].pc = "fetch"
  /\ LET rows == Earliest({e \in Visible : e > stream[b].cursor})
     IN Streams(b, [stream[b] EXCEPT !.pc = "tick", !.sent = @ \o rows,
                                     !.cursor = CursorAfter(b, rows)])
  /\ overdue' = [overdue EXCEPT ![b] =
                   IF Alive(stream[b].sid) THEN 0 ELSE IF @ > RecheckEvery THEN @ ELSE @ + 1]

\* The connection drops, which the loop notices at its next poll, or a query
\* fails.
Disconnect(b) ==
  /\ stream[b].pc # "off"
  /\ Streams(b, Off) /\ UNCHANGED overdue

\* The process dies with its requests; a refresh that Entra has done may be lost.
Crash ==
  /\ Fault /\ ka' = [b \in Tabs |-> Idle]
  /\ stream' = [b \in Viewers |-> Off]
  /\ excused' = excused \cup {ka[b].sid : b \in {t \in Tabs : ka[t] # Idle}}
  /\ UNCHANGED <<session, entra, table, overdue>>

Next ==
  \/ \E s \in Sids : Login(s) \/ Prune(s) \/ Age(s) \/ Expire(s)
  \/ Logout \/ RoleChanges \/ Insert \/ Crash
  \/ \E e \in open : Commit(e)
  \/ \E b \in Tabs : KaLoad(b) \/ Redeem(b) \/ Refuse(b) \/ KaStore(b) \/ StoreFails(b) \/ KaRevoke(b)
  \/ \E b \in Viewers : Open(b) \/ Backfill(b) \/ Tick(b) \/ Fetch(b) \/ Disconnect(b)

Spec == Init /\ [][Next]_vars

\* Time passes, the page sends keepalives, and the handlers run on.
FairSpec ==
  /\ Spec
  /\ \A s \in Sids : WF_vars(Age(s))
  /\ \A b \in Tabs : /\ WF_vars(KaLoad(b)) /\ WF_vars(Redeem(b) \/ Refuse(b))
                     /\ WF_vars(KaStore(b)) /\ WF_vars(KaRevoke(b))
  /\ \A b \in Viewers : WF_vars(Backfill(b)) /\ WF_vars(Tick(b)) /\ WF_vars(Fetch(b))

-----------------------------------------------------------------------------
(* Properties.                                                             *)

\* A session that ended, by logout or otherwise, never comes back, even when a
\* refresh that started before it ends after.
EndedForGood ==
  [][\A s \in Sids : row[s] \notin {"none", "live"} => ~Alive(s)']_row

\* An operator stays signed in: a session is revoked only by logout, by the loss
\* of the role, by a failure of Entra or the process, or by two refreshes at once.
StaysSignedIn == \A s \in Sids : row[s] = "revoked" => s \in excused

\* A stream outlives its session by no more polls than there are between two
\* looks at it, whether rows come or not.
CutInTime == \A b \in Viewers : overdue[b] <= RecheckEvery

\* What a stream has sent since its oldest row has no row twice, and no gap but
\* for rows of concurrent transactions that became visible after a higher one
\* (webui.py:599-650).
SentIsWhole ==
  \A b \in Viewers :
    LET sent == stream[b].sent
    IN /\ \A i, j \in DOMAIN sent : i < j => sent[i] < sent[j]
       /\ \A e \in Visible : sent # <<>> /\ sent[1] <= e /\ e <= stream[b].cursor
            => e \in ToSet(sent) \/ (Writers > 1 /\ e \in late)

\* An operator who loses the role for good loses the session.
DerolledIsCut ==
  \A s \in Sids : <>[](~admin /\ cookie = s) => <>[]~Alive(s)

\* A stream that stays open gets past every row that is there, which
\* SentIsWhole says it sends.
Behind(b) == \E e \in Visible : e > stream[b].cursor
Delivered ==
  \A b \in Viewers :
    (stream[b].pc = "tick" /\ Behind(b)) ~> (stream[b].pc = "off" \/ ~Behind(b))

\* The keepalive takes the session from whoever lost the role, and the stream
\* delivers, both in the end.
Progress == DerolledIsCut /\ Delivered
=============================================================================
