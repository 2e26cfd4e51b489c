---------------------------- MODULE WebUiProofs -----------------------------
(***************************************************************************)
(* Proofs about WebUi for every number of sessions, tabs, viewers, rows    *)
(* and tokens: a session that ended never comes back, it is revoked only   *)
(* for a reason, a stream does not outlive it for long, and a stream has   *)
(* no gap but for rows that became visible after a higher one.             *)
(***************************************************************************)
EXTENDS WebUi, SetLemmas, SequenceTheorems, TLAPS

-----------------------------------------------------------------------------
(* The inductive invariant.                                                *)

Keepalive == [pc : {"redeem", "store", "revoke"}, sid : Sids, tok : 0 .. MaxTokens]
Stream == [pc : {"off", "backfill", "tick", "fetch"}, sid : Sids \cup {None},
           cursor : Nat, sent : Seq(Shown), recheck : 0 .. RecheckEvery - 1]

TypedSessions ==
  /\ row \in [Sids -> {"none", "live", "over", "revoked", "pruned"}]
  /\ due \subseteq Sids /\ excused \subseteq Sids
  /\ token \in [Sids -> 0 .. MaxTokens] /\ cookie \in Sids \cup {None}
  /\ ka \in [Tabs -> Keepalive \cup {Idle}]
  /\ admin \in BOOLEAN /\ issued \in 0 .. MaxTokens /\ spent \subseteq 1 .. issued
  /\ roles \in 0 .. MaxRoles

TypedStreams ==
  /\ events \in 0 .. MaxRows /\ open \subseteq 1 .. events /\ late \subseteq 1 .. events
  /\ stream \in [Viewers -> Stream]
  /\ overdue \in [Viewers -> Nat]

\* A refresh token is known to the session it was given to and to its requests.
Knows(s, t) == token[s] = t \/ \E b \in Tabs : ka[b].sid = s /\ ka[b].tok = t

Apart ==
  /\ \A s \in Sids, t \in 1 .. MaxTokens :
       Knows(s, t) => t <= issued /\ \A r \in Sids : Knows(r, t) => r = s
  /\ \A s \in Sids : /\ row[s] = "live" => token[s] # 0
                     /\ row[s] = "pruned" => token[s] = 0
  /\ \A b \in Tabs : ka[b].pc \in {"redeem", "store"} => ka[b].tok # 0

\* A session without an excuse has one request under way at most, with a token
\* that Entra has not replaced; between two of them the row has such a token.
Clean(s) ==
  /\ \A b, c \in Tabs : ka[b].sid = s /\ ka[c].sid = s => b = c
  /\ \A b \in Tabs : ka[b].sid = s => ka[b].pc # "revoke" /\ ka[b].tok \notin spent
  /\ (\A b \in Tabs : ka[b].sid # s) => token[s] \notin spent

\* The polls of a stream whose session ended are among those it has counted
\* since it last looked.
Counting(b) ==
  /\ overdue[b] <= RecheckEvery
  /\ stream[b].pc # "off" =>
       /\ stream[b].sid \in Sids /\ row[stream[b].sid] # "none"
       /\ overdue[b] # 0 => ~Alive(stream[b].sid)
  /\ stream[b].pc = "backfill" => overdue[b] = 0
  /\ stream[b].pc = "fetch" => overdue[b] <= stream[b].recheck
  /\ stream[b].pc = "tick" => overdue[b] <= stream[b].recheck + 1

Signed ==
  /\ TypedSessions /\ Apart
  /\ \A s \in Sids \ excused : row[s] # "revoked" /\ Clean(s)

\* The cursor stands at the last row sent, and no row before it is left out.
Increasing(seq) == \A i, j \in DOMAIN seq : i < j => seq[i] < seq[j]

NoGap(sent, cursor, rows) ==
  /\ cursor = LastOr(sent, 0)
  /\ Increasing(sent)
  /\ \A e \in rows : sent # <<>> /\ sent[1] <= e /\ e <= cursor => e \in ToSet(sent)

\* The rows that became visible before every higher one; with one writer, all.
Punctual == Visible \ late

OneByOne == Writers = 1 => open \subseteq {events} /\ late = {}

Whole(b) ==
  /\ stream[b].cursor \in Visible \cup {0}
  /\ NoGap(stream[b].sent, stream[b].cursor, Punctual)

Watched ==
  /\ Signed /\ TypedStreams /\ OneByOne
  /\ \A b \in Viewers : Counting(b) /\ Whole(b)

-----------------------------------------------------------------------------
(* Sessions that end.                                                      *)

Ended == {"over", "revoked", "pruned"}

\* What no action does to a row: begin it twice, or take it out of its end.
Onward ==
  /\ row' \in [Sids -> {"none", "live", "over", "revoked", "pruned"}]
  /\ \A s \in Sids : /\ row[s] \in Ended => row'[s] \in Ended
                     /\ row[s] # "none" => row'[s] # "none"

LEMMA RowsOnward ==
  ASSUME TypedSessions, [Next]_vars
  PROVE  Onward
<1> USE DEF Onward, Ended, TypedSessions
<1>1. CASE row' = row
  BY <1>1
<1>2. ASSUME NEW s \in Sids, row' = Revoked(s)
      PROVE  Onward
  BY <1>2 DEF Revoked
<1>3. CASE Logout
  BY <1>2, <1>3 DEF Logout
<1>4. ASSUME NEW b \in Tabs, KaRevoke(b)
      PROVE  Onward
  <2>1. ka[b].sid \in Sids
    BY <1>4 DEF KaRevoke, Keepalive, Idle
  <2> QED
    BY <1>1, <1>2, <1>4, <2>1 DEF KaRevoke
<1>5. ASSUME NEW s \in Sids, Login(s) \/ Prune(s) \/ Age(s) \/ Expire(s)
      PROVE  Onward
  BY <1>5 DEF Login, Prune, Age, Expire
<1>6. ASSUME NEW b \in Tabs, Refreshed(ka[b].sid, ka[b].tok) \/ UNCHANGED <<row, token, due>>
      PROVE  row' = row
  BY <1>6 DEF Refreshed
<1> QED
  BY <1>1, <1>3, <1>4, <1>5, <1>6
     DEF Next, KaLoad, Redeem, Refuse, KaStore, StoreFails, RoleChanges, Insert, Commit, Crash,
         Open, Backfill, Tick, Fetch, Disconnect, Streams, session, vars

-----------------------------------------------------------------------------
(* Tokens and requests.                                                    *)

\* A step of one request, whose session is o before and after.
OneTab(b) ==
  /\ ka' \in [Tabs -> Keepalive \cup {Idle}]
  /\ \A c \in Tabs \ {b} : ka'[c] = ka[c]

LEMMA TabSet ==
  ASSUME TypedSessions, NEW b \in Tabs, NEW new \in Keepalive \cup {Idle},
         ka' = [ka EXCEPT ![b] = new]
  PROVE  OneTab(b) /\ ka'[b] = new
BY DEF TypedSessions, OneTab

LEMMA TabAnswered ==
  ASSUME TypedSessions, NEW b \in Tabs, ka[b].pc # "idle",
         NEW pc \in {"redeem", "store", "revoke"}, NEW tok \in 0 .. MaxTokens, Answered(b, pc, tok)
  PROVE  /\ OneTab(b) /\ ka[b] \in Keepalive /\ ka'[b] \in Keepalive
         /\ ka'[b].pc = pc /\ ka'[b].sid = ka[b].sid /\ ka'[b].tok = tok
<1>1. ka[b] \in Keepalive
  BY DEF TypedSessions, Idle
<1> DEFINE new == [ka[b] EXCEPT !.pc = pc, !.tok = tok]
<1>2. /\ new \in Keepalive
      /\ new.pc = pc /\ new.sid = ka[b].sid /\ new.tok = tok
  BY <1>1 DEF Keepalive
<1>3. ka' = [ka EXCEPT ![b] = new]
  BY DEF Answered, TypedSessions
<1> HIDE DEF new
<1> QED
  BY <1>1, <1>2, <1>3, TabSet

\* Tokens stay apart when nobody learns one, but its owner a new one.
LEMMA ApartKept ==
  ASSUME Apart, issued \in 0 .. MaxTokens, issued' \in {issued, issued + 1}, NEW o,
         \A s \in Sids, t \in 1 .. MaxTokens :
           Knows(s, t)' => Knows(s, t) \/ (t = issued' /\ issued' = issued + 1 /\ s = o)
  PROVE  \A s \in Sids, t \in 1 .. MaxTokens :
           Knows(s, t)' => t <= issued' /\ \A r \in Sids : Knows(r, t)' => r = s
<1> SUFFICES ASSUME NEW s \in Sids, NEW t \in 1 .. MaxTokens, Knows(s, t)'
             PROVE  t <= issued' /\ \A r \in Sids : Knows(r, t)' => r = s
  OBVIOUS
<1>1. issued \in Nat /\ t \in Nat
  BY WebAssumption
<1>2. CASE t <= issued
  BY <1>1, <1>2 DEF Apart
<1>3. CASE ~(t <= issued)
  BY <1>1, <1>3 DEF Apart
<1> QED
  BY <1>2, <1>3

\* A session that a step does not touch stays clean.
LEMMA CleanKept ==
  ASSUME NEW s, Clean(s),
         \A c \in Tabs : ka[c].sid = s \/ ka'[c].sid = s => ka'[c] = ka[c],
         \A t \in spent' : t \in spent \/ ~Knows(s, t),
         token'[s] = token[s] \/ token'[s] \notin spent'
  PROVE  Clean(s)'
BY DEF Clean, Knows

-----------------------------------------------------------------------------
(* The actions of sessions and keepalives.                                 *)

LEMMA LoginStep ==
  ASSUME Signed, Onward, NEW s \in Sids, Login(s)
  PROVE  Signed'
<1>1. /\ row' = [row EXCEPT ![s] = "live"] /\ row[s] = "none" /\ cookie' = s
      /\ issued' = issued + 1 /\ issued < MaxTokens
      /\ token' = [token EXCEPT ![s] = issued + 1]
      /\ UNCHANGED <<due, admin, spent, roles, ka, excused>>
  BY DEF Login, keep
<1>2. issued \in Nat /\ MaxTokens \in Nat /\ issued + 1 \in 1 .. MaxTokens /\ issued' \in 0 .. MaxTokens
  BY <1>1, WebAssumption DEF Signed, TypedSessions
<1>3. TypedSessions'
  BY <1>1, <1>2 DEF Signed, TypedSessions, Onward
<1>4. token'[s] = issued' /\ \A r \in Sids \ {s} : token'[r] = token[r]
  BY <1>1 DEF Signed, TypedSessions
<1>5. Apart'
  <2>1. \A r \in Sids, t \in 1 .. MaxTokens :
          Knows(r, t)' => Knows(r, t) \/ (t = issued' /\ issued' = issued + 1 /\ r = s)
    BY <1>1, <1>4 DEF Knows
  <2>2. \A r \in Sids, t \in 1 .. MaxTokens :
          Knows(r, t)' => t <= issued' /\ \A q \in Sids : Knows(q, t)' => q = r
    BY <1>1, <2>1, ApartKept DEF Signed, TypedSessions
  <2>3. \A r \in Sids : /\ row'[r] = "live" => token'[r] # 0
                        /\ row'[r] = "pruned" => token'[r] = 0
    BY <1>1, <1>2, <1>4 DEF Signed, TypedSessions, Apart
  <2> QED
    BY <1>1, <2>2, <2>3 DEF Signed, Apart
<1>6. ASSUME NEW r \in Sids \ excused
      PROVE  row'[r] # "revoked" /\ Clean(r)'
  <2>1. token'[s] \notin spent'
    BY <1>1, <1>2, <1>4 DEF Signed, TypedSessions
  <2>2. Clean(r)'
    BY <1>1, <1>4, <2>1, CleanKept DEF Signed
  <2> QED
    BY <1>1, <2>2 DEF Signed, TypedSessions
<1> QED
  BY <1>1, <1>3, <1>5, <1>6 DEF Signed

\* A row whose session is excused or pruned may be revoked.
LEMMA RevokedStep ==
  ASSUME Signed, Onward, NEW s \in Sids, s \in excused',
         excused' \subseteq Sids, excused \subseteq excused',
         row' = Revoked(s), cookie' \in Sids \cup {None}, UNCHANGED <<due, token, entra>>,
         \/ UNCHANGED ka
         \/ \E b \in Tabs : ka[b].sid = s /\ ka' = [ka EXCEPT ![b] = Idle]
  PROVE  Signed'
<1>1. UNCHANGED <<admin, issued, spent, roles>>
  BY DEF entra
<1>2. ka' \in [Tabs -> Keepalive \cup {Idle}]
  BY DEF Signed, TypedSessions
<1>3. \A c \in Tabs : ka'[c] = ka[c] \/ (ka'[c] = Idle /\ ka[c].sid = s)
  BY DEF Signed, TypedSessions
<1>4. TypedSessions'
  BY <1>1, <1>2 DEF Signed, TypedSessions, Onward
<1>5. \A r \in Sids, t \in 1 .. MaxTokens : Knows(r, t)' => Knows(r, t)
  BY <1>3, WebAssumption DEF Knows, Idle
<1>6. \A r \in Sids : /\ row'[r] = "live" => row[r] = "live"
                      /\ row'[r] = "pruned" => row[r] = "pruned"
  BY DEF Revoked, Signed, TypedSessions
<1>7. Apart'
  BY <1>1, <1>3, <1>5, <1>6 DEF Signed, Apart, Idle
<1>8. ASSUME NEW r \in Sids \ excused'
      PROVE  row'[r] # "revoked" /\ Clean(r)'
  <2>1. r # s /\ r \in Sids \ excused
    OBVIOUS
  <2>2. row'[r] = row[r]
    BY <2>1 DEF Revoked, Signed, TypedSessions
  <2>3. \A c \in Tabs : ka[c].sid = r \/ ka'[c].sid = r => ka'[c] = ka[c]
    BY <1>3, <2>1, WebAssumption DEF Idle
  <2> QED
    BY <1>1, <2>1, <2>2, <2>3, CleanKept DEF Signed
<1> QED
  BY <1>4, <1>7, <1>8 DEF Signed

LEMMA LogoutStep ==
  ASSUME Signed, Onward, Logout
  PROVE  Signed'
<1>1. cookie \in Sids
  BY DEF Logout, Signed, TypedSessions
<1> QED
  BY <1>1, RevokedStep DEF Logout, Signed, TypedSessions

LEMMA KaRevokeStep ==
  ASSUME Signed, Onward, NEW b \in Tabs, KaRevoke(b)
  PROVE  Signed'
<1> DEFINE s == ka[b].sid
<1>1. s \in Sids /\ ka[b].pc = "revoke"
  BY DEF KaRevoke, Signed, TypedSessions, Keepalive, Idle
<1>2. s \in excused
  BY <1>1 DEF Signed, Clean
<1>3. /\ ka' = [ka EXCEPT ![b] = Idle] /\ UNCHANGED <<due, token, cookie, entra, excused>>
      /\ row' = Revoked(s) \/ row' = row
  BY DEF KaRevoke
<1>4. CASE row' = Revoked(s)
  BY <1>1, <1>2, <1>3, <1>4, RevokedStep DEF Signed, TypedSessions
<1>5. CASE row' = row
  <2>1. UNCHANGED <<admin, issued, spent, roles>>
    BY <1>3 DEF entra
  <2>2. ka' \in [Tabs -> Keepalive \cup {Idle}] /\ ka'[b] = Idle /\ \A c \in Tabs \ {b} : ka'[c] = ka[c]
    BY <1>3 DEF Signed, TypedSessions
  <2>3. TypedSessions'
    BY <1>3, <1>5, <2>1, <2>2 DEF Signed, TypedSessions
  <2>4. \A r \in Sids, t \in 1 .. MaxTokens : Knows(r, t)' => Knows(r, t)
    BY <1>3, <2>2, WebAssumption DEF Knows, Idle
  <2>5. Apart'
    BY <1>3, <1>5, <2>1, <2>2, <2>4 DEF Signed, Apart, Idle
  <2>6. ASSUME NEW r \in Sids \ excused
        PROVE  Clean(r)'
    <3>1. \A c \in Tabs : ka[c].sid = r \/ ka'[c].sid = r => ka'[c] = ka[c]
      BY <1>2, <2>2, WebAssumption DEF Idle
    <3> QED
      BY <1>3, <2>1, <3>1, CleanKept DEF Signed
  <2> QED
    BY <1>3, <1>5, <2>3, <2>5, <2>6 DEF Signed
<1> QED
  BY <1>3, <1>4, <1>5

LEMMA KaLoadStep ==
  ASSUME Signed, Onward, NEW b \in Tabs, KaLoad(b)
  PROVE  Signed'
<1> DEFINE s == cookie
           new == [pc |-> "redeem", sid |-> s, tok |-> token[s]]
<1>1. /\ s \in Sids /\ ka[b] = Idle /\ row[s] = "live" /\ ka' = [ka EXCEPT ![b] = new]
      /\ excused' = IF \E o \in Tabs : ka[o].sid = s THEN excused \cup {s} ELSE excused
      /\ UNCHANGED <<row, due, token, cookie, admin, issued, spent, roles>>
  BY DEF KaLoad, Alive, Signed, TypedSessions, session, entra
<1>2. new \in Keepalive /\ token[s] # 0
  BY <1>1 DEF Signed, TypedSessions, Keepalive, Apart
<1>3. OneTab(b) /\ ka'[b] = new
  <2> HIDE DEF new
  <2> QED
    BY <1>1, <1>2, TabSet DEF Signed
<1>4. TypedSessions'
  BY <1>1, <1>3 DEF Signed, TypedSessions, OneTab
<1>5. \A r \in Sids, t \in 1 .. MaxTokens : Knows(r, t)' => Knows(r, t)
  BY <1>1, <1>3 DEF Knows, OneTab
<1>6. Apart'
  BY <1>1, <1>2, <1>3, <1>5 DEF Signed, Apart, OneTab
<1>7. ASSUME NEW r \in Sids \ excused'
      PROVE  Clean(r)'
  <2>1. r \in Sids \ excused
    BY <1>1
  <2>2. CASE r # s
    BY <1>1, <1>3, <2>1, <2>2, CleanKept, WebAssumption DEF Signed, OneTab, Idle
  <2>3. CASE r = s
    <3>1. \A o \in Tabs : ka[o].sid # s
      BY <1>1, <2>3
    <3>2. token[s] \notin spent
      BY <2>1, <2>3, <3>1 DEF Signed, Clean
    <3> QED
      BY <1>1, <1>3, <2>3, <3>1, <3>2 DEF Clean, OneTab
  <2> QED
    BY <2>2, <2>3
<1> QED
  BY <1>1, <1>4, <1>6, <1>7 DEF Signed

\* A request whose answer changes nothing but its own state.
LEMMA AnsweredStep ==
  ASSUME Signed, Onward, NEW b \in Tabs, ka[b].pc # "idle",
         NEW pc \in {"store", "revoke"}, Answered(b, pc, ka[b].tok),
         pc = "store" => ka[b].tok # 0,
         excused \subseteq excused', excused' \subseteq Sids, ka[b].sid \in excused',
         row' = row, due' \subseteq Sids, cookie' = cookie, UNCHANGED entra,
         \/ token' = token
         \/ /\ token' = [token EXCEPT ![ka[b].sid] = ka[b].tok] /\ ka[b].tok # 0
            /\ row[ka[b].sid] # "pruned"
  PROVE  Signed'
<1> DEFINE o == ka[b].sid
<1>1. UNCHANGED <<admin, issued, spent, roles>>
  BY DEF entra
<1>2. ka[b] \in Keepalive
  BY DEF Signed, TypedSessions, Idle
<1>3. /\ OneTab(b) /\ ka'[b] \in Keepalive /\ o \in Sids /\ ka[b].tok \in 0 .. MaxTokens
      /\ ka'[b].pc = pc /\ ka'[b].sid = o /\ ka'[b].tok = ka[b].tok
  BY <1>2, TabAnswered DEF Signed, Keepalive
<1>4. /\ token' \in [Sids -> 0 .. MaxTokens]
      /\ token'[o] \in {token[o], ka[b].tok}
      /\ token'[o] = token[o] \/ (ka[b].tok # 0 /\ row[o] # "pruned")
      /\ \A s \in Sids \ {o} : token'[s] = token[s]
  BY <1>3 DEF Signed, TypedSessions
<1>5. TypedSessions'
  BY <1>1, <1>3, <1>4 DEF Signed, TypedSessions, OneTab
<1>6. \A r \in Sids, t \in 1 .. MaxTokens : Knows(r, t)' => Knows(r, t)
  BY <1>3, <1>4 DEF Knows, OneTab
<1>7. Apart'
  BY <1>1, <1>3, <1>4, <1>6 DEF Signed, Apart, OneTab
<1>8. ASSUME NEW r \in Sids \ excused'
      PROVE  Clean(r)'
  BY <1>1, <1>3, <1>4, CleanKept DEF Signed, OneTab
<1> QED
  BY <1>5, <1>7, <1>8 DEF Signed

LEMMA RefuseStep ==
  ASSUME Signed, Onward, NEW b \in Tabs, Refuse(b)
  PROVE  Signed'
<1>1. /\ ka[b].pc = "redeem" /\ Answered(b, "revoke", ka[b].tok)
      /\ UNCHANGED <<row, due, token, cookie>> /\ UNCHANGED entra
      /\ excused' \in {excused, excused \cup {ka[b].sid}}
      /\ ka[b].tok \in spent \/ ka[b].sid \in excused'
  BY DEF Refuse, session
<1>2. ka[b].sid \in Sids
  BY <1>1 DEF Signed, TypedSessions, Keepalive, Idle
<1>3. ka[b].sid \in excused'
  BY <1>1, <1>2 DEF Signed, Clean
<1> QED
  BY <1>1, <1>2, <1>3, AnsweredStep DEF Signed, TypedSessions

LEMMA StoreFailsStep ==
  ASSUME Signed, Onward, NEW b \in Tabs, StoreFails(b)
  PROVE  Signed'
<1>1. /\ ka[b].pc = "store" /\ Answered(b, "revoke", ka[b].tok)
      /\ cookie' = cookie /\ UNCHANGED entra /\ excused' = excused \cup {ka[b].sid}
      /\ row' = row /\ due' \subseteq due
      /\ \/ token' = token
         \/ token' = [token EXCEPT ![ka[b].sid] = ka[b].tok] /\ row[ka[b].sid] # "pruned"
  BY DEF StoreFails, Refreshed
<1>2. ka[b].sid \in Sids
  BY <1>1 DEF Signed, TypedSessions, Keepalive, Idle
<1>3. ka[b].tok # 0
  BY <1>1 DEF Signed, Apart
<1> QED
  BY <1>1, <1>2, <1>3, AnsweredStep DEF Signed, TypedSessions

\* The token is stored: from now on it is the row's, and no request's.
LEMMA KaStoreStep ==
  ASSUME Signed, Onward, NEW b \in Tabs, KaStore(b)
  PROVE  Signed'
<1> DEFINE o == ka[b].sid
<1>1. /\ ka[b].pc = "store" /\ ka' = [ka EXCEPT ![b] = Idle]
      /\ row' = row /\ due' \subseteq due
      /\ \/ token' = token /\ row[o] = "pruned"
         \/ token' = [token EXCEPT ![o] = ka[b].tok] /\ row[o] # "pruned"
      /\ UNCHANGED <<cookie, admin, issued, spent, roles, excused>>
  BY DEF KaStore, Refreshed, entra
<1>2. o \in Sids /\ ka[b].tok \in 0 .. MaxTokens /\ ka[b].tok # 0
  BY <1>1 DEF Signed, TypedSessions, Keepalive, Idle, Apart
<1>3. OneTab(b) /\ ka'[b] = Idle
  BY <1>1, TabSet DEF Signed
<1>4. /\ token' \in [Sids -> 0 .. MaxTokens]
      /\ token'[o] \in {token[o], ka[b].tok}
      /\ IF row[o] = "pruned" THEN token'[o] = token[o] ELSE token'[o] = ka[b].tok
      /\ \A s \in Sids \ {o} : token'[s] = token[s]
  BY <1>1, <1>2 DEF Signed, TypedSessions
<1>5. TypedSessions'
  BY <1>1, <1>3, <1>4 DEF Signed, TypedSessions, OneTab
<1>6. \A r \in Sids, t \in 1 .. MaxTokens : Knows(r, t)' => Knows(r, t)
  BY <1>3, <1>4, WebAssumption DEF Knows, OneTab, Idle
<1>7. Apart'
  BY <1>1, <1>2, <1>3, <1>4, <1>6 DEF Signed, Apart, OneTab, Idle
<1>8. ASSUME NEW r \in Sids \ excused
      PROVE  Clean(r)'
  <2>1. CASE r # o
    BY <1>1, <1>3, <1>4, <2>1, CleanKept, WebAssumption DEF Signed, OneTab, Idle
  <2>2. CASE r = o
    <3>1. \A c \in Tabs : ka'[c].sid # o
      BY <1>2, <1>3, <2>2, WebAssumption DEF Signed, Clean, OneTab, Idle
    <3>2. token'[o] \notin spent
      BY <1>2, <1>4, <2>2 DEF Signed, TypedSessions, Apart, Clean
    <3> QED
      BY <1>1, <2>2, <3>1, <3>2 DEF Clean
  <2> QED
    BY <2>1, <2>2
<1> QED
  BY <1>1, <1>5, <1>7, <1>8 DEF Signed

\* Entra redeems: the old token is spent, and only this session knew it.
LEMMA RedeemStep ==
  ASSUME Signed, Onward, NEW b \in Tabs, Redeem(b)
  PROVE  Signed'
<1> DEFINE o == ka[b].sid
           tok == ka[b].tok
<1>1. PICK new \in {tok, issued + 1} :
        /\ new <= MaxTokens /\ (new = tok => new \notin spent)
        /\ issued' = (IF new = tok THEN issued ELSE new)
        /\ spent' = (IF new = tok THEN spent ELSE spent \cup {tok})
        /\ Answered(b, IF admin THEN "store" ELSE "revoke", new)
  BY DEF Redeem, StillAdmin
<1>2. /\ ka[b].pc = "redeem" /\ excused' = IF admin THEN excused ELSE excused \cup {o}
      /\ UNCHANGED <<row, due, token, cookie, admin, roles>>
  BY DEF Redeem, session
<1>3. ka[b] \in Keepalive /\ o \in Sids /\ tok \in 1 .. MaxTokens /\ tok <= issued /\ issued \in Nat
  <2>1. ka[b] \in Keepalive /\ o \in Sids /\ tok \in 0 .. MaxTokens /\ tok # 0
    BY <1>2 DEF Signed, TypedSessions, Keepalive, Idle, Apart
  <2>2. tok \in 1 .. MaxTokens /\ issued \in Nat
    BY <2>1, WebAssumption DEF Signed, TypedSessions
  <2> QED
    BY <2>1, <2>2 DEF Signed, Apart, Knows
<1>4. /\ new \in 1 .. MaxTokens /\ issued' \in {issued, issued + 1} /\ issued' \in 0 .. MaxTokens
      /\ new = tok \/ (new = issued' /\ issued' = issued + 1)
  BY <1>1, <1>3, WebAssumption DEF Signed, TypedSessions
<1>5. /\ OneTab(b) /\ ka'[b] \in Keepalive
      /\ ka'[b].pc \in {"store", "revoke"} /\ (admin => ka'[b].pc = "store")
      /\ ka'[b].sid = o /\ ka'[b].tok = new
  <2>1. CASE admin
    BY <1>1, <1>2, <1>4, <2>1, TabAnswered, WebAssumption DEF Signed
  <2>2. CASE ~admin
    BY <1>1, <1>2, <1>4, <2>2, TabAnswered, WebAssumption DEF Signed
  <2> QED
    BY <2>1, <2>2
<1>6. spent' \subseteq 1 .. issued' /\ new \notin spent'
  <2>1. spent \subseteq 1 .. issued
    BY DEF Signed, TypedSessions
  <2>2. CASE new = tok
    BY <1>1, <2>1, <2>2
  <2>3. CASE new # tok
    <3>1. new = issued + 1 /\ issued' = issued + 1 /\ spent' = spent \cup {tok}
      BY <1>1, <2>3
    <3>2. new \notin spent
      BY <1>3, <2>1, <3>1
    <3>3. ASSUME NEW x \in spent'
          PROVE  x \in 1 .. issued'
      <4>1. x \in Nat /\ 1 <= x /\ x <= issued
        BY <1>3, <2>1, <3>1
      <4> QED
        BY <1>3, <3>1, <4>1
    <3>4. new \notin spent'
      BY <2>3, <3>1, <3>2
    <3> QED
      BY <3>3, <3>4
  <2> QED
    BY <2>2, <2>3
<1>7. TypedSessions'
  BY <1>2, <1>3, <1>4, <1>5, <1>6 DEF Signed, TypedSessions, OneTab
<1>8. Apart'
  <2>1. \A s \in Sids, t \in 1 .. MaxTokens :
          Knows(s, t)' => Knows(s, t) \/ (t = issued' /\ issued' = issued + 1 /\ s = o)
    BY <1>2, <1>4, <1>5 DEF Knows, OneTab
  <2>2. \A s \in Sids, t \in 1 .. MaxTokens :
          Knows(s, t)' => t <= issued' /\ \A r \in Sids : Knows(r, t)' => r = s
    BY <1>4, <2>1, ApartKept DEF Signed, TypedSessions
  <2>3. \A c \in Tabs : ka'[c].pc \in {"redeem", "store"} => ka'[c].tok # 0
    BY <1>4, <1>5 DEF Signed, Apart, OneTab
  <2> QED
    BY <1>2, <2>2, <2>3 DEF Signed, Apart
<1>9. ASSUME NEW r \in Sids \ excused'
      PROVE  Clean(r)'
  <2>1. r \in Sids \ excused /\ (r = o => admin)
    BY <1>2
  <2>2. CASE r # o
    <3>1. ~Knows(r, tok)
      BY <1>3, <2>2 DEF Signed, Apart, Knows
    <3>2. \A t \in spent' : t \in spent \/ ~Knows(r, t)
      BY <1>1, <3>1
    <3>3. \A c \in Tabs : ka[c].sid = r \/ ka'[c].sid = r => ka'[c] = ka[c]
      BY <1>5, <2>2 DEF OneTab
    <3> QED
      BY <1>2, <2>1, <3>2, <3>3, CleanKept DEF Signed
  <2>3. CASE r = o
    <3>1. \A c \in Tabs : ka'[c].sid = o <=> c = b
      BY <1>5, <2>1, <2>3 DEF Signed, Clean, OneTab
    <3>2. ka'[b].pc # "revoke" /\ ka'[b].tok \notin spent'
      BY <1>5, <1>6, <2>1, <2>3
    <3> QED
      BY <2>3, <3>1, <3>2 DEF Clean
  <2> QED
    BY <2>2, <2>3
<1> QED
  BY <1>2, <1>7, <1>8, <1>9 DEF Signed

\* Time, retention and the directory: no request, and no token but a pruned one.
LEMMA TimeStep ==
  ASSUME Signed, Onward,
         (\E s \in Sids : Prune(s) \/ Age(s) \/ Expire(s)) \/ RoleChanges
  PROVE  Signed'
<1>1. /\ UNCHANGED <<ka, excused, cookie, issued, spent>>
      /\ roles' \in 0 .. MaxRoles /\ admin' \in BOOLEAN /\ due' \subseteq Sids
  <2>1. CASE RoleChanges
    <3>1. roles' \in 0 .. MaxRoles
      BY <2>1, WebAssumption DEF RoleChanges, Signed, TypedSessions
    <3> QED
      BY <2>1, <3>1 DEF RoleChanges, session, keep, Signed, TypedSessions
  <2>2. CASE ~RoleChanges
    BY <2>2 DEF Prune, Age, Expire, entra, keep, Signed, TypedSessions
  <2> QED
    BY <2>1, <2>2
<1>2. /\ token' \in [Sids -> 0 .. MaxTokens]
      /\ \A s \in Sids :
           /\ token'[s] = token[s] \/ (token'[s] = 0 /\ row'[s] = "pruned")
           /\ row'[s] = "live" => row[s] = "live"
           /\ row'[s] = "pruned" => row[s] = "pruned" \/ token'[s] = 0
           /\ row'[s] = "revoked" => row[s] = "revoked"
  BY WebAssumption DEF Prune, Age, Expire, RoleChanges, session, entra, Signed, TypedSessions
<1>3. TypedSessions'
  BY <1>1, <1>2 DEF Signed, TypedSessions, Onward
<1>4. Apart'
  <2>1. \A s \in Sids, t \in 1 .. MaxTokens : Knows(s, t)' => Knows(s, t)
    BY <1>1, <1>2, WebAssumption DEF Knows
  <2> QED
    BY <1>1, <1>2, <2>1 DEF Signed, Apart
<1>5. ASSUME NEW s \in Sids \ excused
      PROVE  Clean(s)'
  <2>1. 0 \notin spent
    BY DEF Signed, TypedSessions
  <2> QED
    BY <1>1, <1>2, <2>1, CleanKept DEF Signed
<1> QED
  BY <1>1, <1>2, <1>3, <1>4, <1>5 DEF Signed

\* The process dies; what Entra did for a request is lost with it.
LEMMA CrashStep ==
  ASSUME Signed, Crash
  PROVE  Signed'
<1>1. /\ ka' = [b \in Tabs |-> Idle]
      /\ UNCHANGED <<row, due, token, cookie, admin, issued, spent, roles>>
      /\ excused' = excused \cup {ka[b].sid : b \in {t \in Tabs : ka[t] # Idle}}
  BY DEF Crash, session, entra
<1>2. TypedSessions'
  BY <1>1 DEF Signed, TypedSessions, Keepalive, Idle
<1>3. Apart'
  <2>1. \A s \in Sids, t \in 1 .. MaxTokens : Knows(s, t)' => Knows(s, t)
    BY <1>1, WebAssumption DEF Knows, Idle
  <2> QED
    BY <1>1, <2>1 DEF Signed, Apart, Idle
<1>4. ASSUME NEW s \in Sids \ excused'
      PROVE  Clean(s)'
  <2>1. \A b \in Tabs : ka[b].sid # s
    BY <1>1, WebAssumption DEF Idle
  <2> QED
    BY <1>1, <2>1, WebAssumption DEF Signed, Clean, Idle
<1> QED
  BY <1>1, <1>2, <1>3, <1>4 DEF Signed

\* The streams read the sessions only.
LEMMA SignedKept ==
  ASSUME Signed, UNCHANGED session, UNCHANGED entra, UNCHANGED keep
  PROVE  Signed'
<1>1. UNCHANGED <<row, due, token, cookie, admin, issued, spent, roles, ka, excused>>
  BY DEF session, entra, keep
<1> QED
  BY <1>1 DEF Signed, TypedSessions, Apart, Knows, Clean

LEMMA SignedStep ==
  ASSUME Signed, [Next]_vars
  PROVE  Signed' /\ Onward
<1>1. Onward
  BY RowsOnward DEF Signed
<1>2. CASE \/ UNCHANGED vars \/ Insert \/ \E e \in open : Commit(e)
           \/ \E b \in Viewers : Open(b) \/ Backfill(b) \/ Tick(b) \/ Fetch(b) \/ Disconnect(b)
  <2>1. UNCHANGED session /\ UNCHANGED entra /\ UNCHANGED keep
    BY <1>2 DEF vars, Insert, Commit, Open, Backfill, Tick, Fetch, Disconnect, Streams
  <2> QED
    BY <1>1, <2>1, SignedKept
<1> QED
  BY <1>1, <1>2, LoginStep, LogoutStep, KaLoadStep, RedeemStep, RefuseStep, KaStoreStep,
     StoreFailsStep, KaRevokeStep, TimeStep, CrashStep DEF Next

-----------------------------------------------------------------------------
(* Rows in their order.                                                    *)

\* ORDER BY id.
LEMMA AscendingOrder ==
  ASSUME NEW ids \in SUBSET (1 .. MaxRows), NEW q, q = Ascending(ids)
  PROVE  /\ q \in Seq(ids) /\ Len(q) \in Nat /\ DOMAIN q = 1 .. Len(q)
         /\ Increasing(q)
         /\ \A i \in 1 .. Len(q) : q[i] \in ids /\ q[i] \in Nat
         /\ \A e \in ids : \E i \in 1 .. Len(q) : q[i] = e
<1>1. MaxRows \in Nat
  BY WebAssumption
<1>2. \E seq : InOrder(ids, seq)
  BY <1>1, OrderExists
<1> DEFINE Fits(seq) == \A i, j \in DOMAIN seq : i < j => seq[i] < seq[j]
<1>3. InOrder(ids, q)
  <2>1. \E seq \in [1 .. Cardinality(ids) -> ids] : Fits(seq)
    BY <1>2 DEF InOrder
  <2>2. q = CHOOSE seq \in [1 .. Cardinality(ids) -> ids] : Fits(seq)
    BY DEF Ascending
  <2> HIDE DEF Fits
  <2>3. q \in [1 .. Cardinality(ids) -> ids] /\ Fits(q)
    BY <2>1, <2>2
  <2> QED
    BY <2>3 DEF Fits, InOrder
<1>4. Cardinality(ids) \in Nat /\ \A e \in ids : \E i \in 1 .. Cardinality(ids) : q[i] = e
  <2>1. IsFiniteSet(ids) /\ Cardinality(ids) \in Nat /\ ids \in SUBSET Nat
    BY <1>1, FiniteNumbers
  <2>2. ASSUME NEW e \in ids
        PROVE  \E i \in 1 .. Cardinality(ids) : q[i] = e
    BY <1>3, <2>1, OrderIsOnto
  <2> QED
    BY <2>1, <2>2
<1>5. q \in [1 .. Cardinality(ids) -> ids] /\ Increasing(q)
  BY <1>3 DEF InOrder, Increasing
<1>6. q \in Seq(ids) /\ Len(q) = Cardinality(ids) /\ DOMAIN q = 1 .. Len(q)
  BY <1>4, <1>5
<1>7. \A i \in 1 .. Len(q) : q[i] \in ids
  BY <1>5, <1>6
<1>8. ASSUME NEW i \in 1 .. Len(q)
      PROVE  q[i] \in Nat
  <2>1. q[i] \in 1 .. MaxRows
    BY <1>7
  <2> QED
    BY <2>1
<1> HIDE DEF Fits
<1> QED
  BY <1>4, <1>5, <1>6, <1>7, <1>8

\* LIMIT, of a descending order: the latest rows, and none between them left out.
LEMMA LatestRows ==
  ASSUME NEW ids \in SUBSET (1 .. MaxRows)
  PROVE  /\ Latest(ids) \in Seq(ids) /\ Increasing(Latest(ids))
         /\ \A e \in ids : Latest(ids) # <<>> /\ Latest(ids)[1] <= e => e \in ToSet(Latest(ids))
<1> DEFINE from == Latest(ids)
           all == Ascending(ids)
           n == Len(all)
<1>0. from = IF n <= BackLimit THEN all ELSE SubSeq(all, n - BackLimit + 1, n)
  BY DEF Latest
<1>1. /\ all \in Seq(ids) /\ n \in Nat /\ DOMAIN all = 1 .. n
      /\ Increasing(all)
      /\ \A i \in 1 .. n : all[i] \in ids /\ all[i] \in Nat
      /\ \A e \in ids : \E i \in 1 .. n : all[i] = e
  BY AscendingOrder
<1> HIDE DEF from, all
<1>2. CASE n <= BackLimit
  <2>1. from = all
    BY <1>0, <1>2
  <2>2. \A e \in ids : e \in ToSet(from)
    BY <1>1, <2>1 DEF ToSet
  <2> QED
    BY <1>1, <2>1, <2>2 DEF from
<1>3. CASE ~(n <= BackLimit)
  <2> DEFINE m == n - BackLimit + 1
  <2>1. BackLimit \in Nat /\ 1 <= BackLimit /\ BackLimit < n
    BY <1>1, <1>3, WebAssumption
  <2>2. m \in 1 .. n /\ n - m + 1 = BackLimit
    BY <1>1, <2>1
  <2>3. from = SubSeq(all, m, n)
    BY <1>0, <1>3
  <2>4. \A i \in m .. n : all[i] \in ids
    BY <1>1, <2>2
  <2> HIDE DEF m, n
  <2>5. /\ from \in Seq(ids) /\ Len(from) = BackLimit
        /\ \A i \in 1 .. BackLimit : from[i] = all[m + i - 1]
    <3>1. m \in Int /\ n \in Int /\ m <= n
      BY <1>1, <2>2
    <3>2. /\ SubSeq(all, m, n) \in Seq(ids)
          /\ Len(SubSeq(all, m, n)) = IF m <= n THEN n - m + 1 ELSE 0
          /\ \A i \in 1 .. n - m + 1 : SubSeq(all, m, n)[i] = all[m + i - 1]
      BY <2>4, <3>1, SubSeqProperties
    <3> QED
      BY <2>2, <2>3, <3>1, <3>2
  <2>6. DOMAIN from = 1 .. BackLimit
    BY <2>5
  <2>7. Increasing(from)
    <3> SUFFICES ASSUME NEW i \in 1 .. BackLimit, NEW j \in 1 .. BackLimit, i < j
                 PROVE  from[i] < from[j]
      BY <2>6 DEF Increasing
    <3>1. m + i - 1 \in 1 .. n /\ m + j - 1 \in 1 .. n /\ m + i - 1 < m + j - 1
      BY <1>1, <2>1, <2>2
    <3>2. all[m + i - 1] < all[m + j - 1]
      BY <1>1, <3>1 DEF Increasing
    <3> QED
      BY <2>5, <3>2
  <2>8. ASSUME NEW e \in ids, from[1] <= e
        PROVE  e \in ToSet(from)
    <3>1. PICK k \in 1 .. n : all[k] = e
      BY <1>1
    <3>2. from[1] = all[m]
      <4>1. 1 \in 1 .. BackLimit /\ m + 1 - 1 = m
        BY <2>1, <2>2
      <4> QED
        BY <2>5, <4>1
    <3>3. ~(k < m)
      <4>1. ASSUME k < m
            PROVE  FALSE
        <5>1. all[k] < all[m]
          BY <1>1, <2>2, <4>1 DEF Increasing
        <5>2. all[k] \in Nat /\ all[m] \in Nat /\ all[m] <= all[k]
          BY <1>1, <2>2, <2>8, <3>1, <3>2
        <5> QED
          BY <5>1, <5>2
      <4> QED
        BY <4>1
    <3>4. k - m + 1 \in 1 .. BackLimit /\ m + (k - m + 1) - 1 = k
      BY <1>1, <2>1, <2>2, <3>3
    <3>5. from[k - m + 1] = e
      BY <2>5, <3>1, <3>4
    <3> QED
      BY <2>6, <3>4, <3>5 DEF ToSet
  <2> QED
    BY <2>5, <2>7, <2>8 DEF from
<1> QED
  BY <1>2, <1>3

\* LIMIT, of an ascending order: the first rows, and every row up to the last of
\* them.
LEMMA EarliestRows ==
  ASSUME NEW ids \in SUBSET (1 .. MaxRows)
  PROVE  LET rows == Earliest(ids)
         IN /\ rows \in Seq(ids) /\ Increasing(rows)
            /\ \A e \in ids : rows # <<>> /\ e <= rows[Len(rows)] => e \in ToSet(rows)
<1> DEFINE rows == Earliest(ids)
           new == Ascending(ids)
           n == Len(new)
           r == IF n < TailLimit THEN n ELSE TailLimit
<1>1. /\ n \in Nat /\ Increasing(new) /\ DOMAIN new = 1 .. n
      /\ \A i \in 1 .. n : new[i] \in ids /\ new[i] \in Nat
      /\ \A e \in ids : \E i \in 1 .. n : new[i] = e
  BY AscendingOrder
<1>2. r \in 0 .. n
  BY <1>1, WebAssumption
<1>3. \A i \in 1 .. r : i \in 1 .. n /\ new[i] \in ids
  BY <1>1, <1>2
<1>4. rows = SubSeq(new, 1, r)
  BY DEF Earliest
<1> HIDE DEF r, n, new, rows
<1>5. /\ rows \in Seq(ids) /\ Len(rows) = r
      /\ \A i \in 1 .. r : rows[i] = new[i]
  <2>1. 1 \in Int /\ r \in Int /\ r \in Nat
    BY <1>1, <1>2
  <2>2. /\ SubSeq(new, 1, r) \in Seq(ids)
        /\ Len(SubSeq(new, 1, r)) = IF 1 <= r THEN r - 1 + 1 ELSE 0
        /\ \A i \in 1 .. r - 1 + 1 : SubSeq(new, 1, r)[i] = new[1 + i - 1]
    BY <1>3, <2>1, SubSeqProperties
  <2>3. (IF 1 <= r THEN r - 1 + 1 ELSE 0) = r /\ r - 1 + 1 = r /\ \A i \in 1 .. r : 1 + i - 1 = i
    BY <2>1
  <2> QED
    BY <1>4, <2>2, <2>3
<1>6. DOMAIN rows = 1 .. r
  BY <1>5
<1>7. Increasing(rows)
  <2> SUFFICES ASSUME NEW i \in 1 .. r, NEW j \in 1 .. r, i < j
               PROVE  rows[i] < rows[j]
    BY <1>6 DEF Increasing
  <2>1. new[i] < new[j]
    BY <1>1, <1>3 DEF Increasing
  <2> QED
    BY <1>5, <2>1
<1>8. ASSUME NEW e \in ids, rows # <<>>, e <= rows[Len(rows)]
      PROVE  e \in ToSet(rows)
  <2>1. PICK k \in 1 .. n : new[k] = e
    BY <1>1
  <2>2. r \in 1 .. n
    <3>1. r # 0
      BY <1>5, <1>8, EmptySeq
    <3> QED
      BY <1>1, <1>2, <3>1
  <2>3. rows[Len(rows)] = new[r]
    BY <1>1, <1>5, <2>2
  <2>4. ~(r < k)
    <3>1. ASSUME r < k
          PROVE  FALSE
      <4>1. new[r] < new[k] /\ new[r] \in Nat /\ new[k] \in Nat
        BY <1>1, <2>2, <3>1 DEF Increasing
      <4>2. new[k] <= new[r]
        BY <1>8, <2>1, <2>3
      <4> QED
        BY <4>1, <4>2
    <3> QED
      BY <3>1
  <2>5. k \in 1 .. r
    BY <1>1, <2>2, <2>4
  <2> QED
    BY <1>5, <1>6, <2>1, <2>5 DEF ToSet
<1> QED
  BY <1>5, <1>7, <1>8 DEF rows

\* A stream whose rows are in order ends with the greatest of them.
LEMMA LastIsGreatest ==
  ASSUME NEW S \in SUBSET Nat, NEW seq \in Seq(S), Increasing(seq), NEW i \in 1 .. Len(seq)
  PROVE  /\ seq[i] <= seq[Len(seq)] /\ seq[Len(seq)] \in S
         /\ seq[i] \in Nat /\ seq[Len(seq)] \in Nat
<1> DEFINE n == Len(seq)
<1>1. n \in Nat /\ DOMAIN seq = 1 .. n
  BY LenProperties
<1>2. n \in 1 .. n
  BY <1>1
<1>3. seq[i] \in S /\ seq[Len(seq)] \in S
  BY <1>2, ElementOfSeq
<1>4. seq[i] \in Nat /\ seq[Len(seq)] \in Nat
  BY <1>3
<1>5. CASE i = n
  BY <1>3, <1>4, <1>5
<1>6. CASE i # n
  <2>1. i < n
    <3> HIDE DEF n
    <3> QED
      BY <1>1, <1>6
  <2>2. seq[i] < seq[Len(seq)]
    BY <1>1, <1>2, <2>1 DEF Increasing
  <2> QED
    BY <1>3, <1>4, <2>2
<1> QED
  BY <1>5, <1>6

LEMMA LatestUnbroken ==
  ASSUME NEW ids \in SUBSET (1 .. MaxRows)
  PROVE  /\ Latest(ids) \in Seq(ids)
         /\ LastOr(Latest(ids), 0) \in ids \cup {0}
         /\ NoGap(Latest(ids), LastOr(Latest(ids), 0), ids)
<1> DEFINE from == Latest(ids)
<1>1. /\ from \in Seq(ids) /\ Increasing(from)
      /\ \A e \in ids : from # <<>> /\ from[1] <= e => e \in ToSet(from)
  BY LatestRows
<1> HIDE DEF from
<1>2. LastOr(from, 0) \in ids \cup {0}
  <2>1. CASE from = <<>>
    BY <2>1 DEF LastOr
  <2>2. CASE from # <<>>
    <3>1. Len(from) \in 1 .. Len(from)
      BY <1>1, <2>2, EmptySeq
    <3> QED
      BY <1>1, <2>2, <3>1, ElementOfSeq DEF LastOr
  <2> QED
    BY <2>1, <2>2
<1> QED
  BY <1>1, <1>2 DEF NoGap, from

LEMMA EarliestUnbroken ==
  ASSUME NEW vis \in SUBSET (1 .. MaxRows), NEW sent \in Seq(1 .. MaxRows), NEW cursor \in Nat,
         NoGap(sent, cursor, vis), NEW rows, rows = Earliest({e \in vis : e > cursor})
  PROVE  /\ rows \in Seq(vis)
         /\ LastOr(rows, cursor) \in vis \cup {cursor}
         /\ NoGap(sent \o rows, LastOr(rows, cursor), vis)
<1> DEFINE ids == {e \in vis : e > cursor}
           n == Len(sent)
           m == Len(rows)
           both == sent \o rows
           c == LastOr(rows, cursor)
<1>1. /\ rows \in Seq(ids) /\ Increasing(rows)
      /\ \A e \in ids : rows # <<>> /\ e <= rows[m] => e \in ToSet(rows)
  BY EarliestRows
<1>2. vis \in SUBSET Nat /\ ids \in SUBSET Nat /\ ids \subseteq vis
  <2>1. \A e \in vis : e \in Nat
    BY WebAssumption
  <2> QED
    BY <2>1
<1>3. rows \in Seq(vis) /\ rows \in Seq(1 .. MaxRows)
  BY <1>1, <1>2, SeqMonotonic
<1>4. n \in Nat /\ DOMAIN sent = 1 .. n /\ m \in Nat /\ DOMAIN rows = 1 .. m
  BY <1>1, LenProperties
<1>5. CASE rows = <<>>
  <2>1. both = sent /\ c = cursor
    BY <1>5, ConcatEmptySeq DEF LastOr
  <2> QED
    BY <1>3, <2>1
<1>6. CASE rows # <<>>
  <2>1. m \in 1 .. m /\ m \in Nat \ {0}
    BY <1>1, <1>6, EmptySeq
  <2>2. c = rows[m] /\ c \in ids /\ c \in Nat
    BY <1>1, <1>2, <1>6, <2>1, ElementOfSeq DEF LastOr
  <2>3. /\ both \in Seq(1 .. MaxRows) /\ Len(both) = n + m
        /\ \A i \in 1 .. n + m : both[i] = IF i <= n THEN sent[i] ELSE rows[i - n]
    BY <1>3, ConcatProperties
  <2> HIDE DEF both, c, n, m, ids
  <2>4. DOMAIN both = 1 .. n + m /\ both # <<>> /\ both[Len(both)] = c
    <3>1. DOMAIN both = 1 .. n + m
      BY <2>3, LenProperties
    <3>2. n + m # 0 /\ n + m \in 1 .. n + m /\ ~(n + m <= n) /\ n + m - n = m
      BY <1>4, <2>1
    <3>3. both # <<>>
      BY <2>3, <3>2, EmptySeq
    <3> QED
      <4>1. both[n + m] = rows[m]
        BY <1>4, <2>3, <3>2
      <4> QED
        BY <2>2, <2>3, <3>1, <3>3, <4>1
  <2>5. \A i \in 1 .. m : rows[i] \in Nat /\ rows[i] > cursor
    BY <1>1, <1>2, ElementOfSeq DEF ids, m
  <2>6. \A i \in 1 .. n : sent[i] \in Nat /\ sent[i] <= cursor
    <3> SUFFICES ASSUME NEW i \in 1 .. n
                 PROVE  sent[i] \in Nat /\ sent[i] <= cursor
      OBVIOUS
    <3>1. sent # <<>>
      BY <1>4, EmptySeq DEF n
    <3>2. sent[i] \in Nat /\ sent[i] <= sent[n]
      <4>1. PICK S \in SUBSET Nat : S = 1 .. MaxRows
        BY WebAssumption
      <4>2. sent \in Seq(S) /\ Increasing(sent)
        BY <4>1 DEF NoGap
      <4> QED
        BY <4>2, LastIsGreatest DEF n
    <3> QED
      BY <3>1, <3>2 DEF NoGap, LastOr, n
  <2>7. Increasing(both)
    <3> SUFFICES ASSUME NEW i \in 1 .. n + m, NEW j \in 1 .. n + m, i < j
                 PROVE  both[i] < both[j]
      BY <2>4 DEF Increasing
    <3>1. CASE j <= n
      <4>1. i \in 1 .. n /\ j \in 1 .. n /\ i <= n
        BY <1>4, <3>1
      <4>2. sent[i] < sent[j]
        BY <1>4, <4>1 DEF NoGap, Increasing
      <4> QED
        BY <2>3, <3>1, <4>1, <4>2
    <3>2. CASE i <= n /\ ~(j <= n)
      <4>1. i \in 1 .. n /\ j - n \in 1 .. m
        BY <1>4, <3>2
      <4>2. sent[i] \in Nat /\ sent[i] <= cursor /\ rows[j - n] \in Nat /\ rows[j - n] > cursor
        BY <2>5, <2>6, <4>1
      <4>3. both[i] = sent[i] /\ both[j] = rows[j - n]
        BY <2>3, <3>2
      <4> QED
        BY <4>2, <4>3
    <3>3. CASE ~(i <= n)
      <4>1. i - n \in 1 .. m /\ j - n \in 1 .. m /\ i - n < j - n /\ ~(j <= n)
        BY <1>4, <3>3
      <4>2. rows[i - n] < rows[j - n]
        BY <1>1, <1>4, <4>1 DEF Increasing
      <4>3. both[i] = rows[i - n] /\ both[j] = rows[j - n]
        BY <2>3, <3>3, <4>1
      <4> QED
        BY <4>2, <4>3
    <3> QED
      BY <3>1, <3>2, <3>3
  <2>8. \A i \in 1 .. n : sent[i] = both[i] /\ i \in 1 .. n + m
    BY <1>4, <2>3
  <2>9. \A i \in 1 .. m : rows[i] = both[n + i] /\ n + i \in 1 .. n + m
    <3> SUFFICES ASSUME NEW i \in 1 .. m
                 PROVE  rows[i] = both[n + i] /\ n + i \in 1 .. n + m
      OBVIOUS
    <3>1. n + i \in 1 .. n + m /\ ~(n + i <= n) /\ n + i - n = i
      BY <1>4
    <3> QED
      BY <1>4, <2>3, <3>1
  <2>10. ASSUME NEW e \in vis, both[1] <= e, e <= c
         PROVE  e \in ToSet(both)
    <3>1. CASE e > cursor
      <4>1. e \in ToSet(rows)
        BY <1>1, <1>6, <2>2, <2>10, <3>1 DEF ids
      <4>2. PICK i \in 1 .. m : rows[i] = e
        BY <1>4, <4>1 DEF ToSet
      <4> QED
        BY <2>4, <2>9, <4>2 DEF ToSet
    <3>2. CASE ~(e > cursor)
      <4>1. e \in Nat /\ e # 0 /\ e <= cursor
        BY <3>2
      <4>2. sent # <<>>
        BY <4>1 DEF NoGap, LastOr
      <4>3. 1 \in 1 .. n /\ both[1] = sent[1]
        <5>1. n # 0
          BY <4>2, EmptySeq DEF n
        <5>2. 1 \in 1 .. n
          BY <1>4, <5>1
        <5> QED
          BY <2>8, <5>2
      <4>4. e \in ToSet(sent)
        BY <2>10, <4>1, <4>2, <4>3 DEF NoGap
      <4>5. PICK i \in 1 .. n : sent[i] = e
        BY <1>4, <4>4 DEF ToSet
      <4> QED
        BY <2>4, <2>8, <4>5 DEF ToSet
    <3> QED
      BY <3>1, <3>2
  <2>11. NoGap(both, c, vis)
    BY <2>4, <2>7, <2>10 DEF NoGap, LastOr
  <2> QED
    BY <1>2, <1>3, <2>2, <2>11 DEF both, c
<1> QED
  BY <1>5, <1>6

-----------------------------------------------------------------------------
(* The actions of a stream.                                                *)

\* What a step of one stream leaves alone.
OneStream(b) ==
  /\ UNCHANGED <<events, open, late>> /\ row' = row
  /\ stream' \in [Viewers -> Stream] /\ overdue' \in [Viewers -> Nat]
  /\ \A c \in Viewers \ {b} : stream'[c] = stream[c] /\ overdue'[c] = overdue[c]

LEMMA StreamSet ==
  ASSUME TypedStreams, NEW b \in Viewers, NEW new \in Stream, Streams(b, new),
         NEW n \in Nat, overdue' = overdue \/ overdue' = [overdue EXCEPT ![b] = n]
  PROVE  OneStream(b) /\ stream'[b] = new
<1>1. stream' = [stream EXCEPT ![b] = new] /\ UNCHANGED <<events, open, late, row>>
  BY DEF Streams, session, table
<1> QED
  BY <1>1 DEF TypedStreams, OneStream

LEMMA StreamOff ==
  /\ Off \in Stream /\ Off.pc = "off" /\ Off.sent = <<>> /\ Off.cursor = 0 /\ Off.recheck = 0
<1>1. 0 \in 0 .. RecheckEvery - 1 /\ 0 \in Nat
  BY WebAssumption
<1>2. <<>> \in Seq(Shown)
  BY EmptySeq
<1> QED
  BY <1>1, <1>2 DEF Off, Stream

LEMMA OffIsWhole ==
  ASSUME NEW b, stream[b] = Off
  PROVE  Whole(b)
<1>1. Increasing(<<>>)
  BY DEF Increasing
<1> QED
  BY <1>1, StreamOff DEF Whole, NoGap, LastOr

\* Sessions go on; a stream that does nothing keeps what it has.
LEMMA CountingKept ==
  ASSUME TypedSessions, TypedStreams, Onward, NEW b \in Viewers, Counting(b),
         stream'[b] = stream[b], overdue'[b] = overdue[b]
  PROVE  Counting(b)'
BY DEF TypedSessions, Onward, Ended, Counting, Alive

\* What the transactions of the table do.
Written == UNCHANGED table \/ Insert \/ \E e \in open : Commit(e)

\* A row that becomes visible is beyond every cursor, or late.
LEMMA WholeKept ==
  ASSUME TypedStreams, NEW b \in Viewers, Whole(b), stream'[b] = stream[b], Written
  PROVE  Whole(b)'
<1> DEFINE cursor == stream[b].cursor
<1>1. events \in Nat /\ cursor \in Nat
  BY WebAssumption DEF TypedStreams, Stream
<1>2. SUFFICES /\ Visible \subseteq Visible'
               /\ \A e \in Punctual' : e <= cursor => e \in Punctual
  BY DEF Whole, NoGap
<1>3. CASE UNCHANGED table
  BY <1>3 DEF table, Visible, Punctual
<1>4. CASE Insert
  <2>1. events' = events + 1 /\ open' = open \cup {events + 1} /\ late' = late
    BY <1>4 DEF Insert
  <2>2. Visible' = Visible
    BY <1>1, <2>1 DEF Visible
  <2> QED
    BY <2>1, <2>2 DEF Punctual
<1>5. ASSUME NEW e \in open, Commit(e)
      PROVE  /\ Visible \subseteq Visible'
             /\ \A f \in Punctual' : f <= cursor => f \in Punctual
  <2>1. /\ events' = events /\ open' = open \ {e}
        /\ late' = IF \E f \in Visible : f > e THEN late \cup {e} ELSE late
    BY <1>5 DEF Commit
  <2>2. Visible \subseteq Visible' /\ Visible' \subseteq Visible \cup {e}
    BY <2>1 DEF Visible
  <2>3. Punctual' \subseteq Punctual \cup {e} /\ (e \in late' => e \notin Punctual')
    BY <2>1, <2>2 DEF Punctual
  <2>4. ASSUME e <= cursor
        PROVE  e \in late'
    <3>1. e \in 1 .. events /\ e \notin Visible
      BY DEF TypedStreams, Visible
    <3>2. cursor \in Visible /\ cursor # e
      BY <1>1, <2>4, <3>1 DEF Whole
    <3>3. cursor > e
      BY <1>1, <2>4, <3>1, <3>2
    <3> QED
      BY <2>1, <3>2, <3>3
  <2> QED
    BY <2>2, <2>3, <2>4
<1> QED
  BY <1>3, <1>4, <1>5 DEF Written

LEMMA TableKept ==
  ASSUME TypedStreams, OneByOne, Written
  PROVE  /\ events' \in 0 .. MaxRows /\ open' \subseteq 1 .. events' /\ late' \subseteq 1 .. events'
         /\ OneByOne'
<1>1. events \in 0 .. MaxRows /\ events \in Nat /\ MaxRows \in Nat
  BY WebAssumption DEF TypedStreams
<1>2. CASE UNCHANGED table
  BY <1>2 DEF table, TypedStreams, OneByOne
<1>3. CASE Insert
  <2>1. /\ events < MaxRows /\ events' = events + 1 /\ open' = open \cup {events + 1} /\ late' = late
        /\ Cardinality(open) < Writers
    BY <1>3 DEF Insert
  <2>2. Writers = 1 => open = {}
    <3>1. Cardinality({events}) = 1
      BY FS_Singleton
    <3>2. ASSUME Writers = 1, OneByOne, open # {}
          PROVE  FALSE
      <4>1. open = {events}
        BY <3>2 DEF OneByOne
      <4> QED
        BY <2>1, <3>1, <3>2, <4>1
    <3> QED
      BY <3>2
  <2>3. events' \in 0 .. MaxRows /\ 1 .. events \subseteq 1 .. events' /\ events + 1 \in 1 .. events'
    BY <1>1, <2>1
  <2> QED
    BY <2>1, <2>2, <2>3 DEF TypedStreams, OneByOne
<1>4. ASSUME NEW e \in open, Commit(e)
      PROVE  /\ events' \in 0 .. MaxRows /\ open' \subseteq 1 .. events' /\ late' \subseteq 1 .. events'
             /\ OneByOne'
  <2>1. /\ events' = events /\ open' = open \ {e}
        /\ late' = IF \E f \in Visible : f > e THEN late \cup {e} ELSE late
    BY <1>4 DEF Commit
  <2>2. Writers = 1 => e = events /\ ~ \E f \in Visible : f > e
    BY <1>1 DEF OneByOne, Visible
  <2> QED
    BY <1>1, <2>1, <2>2 DEF TypedStreams, OneByOne
<1> QED
  BY <1>2, <1>3, <1>4 DEF Written

LEMMA VisibleRows == Visible \subseteq Shown /\ Visible \in SUBSET (1 .. MaxRows)
BY WebAssumption DEF Visible

\* The action itself, of one stream.
Fine(b) == Counting(b) /\ Whole(b)

LEMMA OpenStep ==
  ASSUME TypedSessions, TypedStreams, NEW b \in Viewers, Fine(b), Open(b)
  PROVE  OneStream(b) /\ Fine(b)'
<1> DEFINE new == [Off EXCEPT !.pc = "backfill", !.sid = cookie]
<1>1. /\ cookie \in Sids /\ row[cookie] = "live" /\ Streams(b, new)
      /\ overdue' = [overdue EXCEPT ![b] = 0]
  BY DEF Open, Alive, TypedSessions
<1>2. /\ new \in Stream /\ new.pc = "backfill" /\ new.sid = cookie
      /\ new.sent = <<>> /\ new.cursor = 0
  BY <1>1, StreamOff DEF Stream, Off
<1> HIDE DEF new
<1>3. OneStream(b) /\ stream'[b] = new
  <2>1. PICK n \in Nat : n = 0
    OBVIOUS
  <2> QED
    BY <1>1, <1>2, <2>1, StreamSet
<1>4. overdue'[b] = 0
  BY <1>1 DEF TypedStreams
<1>5. Counting(b)'
  BY <1>1, <1>2, <1>3, <1>4, WebAssumption DEF Counting, OneStream
<1>6. Whole(b)'
  <2>1. Increasing(<<>>)
    BY DEF Increasing
  <2> QED
    BY <1>2, <1>3, <2>1 DEF Whole, NoGap, LastOr
<1> QED
  BY <1>3, <1>5, <1>6 DEF Fine

LEMMA BackfillStep ==
  ASSUME TypedSessions, TypedStreams, NEW b \in Viewers, Fine(b), Backfill(b)
  PROVE  OneStream(b) /\ Fine(b)'
<1> DEFINE rows == Latest(Visible)
           cursor == LastOr(rows, 0)
           new == [stream[b] EXCEPT !.pc = "tick", !.sent = rows, !.cursor = cursor]
<1>1. stream[b].pc = "backfill" /\ Streams(b, new) /\ overdue' = overdue
  BY DEF Backfill
<1>2. /\ rows \in Seq(Visible) /\ cursor \in Visible \cup {0} /\ NoGap(rows, cursor, Visible)
  BY VisibleRows, LatestUnbroken
<1>3. rows \in Seq(Shown)
  BY <1>2, VisibleRows, SeqMonotonic
<1>4. cursor \in Nat
  BY <1>2 DEF Visible
<1> HIDE DEF rows, cursor
<1>5. /\ new \in Stream /\ new.pc = "tick" /\ new.sent = rows /\ new.cursor = cursor
      /\ new.sid = stream[b].sid /\ new.recheck = stream[b].recheck
  BY <1>3, <1>4 DEF Stream, TypedStreams
<1> HIDE DEF new
<1>6. OneStream(b) /\ stream'[b] = new
  BY <1>1, <1>5, StreamSet
<1>7. overdue'[b] = 0 /\ stream[b].recheck \in Nat
  BY <1>1 DEF Fine, Counting, TypedStreams, Stream
<1>8. Counting(b)'
  BY <1>1, <1>5, <1>6, <1>7, WebAssumption DEF Fine, Counting, OneStream, Alive
<1>9. Whole(b)'
  BY <1>2, <1>5, <1>6 DEF Whole, NoGap, OneStream, Visible, Punctual
<1> QED
  BY <1>6, <1>8, <1>9 DEF Fine

LEMMA TickStep ==
  ASSUME TypedSessions, TypedStreams, NEW b \in Viewers, Fine(b), Tick(b)
  PROVE  OneStream(b) /\ Fine(b)'
<1> DEFINE k == IF Looks(b) THEN 0 ELSE stream[b].recheck + 1
           new == [stream[b] EXCEPT !.pc = "fetch", !.recheck = k]
<1>1. stream[b].pc = "tick" /\ overdue' = overdue
  BY DEF Tick
<1>2. /\ stream[b] \in Stream /\ stream[b].recheck \in 0 .. RecheckEvery - 1
      /\ stream[b].recheck \in Nat /\ overdue[b] \in Nat /\ events \in Nat
  BY WebAssumption DEF TypedStreams, Stream
<1>3. CASE Streams(b, Off)
  <2>1. OneStream(b) /\ stream'[b] = Off
    BY <1>1, <1>3, StreamOff, StreamSet
  <2>2. Whole(b)'
    BY <2>1, StreamOff DEF Whole, NoGap, LastOr, Increasing
  <2>3. Counting(b)'
    BY <1>1, <2>1, StreamOff DEF Fine, Counting
  <2> QED
    BY <2>1, <2>2, <2>3 DEF Fine
<1>4. CASE Streams(b, new) /\ (Looks(b) => Alive(stream[b].sid))
  <2>1. k \in 0 .. RecheckEvery - 1
    <3>1. RecheckEvery \in Nat \ {0}
      BY WebAssumption
    <3> QED
      BY <1>2, <3>1 DEF Looks, Counted
  <2>2. overdue[b] <= k
    BY <1>1, <1>2, <1>4 DEF Fine, Counting
  <2> HIDE DEF k
  <2>3. /\ new \in Stream /\ new.pc = "fetch" /\ new.recheck = k /\ new.sent = stream[b].sent
        /\ new.cursor = stream[b].cursor /\ new.sid = stream[b].sid
    BY <1>2, <2>1 DEF Stream
  <2> HIDE DEF new
  <2>4. OneStream(b) /\ stream'[b] = new
    BY <1>1, <1>4, <2>3, StreamSet
  <2>5. Counting(b)'
    BY <1>1, <2>2, <2>3, <2>4 DEF Fine, Counting, OneStream, Alive
  <2>6. Whole(b)'
    BY <2>3, <2>4 DEF Fine, Whole, NoGap, OneStream, Visible, Punctual
  <2> QED
    BY <2>4, <2>5, <2>6 DEF Fine
<1>5. \/ Streams(b, Off)
      \/ Streams(b, new) /\ (Looks(b) => Alive(stream[b].sid))
  BY DEF Tick, Counted
<1> QED
  BY <1>3, <1>4, <1>5

LEMMA FetchStep ==
  ASSUME TypedSessions, TypedStreams, NEW b \in Viewers, Fine(b), Fetch(b)
  PROVE  OneStream(b) /\ Fine(b)'
<1> DEFINE old == stream[b]
           rows == Earliest({e \in Visible : e > old.cursor})
           cursor == LastOr(rows, old.cursor)
           both == old.sent \o rows
           new == [old EXCEPT !.pc = "tick", !.sent = both, !.cursor = cursor]
           polls == IF Alive(old.sid) THEN 0
                    ELSE IF overdue[b] > RecheckEvery THEN overdue[b] ELSE overdue[b] + 1
<1>1. old.pc = "fetch" /\ Streams(b, new) /\ overdue' = [overdue EXCEPT ![b] = polls]
  BY DEF Fetch, CursorAfter
<1>2. /\ old \in Stream /\ old.recheck \in Nat /\ old.recheck + 1 <= RecheckEvery
      /\ overdue[b] \in Nat /\ RecheckEvery \in Nat
      /\ old.sent \in Seq(Shown) /\ old.cursor \in Nat /\ overdue[b] <= old.recheck
  <2>1. /\ old \in Stream /\ old.recheck \in 0 .. RecheckEvery - 1
        /\ overdue[b] \in Nat /\ RecheckEvery \in Nat
        /\ old.sent \in Seq(Shown) /\ old.cursor \in Nat
    BY WebAssumption DEF TypedStreams, Stream
  <2> QED
    BY <1>1, <2>1 DEF Fine, Counting
<1>3. /\ rows \in Seq(Visible) /\ cursor \in Visible \cup {0}
      /\ NoGap(both, cursor, Punctual)
  <2> DEFINE ahead == {e \in Visible : e \in Punctual \/ e > old.cursor}
  <2>1. Shown \subseteq 1 .. MaxRows
    BY WebAssumption
  <2>2. old.sent \in Seq(1 .. MaxRows)
    BY <1>2, <2>1, SeqMonotonic
  <2>3. old.cursor \in Visible \cup {0} /\ NoGap(old.sent, old.cursor, Punctual)
    BY DEF Fine, Whole
  <2>4. /\ ahead \in SUBSET (1 .. MaxRows) /\ ahead \subseteq Visible /\ Punctual \subseteq ahead
        /\ {e \in ahead : e > old.cursor} = {e \in Visible : e > old.cursor}
    BY VisibleRows DEF Punctual
  <2>5. NoGap(old.sent, old.cursor, ahead)
    <3> SUFFICES ASSUME NEW e \in ahead, e <= old.cursor
                 PROVE  e \in Punctual
      BY <2>3 DEF NoGap
    <3>1. e \in Nat
      BY <2>4, WebAssumption
    <3> QED
      BY <1>2, <3>1
  <2> HIDE DEF old, ahead
  <2>6. /\ rows \in Seq(ahead) /\ cursor \in ahead \cup {old.cursor}
        /\ NoGap(both, cursor, ahead)
    BY <1>2, <2>2, <2>4, <2>5, EarliestUnbroken
  <2>7. rows \in Seq(Visible)
    BY <2>4, <2>6, SeqMonotonic
  <2> QED
    BY <2>3, <2>4, <2>6, <2>7 DEF NoGap
<1>4. both \in Seq(Shown)
  <2>1. rows \in Seq(Shown)
    BY <1>3, VisibleRows, SeqMonotonic
  <2> HIDE DEF old, rows
  <2> QED
    BY <1>2, <2>1, ConcatProperties
<1>5. cursor \in Nat
  BY <1>3 DEF Visible
<1>6. polls \in Nat /\ polls <= old.recheck + 1 /\ (polls # 0 => ~Alive(old.sid))
  <2> HIDE DEF old
  <2> QED
    BY <1>2
<1> HIDE DEF rows, cursor, both, polls
<1>7. /\ new \in Stream /\ new.pc = "tick" /\ new.sent = both /\ new.cursor = cursor
      /\ new.sid = old.sid /\ new.recheck = old.recheck
  BY <1>2, <1>4, <1>5 DEF Stream
<1> HIDE DEF new
<1>8. OneStream(b) /\ stream'[b] = new
  BY <1>1, <1>6, <1>7, StreamSet
<1>9. overdue'[b] = polls
  BY <1>1 DEF TypedStreams
<1>10. Counting(b)'
  <2>1. polls <= RecheckEvery
    BY <1>2, <1>6
  <2>2. old.sid \in Sids /\ row[old.sid] # "none"
    BY <1>1 DEF Fine, Counting
  <2> QED
    BY <1>6, <1>7, <1>8, <1>9, <2>1, <2>2 DEF Counting, OneStream, Alive
<1>11. Whole(b)'
  BY <1>3, <1>7, <1>8 DEF Whole, OneStream, Visible, Punctual
<1> QED
  BY <1>8, <1>10, <1>11 DEF Fine

LEMMA DisconnectStep ==
  ASSUME TypedSessions, TypedStreams, NEW b \in Viewers, Fine(b), Disconnect(b)
  PROVE  OneStream(b) /\ Fine(b)'
<1>1. overdue' = overdue /\ Streams(b, Off)
  BY DEF Disconnect
<1>2. OneStream(b) /\ stream'[b] = Off
  BY <1>1, StreamOff, StreamSet
<1>3. Whole(b)'
  BY <1>2, StreamOff DEF Whole, NoGap, LastOr, Increasing
<1>4. Counting(b)'
  BY <1>1, <1>2, StreamOff DEF Fine, Counting
<1> QED
  BY <1>2, <1>3, <1>4 DEF Fine

-----------------------------------------------------------------------------
(* The theorems.                                                           *)

LEMMA WatchedInit == Init => Watched
<1> SUFFICES ASSUME Init
             PROVE  Watched
  OBVIOUS
<1> USE DEF Init
<1>1. 0 \in Nat /\ 0 \in 0 .. MaxTokens /\ 0 \in 0 .. MaxRoles /\ 0 \in 0 .. MaxRows
  BY WebAssumption
<1>2. TypedSessions
  BY <1>1 DEF TypedSessions
<1>3. TypedStreams /\ OneByOne
  BY <1>1, StreamOff DEF TypedStreams, OneByOne
<1>4. Apart
  BY WebAssumption DEF Apart, Knows, Idle
<1>5. \A s \in Sids \ excused : row[s] # "revoked" /\ Clean(s)
  BY WebAssumption DEF Clean, Idle
<1>6. ASSUME NEW b \in Viewers
      PROVE  Counting(b) /\ Whole(b)
  <2>1. Counting(b)
    BY WebAssumption, StreamOff DEF Counting
  <2>2. Whole(b)
    BY <1>1, OffIsWhole
  <2> QED
    BY <2>1, <2>2
<1> QED
  BY <1>2, <1>3, <1>4, <1>5, <1>6 DEF Watched, Signed

LEMMA WatchedStep == Watched /\ [Next]_vars => Watched'
<1> SUFFICES ASSUME Watched, [Next]_vars
             PROVE  Watched'
  OBVIOUS
<1>1. Signed' /\ Onward
  BY SignedStep DEF Watched
<1>2. TypedSessions /\ TypedStreams /\ OneByOne /\ \A b \in Viewers : Fine(b)
  BY DEF Watched, Signed, Fine
<1>3. CASE \E b \in Viewers : Open(b) \/ Backfill(b) \/ Tick(b) \/ Fetch(b) \/ Disconnect(b)
  <2>1. PICK b \in Viewers : Open(b) \/ Backfill(b) \/ Tick(b) \/ Fetch(b) \/ Disconnect(b)
    BY <1>3
  <2>2. OneStream(b) /\ Fine(b)'
    BY <1>2, <2>1, OpenStep, BackfillStep, TickStep, FetchStep, DisconnectStep
  <2>3. TypedStreams' /\ OneByOne' /\ Written
    BY <1>2, <2>2 DEF TypedStreams, OneByOne, OneStream, Written, table
  <2>4. \A c \in Viewers : Fine(c)'
    <3> SUFFICES ASSUME NEW c \in Viewers \ {b}
                 PROVE  Fine(c)'
      BY <2>2
    <3>1. stream'[c] = stream[c] /\ overdue'[c] = overdue[c]
      BY <2>2 DEF OneStream
    <3> QED
      BY <1>1, <1>2, <2>3, <3>1, CountingKept, WholeKept DEF Fine
  <2> QED
    BY <1>1, <2>3, <2>4 DEF Watched, Fine
<1>4. CASE Crash
  <2>1. stream' = [b \in Viewers |-> Off] /\ UNCHANGED <<events, open, late, overdue, row>>
    BY <1>4 DEF Crash, session, table
  <2>2. TypedStreams' /\ OneByOne'
    BY <1>2, <2>1, StreamOff DEF TypedStreams, OneByOne
  <2>3. ASSUME NEW b \in Viewers
        PROVE  Counting(b)' /\ Whole(b)'
    <3>1. stream'[b] = Off
      BY <2>1
    <3>2. Whole(b)'
      BY <3>1, StreamOff DEF Whole, NoGap, LastOr, Increasing
    <3>3. Counting(b)'
      BY <1>2, <2>1, <3>1, StreamOff DEF Fine, Counting
    <3> QED
      BY <3>2, <3>3
  <2> QED
    BY <1>1, <2>2, <2>3 DEF Watched
<1>5. CASE UNCHANGED <<stream, overdue>> /\ Written
  <2>1. TypedStreams' /\ OneByOne'
    BY <1>2, <1>5, TableKept DEF TypedStreams
  <2>2. \A b \in Viewers : Fine(b)'
    BY <1>1, <1>2, <1>5, CountingKept, WholeKept DEF Fine
  <2> QED
    BY <1>1, <2>1, <2>2 DEF Watched, Fine
<1>6. \/ \E b \in Viewers : Open(b) \/ Backfill(b) \/ Tick(b) \/ Fetch(b) \/ Disconnect(b)
      \/ Crash
      \/ UNCHANGED <<stream, overdue>> /\ Written
  BY DEF Next, vars, tail, Written, Login, Prune, Age, Expire, Logout, RoleChanges, Insert, Commit,
         KaLoad, Redeem, Refuse, KaStore, StoreFails, KaRevoke
<1> QED
  BY <1>3, <1>4, <1>5, <1>6

LEMMA WatchedAlways == Spec => []Watched
<1>1. Init => Watched
  BY WatchedInit
<1>2. Watched /\ [Next]_vars => Watched'
  BY WatchedStep
<1> QED
  BY <1>1, <1>2, PTL DEF Spec

\* An operator stays signed in: a session is revoked only for one of the reasons
\* of _do_refresh and logout, in every interleaving of the tabs' keepalives.
THEOREM SignedInHolds == Spec => []StaysSignedIn
<1>1. Watched => StaysSignedIn
  BY DEF Watched, Signed, StaysSignedIn
<1> QED
  BY <1>1, WatchedAlways, PTL

\* The counter of the stream's loop: a stream outlives its session by
\* RecheckEvery polls at most.
THEOREM CutInTimeHolds == Spec => []CutInTime
<1>1. Watched => CutInTime
  BY DEF Watched, Counting, CutInTime
<1> QED
  BY <1>1, WatchedAlways, PTL

\* What a stream has sent has no row twice, and no gap but for rows that became
\* visible after a higher one, which one writer alone has none of; whatever came
\* while it sent the backfill, and whatever its two limits left for later.
THEOREM NoGaps == Spec => []SentIsWhole
<1>1. Watched => SentIsWhole
  <2> SUFFICES ASSUME Watched, NEW b \in Viewers
               PROVE  LET sent == stream[b].sent
                      IN /\ \A i, j \in DOMAIN sent : i < j => sent[i] < sent[j]
                         /\ \A e \in Visible : sent # <<>> /\ sent[1] <= e /\ e <= stream[b].cursor
                              => e \in ToSet(sent) \/ (Writers > 1 /\ e \in late)
    BY DEF SentIsWhole
  <2>1. NoGap(stream[b].sent, stream[b].cursor, Punctual)
    BY DEF Watched, Whole
  <2>2. \A e \in Visible : e \in Punctual \/ (Writers > 1 /\ e \in late)
    BY WebAssumption DEF Watched, OneByOne, Punctual
  <2> QED
    BY <2>1, <2>2 DEF NoGap, Increasing
<1> QED
  BY <1>1, WatchedAlways, PTL

\* A session that ended never comes back, even when a refresh that started before
\* stores its token after: the update of _do_refresh leaves revoked alone.
THEOREM EndedStays == Spec => EndedForGood
<1>1. Watched /\ [Next]_vars =>
        [\A s \in Sids : row[s] \notin {"none", "live"} => ~Alive(s)']_row
  <2> SUFFICES ASSUME Watched, [Next]_vars, NEW s \in Sids, row[s] \notin {"none", "live"}
               PROVE  ~Alive(s)'
    OBVIOUS
  <2>1. Onward /\ row[s] \in Ended
    BY SignedStep DEF Watched, Signed, TypedSessions, Ended
  <2> QED
    BY <2>1 DEF Onward, Ended, Alive
<1> QED
  BY <1>1, WatchedAlways, PTL DEF Spec, EndedForGood

\* Every variable keeps its type.
THEOREM TypeCorrect == Spec => []TypeOK
<1> DEFINE Bounded == faults \in 0 .. MaxFaults
<1>1. Init => Bounded
  BY WebAssumption DEF Init
<1>2. Bounded /\ [Next]_vars => Bounded'
  <2> SUFFICES ASSUME Bounded, [Next]_vars
               PROVE  Bounded'
    OBVIOUS
  <2>1. faults' = faults \/ Fault
    BY DEF Next, vars, Streams, Login, Prune, Age, Expire, Logout, RoleChanges, Insert, Commit, Crash,
           KaLoad, Redeem, Refuse, KaStore, StoreFails, KaRevoke,
           Open, Backfill, Tick, Fetch, Disconnect
  <2> QED
    BY <2>1, WebAssumption DEF Fault
<1>3. Watched /\ Bounded => TypeOK
  <2> SUFFICES ASSUME Watched, Bounded
               PROVE  TypeOK
    OBVIOUS
  <2>1. \A b \in Tabs : /\ ka[b].pc \in {"idle", "redeem", "store", "revoke"}
                        /\ ka[b].sid \in Sids \cup {None} /\ ka[b].tok \in 0 .. MaxTokens
    BY WebAssumption DEF Watched, Signed, TypedSessions, Keepalive, Idle
  <2>2. \A b \in Viewers : /\ stream[b].pc \in {"off", "backfill", "tick", "fetch"}
                           /\ stream[b].sent \in Seq(Shown)
                           /\ stream[b].recheck \in 0 .. RecheckEvery - 1
    BY DEF Watched, TypedStreams, Stream
  <2> QED
    BY <2>1, <2>2 DEF Watched, Signed, TypedSessions, TypedStreams, TypeOK
<1> QED
  BY <1>1, <1>2, <1>3, WatchedAlways, PTL DEF Spec
=============================================================================
