---------------------------- MODULE AgentOutbox -----------------------------
(***************************************************************************)
(* What the delivery of alerts to agent chats promises, without locks,     *)
(* rows, timeouts or retries (ringdown/agent_queue.py:3-9 and              *)
(* docs/incident-delivery.md).  Items are accepted once and settle once,   *)
(* unless the target they wait for is deleted; an agent runs only in a     *)
(* slot claimed for it, of which at most Cap are unreleased, and a slot is *)
(* released only after its agent has ended.                                *)
(***************************************************************************)
EXTENDS Integers, FiniteSets

CONSTANTS Items, Slots, Cap

VARIABLES
  item,   \* "new", "waiting", "stranded", or how it was settled
  slot    \* "free", "claimed", "running", "ended" or "released"

outbox == <<item, slot>>

Unreleased == {s \in Slots : slot[s] \in {"claimed", "running", "ended"}}
Waiting == {i \in Items : item[i] = "waiting"}
Settle(S, how) == item' = [i \in Items |-> IF i \in S THEN how ELSE item[i]]
Move(s, from, to) == slot[s] = from /\ slot' = [slot EXCEPT ![s] = to]

Init ==
  /\ item = [i \in Items |-> "new"]
  /\ slot = [s \in Slots |-> "free"]

Accept(i) ==
  /\ item[i] = "new"
  /\ item' = [item EXCEPT ![i] = "waiting"]
  /\ UNCHANGED slot

\* The target is deleted with its waiting items; one that is being delivered may
\* still arrive.
Strand(S) ==
  /\ S \subseteq Waiting
  /\ Settle(S, "stranded")
  /\ UNCHANGED slot

\* A batch reaches a running agent.
Deliver(S, s) ==
  /\ \A i \in S : item[i] \in {"waiting", "stranded"}
  /\ slot[s] = "running"
  /\ Settle(S, "delivered")
  /\ UNCHANGED slot

\* The rule is disabled, or deleted with the history of its items.
Cancel(S) ==
  /\ S \subseteq Waiting
  /\ Settle(S, "cancelled")
  /\ UNCHANGED slot

Forget(S) ==
  /\ \A i \in S : item[i] # "new"
  /\ Settle(S, "deleted")
  /\ UNCHANGED slot

Claim(s) ==
  /\ Cardinality(Unreleased) < Cap
  /\ Move(s, "free", "claimed")
  /\ UNCHANGED item

Start(s) == Move(s, "claimed", "running") /\ UNCHANGED item
End(s) == Move(s, "running", "ended") /\ UNCHANGED item

\* The end of the agent is noticed, and resolves items that waited for it.
Release(s, S) ==
  /\ S \subseteq Waiting
  /\ Settle(S, "resolved")
  /\ Move(s, "ended", "released")

Next ==
  \/ \E i \in Items : Accept(i)
  \/ \E s \in Slots : Claim(s) \/ Start(s) \/ End(s)
  \/ \E s \in Slots, S \in SUBSET Items : Deliver(S, s) \/ Release(s, S)
  \/ \E S \in SUBSET Items : Strand(S) \/ Cancel(S) \/ Forget(S)

Spec == Init /\ [][Next]_outbox
=============================================================================
