------------------------------- MODULE Routing -------------------------------
(***************************************************************************)
(* What the L1 rules do with one event: the ruleset compiled from the      *)
(* table (ruleset.py), the router's walk over it (router.py), and what the *)
(* walk has to amount to.                                                  *)
(*                                                                         *)
(* The table is a set of rows [id, order, enabled, hit, min, targets,      *)
(* stop]: hit says whether the row's pattern and glob match the event; min *)
(* is 0 for none, as is the severity of an event without one; targets is   *)
(* the set of those bound to it.                                           *)
(***************************************************************************)
EXTENDS Naturals, Sequences, SequencesExt, Loops

\* ORDER BY rule_order, id
Before(r, s) == r.order < s.order \/ (r.order = s.order /\ r.id < s.id)

InTurn(rows) ==
  CHOOSE seq \in [1 .. Cardinality(rows) -> rows] :
    \A i, j \in DOMAIN seq : i < j => Before(seq[i], seq[j])

Enabled(rows) == {r \in rows : r.enabled}

\* A bug: a rule without targets is left out, a silent block among them.
BugCompile(rows) == InTurn({r \in Enabled(rows) : r.targets # {}})

\* reload: a rule that can neither notify nor block is left out.
Compile(rows) == InTurn({r \in Enabled(rows) : r.targets # {} \/ r.stop})

Matches(r, sev) == r.hit /\ ~(r.min > 0 /\ sev < r.min)

\* One rule of _consider_one: walk is [sent, over], sent the dispatches so far as
\* pairs of rule and target.
WalkRule(sev, walk, r) ==
  IF walk.over \/ ~Matches(r, sev) THEN walk
  ELSE LET due == SetToSeq({t \in r.targets : \A d \in ToSet(walk.sent) : d[2] # t})
       IN [sent |-> walk.sent \o [i \in DOMAIN due |-> <<r.id, due[i]>>],
           over |-> r.stop]

Walk(rules, sev) ==
  ForEach(LAMBDA walk, r : WalkRule(sev, walk, r), [sent |-> <<>>, over |-> FALSE], rules).sent

Routed(rows, sev) == Walk(Compile(rows), sev)

-----------------------------------------------------------------------------

\* The rules that an event meets: it matches, and no earlier one has blocked.
Met(rows, sev) ==
  {r \in Enabled(rows) :
     /\ Matches(r, sev)
     /\ \A s \in Enabled(rows) : Before(s, r) /\ Matches(s, sev) => ~s.stop}

\* Each target of a rule that is met is notified once, on behalf of the first.
Due(rows, sev) ==
  UNION {{<<r.id, t>> : t \in {u \in r.targets :
            \A s \in Met(rows, sev) : Before(s, r) => u \notin s.targets}} :
         r \in Met(rows, sev)}
=============================================================================
