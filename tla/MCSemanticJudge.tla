--------------------------- MODULE MCSemanticJudge ----------------------------
(***************************************************************************)
(* Values for model-checking SemanticJudge: what an earlier version may    *)
(* have left in the traces of a rule, and the lines in its scope.          *)
(***************************************************************************)
EXTENDS SemanticJudgeProofs, TLC

Window1(success) == [ok |-> success, from |-> 0, to |-> 1]
Window2(success) == [ok |-> success, from |-> 1, to |-> 3]

\* A rule is new, or had one window judged, or two.
AnyHistory ==
  {<<>>} \cup {<<Window1(x)>> : x \in BOOLEAN}
         \cup {<<Window1(x), Window2(y)>> : x, y \in BOOLEAN}
NoHistory == {<<>>}

AllButOneLine == [k \in Rules |-> Lines \ {2}]
AllLines == [k \in Rules |-> Lines]

TargetSymmetry == Permutations(Targets)
=============================================================================
