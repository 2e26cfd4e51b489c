-------------------------------- MODULE Loops --------------------------------
(***************************************************************************)
(* A loop over a sequence, as a recursive function that proofs can unfold. *)
(***************************************************************************)
EXTENDS Naturals, Sequences

\* for x in seq: state = Step(state, x)
ForEach(Step(_, _), start, seq) ==
  LET state[n \in 0 .. Len(seq)] ==
        IF n = 0 THEN start ELSE Step(state[n - 1], seq[n])
  IN state[Len(seq)]
=============================================================================
