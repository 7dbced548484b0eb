------------------------------ MODULE Selection ------------------------------
(***************************************************************************)
(* The elements of a sequence that are in a set.  SelectSeq does the same  *)
(* for a predicate, but its definition cannot be used in a proof.          *)
(***************************************************************************)
EXTENDS Naturals, Sequences

\* What is selected of the first n elements of q, for each n.
SelectedUpTo(q, S) ==
  LET selected[n \in 0..Len(q)] ==
        IF n = 0 THEN <<>>
        ELSE IF q[n] \in S THEN Append(selected[n - 1], q[n])
                           ELSE selected[n - 1]
  IN  selected

SelectIn(q, S) == SelectedUpTo(q, S)[Len(q)]
=============================================================================
