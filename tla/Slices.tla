------------------------------- MODULE Slices -------------------------------
(***************************************************************************)
(* What the Go code does to slices: keep the elements that pass a test,    *)
(* and sort.                                                               *)
(***************************************************************************)
EXTENDS Naturals, SequencesExt

\* A loop that appends the elements in "keep" to an empty slice.
Filtered(q, keep) ==
    LET append(kept, x) == IF x \in keep THEN Append(kept, x) ELSE kept
    IN  FoldLeft(append, <<>>, q)

\* sort.Slice with the order < on numbers: the elements of q, rearranged.
Sorted(q) ==
    LET n == Len(q)
        p == CHOOSE f \in Bijection(1 .. n, 1 .. n) :
                \A j, k \in 1 .. n : j < k => q[f[j]] <= q[f[k]]
    IN  [k \in 1 .. n |-> q[p[k]]]
=============================================================================
