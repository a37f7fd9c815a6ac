------------------------------ MODULE Selection ------------------------------
(***************************************************************************)
(* Comprehensions over sequences, tuple(x for x in xs if ...): what is     *)
(* kept of a sequence, in its order.                                       *)
(***************************************************************************)
EXTENDS Naturals, FiniteSets, Sequences

Ascending(positions) ==
    {f \in [1 .. Cardinality(positions) -> positions] :
        \A i, j \in 1 .. Cardinality(positions) : i < j => f[i] < f[j]}

\* The one subsequence of a sequence at some positions, in a set of its own.
Picked(seq, positions) ==
    {[n \in 1 .. Cardinality(positions) |-> seq[f[n]]] : f \in Ascending(positions)}

\* The r-th smallest of some positions.
Ranked(positions, r) ==
    CHOOSE n \in positions : Cardinality({m \in positions : m <= n}) = r

\* That subsequence itself.
Subsequence(seq, positions) ==
    [r \in 1 .. Cardinality(positions) |-> seq[Ranked(positions, r)]]

=============================================================================
