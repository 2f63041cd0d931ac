--------------------------- MODULE Justifications ---------------------------
(***************************************************************************)
(* How a State stores the votes for targets that are not justified yet:    *)
(* a sorted list of target roots (justifications_roots) and one flat list  *)
(* of bits (justifications_validators) with n bits per root, bit j of root *)
(* i at position i * n + j.  Outside a State the votes are a map from a    *)
(* root to the set of validators that voted for it.                        *)
(***************************************************************************)
EXTENDS Naturals, Sequences, FiniteSets

\* The elements of a finite set of roots in ascending order (roots.sort()).
sorted_roots(S) ==
    CHOOSE s \in [1..Cardinality(S) -> S] :
        /\ \A i, j \in 1..Cardinality(S) : i < j => s[i] < s[j]
        /\ S = {s[i] : i \in 1..Cardinality(S)}

\* Position of the bit of validator v in the row of the i-th root.
BitPosition(i, v, n) == (i - 1) * n + v + 1

\* The flat bits of the rows of roots, n bits each.
flat_bits(roots, map, n) ==
    [k \in 1..(Len(roots) * n) |->
        \E i \in 1..Len(roots), v \in 0..(n - 1) :
            k = BitPosition(i, v, n) /\ v \in map[roots[i]]]

\* The map a State's two lists stand for, n validators being registered.
get_justifications(roots, bits, n) ==
    [r \in {roots[i] : i \in 1..Len(roots)} |->
        {v \in 0..(n - 1) :
            \E i \in 1..Len(roots) :
                roots[i] = r /\ bits[BitPosition(i, v, n)]}]
=============================================================================
