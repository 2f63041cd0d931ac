------------------------------- MODULE Slots -------------------------------
(***************************************************************************)
(* Slot arithmetic of the 3SF-mini finality gadget                         *)
(* (containers/src/slot.rs): which slots may become justified after a      *)
(* finalized slot, and the index of a slot in the window of justification  *)
(* bits that starts just after the finalized slot.                         *)
(***************************************************************************)
EXTENDS Naturals

\* checked_sub succeeds: slot has a position in the window of justification
\* bits exactly when it is after the finalized slot.
HasIndex(slot, finalized_slot) == slot >= finalized_slot + 1

\* The zero-based position of slot in the window.
justified_index_after(slot, finalized_slot) == slot - (finalized_slot + 1)

\* (n as f64).sqrt() as u64: the integer part of the square root.
isqrt(n) == CHOOSE r \in 0..n : r * r <= n /\ n < (r + 1) * (r + 1)

\* The assert at the head of is_justifiable_after: an earlier slot panics.
CandidateOk(slot, finalized) == slot >= finalized

\* Mutant: a product of neighbours is looked for among the squares of even
\* numbers.
is_justifiable_after_Even(slot, finalized) ==
    LET delta == slot - finalized
        test  == 4 * delta
    IN  \/ delta <= 5
        \/ isqrt(delta) * isqrt(delta) = delta
        \/ /\ isqrt(test) * isqrt(test) = test
           /\ isqrt(test) % 2 = 1

\* is_justifiable_after past its assert.
is_justifiable_after(slot, finalized) ==
    LET delta == slot - finalized
        test  == 4 * delta + 1
    IN  \/ delta <= 5
        \/ isqrt(delta) * isqrt(delta) = delta
        \/ /\ isqrt(test) * isqrt(test) = test
           /\ isqrt(test) % 2 = 1
=============================================================================
