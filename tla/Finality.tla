------------------------------ MODULE Finality ------------------------------
(***************************************************************************)
(* What a chain promises about finality, with no window, history, votes or *)
(* square roots.  A block works on a tentative copy of the justified slots *)
(* and of the finalized slot, and the copy is kept or dropped as a whole.  *)
(* A link from a justified slot to a later one justifies the later, if it  *)
(* is justifiable after the slot that was finalized when the block began;  *)
(* it finalizes the earlier one if no slot in between is justifiable, and  *)
(* every slot up to that one counts as justified then.                     *)
(***************************************************************************)
EXTENDS Naturals

CONSTANT Slot

VARIABLES
    justified,       \* slots counted as justified, tentatively
    finalized,       \* the finalized slot, tentatively
    kept_justified,  \* the same two after the last kept block
    kept_finalized

fvars == <<justified, finalized, kept_justified, kept_finalized>>

FInit ==
    /\ justified = {0} /\ finalized = 0
    /\ kept_justified = {0} /\ kept_finalized = 0

\* Up to five slots after the finalized one, or at the distance of a square or
\* of a product of neighbours (the documentation in containers/src/slot.rs).
Justifiable(slot, after) ==
    LET delta == slot - after
    IN  \/ delta <= 5
        \/ \E k \in 0..delta : delta = k * k \/ delta = k * (k + 1)

Between(s, t) == (s + 1)..(t - 1)

\* A supermajority votes for the link from s to t.
Link(s, t) ==
    /\ s \in justified /\ t \notin justified /\ s < t
    /\ Justifiable(t, kept_finalized)
    /\ UNCHANGED <<kept_justified, kept_finalized>>

JustifySlot(s, t) ==
    /\ Link(s, t)
    /\ \E x \in Between(s, t) : Justifiable(x, kept_finalized)
    /\ justified' = justified \cup {t}
    /\ UNCHANGED finalized

FinalizeSlot(s, t) ==
    /\ Link(s, t)
    /\ s >= finalized
    /\ \A x \in Between(s, t) : ~Justifiable(x, kept_finalized)
    /\ justified' = justified \cup {t} \cup 0..s
    /\ finalized' = s

Keep ==
    /\ kept_justified' = justified /\ kept_finalized' = finalized
    /\ UNCHANGED <<justified, finalized>>

Drop ==
    /\ justified' = kept_justified /\ finalized' = kept_finalized
    /\ UNCHANGED <<kept_justified, kept_finalized>>

FNext ==
    \/ Keep
    \/ Drop
    \/ \E s, t \in Slot : JustifySlot(s, t) \/ FinalizeSlot(s, t)

FSpec == FInit /\ [][FNext]_fvars
=============================================================================
