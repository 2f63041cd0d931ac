------------------------------- MODULE MCChain -------------------------------
(***************************************************************************)
(* Instances of Chain for TLC: one root per slot, and the checkpoints of   *)
(* those blocks (the last of which no block has in its history), plus one  *)
(* checkpoint with the zero hash and one whose root is another slot's.     *)
(***************************************************************************)
EXTENDS Chain

CONSTANT BlockSlots  \* ascending slots, from 0, at which there may be blocks

\* Adjacent slots, and slots at a pronic and a square distance from genesis.
\* Between 6 and 9 no slot is justifiable after 0, and every slot is once 5 is
\* finalized; between 5 and 9 there is only slot 6, which is pronic.
MCSlots == <<0, 5, 6, 9, 10>>

MCRoot == 1..Len(BlockSlots)

\* Roots descend as slots ascend, so that sorting roots reorders them.
MCSlotOf == [r \in MCRoot |-> BlockSlots[Len(BlockSlots) + 1 - r]]

MCGenesisRoot == Len(BlockSlots)

MCCheckpoint ==
    {[root |-> r, slot |-> MCSlotOf[r]] : r \in MCRoot}
        \cup {[root |-> Zero, slot |-> 4], [root |-> 1, slot |-> 5]}

\* Aggregates of a few validators, one that names nobody, one that names an
\* index past the registry.
MCVoters ==
    {{v} : v \in Validators} \cup {Validators, {}, {NumValidators}}
=============================================================================
