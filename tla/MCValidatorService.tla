------------------------- MODULE MCValidatorService -------------------------
(***************************************************************************)
(* Instances of ValidatorService for TLC, on the tree of MCChainService.   *)
(***************************************************************************)
EXTENDS MCChainService, ValidatorService

\* Own blocks win every tie.
MCOwnRoot == [s \in 0..MaxTime |-> 20 + s]

SyncRoot == {G0, A1, A2, F3}

ForkedRoot == {G0, A1, C4}

AggregateRoot == {G0, A1, E2}

\* The vote that E2 has of validator 1, gossiped by validator 3.
SameVote == {<<3, Data(1, A1, G0, G0), Signed>>}

\* Votes of another validator.
OtherVotes == {<<1, Data(1, A1, G0, G0), Signed>>, <<1, Data(2, A1, A1, G0), Signed>>}

\* Two blocks on genesis, one with the vote of validator 3 for genesis; SameVote
\* is that validator's next vote, for the other block.
ProposalRoot == {G0, A1, D1}

NodeData == MCData \cup {a[2] : a \in OtherVotes \cup SameVote}

\* No block comes before its slot.
OnTime ==
    \A r \in Root : received'[r] # received[r] => now >= SlotOf[r] * INTERVALS_PER_SLOT
=============================================================================
