--------------------------- MODULE MCChainService ---------------------------
(***************************************************************************)
(* Instances of ChainService for TLC.  The States are those that           *)
(* state_transition computes, block by block, for a small tree:            *)
(*                                                                         *)
(*     G0 -- A1 -- A2 -- A4         A2 justifies A1; A4, as F3, justifies  *)
(*           | \     \              A2 and finalizes A1                    *)
(*           |  \     F3                                                   *)
(*           |  B3 -- X5 -- Y6      X5 has a wrong state root              *)
(*           |    \                                                        *)
(*           |     P7               an assert fails in P7                  *)
(*     |     C4, E2                                                        *)
(*     D1                                                                  *)
(***************************************************************************)
EXTENDS ChainService

CONSTANTS
    MaxRoot,      \* the tree is cut to the roots up to MaxRoot
    GossipSlots,  \* slots whose attestations are gossiped
    Twice,        \* blocks that may be received twice
    Bare,         \* blocks that lack the proof of their last attestation
    Borrowed      \* blocks with the proofs of other votes

ST == INSTANCE BlockTransition

G0 == 4
A1 == 5
A2 == 2
A4 == 6
B3 == 3
X5 == 7
Y6 == 1
P7 == 8
C4 == 9
E2 == 10
F3 == 11
D1 == 12

SlotOf == [r \in 1..12 |-> (<<6, 2, 3, 0, 1, 4, 5, 7, 4, 2, 3, 1>>)[r]]

ParentOf == [r \in 1..12 |-> (<<X5, A1, A1, Zero, G0, A2, B3, B3, A1, A1, A2, G0>>)[r]]

Cp(r) == [root |-> r, slot |-> SlotOf[r]]

Data(slot, head, target, source) ==
    [slot |-> slot, head |-> Cp(head), target |-> Cp(target), source |-> Cp(source)]

Aggregate(voters, data) == [aggregation_bits |-> voters, data |-> data]

Body(r) ==
    CASE r = A2 -> <<Aggregate({0, 1}, Data(1, A1, A1, G0))>>
      [] r = A4 -> <<Aggregate({1, 2}, Data(2, A2, A2, A1)),
                     Aggregate({0}, Data(3, A2, A2, A1))>>
      [] r = F3 -> <<Aggregate({1, 2}, Data(2, A2, A2, A1))>>
      [] r = B3 -> <<Aggregate({2}, Data(1, A1, A1, G0))>>
      [] r = C4 -> <<Aggregate({1}, Data(2, A1, A1, G0))>>
      [] r = E2 -> <<Aggregate({1}, Data(1, A1, G0, G0))>>
      [] r = D1 -> <<Aggregate({3}, Data(0, G0, G0, G0))>>
      [] r = P7 -> <<Aggregate({}, Data(6, B3, B3, G0))>>
      [] OTHER  -> << >>

ProposerData(r) ==
    CASE r = A4 -> Data(4, A2, A2, A1)
      [] r = F3 -> Data(3, A2, A2, A1)
      [] r \in {A1, D1, G0} -> Data(SlotOf[r], G0, G0, G0)
      [] OTHER  -> Data(SlotOf[r], A1, A1, G0)

GenuineProof(att) ==
    [participants |-> att.aggregation_bits, signers |-> att.aggregation_bits,
     message |-> att.data]

\* Another vote of the same voters, which G0's proposer might have cast.
OtherVote == Data(0, G0, G0, G0)

Proofs(r) ==
    LET atts   == Body(r)
        proofs == [i \in 1..Len(atts) |-> GenuineProof(atts[i])]
    IN  IF r \in Bare THEN SubSeq(proofs, 1, Len(proofs) - 1)
        ELSE IF r \in Borrowed
        THEN [i \in 1..Len(atts) |-> [proofs[i] EXCEPT !.message = OtherVote]]
        ELSE proofs

MCBlock ==
    [r \in Root |-> [slot         |-> SlotOf[r],
                     parent_root  |-> ParentOf[r],
                     attestations |-> Body(r),
                     proposer_attestation |->
                        [validator_id |-> SlotOf[r] % NumValidators,
                         data         |-> ProposerData(r)],
                     attestation_signatures |-> Proofs(r),
                     proposer_signature     |-> Signed]]

\* What state_transition is given of the block with root r.
BlockInput(r) == [root |-> r, slot |-> SlotOf[r], parent_root |-> ParentOf[r],
             proposer_index |-> SlotOf[r] % NumValidators,
             attestations |-> Body(r), state_root_ok |-> r # X5]

MCTransition ==
    LET post[r \in 1..12] ==
            IF r = G0 THEN ST!Ok(ST!generate_genesis(G0))
            ELSE IF post[ParentOf[r]].status # "ok" THEN ST!Err
            ELSE ST!state_transition(post[ParentOf[r]].value, BlockInput(r))
    IN  [r \in Root |-> post[r]]

MCRoot == 1..MaxRoot

MCCopies == [r \in Root |-> IF r \in Twice THEN 2 ELSE 1]

VoteRoot == {G0, A1, A2, B3, A4}

ForkRoot == {G0, A1, A2, B3}

\* Validator 0 votes in every slot, validator 2 once, late.
MCGossip ==
    {a \in {<<0, Data(1, A1, A1, G0), Signed>>, <<0, Data(2, A2, A2, A1), Signed>>,
            <<0, Data(3, B3, A1, G0), Signed>>, <<2, Data(3, B3, A1, G0), OtherBytes>>} :
        a[2].slot \in GossipSlots}

MCData ==
    UNION {{Body(r)[i].data : i \in 1..Len(Body(r))} : r \in Root}
        \cup {ProposerData(r) : r \in Root} \cup {a[2] : a \in MCGossip} \cup {OtherVote}
=============================================================================
