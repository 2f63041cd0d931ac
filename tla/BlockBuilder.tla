---------------------------- MODULE BlockBuilder ----------------------------
(***************************************************************************)
(* build_block and compute_aggregated_signatures (containers/src/state.rs) *)
(* with aggregate_by_data (containers/src/attestation.rs).                 *)
(*                                                                         *)
(* An attestation here is one validator's: [validator_id, data].  Gossip   *)
(* signatures are a map from <<validator_id, data>>, aggregate proofs a    *)
(* set of <<validator_id, data, proof>>, both as module ForkChoice keeps   *)
(* them: as they came, unverified.                                         *)
(* What the code leaves to the order of a HashMap or a HashSet is a choice *)
(* here: the order of the attestations is part of the input, and           *)
(* build_block is the set of what it may return.                           *)
(***************************************************************************)
EXTENDS BlockTransition

\* The data of attestations, each at its first place.
DistinctData(attestations) ==
    LET add(datas, a) == IF Contains(datas, a.data) THEN datas ELSE Append(datas, a.data)
    IN  FoldLeft(add, << >>, attestations)

VotersFor(attestations, data) ==
    {a.validator_id : a \in {b \in ToSet(attestations) : b.data = data}}

aggregate_by_data(attestations) ==
    LET datas == DistinctData(attestations)
    IN  [i \in 1..Len(datas) |->
            [aggregation_bits |-> VotersFor(attestations, datas[i]),
             data             |-> datas[i]]]

-----------------------------------------------------------------------------
(* Collection of attestations up to a fixed point.                         *)

HasProof(a, signatures, payloads) ==
    \/ <<a.validator_id, a.data>> \in DOMAIN signatures
    \/ \E p \in payloads : p[1] = a.validator_id /\ p[2] = a.data

\* The filter of the collection loop.
Eligible(a, attestations, justified, known_block_roots, signatures, payloads) ==
    /\ a.data.head.root \in known_block_roots
    /\ a.data.source = justified
    /\ ~Contains(attestations, a)
    /\ HasProof(a, signatures, payloads)

\* The State after a block with these attestations on top of st.
PostState(st, block, attestations) ==
    IF SlotsOk(st, block.slot)
    THEN process_block(process_slots(st, block.slot),
                       [block EXCEPT !.attestations = attestations])
    ELSE Err

\* The attestations after each round of the loop.  A round that goes on adds
\* one at least, so that the last is reached within Len(available) rounds.
Collect(st, block, available, known_block_roots, signatures, payloads) ==
    LET extend(attestations, post) ==
            LET wanted(a) == Eligible(a, attestations, post.latest_justified,
                                      known_block_roots, signatures, payloads)
            IN  Ok(attestations \o SelectSeq(available, wanted))
        round(attestations) ==
            AndThen(PostState(st, block, aggregate_by_data(attestations)),
                    LAMBDA post : extend(attestations, post))
        step(res, i) == AndThen(res, round)
    IN  FoldLeft(step, Ok(<< >>), [i \in 1..(Len(available) + 1) |-> i])

-----------------------------------------------------------------------------
(* Proofs for what was collected.                                          *)

\* The proofs at hand for t's vote.
Candidates(t, data, payloads) ==
    {p[3] : p \in {q \in payloads : q[1] = t /\ q[2] = data}}

\* Those whose participants cover most of remaining, if they cover any of it.
BestProofs(remaining, candidates) ==
    LET covered(c) == c.participants \cap remaining
    IN  {c \in candidates : /\ covered(c) # {}
                            /\ \A d \in candidates :
                                  Cardinality(covered(d)) <= Cardinality(covered(c))}

\* Greedy cover: the sequences of proofs the loop may pick for remaining.  It
\* stops at a voter for whom there is no proof, and an assert fails on a proof
\* that names no participant.
GreedyCovers(remaining, data, payloads) ==
    LET pick(R, t, rest(_)) ==
            LET candidates == Candidates(t, data, payloads)
                best       == BestProofs(R, candidates)
            IN  IF \E c \in candidates : c.participants = {} THEN {Panicked}
                ELSE IF best = {} THEN {Ok(<< >>)}
                ELSE UNION {{AndThen(res, LAMBDA proofs : Ok(<<c>> \o proofs)) :
                               res \in rest(R \ c.participants)} : c \in best}
        cover[R \in SUBSET remaining] ==
            IF R = {} THEN {Ok(<< >>)}
            ELSE UNION {pick(R, t, LAMBDA S : cover[S]) : t \in R}
    IN  cover[remaining]

\* Those of the voters whose signatures came by gossip.
GossipIds(group, signatures) ==
    {v \in group.aggregation_bits : <<v, group.data>> \in DOMAIN signatures}

\* AggregatedSignatureProof::aggregate of these voters' signatures of data.
aggregate(participants, signers, data) ==
    [participants |-> participants, signers |-> signers, message |-> data]

\* An attestation of the block to be, with its proof.
Proved(bits, data, proof) == [aggregation_bits |-> bits, data |-> data, proof |-> proof]

\* A proof from a block is reused for its participants and the data of group,
\* whatever it proves.
Reused(group, proofs) ==
    [i \in 1..Len(proofs) |-> Proved(proofs[i].participants, group.data, proofs[i])]

\* Mutant: voters without a signature join the proof of those with one.
GroupProofs_Merged(group, signatures, payloads) ==
    LET gossip_ids == GossipIds(group, signatures)
        bits       == group.aggregation_bits
    IN  IF gossip_ids # {}
        THEN {Ok(<<Proved(bits, group.data, aggregate(bits, gossip_ids, group.data))>>)}
        ELSE {AndThen(res, LAMBDA proofs : Ok(Reused(group, proofs))) :
                res \in GreedyCovers(bits, group.data, payloads)}

\* The lists of proofs for one group of attestations: one of the signatures
\* that came by gossip, then those that are reused.
GroupProofs(group, signatures, payloads) ==
    LET gossip_ids == GossipIds(group, signatures)
        first      == IF gossip_ids = {} THEN << >>
                      ELSE <<Proved(gossip_ids, group.data,
                                    aggregate(gossip_ids, gossip_ids, group.data))>>
    IN  {AndThen(res, LAMBDA proofs : Ok(first \o Reused(group, proofs))) :
            res \in GreedyCovers(group.aggregation_bits \ gossip_ids, group.data, payloads)}

\* A signature of an unknown validator has no public key.
UnknownSigner(groups, signatures) ==
    \E i \in 1..Len(groups) : GossipIds(groups[i], signatures) \ Validators # {}

\* Only proper signatures can be aggregated: on others as_lean panics, or the
\* prover refuses them.
NotSigned(groups, signatures) ==
    \E i \in 1..Len(groups) : \E v \in GossipIds(groups[i], signatures) :
        signatures[<<v, groups[i].data>>] # "signed"

\* The lists of attestations with their proofs.
compute_aggregated_signatures(attestations, signatures, payloads) ==
    LET extend(results, group) ==
            {AndThen(res, LAMBDA done : AndThen(proofs, LAMBDA more : Ok(done \o more))) :
                res \in results, proofs \in GroupProofs(group, signatures, payloads)}
    IN  FoldLeft(extend, {Ok(<< >>)}, aggregate_by_data(attestations))

\* unzip.
AttestationsOf(proved) ==
    [i \in 1..Len(proved) |->
        [aggregation_bits |-> proved[i].aggregation_bits, data |-> proved[i].data]]

ProofsOf(proved) == [i \in 1..Len(proved) |-> proved[i].proof]

\* The results of build_block: Ok with the attestations, their proofs and the
\* State, an error, or a failed assert.
build_block(st, block, available, known_block_roots, signatures, payloads) ==
    LET finish(proved) ==
            AndThen(PostState(st, block, AttestationsOf(proved)),
                    LAMBDA post : Ok([attestations |-> AttestationsOf(proved),
                                      proofs |-> ProofsOf(proved), state |-> post]))
        prove(collected) ==
            LET groups == aggregate_by_data(collected)
            IN  IF UnknownSigner(groups, signatures) THEN {Err}
                ELSE IF NotSigned(groups, signatures) THEN {Err, Panicked}
                ELSE {AndThen(res, finish) : res \in
                        compute_aggregated_signatures(collected, signatures, payloads)}
        results(res) == IF res.status = "ok" THEN prove(res.value) ELSE {res}
    IN  results(Collect(st, block, available, known_block_roots, signatures, payloads))

-----------------------------------------------------------------------------
(* What another node checks of the signatures of a block.                  *)

\* AggregatedSignatureProof::verify with the public keys of these validators.
ProofVerifies(proof, validator_ids, data) ==
    proof.signers = validator_ids /\ proof.message = data

verify_signatures(signed_block) ==
    LET attestations == signed_block.attestations
        proofs       == signed_block.attestation_signatures
        proposer     == signed_block.proposer_attestation
        signature    == signed_block.proposer_signature
    IN  /\ Len(attestations) = Len(proofs)
        /\ \A i \in 1..Len(attestations) :
              /\ attestations[i].aggregation_bits # {}
              /\ attestations[i].aggregation_bits \subseteq Validators
              /\ ProofVerifies(proofs[i], attestations[i].aggregation_bits,
                               attestations[i].data)
        /\ proposer.validator_id \in Validators
        /\ signature = "signed"
=============================================================================
