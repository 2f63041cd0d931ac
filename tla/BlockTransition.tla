-------------------------- MODULE BlockTransition --------------------------
(***************************************************************************)
(* state_transition (containers/src/state.rs) as one function: the header  *)
(* and the attestations of a block, in their order, on top of a State.     *)
(***************************************************************************)
EXTENDS StateTransition, SequencesExt

\* What a fallible function returns: Ok with a value, Err, or a failed assert.
Ok(x) == [status |-> "ok", value |-> x]

Err == [status |-> "err"]

Panicked == [status |-> "panic"]

\* Go on with op after a success; anything else is returned (the ? operator).
AndThen(res, op(_)) == IF res.status = "ok" THEN op(res.value) ELSE res

\* One round of the attestation loop.
process_attestation(pre, acc, att) ==
    IF Malformed(pre, acc, att) THEN Err
    ELSE IF ~Counts(pre, acc, att) THEN Ok(acc)
    ELSE IF EmptyPanics(pre, acc, att) THEN Panicked
    ELSE IF ~Justifies(acc, att) THEN Ok(CountVotes(acc, att))
    ELSE IF GapPanics(pre, att) THEN Panicked
    ELSE IF ~Finalizes(pre, att) THEN Ok(Justify(acc, att))
    ELSE IF MovesWindow(acc, att) /\ ~RootsKnown(pre, Justify(acc, att)) THEN Err
    ELSE Ok(Finalize(pre, Justify(acc, att), att))

process_attestations(st, attestations) ==
    LET round(res, att) == AndThen(res, LAMBDA acc : process_attestation(st, acc, att))
        commit(acc) == Ok(Commit(st, acc))
    IN  IF ~RootsNonzero(st) THEN Err
        ELSE AndThen(FoldLeft(round, Ok(Locals(st)), attestations), commit)

has_duplicate_data(attestations) ==
    \E i, j \in 1..Len(attestations) :
        i # j /\ attestations[i].data = attestations[j].data

process_block(st, block) ==
    IF ~HeaderOk(st, block) \/ has_duplicate_data(block.attestations) THEN Err
    ELSE process_attestations(process_block_header(st, block), block.attestations)

\* state_root_ok: the block names the hash of the State computed here.
state_transition(st, block) ==
    LET validate(post) == IF block.state_root_ok THEN Ok(post) ELSE Err
    IN  IF ~SlotsOk(st, block.slot) THEN Err
        ELSE AndThen(process_block(process_slots(st, block.slot), block), validate)
=============================================================================
