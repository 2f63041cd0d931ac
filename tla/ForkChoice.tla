----------------------------- MODULE ForkChoice -----------------------------
(***************************************************************************)
(* The fork choice store (fork_choice/src/store.rs) and the bodies of its  *)
(* handlers (fork_choice/src/handlers.rs), as functions from a store to a  *)
(* store.                                                                  *)
(*                                                                         *)
(* A block is known by its root.  Block gives its content and Transition   *)
(* what state_transition makes of it on top of its parent's State; both    *)
(* are functions of the root, as a root is a hash and state_transition is  *)
(* deterministic.  A HashMap is a function on the keys it holds.           *)
(*                                                                         *)
(* Signatures are kept as they come, nothing here verifies them.  One of a *)
(* vote is what it is worth: a proper signature, the zero signature of a   *)
(* node without keys, or any other bytes.  An aggregate proof has the      *)
(* participants it names and, apart from these, what it proves: whose      *)
(* signatures (signers) it was made from, and of which message.  The store *)
(* keeps <<validator, data, proof>>.                                       *)
(***************************************************************************)
EXTENDS Integers, Sequences, FiniteSets

CONSTANTS
    NumValidators,
    Root,             \* roots of the blocks there are
    AnchorRoot,       \* root of the anchor (genesis) block
    AttestationData,  \* what an attestation may say
    Block,            \* Block[r]: the signed block with root r
    Transition        \* Transition[r]: status ("ok", "err" or "panic") and,
                      \* with "ok", the State after the block with root r

Zero == 0

Checkpoint == [root : Nat, slot : Nat]

Signed == "signed"

ZeroSignature == "zero"

OtherBytes == "other"

Signature == {Signed, ZeroSignature, OtherBytes}

AggregatedSignatureProof ==
    [participants : SUBSET Nat, signers : SUBSET Nat, message : AttestationData]

\* The checkpoint of a State names a block of the State's history.
OnHistory(checkpoint, history) ==
    /\ \E i \in 1..Len(history) : history[i] = checkpoint.root
    /\ checkpoint.root \in Root
    /\ checkpoint.slot = Block[checkpoint.root].slot

ASSUME BlockAssumption ==
    /\ NumValidators \in Nat \ {0}
    /\ Root \subseteq Nat \ {Zero}
    /\ AnchorRoot \in Root
    /\ AttestationData \subseteq [slot : Nat, head : Checkpoint,
                                  target : Checkpoint, source : Checkpoint]
    /\ Block \in [Root -> [slot : Nat, parent_root : Nat,
                           attestations : Seq([aggregation_bits : SUBSET Nat,
                                               data : AttestationData]),
                           proposer_attestation : [validator_id : Nat,
                                                   data : AttestationData],
                           attestation_signatures : Seq(AggregatedSignatureProof),
                           proposer_signature : Signature]]

\* What is taken from state_transition.  The anchor is a genesis block.  A
\* block that is accepted extends an accepted one at a later slot
\* (process_slots, process_block_header), and its State's history adds the
\* parent to the history of the parent's State.  The State's checkpoints are
\* on that history and in order (CheckpointsOnChain of module Chain).
ASSUME TransitionAssumption ==
    /\ Transition[AnchorRoot].status = "ok"
    /\ Transition[AnchorRoot].value.historical_block_hashes = << >>
    /\ Transition[AnchorRoot].value.latest_justified = [root |-> Zero, slot |-> 0]
    /\ Transition[AnchorRoot].value.latest_finalized = [root |-> Zero, slot |-> 0]
    /\ Block[AnchorRoot].slot = 0
    /\ Block[AnchorRoot].parent_root = Zero
    /\ \A r \in Root \ {AnchorRoot} :
         Transition[r].status = "ok" =>
           LET st      == Transition[r].value
               parent  == Block[r].parent_root
               history == st.historical_block_hashes
           IN  /\ parent \in Root
               /\ Transition[parent].status = "ok"
               /\ Block[parent].slot < Block[r].slot
               /\ history \in Seq(Nat)
               /\ \A i \in 1..Len(history) :
                    \/ history[i] \in {Zero, parent}
                    \/ \E j \in 1..Len(Transition[parent].value.historical_block_hashes) :
                         history[i] = Transition[parent].value.historical_block_hashes[j]
               /\ OnHistory(st.latest_justified, history)
               /\ OnHistory(st.latest_finalized, history)
               /\ st.latest_finalized.slot <= st.latest_justified.slot

-----------------------------------------------------------------------------
(* Maps.                                                                   *)

Put(map, key, value) ==
    [k \in DOMAIN map \cup {key} |-> IF k = key THEN value ELSE map[k]]

Without(map, keys) == [k \in DOMAIN map \ keys |-> map[k]]

EmptyMap == [k \in {} |-> {}]

-----------------------------------------------------------------------------
(* The store.                                                              *)

INTERVALS_PER_SLOT == 4

\* A store that knows the anchor only; its State keeps its zero checkpoints.
get_forkchoice_store ==
    LET block        == Block[AnchorRoot]
        anchor_state == Transition[AnchorRoot].value
        anchored(c)  == IF c.root = Zero
                        THEN [root |-> AnchorRoot, slot |-> block.slot] ELSE c
    IN  [time             |-> block.slot * INTERVALS_PER_SLOT,
         head             |-> AnchorRoot,
         safe_target      |-> AnchorRoot,
         latest_justified |-> anchored(anchor_state.latest_justified),
         latest_finalized |-> anchored(anchor_state.latest_finalized),
         blocks           |-> [r \in {AnchorRoot} |-> block],
         states           |-> [r \in {AnchorRoot} |-> anchor_state],
         latest_known_attestations |-> EmptyMap,
         latest_new_attestations   |-> EmptyMap,
         blocks_queue              |-> EmptyMap,
         gossip_signatures         |-> EmptyMap,
         aggregated_payloads       |-> {}]

-----------------------------------------------------------------------------
(* LMD-GHOST.                                                              *)

\* Stage 1: the blocks after root_slot that a vote for r adds a point to, r
\* and its stored ancestors.
Supported(blocks, r, root_slot) ==
    LET up[b \in DOMAIN blocks] ==
            IF blocks[b].slot <= root_slot THEN {}
            ELSE {b} \cup (IF blocks[b].parent_root \in DOMAIN blocks
                           THEN up[blocks[b].parent_root] ELSE {})
    IN  IF r \in DOMAIN blocks THEN up[r] ELSE {}

vote_weights(blocks, votes, root_slot) ==
    LET supported == [v \in DOMAIN votes |->
                        Supported(blocks, votes[v].head.root, root_slot)]
    IN  [b \in DOMAIN blocks |->
            Cardinality({v \in DOMAIN votes : b \in supported[v]})]

\* Stage 3: the heavier of two children, the higher hash if they weigh the
\* same.
Heavier(weight, a, b) == weight[a] > weight[b] \/ (weight[a] = weight[b] /\ a >= b)

\* The zero root stands for the block with the lowest slot.
StartBlock(blocks, root) ==
    IF root = Zero
    THEN CHOOSE r \in DOMAIN blocks : \A s \in DOMAIN blocks : blocks[r].slot <= blocks[s].slot
    ELSE root

get_fork_choice_head(blocks, root, votes, min_votes) ==
    LET start  == StartBlock(blocks, root)
        weight == vote_weights(blocks, votes, blocks[start].slot)
        child_map == [b \in DOMAIN blocks |->
                        {c \in DOMAIN blocks : /\ blocks[c].parent_root = b
                                               /\ weight[c] >= min_votes}]
        walk[b \in DOMAIN blocks] ==
            IF child_map[b] = {} THEN b
            ELSE walk[CHOOSE c \in child_map[b] :
                        \A d \in child_map[b] : Heavier(weight, c, d)]
    IN  walk[start]

\* The walk indexes blocks with the justified root, which would panic on a
\* root that is not stored: StoreClosed of module ChainService.
update_head(store) ==
    [store EXCEPT !.head =
        get_fork_choice_head(store.blocks, store.latest_justified.root,
                             store.latest_known_attestations, 0)]

update_safe_target(store) ==
    LET n_validators == IF store.head \in DOMAIN store.states THEN NumValidators ELSE 0
        min_score    == (n_validators * 2 + 2) \div 3
    IN  [store EXCEPT !.safe_target =
            get_fork_choice_head(store.blocks, store.latest_justified.root,
                                 store.latest_new_attestations, min_score)]

\* Mutant: the head is left as it was.
accept_new_attestations_StaleHead(store) ==
    LET known == store.latest_known_attestations
        new   == store.latest_new_attestations
    IN  [store EXCEPT
            !.latest_known_attestations =
                [v \in DOMAIN known \cup DOMAIN new |->
                    IF v \in DOMAIN new THEN new[v] ELSE known[v]],
            !.latest_new_attestations = EmptyMap]

\* Mutant: new votes are copied, not drained.
accept_new_attestations_Copy(store) ==
    LET known == store.latest_known_attestations
        new   == store.latest_new_attestations
    IN  update_head([store EXCEPT
            !.latest_known_attestations =
                [v \in DOMAIN known \cup DOMAIN new |->
                    IF v \in DOMAIN new THEN new[v] ELSE known[v]]])

\* Every new vote replaces the known vote of its validator.
accept_new_attestations(store) ==
    LET known == store.latest_known_attestations
        new   == store.latest_new_attestations
    IN  update_head([store EXCEPT
            !.latest_known_attestations =
                [v \in DOMAIN known \cup DOMAIN new |->
                    IF v \in DOMAIN new THEN new[v] ELSE known[v]],
            !.latest_new_attestations = EmptyMap])

\* Mutant: votes are accepted in interval 2, with the safe target.
tick_interval_Early(store, has_proposal) ==
    LET ticked   == [store EXCEPT !.time = @ + 1]
        interval == ticked.time % INTERVALS_PER_SLOT
    IN  IF interval = 2 \/ (interval = 0 /\ has_proposal)
        THEN update_safe_target(accept_new_attestations(ticked))
        ELSE ticked

\* Mutant: time counts within the slot.
tick_interval_Wraps(store, has_proposal) ==
    LET ticked   == [store EXCEPT !.time = (@ + 1) % INTERVALS_PER_SLOT]
    IN  IF ticked.time = 3 \/ (ticked.time = 0 /\ has_proposal)
        THEN accept_new_attestations(ticked)
        ELSE IF ticked.time = 2 THEN update_safe_target(ticked)
        ELSE ticked

tick_interval(store, has_proposal) ==
    LET ticked   == [store EXCEPT !.time = @ + 1]
        interval == ticked.time % INTERVALS_PER_SLOT
    IN  IF interval = 3 \/ (interval = 0 /\ has_proposal)
        THEN accept_new_attestations(ticked)
        ELSE IF interval = 2 THEN update_safe_target(ticked)
        ELSE ticked

-----------------------------------------------------------------------------
(* Attestations.                                                           *)

validate_attestation_data(store, data) ==
    /\ {data.source.root, data.target.root, data.head.root} \subseteq DOMAIN store.blocks
    /\ data.source.slot <= data.target.slot
    /\ store.blocks[data.source.root].slot = data.source.slot
    /\ store.blocks[data.target.root].slot = data.target.slot
    /\ data.slot <= store.time \div INTERVALS_PER_SLOT + 1

\* votes with data as the vote of validator_id, unless it has one as recent.
Latest(votes, validator_id, data) ==
    IF validator_id \in DOMAIN votes /\ votes[validator_id].slot >= data.slot
    THEN votes
    ELSE Put(votes, validator_id, data)

\* on_attestation_internal with is_from_block = false.
on_gossip_vote(store, validator_id, data) ==
    [store EXCEPT !.latest_new_attestations = Latest(@, validator_id, data)]

\* on_attestation with is_from_block = false, past validation.
on_attestation(store, validator_id, data, signature) ==
    on_gossip_vote([store EXCEPT !.gossip_signatures =
                        Put(@, <<validator_id, data>>, signature)],
                   validator_id, data)

\* The positions of the attestations of a block body that carry v's vote.
Carrying(atts, v) == {i \in 1..Len(atts) : v \in atts[i].aggregation_bits}

\* The vote of v that a body leaves in place: the first of the latest ones.
BodyVote(atts, v) ==
    atts[CHOOSE i \in Carrying(atts, v) :
            \A j \in Carrying(atts, v) :
                \/ atts[j].data.slot < atts[i].data.slot
                \/ atts[j].data.slot = atts[i].data.slot /\ i <= j].data

\* on_attestation_internal with is_from_block = true, for every validator of
\* every attestation of a block body in turn.
on_body_votes(store, atts) ==
    LET known  == store.latest_known_attestations
        voters == UNION {atts[i].aggregation_bits : i \in 1..Len(atts)}
        superseded(new) == {v \in DOMAIN new :
            \E i \in Carrying(atts, v) : new[v].slot <= atts[i].data.slot}
    IN  [store EXCEPT
            !.latest_known_attestations =
                [v \in DOMAIN known \cup voters |->
                    IF v \in voters THEN Latest(known, v, BodyVote(atts, v))[v]
                    ELSE known[v]],
            !.latest_new_attestations = Without(@, superseded(@))]

-----------------------------------------------------------------------------
(* Blocks.                                                                 *)

\* Mutant: the checkpoint of the block at hand.
Higher_Last(current, checkpoint) == checkpoint

\* The checkpoint with the higher slot; current if they have the same.
Higher(current, checkpoint) ==
    IF checkpoint.slot > current.slot THEN checkpoint ELSE current

\* Mutant: the list of proofs is taken to be one shorter.
Payloads_Short(atts, proofs) ==
    UNION {{<<v, atts[i].data, proofs[i]>> : v \in atts[i].aggregation_bits} :
              i \in {j \in 1..Len(atts) : j < Len(proofs)}}

\* The proof at the place of an attestation, if the list has that place, is
\* kept for each voter of the attestation, whoever its participants are.
Payloads(atts, proofs) ==
    UNION {{<<v, atts[i].data, proofs[i]>> : v \in atts[i].aggregation_bits} :
              i \in {j \in 1..Len(atts) : j <= Len(proofs)}}

\* Mutant: the State is not kept.
process_block_internal_NoState(store, r) ==
    LET block    == Block[r]
        stored   == [store EXCEPT !.blocks = Put(@, r, block)]
    IN  update_head(on_body_votes(stored, block.attestations))

\* process_block_internal once state_transition has succeeded.
process_block_internal(store, r) ==
    LET block     == Block[r]
        new_state == Transition[r].value
        proposer  == block.proposer_attestation
        stored    == [store EXCEPT
            !.blocks = Put(@, r, block),
            !.states = Put(@, r, new_state),
            !.latest_justified = Higher(@, new_state.latest_justified),
            !.latest_finalized = Higher(@, new_state.latest_finalized),
            !.aggregated_payloads =
                @ \cup Payloads(block.attestations, block.attestation_signatures)]
        headed    == update_head(on_body_votes(stored, block.attestations))
    IN  on_gossip_vote(
            [headed EXCEPT !.gossip_signatures =
                Put(@, <<proposer.validator_id, proposer.data>>, block.proposer_signature)],
            proposer.validator_id, proposer.data)

\* on_block puts a block aside whose parent has no State yet.
queue_block(store, r) ==
    LET parent == Block[r].parent_root
        queued == IF parent \in DOMAIN store.blocks_queue
                  THEN store.blocks_queue[parent] ELSE << >>
    IN  [store EXCEPT !.blocks_queue = Put(@, parent, Append(queued, r))]

\* process_pending_blocks takes the blocks that waited for parent.
Purgatory(store, parent) ==
    IF parent \in DOMAIN store.blocks_queue THEN store.blocks_queue[parent] ELSE << >>

\* Mutant: get instead of remove.
unqueue_Keep(store, parent) == store

unqueue(store, parent) == [store EXCEPT !.blocks_queue = Without(@, {parent})]
=============================================================================
