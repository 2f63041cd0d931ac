-------------------------- MODULE ValidatorService --------------------------
(***************************************************************************)
(* The chain task of a node with validators (src/main.rs): ChainService    *)
(* with the duties at the end of the timer's handler, a proposal in        *)
(* interval 0 and the attestations in interval 1 (validator/src/lib.rs,    *)
(* the second half of fork_choice/src/store.rs).                           *)
(*                                                                         *)
(* The node's own blocks are not blocks of the network: they have roots of *)
(* their own and go into the store with the State that build_block gives.  *)
(***************************************************************************)
EXTENDS ChainService

CONSTANTS
    Own,       \* validator_indices: the validators of this node
    OwnRoot,   \* OwnRoot[s]: root of the block the node builds for slot s
    KeyFiles,  \* validators whose secret key can be read from the key directory
    SignFails  \* validators for whom signing may fail although the key is there

ASSUME OwnAssumption ==
    /\ Own \subseteq 0..(NumValidators - 1)
    /\ KeyFiles \subseteq 0..(NumValidators - 1)
    /\ SignFails \subseteq Own
    /\ \A s \in 0..MaxTime : OwnRoot[s] \in Nat \ (Root \cup {Zero})
    /\ \A s, t \in 0..MaxTime : OwnRoot[s] = OwnRoot[t] => s = t

VARIABLES
    last_proposal_slot,
    last_attestation_slot,
    signed_block,           \* the own block from signing to sending
    unsigned                \* history: roots of own blocks that were not signed

duties == <<last_proposal_slot, last_attestation_slot, signed_block, unsigned>>

allvars == <<vars, duties>>

T == INSTANCE BlockBuilder

\* load_key finds and can read the file of v's secret key.
load_key(v) == v \in KeyFiles

\* new_with_keys loads the key of every validator of the node; if one cannot
\* be loaded, the node starts without any.
HasKeys == \A v \in Own : load_key(v)

\* KeyManager::sign may fail: without keys, or in the XMSS library (a key is
\* good for a range of epochs only).
MayFail(v) == ~HasKeys \/ v \in SignFails

\* What it gives otherwise: a proper signature of the vote data if the epoch is
\* the one it will be verified for.
sign(epoch, data) == IF epoch = data.slot THEN Signed ELSE OtherBytes

NoSlot == -1

NoBlock == << >>

JUSTIFICATION_LOOKBACK_SLOTS == 3

current_slot == store.time \div INTERVALS_PER_SLOT

current_interval == store.time % INTERVALS_PER_SLOT

-----------------------------------------------------------------------------
(* What an attestation says.                                               *)

CheckpointOf(st, r) == [root |-> r, slot |-> st.blocks[r].slot]

\* The head, or the block some steps before it, towards the safe target.
WalkBack(st) ==
    LET safe_slot == st.blocks[st.safe_target].slot
        back[n \in 0..JUSTIFICATION_LOOKBACK_SLOTS] ==
            IF n = 0 THEN st.head
            ELSE LET target == back[n - 1]
                 IN  IF st.blocks[target].slot > safe_slot
                     THEN st.blocks[target].parent_root ELSE target
    IN  back[JUSTIFICATION_LOOKBACK_SLOTS]

\* From there the first block whose slot is justifiable.  is_justifiable_after
\* asserts that the slot is not before the finalized one.
get_attestation_target(st) ==
    LET final_slot == st.latest_finalized.slot
        seek[r \in DOMAIN st.blocks] ==
            IF ~T!CandidateOk(st.blocks[r].slot, final_slot) THEN T!Panicked
            ELSE IF T!is_justifiable_after(st.blocks[r].slot, final_slot)
            THEN T!Ok(CheckpointOf(st, r))
            ELSE seek[st.blocks[r].parent_root]
    IN  seek[WalkBack(st)]

\* Given the target.
produce_attestation_data(st, slot, target) ==
    [slot |-> slot, head |-> CheckpointOf(st, st.head),
     target |-> target, source |-> st.latest_justified]

-----------------------------------------------------------------------------
(* Proposals.                                                              *)

get_proposer_for_slot(slot) == Own \cap {slot % NumValidators}

\* on_tick with the start of the slot finds nothing to do: store.time is
\* there already.
get_proposal_head(st) == accept_new_attestations(st)

\* The known votes, in any order.
available_attestations(st) ==
    T!SetToSeqs({[validator_id |-> v, data |-> st.latest_known_attestations[v]] :
                  v \in DOMAIN st.latest_known_attestations})

\* What produce_block_with_signatures may come to on a store whose votes have
\* been accepted.
Built(st, slot) ==
    LET block == [root |-> OwnRoot[slot], slot |-> slot, parent_root |-> st.head,
                  proposer_index |-> slot % NumValidators, attestations |-> << >>]
    IN  UNION {T!build_block(st.states[st.head], block, available, DOMAIN st.blocks,
                             st.gossip_signatures, st.aggregated_payloads) :
                available \in available_attestations(st)}

\* Mutant: the State is not kept.
StoreOwn_NoState(st, slot, built) ==
    [st EXCEPT
        !.blocks = Put(@, OwnRoot[slot],
                       [slot |-> slot, parent_root |-> st.head,
                        attestations |-> built.attestations])]

\* Mutant: the State of the head is kept.
StoreOwn_HeadState(st, slot, built) ==
    [st EXCEPT
        !.blocks = Put(@, OwnRoot[slot],
                       [slot |-> slot, parent_root |-> st.head,
                        attestations |-> built.attestations]),
        !.states = Put(@, OwnRoot[slot], st.states[st.head])]

\* The block and its State go into the store, past on_block.
StoreOwn(st, slot, built) ==
    [st EXCEPT
        !.blocks = Put(@, OwnRoot[slot],
                       [slot |-> slot, parent_root |-> st.head,
                        attestations |-> built.attestations]),
        !.states = Put(@, OwnRoot[slot], built.state)]

\* The timer's handler is done with on_tick.
Ticked == task.op = "ticking" /\ store.time >= now /\ task.block = Zero

ProposalDue ==
    /\ Ticked
    /\ current_interval = 0
    /\ last_proposal_slot # current_slot
    /\ get_proposer_for_slot(current_slot) # {}

\* The store once the block was built.
OwnStore(res) == StoreOwn(get_proposal_head(store), current_slot, res.value)

\* The proposer's vote, from the store that holds the block already, and its
\* signature.
sign_block(st, slot, built) ==
    LET data == produce_attestation_data(st, slot, get_attestation_target(st).value)
    IN  [attestations           |-> built.attestations,
         attestation_signatures |-> built.proofs,
         proposer_attestation   |-> [validator_id |-> slot % NumValidators, data |-> data],
         proposer_signature     |-> sign(slot, data)]

\* No block is built: the head is not before this slot, or the block that
\* build_block ends up with is not valid.  The votes stay accepted.
ProposalFails(res) ==
    /\ res.status = "err"
    /\ store' = get_proposal_head(store)
    /\ last_proposal_slot' = current_slot
    /\ task' = Idle
    /\ UNCHANGED <<now, signed_block, unsigned>>

\* A block is built, stored and signed, which takes its time; then on_tick runs
\* again, and on_block finds the block stored.
Propose(res) ==
    /\ HasKeys
    /\ res.status = "ok"
    /\ store' = OwnStore(res)
    /\ get_attestation_target(store').status = "ok"
    /\ signed_block' = sign_block(store', current_slot, res.value)
    /\ now' \in now..MaxTime
    /\ last_proposal_slot' = current_slot
    /\ task' = [Idle EXCEPT !.op = "ticking", !.block = OwnRoot[current_slot], !.gossip = TRUE]
    /\ UNCHANGED unsigned

\* sign_block fails when the block is stored already.
ProposalUnsigned(res) ==
    /\ MayFail(current_slot % NumValidators)
    /\ res.status = "ok"
    /\ store' = OwnStore(res)
    /\ get_attestation_target(store').status = "ok"
    /\ last_proposal_slot' = current_slot
    /\ unsigned' = unsigned \cup {OwnRoot[current_slot]}
    /\ task' = Idle
    /\ UNCHANGED <<now, signed_block>>

\* An assert fails while the node builds the block (or it aggregates what is
\* no signature) or looks for the target of the proposer's attestation.
ProposalPanics(res) ==
    /\ \/ res.status = "panic"
       \/ res.status = "ok" /\ get_attestation_target(OwnStore(res)).status = "panic"
    /\ task' = Panicked
    /\ UNCHANGED <<now, store, last_proposal_slot, signed_block, unsigned>>

Proposal ==
    /\ ProposalDue
    /\ \E res \in Built(get_proposal_head(store), current_slot) :
          \/ ProposalFails(res)
          \/ Propose(res)
          \/ ProposalUnsigned(res)
          \/ ProposalPanics(res)
    /\ UNCHANGED <<received, outbound, last_attestation_slot>>

\* Mutant: the block is not sent.
OwnBlockSent_Silent ==
    /\ task.block \notin Root
    /\ task.op = "ticking" /\ store.time >= now /\ task.block # Zero
    /\ task' = Idle
    /\ signed_block' = NoBlock
    /\ UNCHANGED <<now, store, received, outbound, last_proposal_slot,
                   last_attestation_slot, unsigned>>

\* on_block returns at once for the node's own block, and the block is sent.
OwnBlockSent ==
    /\ task.block \notin Root
    /\ OnBlockKnown(task.block)
    /\ signed_block' = NoBlock
    /\ UNCHANGED <<last_proposal_slot, last_attestation_slot, unsigned>>

-----------------------------------------------------------------------------
(* Attestations.                                                           *)

AttestationDue ==
    /\ Ticked
    /\ current_interval = 1
    /\ last_attestation_slot # current_slot

\* The vote that create_attestations gives every validator of the node.
OwnVote(st) ==
    produce_attestation_data(st, st.time \div INTERVALS_PER_SLOT,
                             get_attestation_target(st).value)

\* Mutant: always.
Attests_Always(st) == TRUE

\* There is none if the target is before the source.
Attests(st) == get_attestation_target(st).value.slot >= st.latest_justified.slot

\* create_attestations leaves out a validator whose signing fails; without keys
\* all have the zero signature.
Voting(S) ==
    /\ S \subseteq Own
    /\ HasKeys => Own \ S \subseteq SignFails
    /\ ~HasKeys => S = Own

\* on_attestation for the vote of every validator of S.
OnOwnVotes(st, S, data) ==
    LET new       == st.latest_new_attestations
        keys      == {<<v, data>> : v \in S}
        signature == IF HasKeys THEN sign(current_slot, data) ELSE ZeroSignature
    IN  [st EXCEPT
            !.gossip_signatures =
                [k \in DOMAIN @ \cup keys |-> IF k \in keys THEN signature ELSE @[k]],
            !.latest_new_attestations =
                [v \in DOMAIN new \cup S |->
                    IF v \in S THEN Latest(new, v, data)[v] ELSE new[v]]]

Attest ==
    /\ AttestationDue
    /\ get_attestation_target(store).status = "ok"
    /\ IF Attests(store) /\ validate_attestation_data(store, OwnVote(store))
       THEN \E S \in SUBSET Own :
              /\ Voting(S)
              /\ store' = OnOwnVotes(store, S, OwnVote(store))
              /\ outbound' = outbound \cup {<<"attestation", v, OwnVote(store)>> : v \in S}
       ELSE UNCHANGED <<store, outbound>>
    /\ last_attestation_slot' = current_slot
    /\ task' = Idle
    /\ UNCHANGED <<now, received, last_proposal_slot, signed_block, unsigned>>

\* An assert fails while the node looks for a target.
AttestPanics ==
    /\ AttestationDue
    /\ get_attestation_target(store).status = "panic"
    /\ task' = Panicked
    /\ UNCHANGED <<now, store, received, outbound, duties>>

NoDuty ==
    /\ ~ProposalDue /\ ~AttestationDue
    /\ TickDone
    /\ UNCHANGED duties

-----------------------------------------------------------------------------

NodeInit ==
    /\ Init
    /\ last_proposal_slot = NoSlot
    /\ last_attestation_slot = NoSlot
    /\ signed_block = NoBlock
    /\ unsigned = {}

NodeNext ==
    \/ (Input \/ HandlerBody) /\ UNCHANGED duties
    \/ NoDuty
    \/ Proposal
    \/ OwnBlockSent
    \/ Attest
    \/ AttestPanics

NodeSpec == NodeInit /\ [][NodeNext]_allvars

-----------------------------------------------------------------------------
(* Properties.                                                             *)

OwnBlocks == DOMAIN store.blocks \ Root

\* "Signature verification is done in verify_signatures() before on_block()"
\* (handlers.rs:404): the signatures of every block that came from the network
\* and is stored verify.
BlocksVerified ==
    \A r \in (DOMAIN store.blocks \cap Root) \ {AnchorRoot} : T!verify_signatures(Block[r])

\* The proofs that were kept from blocks prove what they are kept for.
ProofsGenuine ==
    \A p \in store.aggregated_payloads : T!ProofVerifies(p[3], p[3].participants, p[2])

\* If the proofs in other nodes' blocks are genuine, which this node does not
\* check, it sends only blocks whose signatures verify: each proof is of exactly
\* the voters its attestation names (some voted by gossip, some in a block, and
\* a proof covers one kind), and the proposer signed the vote that goes along,
\* although both are made from the store at different moments.
OwnBlocksVerify ==
    signed_block # NoBlock /\ ProofsGenuine => T!verify_signatures(signed_block)

\* Another node accepts an own block: state_transition succeeds for it on the
\* State of its parent and comes to the State that was stored with it.
OwnBlocksValid ==
    \A r \in OwnBlocks :
        LET block == store.blocks[r]
        IN  T!state_transition(store.states[block.parent_root],
                [root |-> r, slot |-> block.slot, parent_root |-> block.parent_root,
                 proposer_index |-> block.slot % NumValidators,
                 attestations |-> block.attestations, state_root_ok |-> TRUE])
            = T!Ok(store.states[r])

\* A node never fails to process its own attestation: what it votes for from
\* its store passes the store's validation.
OwnVotesValid ==
    /\ AttestationDue
    /\ get_attestation_target(store).status = "ok"
    /\ Attests(store)
    => validate_attestation_data(store, OwnVote(store))

\* A node votes for blocks that the network has or was sent: an own block that
\* could be signed is sent before anybody on the node can vote for it.  One that
\* could not is stored all the same, and the node may vote for it.
VotedBlocksSent ==
    \A v \in Own : \A m \in outbound :
        m[1] = "attestation" /\ m[2] = v
        => \/ m[3].head.root \in Root \cup unsigned
           \/ <<"block", m[3].head.root>> \in outbound

\* The head is what LMD-GHOST asks for unless the node has just proposed: then
\* it is the parent of that block, and no longer than the slot lasts.
HeadBehindOwnBlock ==
    \/ HeadHeaviest
    \/ \E r \in OwnBlocks : /\ store.blocks[r].parent_root = store.head
                            /\ store.blocks[r].slot = current_slot

\* "Candidate slot must not be before finalized slot" (slot.rs): the assert
\* holds whenever the node looks for the target of its attestations.
TargetNotBeforeFinalized ==
    AttestationDue => get_attestation_target(store).status = "ok"

\* "Build a valid block on top of this state" (state.rs): build_block returns
\* a block for any slot after the head's.
BlockIsBuilt ==
    ProposalDue =>
        LET st == get_proposal_head(store)
        IN  st.blocks[st.head].slot < current_slot
            => T!Err \notin Built(st, current_slot)
=============================================================================
