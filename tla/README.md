# Verification of the lean consensus client

TLA+ models of the client in `src/lean_client`, model-checked with TLC and, for
the state transition, the store's blocks and votes and the table of peers, proved
with TLAPS. `PROJECT.json` lists components, runs,
mutants, the lines each definition models, findings, hazards and theorems.

## The system

A node is two asynchronous tasks that exchange messages over channels.

| part | source | what it does |
|---|---|---|
| state transition | `containers/src/state.rs`, `slot.rs`, `attestation.rs` | A `State` per block: history of roots, a window of justified slots, pending votes, justified and finalized checkpoint. |
| block building | `state.rs` (`build_block`) | Collects votes up to a fixed point, finds a proof for each group of voters. |
| fork choice | `fork_choice/src/store.rs`, `handlers.rs` | The store: blocks, States, known and new votes, LMD-GHOST head, safe target, a queue of blocks without parent. |
| chain task | `src/main.rs` | Owns the store; a select loop over a one-second timer and the messages of the network task. |
| validator service | `validator/src/lib.rs` | Proposes in interval 0 and attests in interval 1 of a slot, called by the chain task. |
| network task | `networking/src/network/service.rs`, `types.rs` | Owns the libp2p swarm and the table of peers; dials, gossips, asks for missing parents. |
| codec | `networking/src/req_resp.rs` | Requests and answers on the wire. |
| discovery | `networking/src/discovery/mod.rs`, `bootnodes.rs` | Node records and bootnode arguments, and the addresses they give. |
| the rest | gossipsub settings, XMSS wrappers, SSZ containers, HTTP API, metrics, configuration | Not modelled, see below. |

## Modules

    Slots ── Justifications ── StateTransition ─┬─ Chain ── MCChain
      │            │                            │    ├── (refines) Finality
      │   JustificationsProofs                  │    │
      └──── SlotsProofs ────────────────────────┼────┴── ChainProofs
                                                └─ BlockTransition ── BlockBuilder
                                                        │                 │
    ForkChoice ── ChainService ───────────────── MCChainService           │
                     ├── (refines) BlockTree            │                 │
                     ├── StoreProofs                    │                 │
                     ├── ValidatorService ── MCValidatorService ──────────┘
                     └── Node ── MCNode
    ReqResp ─┬─ NetworkService ─┘
    Discovery┘       ├── MCNetworkService
                     └── NetworkProofs

**State transition.** `Slots` has `is_justifiable_after`, `Justifications` the
flattened form of the pending votes, `StateTransition` every step of
`process_slots`, `process_block_header` and the attestation loop as operators.
`Chain` is one branch of the block tree as a state machine: `BeginBlock` is
everything up to the loop, `AttestVote`, `AttestJustify` and `AttestFinalize`
are one round of it by how far the round gets, `EndBlock` writes the locals
back, `RejectAttestation` and `RejectStateRoot` are the error paths (the chain
stays where it was), `Panic` a failed assert. The attestations of a block are
chosen round by round, so every body is covered. `Chain` leaves out the check for
duplicate attestation data: it allows more blocks than the code, and what holds
of them holds of fewer. `BlockTransition` has the check, and is the same
transition as one function of a State and a block. `Finality` is the abstract
specification: a link from a justified slot to a later one justifies that slot
if the documented rule allows its distance from the finalized slot, and
finalizes the first if the rule allows no slot in between. It has justified
slots and a finalized slot, tentative inside a block and kept or dropped with it;
no window, no history, no votes and no square roots.

**Fork choice and chain task.** `ForkChoice` has the handlers as functions from
store to store. A block is known by its root; `Transition` gives what the state
transition makes of it, which in the runs is computed with `BlockTransition`.
Signatures and proofs are kept as they come, because nothing on the way to
`on_block` verifies them: a signature is proper, zero or other bytes, and a proof
has the participants it names, whose signatures it was made from, and of what. A
block may come with fewer proofs than attestations. One signed block per root is
assumed: a second with other signatures is not modelled.
`ChainService` is the loop of `main.rs`. Handlers run one at a time; those that
loop (`on_tick`, `process_pending_blocks`) take a step per round. Blocks and
attestations come in any order, again, or never; blocks also as answers, asked for
or not. `outbound` records what is sent
to the network task. `BlockTree` is what this amounts to: a tree that grows by
one received, valid child at a time, and checkpoints that move only with such a
block, up, and to what its State says. The mapping forgets queue, handlers, votes
and clock.

**Validators.** `ValidatorService` adds the duties: `Propose`, `ProposalFails`,
`ProposalUnsigned` (no keys, or signing fails), `ProposalPanics`, `OwnBlockSent`,
`Attest` and `AttestPanics`. The keys are loaded all or none (`HasKeys`, from the
files in `KeyFiles`); with keys, signing may still fail for the validators in
`SignFails`, after a block was stored, or for one attestation of several.
`unsigned` is a history variable: the own blocks that were stored and not signed.
The clock may move on by any time while a block is built and signed.
`BlockBuilder` gives the blocks, as the set of results that the order of the code's
hash maps allows, and `verify_signatures`. It reuses proofs of other nodes' blocks
unseen, as the code does.

**Network task.** `NetworkService` has the table of peers, the shared counter,
and, standing for libp2p, the dials in progress and the open connections. One
action per event: `Reconnect` and `Discovered`, which start `connect_to_peers`,
its rounds `ConnectToPeer`, `DialSucceeds`, `IncomingConnection`,
`ConnectionClosed`, `OutgoingConnectionError`, `GossipMessage`, `Publish`,
`Dispatch`, `Response`, `OutboundFailure`. A request and its answer are written
and read back with the operators of `ReqResp`, under either of the two protocols. A
peer may answer with any block: the code does not compare it with what was asked.
`Discovery` turns bootnode arguments and node records into the addresses that are
dialed, and has the record a node makes of itself.

**The node.** `Node` joins the two tasks by their channels: `to_network`, a queue,
and `to_chain`, a bag, because an answer is handed over by a spawned task and may
be overtaken by gossip. Each action of the chain task sends what the code sends.
On the wire a block and its root are byte strings.

## Runs

| run | checks | what happens in it |
|---|---|---|
| `chain` | `TypeOK`, `WindowAligned`, `CheckpointsOnChain`, `PendingVotesLive`, `FinalizedNeverRegresses`, `ImplementsFinality` | three validators, blocks at slots 0, 5, 6, 9, 10, any of which may be missing, honest and wrong checkpoints, empty and out-of-range voters |
| `store_blocks` | `StoreClosed`, `CheckpointsHighest`, `ImportOrderIrrelevant`, `OrphansRequested`, `ImplementsBlockTree` | a tree of eight blocks in every order, three of them twice, three also as answers, one with a wrong state root, one that fails an assert |
| `store_votes` | `TypeOK`, `HeadHeaviest`, `VotesBacked`, `GossipWaits`, `HandlersReturn`, `NewVotesAccepted` | a fork, a block that lacks a proof, gossiped votes and two slots of clock, every interleaving, with fairness |
| `duties` | `OwnBlocksVerify`, `OwnBlocksValid`, `VotedBlocksSent`, `HeadBehindOwnBlock` | a node with two of four validators proposes and attests, one of them with signing that may fail; two blocks of a fork, one with a vote whose proof is reused, an outside vote |
| `duties_no_keys` | `StoreClosed`, `OwnVotesValid` | a node with one validator and no key for it, while it syncs a chain that finalizes |
| `network` | `NetworkTypeOK`, `PeerCountExact`, `RequestsUnderstood`, `RequestsToLivePeers`, `BootnodesReconnect` | a bootnode given by its record, another peer, records that are of no use, two dials in progress, two connections each, a missing block, fairness |
| `sync` | `OrphansPursued`, `OnlyGossipRelayed`, `SyncCompletes` | both tasks: of a branch of three blocks the second and the tip come by gossip, the first is asked for, from a peer that comes and goes and answers with any block; gossip, answers and requests cross and get lost |

Each property of a passing run has a mutant: a plausible slip in one definition
that makes TLC report the property.

Five runs end in a violation, each a disagreement between the code and what the
repository says (quotes are in `PROJECT.json`):

- `store_latest_vote`: a block makes a vote known; an older vote of that validator
  is gossiped afterwards, waits as a new vote, and replaces the newer one when the
  new votes are accepted. (A vote that waits already when the block comes is
  dropped, handlers.rs:229.)
- `own_block_checkpoints`: a node's own block enters the store past `on_block`,
  so the store's checkpoints are not the highest it has seen.
- `attestation_target`: a block finalizes while the safe target is still old;
  the walk for the attestation target ends before the finalized slot, and the
  assert in `is_justifiable_after` fails. A proposal, which carries the
  proposer's vote, fails the same way (`ProposalPanics` in `duties_no_keys`).
- `build_block`: votes with equal data, some from gossip and some from an
  aggregate, become two attestations with equal data, which the node's own
  `process_block` rejects. Without the gossiped vote the run passes.
- `unverified_blocks`: a block with a proof of another vote is stored, although a
  comment says that signatures are verified before `on_block`: only tests call
  `verify_signatures`. `OwnBlocksVerify` therefore has the premise that the proofs
  that were kept are genuine (`ProofsGenuine`); without it the node's own blocks may
  carry such a proof on.

The peer table disagrees with the comments on `ConnectionState` in two small
ways that no run is spent on: a peer is Disconnected when one of its two
connections closes (types.rs:31), and stays Connecting when its dial has failed
(types.rs:33). Neither breaks `RequestsToLivePeers` or `BootnodesReconnect`.

**Bounds.** Validators: three, so that two are a supermajority and one is not
(four in `build_block` and `duties`, where the fourth votes only through others'
messages). Slots of `chain`: 5 and 6 are neighbours, so that a source
is finalized at once and the window moves in the middle of a block; 6 and 9 are at
a pronic and a square distance from 0, so that the gap from 6 to 9 has no
justifiable slot and the gap from 5 to 9 has one, and both change once 5 is
finalized; the empty slots are padded. Time: `MaxTime` seconds, four intervals to
a slot, long enough for a vote to be gossiped, accepted and outrun by a block.
Blocks: the tree of `MCChainService`, which has a fork, a finalizing branch, a
failing block with a child and one that panics. `Twice` and `Copies` bound how often
a block is received, `Answered` which blocks also come as answers, `Bare` and
`Borrowed` which lack a proof or have one of another vote. `OnTime` (runs
`attestation_target`, `build_block` and `duties`) delivers no block before its
slot, so that a disagreement does not rest on early blocks, and `duties` stays
small; early blocks are in `store_blocks` and `store_votes`. `duties` ends with the
slot after the own proposal: there the head must have caught up with it. Peers: two, with as many
connections as the code allows. The `network` run has one bootnode: dials share a
limited number of slots and the timer dials in a fixed order, also peers it is
dialing already, so that with two bootnodes TLC finds a schedule in which the
first one takes every slot again and again. `MAX_REQUEST_BLOCKS` is 1 for 1024, so
that the single root the chain task asks for is at the limit; a root is two units
and a Status five, for 32 and 80 bytes. In `sync` the clock stands still, so that
only messages move the node. A block comes once by gossip, if at all, and once as an
answer, asked for or not, before or after (`NodeCopies`). There is one peer, which
dials this node; its one connection may close and open again while requests are out
(dialing is in `network`). Deadlock is not checked where clock
and messages are finite, and so the model stops.

**Fairness.** `store_votes`: a handler that runs takes its next step (a task
that is not blocked is polled); clock and timer go on whenever the task is idle
again and again. Nothing is assumed about messages. `network`: the timer's
interval keeps firing, every dial ends, and a bootnode that is dialed for ever
answers some dial; the last is about the bootnode, not the code. `sync`: both
tasks go on, and `select!`, which picks at random among what is ready, passes over
no channel for ever; a request ends with an answer or a failure, as libp2p's
timeout sees to. `SyncCompletes` is about behaviours in which nothing that was
asked for is lost, because the code does not ask a second time. Its conditions are
written with the states in which an action is enabled instead of ENABLED, which
TLC would evaluate for every block and message.

## Proofs

`ChainProofs` proves about `Chain`, for every number of validators, every slots,
roots, checkpoints and aggregates: `TypeCorrect`, `Alignment`, `Checkpoints`,
`PendingVotes`, `FinalityMonotone` and `Refinement`. `JustificationsProofs`
proves `FlatRoundTrip`, that flattening the pending votes loses nothing, on
which the step from one block to the next rests, and `SlotsProofs` proves
`JustifiableAsDocumented`: the two square-root tests of `is_justifiable_after`
accept exactly the squares and the products of neighbours, for all slots.
`Refinement` rests on it, as `Finality` has the documented rule. The assumptions
are the named ASSUMEs of the modules: a positive number of validators, nonzero
roots, each with one slot (a root is a hash of its header).

The inductive invariant `IInv` says of a State between blocks that every nonzero
entry of the history is a root of that slot, that window and history have the
lengths `WindowAligned` states, and that each pending vote is for an unjustified
block after the finalized slot, short of a supermajority; of a block in
progress, the same of the loop's locals. None of this keeps the finalized slot
from moving back inside a block: the code tests the gap between source and
target with the finalized slot *at the start of the block*. `GapWitness` closes
it. When the finalized slot has moved, to `f`, there is a justified slot `u`
after it that was justifiable at the start, with none in between. Take a later
attestation with a source before `f`. Its target `t` counts only if it is after
`f`, not justified, and justifiable at the start. So `t` is not `u`; it is not
before `u`, as no slot there was justifiable; and if it is after `u`, the gap
contains `u`, so the source is not finalized (`SourceNotBehind`). One lemma per
step (`VoteStep`, `JustifyStep`, `FinalizeStep`, `HeaderStep`, `CommitStep`),
`NextIInv` combines them, and the theorems follow from `IInv`.

`StoreProofs` proves about `ChainService`, for any tree of blocks, any votes and
any order of messages: `Highest`, `Orphans`, `Backing`, `Closed` and
`TreeRefinement`. `Backing` says that a vote in the store has a gossiped signature or
a kept proof, except for votes of blocks that came short of proofs (`Unproved`); that
these are genuine it cannot say. The module assumes of the state transition (`TransitionAssumption` of
`ForkChoice`, which TLC evaluates on the States that `BlockTransition` computes)
that a State's history continues its parent's, and that its checkpoints are blocks
of that history with finality not ahead of justification, which is what
`Checkpoints` of `ChainProofs` proves. What the handlers do to the
votes and the head is kept apart from the tree: `SameTree` holds across every step
of `on_tick` and of the votes. The invariant adds to the theorems that the States
are those `Transition` gives, that the blocks under way in a handler have been
received (`Sound`), and that a parent which is waited for although it is stored is
still among the roots `process_pending_blocks` goes through (`Covered`); without
that the queue could keep blocks whose parent is there. That the votes of a body
are the newest of each validator (`HasBest`) is an induction over the body, done
by least counterexample (`WFMin`).

`NetworkProofs` proves about `NetworkService`, for any peers, addresses and
limits: `PeerCount` and `LivePeers`. `LivePeers` needs that Connected entries of
the table have an open connection (`TableSound`), which is why a closing
connection must always clear the entry, even if a second one is open.

Only model-checked: liveness; what `get_fork_choice_head`, `build_block` and
other recursive definitions compute, and so `HeadHeaviest`, the head in
`StoreClosed` and everything about the validator service; the composition `Node`;
the codec.

## Not modelled

Hashing (a root stands for its block), XMSS itself (a signature is
proper or not), SSZ and Snappy, the discv5 library and the encoding of keys in records,
libp2p beyond the events above, gossipsub's settings, topic names and duplicate
cache (what is published and what arrives is modelled, forwarding is libp2p's),
metrics, HTTP API, command line and genesis files: libraries, I/O or constants.
`on_gossip_attestation` and the `GenericCodec` are not called. Nothing is
persisted, so there is no recovery to model. Memory limits are not modelled.

## Plan

1. `Node` with the duties of `ValidatorService`, and two nodes that gossip to each
   other.
2. An abstract fork choice over votes, of which `HeadHeaviest` is the head.
