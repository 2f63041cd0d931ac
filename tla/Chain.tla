-------------------------------- MODULE Chain --------------------------------
(***************************************************************************)
(* One branch of the block tree: the State at its tip, extended block by   *)
(* block with state_transition.  A block's attestations are drawn one at a *)
(* time, one step of the attestation loop each, so that a behaviour visits *)
(* every block body the chain could be given.                              *)
(*                                                                         *)
(* A rejected block leaves the chain where it was.  A failed assert ends   *)
(* the chain task.                                                         *)
(***************************************************************************)
EXTENDS StateTransition

CONSTANTS
    Root,         \* roots a block may have
    SlotOf,       \* SlotOf[r]: slot of the header that r is the hash of
    GenesisRoot,  \* root of the genesis block
    Checkpoint,   \* checkpoints an attestation may name
    Voters        \* sets of validator indices an attestation may carry

ASSUME ChainAssumption ==
    /\ Root \subseteq Nat \ {Zero}
    /\ SlotOf \in [Root -> Nat]
    /\ GenesisRoot \in Root
    /\ SlotOf[GenesisRoot] = 0
    /\ Checkpoint \subseteq [root : Nat, slot : Nat]
    /\ Voters \subseteq SUBSET Nat

VARIABLES
    state,  \* State after the last accepted block
    pre,    \* State the attestation loop of the current block started from
    acc,    \* locals of that loop
    mode    \* "idle", "attesting" (inside the loop) or "panicked"; outside
            \* the loop pre and acc only mirror state

vars == <<state, pre, acc, mode>>

Attestation == [aggregation_bits : Voters,
                data : [source : Checkpoint, target : Checkpoint]]

Init ==
    /\ state = generate_genesis(GenesisRoot)
    /\ pre = state
    /\ acc = Locals(state)
    /\ mode = "idle"

\* process_slots and process_block_header of a block with root r, its slot
\* and proposer as they must be, and the head of process_attestations.
BeginBlock(r) ==
    LET block == [slot           |-> SlotOf[r],
                  proposer_index |-> SlotOf[r] % NumValidators,
                  parent_root    |-> state.latest_block_header.root,
                  root           |-> r]
        moved == process_slots(state, block.slot)
    IN  /\ mode = "idle"
        /\ SlotsOk(state, block.slot)
        /\ HeaderOk(moved, block)
        /\ pre' = process_block_header(moved, block)
        /\ RootsNonzero(pre')
        /\ acc' = Locals(pre')
        /\ mode' = "attesting"
        /\ UNCHANGED state

\* An attestation whose votes are added without completing a supermajority.
AttestVote(att) ==
    /\ mode = "attesting"
    /\ Counts(pre, acc, att)
    /\ ~Malformed(pre, acc, att)
    /\ ~EmptyPanics(pre, acc, att)
    /\ ~Justifies(acc, att)
    /\ acc' = CountVotes(acc, att)
    /\ UNCHANGED <<state, pre, mode>>

\* An attestation that completes a supermajority for its target.
Completes(att) ==
    /\ mode = "attesting"
    /\ Counts(pre, acc, att)
    /\ ~Malformed(pre, acc, att)
    /\ ~EmptyPanics(pre, acc, att)
    /\ Justifies(acc, att)
    /\ ~GapPanics(pre, att)

\* ... and leaves the finalized checkpoint alone.
AttestJustify(att) ==
    /\ Completes(att)
    /\ ~Finalizes(pre, att)
    /\ acc' = Justify(acc, att)
    /\ UNCHANGED <<state, pre, mode>>

\* ... and finalizes its source.
AttestFinalize(att) ==
    /\ Completes(att)
    /\ Finalizes(pre, att)
    /\ MovesWindow(acc, att) => RootsKnown(pre, Justify(acc, att))
    /\ acc' = Finalize(pre, Justify(acc, att), att)
    /\ UNCHANGED <<state, pre, mode>>

\* The locals of the loop are gone once it is left.
LeaveLoop(m) ==
    /\ mode' = m
    /\ pre' = state'
    /\ acc' = Locals(state')

\* The end of the loop; the block's state root is the hash of the result.
EndBlock ==
    /\ mode = "attesting"
    /\ state' = Commit(pre, acc)
    /\ LeaveLoop("idle")

\* A malformed attestation, or votes for a root that root_to_slot lacks,
\* make state_transition fail.
RejectAttestation(att) ==
    /\ mode = "attesting"
    /\ \/ Malformed(pre, acc, att)
       \/ /\ Completes(att) /\ Finalizes(pre, att) /\ MovesWindow(acc, att)
          /\ ~RootsKnown(pre, Justify(acc, att))
    /\ UNCHANGED state
    /\ LeaveLoop("idle")

\* The block names another state root than the one computed.
RejectStateRoot ==
    /\ mode = "attesting"
    /\ UNCHANGED state
    /\ LeaveLoop("idle")

\* A failed assert: an aggregate that names nobody, or a gap that starts
\* before the finalized slot.
Panic(att) ==
    /\ mode = "attesting"
    /\ ~Malformed(pre, acc, att)
    /\ Counts(pre, acc, att)
    /\ \/ EmptyPanics(pre, acc, att)
       \/ Justifies(acc, att) /\ GapPanics(pre, att)
    /\ UNCHANGED state
    /\ LeaveLoop("panicked")

Next ==
    \/ \E r \in Root : BeginBlock(r)
    \/ /\ mode = "attesting"
       /\ \E att \in Attestation :
           \/ AttestVote(att)
           \/ AttestJustify(att)
           \/ AttestFinalize(att)
           \/ RejectAttestation(att)
           \/ Panic(att)
    \/ EndBlock
    \/ RejectStateRoot

Spec == Init /\ [][Next]_vars

-----------------------------------------------------------------------------
(* Properties.                                                             *)

\* The slots a window counts as justified.
JustifiedSet(bits, finalized_slot) ==
    0..finalized_slot \cup {finalized_slot + i : i \in {j \in 1..Len(bits) : bits[j]}}

StateRecord ==
    [slot : Nat,
     latest_block_header : [slot : Nat, root : Root],
     latest_justified : [root : Nat, slot : Nat],
     latest_finalized : [root : Nat, slot : Nat],
     historical_block_hashes : Seq(Nat),
     justified_slots : Seq(BOOLEAN),
     justifications_roots : Seq(Nat),
     justifications_validators : Seq(BOOLEAN)]

VotesOK(votes) ==
    /\ DOMAIN votes \subseteq Root
    /\ \A r \in DOMAIN votes : votes[r] \subseteq Validators

\* Type invariant: the fields of State and the locals of the loop.
TypeOK ==
    /\ state \in StateRecord
    /\ pre \in StateRecord
    /\ acc.latest_justified \in [root : Nat, slot : Nat]
    /\ acc.latest_finalized \in [root : Nat, slot : Nat]
    /\ acc.justified_slots \in Seq(BOOLEAN)
    /\ VotesOK(acc.justifications)
    /\ mode \in {"idle", "attesting", "panicked"}

\* The history holds one entry per slot before the tip (process_block_header
\* pads empty slots with the zero hash) and the window one bit per slot after
\* the finalized one and before the tip, through every shift and extension.
WindowAligned ==
    LET tip == state.latest_block_header.slot
    IN  /\ state.slot = tip
        /\ Len(state.historical_block_hashes) = tip
        /\ tip > 0 =>
              Len(state.justified_slots) + state.latest_finalized.slot = tip - 1

\* Once the chain has a block after genesis, the justified and the finalized
\* checkpoints name blocks of this chain, the justified one counts as
\* justified and is not behind the finalized one (with equality only before
\* the first finalization).
CheckpointsOnChain ==
    state.latest_block_header.slot > 0 =>
        LET j == state.latest_justified
            f == state.latest_finalized
        IN  /\ j.root = HashAt(state, j.slot)
            /\ f.root = HashAt(state, f.slot)
            /\ j.root # Zero /\ f.root # Zero
            /\ j.slot \in JustifiedSet(state.justified_slots, f.slot)
            /\ j.slot > f.slot \/ (j.slot = 0 /\ f.slot = 0)

\* Votes are kept only for blocks of this chain after the finalized slot that
\* are not justified, and only while they fall short of a supermajority; the
\* error "Justification root missing from root_to_slot" never arises.
PendingVotesLive ==
    LET votes == Locals(state).justifications
        fin   == state.latest_finalized.slot
    IN  \A r \in DOMAIN votes :
            /\ ~Supermajority(votes[r])
            /\ \E s \in (fin + 1)..(Len(state.historical_block_hashes) - 1) :
                  /\ HashAt(state, s) = r
                  /\ s \notin JustifiedSet(state.justified_slots, fin)

\* The finalized slot never moves backwards, from one accepted block to the
\* next and from one attestation to the next inside a block, whatever the
\* attestations are and in whatever order they come.
FinalizedNeverRegresses ==
    [][/\ state'.latest_finalized.slot >= state.latest_finalized.slot
       /\ mode = "attesting" /\ mode' = "attesting" =>
              acc'.latest_finalized.slot >= acc.latest_finalized.slot]_vars

\* Justified slots and finalized slot of the block in progress, or of the
\* chain when there is none.
Current == IF mode = "attesting" THEN acc ELSE state

F == INSTANCE Finality WITH
        Slot <- {c.slot : c \in Checkpoint},
        justified <- JustifiedSet(Current.justified_slots,
                                  Current.latest_finalized.slot),
        finalized <- Current.latest_finalized.slot,
        kept_justified <- JustifiedSet(state.justified_slots,
                                       state.latest_finalized.slot),
        kept_finalized <- state.latest_finalized.slot

\* Refinement: with its sliding window of bits and its square roots the chain
\* implements Finality.  A step justifies exactly the target that reached a
\* supermajority, at a distance the documentation allows; a source becomes
\* finalized exactly if no slot between is at such a distance, measured from
\* the slot that was finalized when the block began; and no shift or extension
\* of the window loses a justified slot or makes one up.
ImplementsFinality == F!FSpec
=============================================================================
