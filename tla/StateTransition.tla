-------------------------- MODULE StateTransition --------------------------
(***************************************************************************)
(* The state transition function (containers/src/state.rs), up to the body *)
(* of the attestation loop, as pure operators on State records.            *)
(*                                                                         *)
(* A block root is a positive number; Zero stands for H256::zero().  The   *)
(* header kept in a State carries, as root, the hash that process_slots    *)
(* gives it once it has filled in the header's state root.  Sequences are  *)
(* one-based: the entry of slot s is at position s + 1.                    *)
(***************************************************************************)
EXTENDS Slots, Justifications

CONSTANT NumValidators

ASSUME NumValidatorsAssumption == NumValidators \in Nat \ {0}

Zero == 0

Validators == 0..(NumValidators - 1)

-----------------------------------------------------------------------------
(* The window of justification bits (JustifiedSlots).                      *)

\* The bit of slot exists; otherwise "outside the tracked range".
Tracked(bits, finalized_slot, slot) ==
    HasIndex(slot, finalized_slot) =>
        justified_index_after(slot, finalized_slot) < Len(bits)

is_slot_justified(bits, finalized_slot, slot) ==
    HasIndex(slot, finalized_slot) =>
        bits[justified_index_after(slot, finalized_slot) + 1]

with_justified(bits, finalized_slot, slot) ==
    IF HasIndex(slot, finalized_slot)
    THEN [bits EXCEPT ![justified_index_after(slot, finalized_slot) + 1] = TRUE]
    ELSE bits

\* Mutant: one bit too few is drained.
shift_window_Short(bits, delta) ==
    LET drained == IF delta > 0 THEN delta - 1 ELSE 0
    IN  [i \in 1..(Len(bits) - delta) |-> bits[i + drained]]

shift_window(bits, delta) ==
    [i \in 1..(Len(bits) - delta) |-> bits[i + delta]]

\* Mutant: the index of the last slot taken for the number of bits.
extend_to_slot_Short(bits, finalized_slot, slot) ==
    LET capacity == justified_index_after(slot, finalized_slot)
    IN  IF HasIndex(slot, finalized_slot) /\ capacity >= Len(bits)
        THEN [i \in 1..capacity |-> IF i <= Len(bits) THEN bits[i] ELSE FALSE]
        ELSE bits

extend_to_slot(bits, finalized_slot, slot) ==
    LET capacity == justified_index_after(slot, finalized_slot) + 1
    IN  IF HasIndex(slot, finalized_slot) /\ capacity >= Len(bits)
        THEN [i \in 1..capacity |-> IF i <= Len(bits) THEN bits[i] ELSE FALSE]
        ELSE bits

-----------------------------------------------------------------------------
(* States and block headers.                                               *)

generate_genesis(genesis_root) ==
    [slot                      |-> 0,
     latest_block_header       |-> [slot |-> 0, root |-> genesis_root],
     latest_justified          |-> [root |-> Zero, slot |-> 0],
     latest_finalized          |-> [root |-> Zero, slot |-> 0],
     historical_block_hashes   |-> << >>,
     justified_slots           |-> << >>,
     justifications_roots      |-> << >>,
     justifications_validators |-> << >>]

is_proposer_for(validator_index, slot) ==
    slot % NumValidators = validator_index

\* process_slots succeeds.
SlotsOk(st, target_slot) == st.slot < target_slot

process_slots(st, target_slot) == [st EXCEPT !.slot = target_slot]

\* The four checks of process_block_header.
HeaderOk(st, block) ==
    /\ block.slot = st.slot
    /\ block.slot > st.latest_block_header.slot
    /\ is_proposer_for(block.proposer_index, st.slot)
    /\ block.parent_root = st.latest_block_header.root

\* One zero hash per slot without a block before slot.
EmptySlots(parent_slot, slot) ==
    [i \in 1..(slot - parent_slot - 1) |-> Zero]

\* process_block_header past its checks.  A child of genesis takes its
\* parent as the justified and the finalized checkpoint.
process_block_header(st, block) ==
    LET parent == st.latest_block_header
        anchor == [root |-> parent.root, slot |-> 0]
    IN  [st EXCEPT
           !.latest_justified = IF parent.slot = 0 THEN anchor ELSE @,
           !.latest_finalized = IF parent.slot = 0 THEN anchor ELSE @,
           !.historical_block_hashes =
               Append(@, parent.root) \o EmptySlots(parent.slot, block.slot),
           !.justified_slots =
               extend_to_slot(@, st.latest_finalized.slot, block.slot - 1),
           !.latest_block_header = [slot |-> block.slot, root |-> block.root]]

-----------------------------------------------------------------------------
(* The attestation loop (process_attestations).  pre is the State the loop *)
(* starts from, acc the locals it carries from one attestation to the      *)
(* next.                                                                   *)

Locals(st) ==
    [latest_justified |-> st.latest_justified,
     latest_finalized |-> st.latest_finalized,
     justified_slots  |-> st.justified_slots,
     justifications   |-> get_justifications(st.justifications_roots,
                              st.justifications_validators, NumValidators)]

\* The check process_attestations begins with.
RootsNonzero(st) ==
    \A i \in 1..Len(st.justifications_roots) : st.justifications_roots[i] # Zero

FinalizedSlot(acc) == acc.latest_finalized.slot

InHistory(pre, slot) == slot < Len(pre.historical_block_hashes)

HashAt(pre, slot) == pre.historical_block_hashes[slot + 1]

\* The slot root_to_slot holds for root: the last one after the finalized
\* slot of pre that root is the block of.
RootSlots(pre, root) ==
    {s \in (pre.latest_finalized.slot + 1)..(Len(pre.historical_block_hashes) - 1) :
        HashAt(pre, s) = root}

root_to_slot(pre, root) ==
    CHOOSE s \in RootSlots(pre, root) : \A t \in RootSlots(pre, root) : t <= s

\* The source is justified and the target is not.
PassesWindow(acc, att) ==
    /\ Tracked(acc.justified_slots, FinalizedSlot(acc), att.data.source.slot)
    /\ is_slot_justified(acc.justified_slots, FinalizedSlot(acc), att.data.source.slot)
    /\ Tracked(acc.justified_slots, FinalizedSlot(acc), att.data.target.slot)
    /\ ~is_slot_justified(acc.justified_slots, FinalizedSlot(acc), att.data.target.slot)

\* Neither root is the zero hash.
PassesZero(acc, att) ==
    /\ PassesWindow(acc, att)
    /\ att.data.source.root # Zero
    /\ att.data.target.root # Zero

\* Mutant: any block of the chain will do.
MatchesHistory_AnyRoot(pre, checkpoint) == InHistory(pre, checkpoint.slot)

MatchesHistory(pre, checkpoint) ==
    InHistory(pre, checkpoint.slot) /\ checkpoint.root = HashAt(pre, checkpoint.slot)

\* The attestation passes every test that skips it: its votes count.  (The
\* assert behind CandidateOk cannot fail here: an unjustified target is after
\* the running finalized slot, which is never before that of pre.)
Counts(pre, acc, att) ==
    LET source == att.data.source
        target == att.data.target
    IN  /\ PassesZero(acc, att)
        /\ MatchesHistory(pre, source)
        /\ MatchesHistory(pre, target)
        /\ target.slot > source.slot
        /\ CandidateOk(target.slot, pre.latest_finalized.slot)
        /\ is_justifiable_after(target.slot, pre.latest_finalized.slot)

\* Mutant: the indices are not compared with the registry.
UnknownIndex_Never(att) == FALSE

UnknownIndex(att) == ~(att.aggregation_bits \subseteq Validators)

\* The ways an attestation makes the whole block invalid before its votes
\* are counted: a slot outside the window or the history, an index that is
\* not a validator's.
Malformed(pre, acc, att) ==
    LET source == att.data.source
        target == att.data.target
    IN  \/ ~Tracked(acc.justified_slots, FinalizedSlot(acc), source.slot)
        \/ /\ Tracked(acc.justified_slots, FinalizedSlot(acc), source.slot)
           /\ is_slot_justified(acc.justified_slots, FinalizedSlot(acc), source.slot)
           /\ ~Tracked(acc.justified_slots, FinalizedSlot(acc), target.slot)
        \/ PassesZero(acc, att) /\ ~InHistory(pre, source.slot)
        \/ /\ PassesZero(acc, att)
           /\ MatchesHistory(pre, source)
           /\ ~InHistory(pre, target.slot)
        \/ Counts(pre, acc, att) /\ UnknownIndex(att)

\* to_validator_indices asserts that an aggregate names a validator.
EmptyPanics(pre, acc, att) ==
    Counts(pre, acc, att) /\ att.aggregation_bits = {}

\* The votes once those of att are added.
Voted(acc, att) ==
    LET root == att.data.target.root
        old  == IF root \in DOMAIN acc.justifications
                THEN acc.justifications[root] ELSE {}
    IN  [r \in DOMAIN acc.justifications \cup {root} |->
            IF r = root THEN old \cup att.aggregation_bits
            ELSE acc.justifications[r]]

Supermajority(voters) == 3 * Cardinality(voters) >= 2 * NumValidators

\* att completes a supermajority for its target.
Justifies(acc, att) == Supermajority(Voted(acc, att)[att.data.target.root])

\* The assert of is_justifiable_after fails on the first slot between source
\* and target.
GapPanics(pre, att) ==
    /\ att.data.source.slot + 1 < att.data.target.slot
    /\ ~CandidateOk(att.data.source.slot + 1, pre.latest_finalized.slot)

\* Mutant: the slots between are not looked at.
Finalizes_AnyGap(pre, att) == TRUE

\* No slot between source and target is justifiable: source is finalized.
Finalizes(pre, att) ==
    \A s \in (att.data.source.slot + 1)..(att.data.target.slot - 1) :
        ~is_justifiable_after(s, pre.latest_finalized.slot)

\* The locals after att was counted without completing a supermajority.
CountVotes(acc, att) == [acc EXCEPT !.justifications = Voted(acc, att)]

\* Mutant: the votes for the new justified target are kept.
Justify_KeepVotes(acc, att) ==
    [acc EXCEPT
       !.latest_justified = att.data.target,
       !.justified_slots =
           with_justified(@, FinalizedSlot(acc), att.data.target.slot),
       !.justifications = Voted(acc, att)]

\* The locals after the target of att became justified.
Justify(acc, att) ==
    [acc EXCEPT
       !.latest_justified = att.data.target,
       !.justified_slots =
           with_justified(@, FinalizedSlot(acc), att.data.target.slot),
       !.justifications =
           [r \in DOMAIN @ \ {att.data.target.root} |-> @[r]]]

\* Finalizing the source moves the window forward.
MovesWindow(acc, att) == att.data.source.slot > FinalizedSlot(acc)

\* Every root still collecting votes is in root_to_slot.
RootsKnown(pre, acc) ==
    \A r \in DOMAIN acc.justifications : RootSlots(pre, r) # {}

\* The locals after the source of att became finalized.
Finalize(pre, acc, att) ==
    LET finalized == att.data.source
        kept      == {r \in DOMAIN acc.justifications :
                         root_to_slot(pre, r) > finalized.slot}
    IN  IF MovesWindow(acc, att)
        THEN [acc EXCEPT
                !.latest_finalized = finalized,
                !.justified_slots =
                    shift_window(@, finalized.slot - FinalizedSlot(acc)),
                !.justifications = [r \in kept |-> @[r]]]
        ELSE [acc EXCEPT !.latest_finalized = finalized]

\* The State process_attestations returns: pre with the locals written back,
\* the votes in their flat form.
Commit(pre, acc) ==
    LET roots == sorted_roots(DOMAIN acc.justifications)
    IN  [pre EXCEPT
           !.latest_justified = acc.latest_justified,
           !.latest_finalized = acc.latest_finalized,
           !.justified_slots = acc.justified_slots,
           !.justifications_roots = roots,
           !.justifications_validators =
               flat_bits(roots, acc.justifications, NumValidators)]
=============================================================================
