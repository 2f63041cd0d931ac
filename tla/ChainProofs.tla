----------------------------- MODULE ChainProofs -----------------------------
(***************************************************************************)
(* Proofs about Chain, for every number of validators, every set of roots, *)
(* checkpoints and aggregates: type correctness, the alignment of window   *)
(* and history, the checkpoints and the pending votes, that the finalized  *)
(* slot never moves backwards, and that Chain implements Finality.         *)
(***************************************************************************)
EXTENDS Chain, SlotsProofs, SequenceTheorems

-----------------------------------------------------------------------------
(* The inductive invariant.                                                *)

\* A non-zero entry of the history is the root of a block of that slot.
HistoryOK(h, tip) ==
    /\ h \in Seq(Nat)
    /\ Len(h) = tip
    /\ \A s \in 0..(tip - 1) :
          h[s + 1] # Zero => h[s + 1] \in Root /\ SlotOf[h[s + 1]] = s

TipSlot(st) == st.latest_block_header.slot

TipOK(st) ==
    /\ st \in StateRecord
    /\ st.slot = TipSlot(st)
    /\ SlotOf[st.latest_block_header.root] = TipSlot(st)
    /\ HistoryOK(st.historical_block_hashes, TipSlot(st))

\* A root that collects votes is that of a block after the finalized slot,
\* not justified, short of a supermajority.
PendingOK(h, tip, fin, bits, votes) ==
    /\ votes = [r \in DOMAIN votes |-> votes[r]]
    /\ \A r \in DOMAIN votes :
          /\ r \in Root
          /\ votes[r] \subseteq Validators
          /\ ~Supermajority(votes[r])
          /\ SlotOf[r] \in (fin + 1)..(tip - 1)
          /\ h[SlotOf[r] + 1] = r
          /\ ~bits[SlotOf[r] - fin]

\* What holds of the locals of the attestation loop over the State st.
LocalsOK(st, a) ==
    LET tip == TipSlot(st)
        fin == a.latest_finalized.slot
        j   == a.latest_justified
    IN  /\ a = [latest_justified |-> a.latest_justified,
                latest_finalized |-> a.latest_finalized,
                justified_slots  |-> a.justified_slots,
                justifications   |-> a.justifications]
        /\ a.latest_justified \in [root : Nat, slot : Nat]
        /\ a.latest_finalized \in [root : Nat, slot : Nat]
        /\ a.justified_slots \in Seq(BOOLEAN)
        /\ Len(a.justified_slots) + fin = tip - 1
        /\ a.latest_finalized.root = HashAt(st, fin)
        /\ a.latest_finalized.root # Zero
        /\ j.slot < tip /\ j.root = HashAt(st, j.slot) /\ j.root # Zero
        /\ \/ j.slot > fin /\ a.justified_slots[j.slot - fin]
           \/ j.slot = 0 /\ fin = 0
        /\ PendingOK(st.historical_block_hashes, tip, fin,
                     a.justified_slots, a.justifications)

\* The finalized slot is the one the block started from, or some justified
\* slot after it was justifiable when the block started and none in between
\* was.  This is what keeps a later attestation of the same block from moving
\* the finalized slot back.
GapWitness(st, a) ==
    LET base == st.latest_finalized.slot
        fin  == a.latest_finalized.slot
    IN  /\ fin >= base
        /\ fin > base =>
              \E t \in (fin + 1)..(TipSlot(st) - 1) :
                  /\ a.justified_slots[t - fin]
                  /\ is_justifiable_after(t, base)
                  /\ \A x \in (fin + 1)..(t - 1) : ~is_justifiable_after(x, base)

StateOK(st) ==
    /\ TipOK(st)
    /\ \/ st = generate_genesis(GenesisRoot)
       \/ TipSlot(st) > 0 /\ LocalsOK(st, Locals(st))

IInv ==
    /\ mode \in {"idle", "attesting", "panicked"}
    /\ StateOK(state)
    /\ mode # "attesting" => pre = state /\ acc = Locals(state)
    /\ mode = "attesting" =>
          /\ TipOK(pre)
          /\ LocalsOK(pre, acc)
          /\ GapWitness(pre, acc)
          /\ pre.latest_finalized.slot = state.latest_finalized.slot
          /\ JustifiedSet(pre.justified_slots, pre.latest_finalized.slot) =
                JustifiedSet(state.justified_slots, state.latest_finalized.slot)

-----------------------------------------------------------------------------
(* Facts about the operators of StateTransition.                           *)

\* The finalized slot itself is justifiable, at distance zero.
LEMMA FinalizedJustifiable ==
    ASSUME NEW f \in Nat
    PROVE  is_justifiable_after(f, f)
BY SMTT(30) DEF is_justifiable_after

\* What the skip tests establish about an attestation that counts: its source
\* is justified, its target is a block of this chain after the finalized slot
\* whose bit is not set.
LEMMA CountsFacts ==
    ASSUME NEW st, NEW a, NEW att \in Attestation,
           TipOK(st), LocalsOK(st, a), Counts(st, a, att)
    PROVE  LET source == att.data.source
               target == att.data.target
               fin    == a.latest_finalized.slot
               bits   == a.justified_slots
           IN  /\ source \in [root : Nat, slot : Nat]
               /\ target \in [root : Nat, slot : Nat]
               /\ target.slot \in (fin + 1)..(TipSlot(st) - 1)
               /\ target.slot - fin \in 1..Len(bits)
               /\ ~bits[target.slot - fin]
               /\ source.slot < target.slot
               /\ source.slot > fin =>
                     source.slot - fin \in 1..Len(bits) /\ bits[source.slot - fin]
               /\ source.root = HashAt(st, source.slot) /\ source.root # Zero
               /\ target.root = HashAt(st, target.slot) /\ target.root # Zero
               /\ target.root \in Root /\ SlotOf[target.root] = target.slot
               /\ is_justifiable_after(target.slot, st.latest_finalized.slot)
<1> DEFINE source == att.data.source
           target == att.data.target
           fin    == a.latest_finalized.slot
           bits   == a.justified_slots
           tip    == TipSlot(st)
<1>1. source \in [root : Nat, slot : Nat] /\ target \in [root : Nat, slot : Nat]
  BY ChainAssumption DEF Attestation
<1>2. source.slot \in Nat /\ target.slot \in Nat
  BY <1>1
<1>3. fin \in Nat /\ bits \in Seq(BOOLEAN) /\ Len(bits) \in Nat /\ Len(bits) + fin = tip - 1
  BY DEF LocalsOK
<1>4. tip \in Nat
  BY DEF TipOK, TipSlot, StateRecord
<1>5. /\ Tracked(bits, fin, source.slot) /\ is_slot_justified(bits, fin, source.slot)
      /\ Tracked(bits, fin, target.slot) /\ ~is_slot_justified(bits, fin, target.slot)
      /\ source.root # Zero /\ target.root # Zero
  BY DEF Counts, PassesZero, PassesWindow, FinalizedSlot
<1>6. /\ source.root = HashAt(st, source.slot)
      /\ target.root = HashAt(st, target.slot)
      /\ target.slot > source.slot
      /\ is_justifiable_after(target.slot, st.latest_finalized.slot)
  BY DEF Counts, MatchesHistory
<1> HIDE DEF source, target, fin, bits, tip
<1>7. /\ target.slot \in (fin + 1)..(tip - 1)
      /\ target.slot - fin \in 1..Len(bits)
      /\ ~bits[target.slot - fin]
  <2>1. target.slot >= fin + 1
    BY <1>5 DEF is_slot_justified, HasIndex
  <2>2. target.slot - (fin + 1) < Len(bits) /\ ~bits[(target.slot - (fin + 1)) + 1]
    BY <1>5, <2>1 DEF is_slot_justified, Tracked, HasIndex, justified_index_after
  <2>3. (target.slot - (fin + 1)) + 1 = target.slot - fin
    BY <1>2, <1>3
  <2>4. QED BY <2>1, <2>2, <2>3, <1>2, <1>3, <1>4
<1>8. ASSUME source.slot > fin
      PROVE  source.slot - fin \in 1..Len(bits) /\ bits[source.slot - fin]
  <2>1. source.slot >= fin + 1
    BY <1>2, <1>3, <1>8
  <2>2. source.slot - (fin + 1) < Len(bits) /\ bits[(source.slot - (fin + 1)) + 1]
    BY <1>5, <2>1 DEF is_slot_justified, Tracked, HasIndex, justified_index_after
  <2>3. (source.slot - (fin + 1)) + 1 = source.slot - fin
    BY <1>2, <1>3
  <2>4. QED BY <2>1, <2>2, <2>3, <1>2, <1>3
<1>9. target.root \in Root /\ SlotOf[target.root] = target.slot
  <2>1. HistoryOK(st.historical_block_hashes, tip)
    BY DEF TipOK, tip
  <2>2. target.slot \in 0..(tip - 1)
    BY <1>7, <1>2, <1>3, <1>4
  <2>3. QED BY <2>1, <2>2, <1>5, <1>6 DEF HashAt, HistoryOK
<1>10. source.slot < target.slot
  BY <1>2, <1>6
<1>11. QED
  BY <1>1, <1>5, <1>6, <1>7, <1>8, <1>9, <1>10 DEF source, target, fin, bits, tip

-----------------------------------------------------------------------------
(* The steps of the attestation loop.                                      *)

\* Votes short of a supermajority keep the locals well formed.
LEMMA VoteStep ==
    ASSUME NEW st, NEW a, NEW att \in Attestation,
           TipOK(st), LocalsOK(st, a), GapWitness(st, a),
           Counts(st, a, att), ~Malformed(st, a, att), ~Justifies(a, att)
    PROVE  LET b == CountVotes(a, att)
           IN  /\ LocalsOK(st, b) /\ GapWitness(st, b)
               /\ b.latest_finalized = a.latest_finalized
               /\ b.justified_slots = a.justified_slots
<1> DEFINE b == CountVotes(a, att)
           target == att.data.target
           h == st.historical_block_hashes
           tip == TipSlot(st)
           fin == a.latest_finalized.slot
           bits == a.justified_slots
           old == a.justifications
           votes == Voted(a, att)
<1>1. /\ b.latest_justified = a.latest_justified
      /\ b.latest_finalized = a.latest_finalized
      /\ b.justified_slots = a.justified_slots
      /\ b.justifications = votes
      /\ b = [latest_justified |-> b.latest_justified,
              latest_finalized |-> b.latest_finalized,
              justified_slots  |-> b.justified_slots,
              justifications   |-> b.justifications]
  BY SMTT(30) DEF LocalsOK, CountVotes
<1>2. /\ target.slot \in (fin + 1)..(tip - 1)
      /\ ~bits[target.slot - fin]
      /\ target.root = h[target.slot + 1]
      /\ target.root \in Root /\ SlotOf[target.root] = target.slot
  BY CountsFacts DEF HashAt
<1>3. att.aggregation_bits \subseteq Validators
  BY DEF Malformed, UnknownIndex
<1>4. ~Supermajority(votes[target.root])
  BY DEF Justifies
<1>5. PendingOK(h, tip, fin, bits, old)
  BY SMTT(30) DEF LocalsOK
<1>6. /\ DOMAIN votes = DOMAIN old \cup {target.root}
      /\ \A r \in DOMAIN old : r # target.root => votes[r] = old[r]
      /\ votes[target.root] \subseteq Validators
      /\ votes = [r \in DOMAIN votes |-> votes[r]]
  BY <1>3, <1>5 DEF Voted, PendingOK
<1> HIDE DEF b, target, h, tip, fin, bits, old, votes
<1>7. PendingOK(h, tip, fin, bits, votes)
  BY <1>2, <1>4, <1>5, <1>6, SMTT(30) DEF PendingOK
<1>8. LocalsOK(st, b)
  BY <1>1, <1>7 DEF LocalsOK, h, tip, fin, bits
<1>9. GapWitness(st, b)
  BY <1>1, SMTT(30) DEF GapWitness
<1>10. QED BY <1>1, <1>8, <1>9 DEF b

\* A target that reaches a supermajority becomes justified and latest, and its
\* votes are dropped; nothing else becomes justified.
LEMMA JustifyStep ==
    ASSUME NEW st, NEW a, NEW att \in Attestation,
           TipOK(st), LocalsOK(st, a), GapWitness(st, a), Counts(st, a, att)
    PROVE  LET b   == Justify(a, att)
               fin == a.latest_finalized.slot
               t   == att.data.target.slot
           IN  /\ LocalsOK(st, b) /\ GapWitness(st, b)
               /\ b.latest_finalized = a.latest_finalized
               /\ Len(b.justified_slots) = Len(a.justified_slots)
               /\ b.justified_slots[t - fin]
               /\ \A i \in 1..Len(a.justified_slots) :
                     b.justified_slots[i] <=> a.justified_slots[i] \/ i = t - fin
<1> DEFINE b == Justify(a, att)
           target == att.data.target
           t == target.slot
           h == st.historical_block_hashes
           tip == TipSlot(st)
           fin == a.latest_finalized.slot
           bits == a.justified_slots
           old == a.justifications
           set == [bits EXCEPT ![t - fin] = TRUE]
           votes == [r \in DOMAIN old \ {target.root} |-> old[r]]
<1>1. /\ target \in [root : Nat, slot : Nat]
      /\ t \in (fin + 1)..(tip - 1)
      /\ t - fin \in 1..Len(bits)
      /\ target.root = h[t + 1] /\ target.root # Zero
      /\ target.root \in Root /\ SlotOf[target.root] = t
  BY CountsFacts DEF HashAt
<1>2. /\ fin \in Nat /\ bits \in Seq(BOOLEAN) /\ Len(bits) \in Nat
      /\ Len(bits) + fin = tip - 1
      /\ PendingOK(h, tip, fin, bits, old)
      /\ tip \in Nat
  BY DEF LocalsOK, TipOK, StateRecord, TipSlot
<1>3. /\ b.latest_justified = target
      /\ b.latest_finalized = a.latest_finalized
      /\ b.justified_slots = set
      /\ b.justifications = votes
      /\ b = [latest_justified |-> b.latest_justified,
              latest_finalized |-> b.latest_finalized,
              justified_slots  |-> b.justified_slots,
              justifications   |-> b.justifications]
  <2>1. with_justified(bits, fin, t) = set
    <3> HIDE DEF t, fin, tip, bits, h, target
    <3>1. HasIndex(t, fin)
      BY <1>1, <1>2 DEF HasIndex
    <3>2. justified_index_after(t, fin) + 1 = t - fin
      BY <1>1, <1>2 DEF justified_index_after
    <3>3. QED BY <3>1, <3>2, ZenonT(30) DEF with_justified, set
  <2>2. b = [a EXCEPT !.latest_justified = target,
                      !.justified_slots = set,
                      !.justifications = votes]
    BY <2>1, SMTT(30) DEF Justify, FinalizedSlot
  <2> HIDE DEF b, target, set, votes
  <2>3. QED BY <2>2, ZenonT(30) DEF LocalsOK
<1>4. /\ set \in Seq(BOOLEAN) /\ Len(set) = Len(bits)
      /\ set[t - fin]
      /\ \A i \in 1..Len(bits) : set[i] <=> bits[i] \/ i = t - fin
  BY <1>1, <1>2, SMTT(30)
<1>5. PendingOK(h, tip, fin, set, votes)
  <2> SUFFICES ASSUME NEW r \in DOMAIN old, r # target.root
               PROVE  /\ r \in Root
                      /\ old[r] \subseteq Validators
                      /\ ~Supermajority(old[r])
                      /\ SlotOf[r] \in (fin + 1)..(tip - 1)
                      /\ h[SlotOf[r] + 1] = r
                      /\ ~set[SlotOf[r] - fin]
    BY DEF PendingOK
  <2>1. /\ r \in Root
        /\ old[r] \subseteq Validators
        /\ ~Supermajority(old[r])
        /\ SlotOf[r] \in (fin + 1)..(tip - 1)
        /\ h[SlotOf[r] + 1] = r
        /\ ~bits[SlotOf[r] - fin]
    BY <1>2 DEF PendingOK
  <2> HIDE DEF h, tip, fin, bits, old, set, votes, t, target
  <2>2. SlotOf[r] # t
    BY <2>1, <1>1
  <2> DEFINE x == SlotOf[r]
  <2>3. x \in (fin + 1)..(tip - 1) /\ x # t
    BY <2>1, <2>2
  <2> HIDE DEF x
  <2>4. x - fin \in 1..Len(bits) /\ x - fin # t - fin
    BY <2>3, <1>1, <1>2, SMTT(30)
  <2>5. QED BY <2>1, <2>4, <1>4 DEF x
<1> HIDE DEF b, target, t, h, tip, fin, bits, old, set, votes
<1>6. LocalsOK(st, b)
  <2>1. /\ b.latest_justified \in [root : Nat, slot : Nat]
        /\ target.slot < tip /\ target.slot > fin
        /\ target.root = HashAt(st, target.slot)
        /\ b.justified_slots[target.slot - fin]
    BY <1>1, <1>2, <1>3, <1>4, SMTT(30) DEF HashAt, h, t
  <2>2. QED BY <2>1, <1>1, <1>2, <1>3, <1>4, <1>5, ZenonT(30) DEF LocalsOK, h, tip, fin, bits
<1>7. GapWitness(st, b)
  <2>1. \A x \in (fin + 1)..(tip - 1) : x - fin \in 1..Len(bits)
    BY <1>2
  <2>2. \A x \in (fin + 1)..(tip - 1) : bits[x - fin] => set[x - fin]
    BY <2>1, <1>4
  <2>3. QED BY <2>2, <1>3 DEF GapWitness, fin, bits, tip
<1>8. QED BY <1>3, <1>4, <1>6, <1>7, SMTT(30) DEF b, fin, bits, t, target

\* root_to_slot finds the slot of a root that collects votes.
LEMMA RootToSlot ==
    ASSUME NEW st, NEW a, TipOK(st), LocalsOK(st, a), GapWitness(st, a),
           NEW r \in DOMAIN a.justifications
    PROVE  /\ RootSlots(st, r) # {}
           /\ root_to_slot(st, r) = SlotOf[r]
<1> DEFINE h == st.historical_block_hashes
           tip == TipSlot(st)
           base == st.latest_finalized.slot
           fin == a.latest_finalized.slot
           x == SlotOf[r]
<1>1. /\ base \in Nat /\ fin \in Nat /\ tip \in Nat /\ fin >= base
      /\ h \in Seq(Nat) /\ Len(h) = tip
  BY DEF TipOK, StateRecord, TipSlot, LocalsOK, GapWitness, HistoryOK
<1>2. /\ r \in Root /\ r # Zero
      /\ x \in (fin + 1)..(tip - 1)
      /\ h[x + 1] = r
  BY ChainAssumption, SMTT(30) DEF LocalsOK, PendingOK
<1>3. ASSUME NEW y \in (base + 1)..(tip - 1), h[y + 1] = r PROVE y = x
  <2>1. y \in 0..(tip - 1)
    BY <1>1
  <2>2. QED BY <1>2, <1>3, <2>1 DEF TipOK, HistoryOK
<1>4. x \in (base + 1)..(tip - 1)
  <2> HIDE DEF x, base, tip, fin
  <2>1. QED BY <1>1, <1>2, SMTT(30)
<1>5. RootSlots(st, r) = {x}
  BY <1>1, <1>2, <1>3, <1>4, ZenonT(30) DEF RootSlots, HashAt
<1>6. x <= x
  <2> HIDE DEF x
  <2>1. QED BY <1>1, <1>4, SMTT(30)
<1>7. QED BY <1>5, <1>6, SMTT(30) DEF root_to_slot

\* An attestation that finalizes its source never does so behind the
\* finalized slot: a slot of the gap would be justifiable, or the assert of
\* is_justifiable_after would have failed.
LEMMA SourceNotBehind ==
    ASSUME NEW st, NEW a, NEW att \in Attestation,
           TipOK(st), LocalsOK(st, a), GapWitness(st, a), Counts(st, a, att),
           ~GapPanics(st, att), Finalizes(st, att)
    PROVE  att.data.source.slot >= a.latest_finalized.slot
<1> DEFINE s == att.data.source.slot
           t == att.data.target.slot
           tip == TipSlot(st)
           base == st.latest_finalized.slot
           fin == a.latest_finalized.slot
           bits == a.justified_slots
<1>1. /\ s \in Nat /\ t \in Nat /\ s < t
      /\ t \in (fin + 1)..(tip - 1)
      /\ ~bits[t - fin]
      /\ is_justifiable_after(t, base)
  BY CountsFacts
<1>2. base \in Nat /\ fin \in Nat /\ tip \in Nat /\ fin >= base
  BY DEF TipOK, StateRecord, TipSlot, LocalsOK, GapWitness
<1>3. \A x \in (s + 1)..(t - 1) : ~is_justifiable_after(x, base)
  BY DEF Finalizes
<1>4. s + 1 < t => s + 1 >= base
  BY DEF GapPanics, CandidateOk
<1>5. fin > base =>
        \E u \in (fin + 1)..(tip - 1) :
            /\ bits[u - fin]
            /\ is_justifiable_after(u, base)
            /\ \A x \in (fin + 1)..(u - 1) : ~is_justifiable_after(x, base)
  BY DEF GapWitness
<1> HIDE DEF s, t, tip, base, fin, bits
<1>6. SUFFICES ASSUME s < fin PROVE FALSE
  BY <1>1, <1>2 DEF s, fin
<1>7. CASE fin = base
  <2>1. fin \in (s + 1)..(t - 1)
    BY <1>1, <1>2, <1>4, <1>6, <1>7
  <2>2. QED BY <2>1, <1>2, <1>3, <1>7, FinalizedJustifiable, SMTT(30)
<1>8. CASE fin > base
  <2>1. PICK u \in (fin + 1)..(tip - 1) :
            /\ bits[u - fin]
            /\ is_justifiable_after(u, base)
            /\ \A x \in (fin + 1)..(u - 1) : ~is_justifiable_after(x, base)
    BY <1>5, <1>8
  <2>2. t # u
    BY <2>1, <1>1
  <2>3. CASE t > u
    <3>1. u \in (s + 1)..(t - 1)
      BY <1>1, <1>2, <1>6, <2>3, SMTT(30)
    <3>2. QED BY <3>1, <2>1, <1>3
  <2>4. CASE t < u
    <3>1. t \in (fin + 1)..(u - 1)
      BY <1>1, <1>2, <2>4, SMTT(30)
    <3>2. QED BY <3>1, <2>1, <1>1
  <2>5. QED BY <2>2, <2>3, <2>4, <1>1, <1>2, SMTT(30)
<1>9. QED BY <1>2, <1>7, <1>8, SMTT(30)

\* new is old without its first d bits.
ShiftedBy(new, old, d) ==
    /\ Len(new) = Len(old) - d
    /\ \A i \in 1..Len(new) : new[i] = old[i + d]

\* Finalizing the source moves the window forward by as many bits as slots
\* and prunes the votes; the locals stay well formed.
LEMMA FinalizeStep ==
    ASSUME NEW st, NEW a, NEW att \in Attestation,
           TipOK(st), LocalsOK(st, a), GapWitness(st, a), Counts(st, a, att),
           ~GapPanics(st, att), Finalizes(st, att)
    PROVE  LET b   == Justify(a, att)
               c   == Finalize(st, b, att)
               fin == a.latest_finalized.slot
               s   == att.data.source.slot
           IN  /\ LocalsOK(st, c) /\ GapWitness(st, c)
               /\ c.latest_finalized.slot = s
               /\ s >= fin
               /\ ShiftedBy(c.justified_slots, b.justified_slots, s - fin)
<1> DEFINE b == Justify(a, att)
           c == Finalize(st, b, att)
           source == att.data.source
           target == att.data.target
           s == source.slot
           t == target.slot
           h == st.historical_block_hashes
           tip == TipSlot(st)
           base == st.latest_finalized.slot
           fin == a.latest_finalized.slot
           bits == b.justified_slots
           old == b.justifications
<1>1. /\ source \in [root : Nat, slot : Nat] /\ target \in [root : Nat, slot : Nat]
      /\ s \in Nat /\ t \in Nat /\ s < t
      /\ t \in (fin + 1)..(tip - 1)
      /\ source.root = HashAt(st, s) /\ source.root # Zero
      /\ target.root = HashAt(st, t) /\ target.root # Zero
      /\ is_justifiable_after(t, base)
  BY CountsFacts
<1>2. /\ LocalsOK(st, b) /\ GapWitness(st, b)
      /\ b.latest_finalized = a.latest_finalized
      /\ bits[t - fin]
  BY JustifyStep, SMTT(30)
<1>3. /\ base \in Nat /\ fin \in Nat /\ tip \in Nat /\ fin >= base
      /\ bits \in Seq(BOOLEAN) /\ Len(bits) \in Nat /\ Len(bits) + fin = tip - 1
      /\ PendingOK(h, tip, fin, bits, old)
  BY <1>2, SMTT(30) DEF TipOK, StateRecord, TipSlot, LocalsOK, GapWitness
<1>4. s >= fin
  BY SourceNotBehind
<1>5. b = [latest_justified |-> target,
           latest_finalized |-> b.latest_finalized,
           justified_slots  |-> bits,
           justifications   |-> old]
  <2>1. b.latest_justified = target
    BY DEF Justify, LocalsOK
  <2>2. QED BY <1>2, <2>1 DEF LocalsOK
<1>6. \A x \in (s + 1)..(t - 1) : ~is_justifiable_after(x, base)
  BY DEF Finalizes
<1> HIDE DEF b
<1>7. CASE s = fin
  <2>1. ~MovesWindow(b, att)
    BY <1>1, <1>2, <1>3, <1>7, SMTT(30) DEF MovesWindow, FinalizedSlot
  <2>2. source = b.latest_finalized
    <3>1. /\ a.latest_finalized \in [root : Nat, slot : Nat]
          /\ a.latest_finalized.root = HashAt(st, fin)
      BY SMTT(30) DEF LocalsOK
    <3>2. source.root = a.latest_finalized.root /\ source.slot = a.latest_finalized.slot
      BY <3>1, <1>1, <1>7
    <3>3. source = a.latest_finalized
      <4> HIDE DEF source
      <4>1. QED BY <3>1, <3>2, <1>1
    <3>4. QED BY <3>3, <1>2
  <2>3. c = [b EXCEPT !.latest_finalized = source]
    BY <2>1 DEF Finalize
  <2> HIDE DEF source, bits, old, c
  <2>4. c = b
    BY <2>2, <2>3, <1>5, SMTT(30)
  <2>5. \A i \in 1..Len(bits) : bits[i + (s - fin)] = bits[i]
    <3>1. \A i \in 1..Len(bits) : i + (s - fin) = i
      BY <1>1, <1>3, <1>7, SMTT(30)
    <3>2. QED BY <3>1
  <2>6. Len(bits) - (s - fin) = Len(bits)
    BY <1>1, <1>3, <1>7, SMTT(30)
  <2>7. QED BY <2>4, <2>5, <2>6, <1>2, <1>4, <1>7, SMTT(30) DEF ShiftedBy, b, c, bits, source
<1>8. CASE s > fin
  <2> DEFINE d == s - fin
             kept == {r \in DOMAIN old : root_to_slot(st, r) > s}
             new == shift_window(bits, d)
             votes == [r \in kept |-> old[r]]
  <2>1. MovesWindow(b, att)
    BY <1>2, <1>8 DEF MovesWindow, FinalizedSlot
  <2>2. /\ c.latest_justified = target
        /\ c.latest_finalized = source
        /\ c.justified_slots = new
        /\ c.justifications = votes
        /\ c = [latest_justified |-> c.latest_justified,
                latest_finalized |-> c.latest_finalized,
                justified_slots  |-> c.justified_slots,
                justifications   |-> c.justifications]
    <3>1. c = [b EXCEPT !.latest_finalized = source,
                        !.justified_slots = new,
                        !.justifications = votes]
      BY <2>1, <1>2 DEF Finalize, FinalizedSlot
    <3> HIDE DEF source, target, new, votes, bits, old, c
    <3> DEFINE f == b.latest_finalized
    <3>2. b = [latest_justified |-> target,
               latest_finalized |-> f,
               justified_slots  |-> bits,
               justifications   |-> old]
      BY <1>5, SMTT(30)
    <3> HIDE DEF f
    <3>3. QED BY <3>1, <3>2, ZenonT(30)
  <2>3. /\ d \in Nat /\ Len(bits) - d \in Nat
        /\ (Len(bits) - d) + s = tip - 1
        /\ t - s \in 1..(Len(bits) - d) /\ (t - s) + d = t - fin
    <3> HIDE DEF s, t, fin, tip, bits
    <3>1. QED BY <1>1, <1>3, <1>8, SMTT(30)
  <2>4. \A i \in 1..(Len(bits) - d) : i + d \in 1..Len(bits)
    <3> HIDE DEF d, bits
    <3>1. QED BY <2>3, <1>3, SMTT(30)
  <2>5. /\ new \in Seq(BOOLEAN) /\ Len(new) = Len(bits) - d
        /\ \A i \in 1..Len(new) : new[i] = bits[i + d]
        /\ new[t - s]
    <3> HIDE DEF d, bits, s, t, fin
    <3>1. \A i \in 1..(Len(bits) - d) : bits[i + d] \in BOOLEAN
      BY <2>4, <1>3
    <3>2. new = [i \in 1..(Len(bits) - d) |-> bits[i + d]]
      BY DEF shift_window
    <3>3. new \in Seq(BOOLEAN) /\ Len(new) = Len(bits) - d
      <4> DEFINE n == Len(bits) - d
      <4>1. n \in Nat /\ new \in [1..n -> BOOLEAN]
        BY <2>3, <3>1, <3>2, ZenonT(30)
      <4> HIDE DEF n, new
      <4>2. QED BY <4>1 DEF n
    <3>4. QED BY <3>2, <3>3, <2>3, <1>2
  <2>6. PendingOK(h, tip, s, new, votes)
    <3> SUFFICES ASSUME NEW r \in kept
                 PROVE  /\ r \in Root
                        /\ old[r] \subseteq Validators
                        /\ ~Supermajority(old[r])
                        /\ SlotOf[r] \in (s + 1)..(tip - 1)
                        /\ h[SlotOf[r] + 1] = r
                        /\ ~new[SlotOf[r] - s]
      BY SMTT(30) DEF PendingOK
    <3> DEFINE x == SlotOf[r]
    <3>1. /\ r \in Root
          /\ old[r] \subseteq Validators
          /\ ~Supermajority(old[r])
          /\ x \in (fin + 1)..(tip - 1)
          /\ h[x + 1] = r
          /\ ~bits[x - fin]
      BY <1>3 DEF PendingOK
    <3>2. x > s
      BY <1>2, RootToSlot, SMTT(30)
    <3> HIDE DEF x, s, fin, tip, bits, new, h, old
    <3>3. /\ x \in (s + 1)..(tip - 1)
          /\ x - s \in 1..(Len(bits) - d) /\ (x - s) + d = x - fin
      BY <3>1, <3>2, <1>1, <1>3, <1>8, SMTT(30)
    <3> HIDE DEF d
    <3>4. ~new[x - s]
      BY <3>1, <3>3, <2>5, SMTT(30)
    <3>5. QED BY <3>1, <3>3, <3>4, SMTT(30) DEF x
  <2> HIDE DEF c, new, votes, d
  <2>7. LocalsOK(st, c)
    <3>1. s < tip /\ t < tip /\ t > s
      <4> HIDE DEF s, t, tip, fin
      <4>1. QED BY <1>1, <1>3, SMTT(30)
    <3>2. Len(new) + s = tip - 1
      BY <2>3, <2>5, SMTT(30)
    <3>3. /\ c.latest_justified \in [root : Nat, slot : Nat]
          /\ c.latest_justified.slot = t
          /\ c.latest_justified.root = HashAt(st, t)
          /\ c.latest_justified.root # Zero
      BY <1>1, <2>2, ZenonT(30)
    <3>4. /\ c.latest_finalized \in [root : Nat, slot : Nat]
          /\ c.latest_finalized.slot = s
          /\ c.latest_finalized.root = HashAt(st, s)
          /\ c.latest_finalized.root # Zero
      BY <1>1, <2>2, ZenonT(30)
    <3>5. /\ c.justified_slots \in Seq(BOOLEAN)
          /\ Len(c.justified_slots) + s = tip - 1
          /\ c.justified_slots[t - s]
          /\ PendingOK(h, tip, s, c.justified_slots, c.justifications)
      BY <2>2, <2>5, <2>6, <3>2, ZenonT(30)
    <3> HIDE DEF s, t
    <3>6. QED BY <2>2, <3>1, <3>3, <3>4, <3>5, ZenonT(30) DEF LocalsOK
  <2>8. GapWitness(st, c)
    <3>1. t \in (s + 1)..(tip - 1) /\ s >= base
      <4> HIDE DEF s, t, tip, fin, base
      <4>1. QED BY <1>1, <1>3, <1>4
    <3>2. QED BY <3>1, <2>2, <2>5, <1>1, <1>6, SMTT(30) DEF GapWitness
  <2>9. QED BY <2>2, <2>5, <2>7, <2>8, <1>4, SMTT(30) DEF ShiftedBy, d, c, b
<1>9. QED
  <2> HIDE DEF s, fin, c, bits
  <2>1. s = fin \/ s > fin
    BY <1>1, <1>3, <1>4, SMTT(30)
  <2>2. QED BY <2>1, <1>7, <1>8

-----------------------------------------------------------------------------
(* The header step.                                                        *)

\* extend_to_slot gives the window one bit per slot up to the one before the
\* new block and keeps the bits it had.
LEMMA ExtendFacts ==
    ASSUME NEW bits \in Seq(BOOLEAN), NEW fin \in Nat, NEW S \in Nat \ {0},
           Len(bits) + fin <= S - 1
    PROVE  LET new == extend_to_slot(bits, fin, S - 1)
           IN  /\ new \in Seq(BOOLEAN)
               /\ Len(new) + fin = S - 1
               /\ Len(bits) <= Len(new)
               /\ \A i \in 1..Len(new) : new[i] <=> i <= Len(bits) /\ bits[i]
<1> DEFINE n == justified_index_after(S - 1, fin) + 1
           new == extend_to_slot(bits, fin, S - 1)
<1>1. n = (S - 1) - fin
  BY DEF justified_index_after
<1>2. Len(bits) \in Nat /\ \A i \in 1..Len(bits) : bits[i] \in BOOLEAN
  OBVIOUS
<1>3. CASE HasIndex(S - 1, fin)
  <2>1. n \in Nat /\ n >= Len(bits)
    BY <1>1, <1>2
  <2>2. new = [i \in 1..n |-> IF i <= Len(bits) THEN bits[i] ELSE FALSE]
    BY <1>3, <2>1 DEF extend_to_slot
  <2> HIDE DEF n, new
  <2>3. new \in [1..n -> BOOLEAN]
    <3>1. \A i \in 1..n : i <= Len(bits) => i \in 1..Len(bits)
      BY <2>1, <1>2
    <3>2. \A i \in 1..n : (IF i <= Len(bits) THEN bits[i] ELSE FALSE) \in BOOLEAN
      BY <3>1, <1>2, ZenonT(30)
    <3>3. QED BY <2>2, <3>2, ZenonT(30)
  <2>4. new \in Seq(BOOLEAN) /\ Len(new) = n
    BY <2>1, <2>3
  <2>5. \A i \in 1..Len(new) : new[i] <=> i <= Len(bits) /\ bits[i]
    BY <1>2, <2>1, <2>2, <2>4, SMTT(30)
  <2>6. QED BY <1>1, <1>2, <2>1, <2>4, <2>5 DEF new
<1>4. CASE ~HasIndex(S - 1, fin)
  <2>1. Len(bits) = 0 /\ fin = S - 1
    BY <1>2, <1>4 DEF HasIndex
  <2>2. new = bits
    BY <1>4 DEF extend_to_slot
  <2> HIDE DEF new
  <2>3. \A i \in 1..Len(new) : new[i] <=> i <= Len(bits) /\ bits[i]
    BY <2>1, <2>2
  <2>4. Len(new) + fin = S - 1
    BY <2>1, <2>2
  <2>5. new \in Seq(BOOLEAN) /\ Len(bits) <= Len(new)
    BY <2>1, <2>2
  <2>6. QED BY <2>3, <2>4, <2>5 DEF new
<1>5. QED BY <1>3, <1>4

\* The history new of a block of slot S whose parent, of root p and slot tip,
\* had the history h.
Grown(new, h, p, tip, S) ==
    new = Append(h, p) \o [i \in 1..(S - tip - 1) |-> Zero]

\* The history grows by the parent's root, one zero hash per empty slot after
\* it, and stays one entry per slot.
LEMMA HistoryFacts ==
    ASSUME NEW h, NEW tip \in Nat, NEW S \in Nat, S > tip, HistoryOK(h, tip),
           NEW p \in Root, SlotOf[p] = tip,
           NEW new, Grown(new, h, p, tip, S)
    PROVE  /\ HistoryOK(new, S)
           /\ \A i \in 1..tip : new[i] = h[i]
           /\ new[tip + 1] = p
<1> DEFINE first == Append(h, p)
           k == S - tip - 1
           empty == [i \in 1..k |-> Zero]
<1>1. p \in Nat
  BY ChainAssumption
<1>2. /\ first \in Seq(Nat) /\ Len(first) = tip + 1
      /\ \A i \in 1..tip : first[i] = h[i]
      /\ first[tip + 1] = p
  BY <1>1 DEF HistoryOK
<1>3. k \in Nat
  OBVIOUS
<1>4. empty \in Seq(Nat) /\ Len(empty) = k /\ \A i \in 1..k : empty[i] = Zero
  <2> HIDE DEF k
  <2>1. empty \in [1..k -> Nat]
    BY DEF Zero
  <2>2. \A i \in 1..k : empty[i] = Zero
    OBVIOUS
  <2> HIDE DEF empty
  <2>3. QED BY <1>3, <2>1, <2>2
<1> DEFINE cat == first \o empty
<1>0. new = cat
  BY SMTT(30) DEF Grown
<1> HIDE DEF first, empty
<1>5. /\ new \in Seq(Nat) /\ Len(new) = (tip + 1) + k
      /\ \A i \in 1..(tip + 1) : new[i] = first[i]
      /\ \A i \in ((tip + 1) + 1)..((tip + 1) + k) : new[i] = empty[i - (tip + 1)]
  <2>1. /\ cat \in Seq(Nat) /\ Len(cat) = Len(first) + Len(empty)
        /\ \A i \in 1..(Len(first) + Len(empty)) :
              cat[i] = IF i <= Len(first) THEN first[i] ELSE empty[i - Len(first)]
    BY <1>2, <1>4, ConcatProperties, ZenonT(30)
  <2> HIDE DEF cat, k
  <2>2. Len(first) = tip + 1 /\ Len(empty) = k
    BY <1>2, <1>4
  <2>3. \A i \in 1..((tip + 1) + k) :
            new[i] = IF i <= tip + 1 THEN first[i] ELSE empty[i - (tip + 1)]
    BY <2>1, <2>2, <1>0
  <2>4. \A i \in 1..(tip + 1) : i \in 1..((tip + 1) + k) /\ i <= tip + 1
    BY <1>3
  <2>5. \A i \in ((tip + 1) + 1)..((tip + 1) + k) :
            i \in 1..((tip + 1) + k) /\ ~(i <= tip + 1)
    BY <1>3
  <2>6. QED BY <2>1, <2>2, <2>3, <2>4, <2>5, <1>0, SMTT(30)
<1>6. (tip + 1) + k = S
  OBVIOUS
<1>7. /\ \A i \in 1..tip : new[i] = h[i]
      /\ new[tip + 1] = p
  BY <1>2, <1>5, SMTT(30)
<1>8. ASSUME NEW s \in 0..(S - 1), new[s + 1] # Zero
      PROVE  new[s + 1] \in Root /\ SlotOf[new[s + 1]] = s
  <2>1. CASE s < tip
    <3>1. s \in 0..(tip - 1) /\ s + 1 \in 1..tip
      BY <2>1
    <3>2. QED BY <3>1, <1>7, <1>8 DEF HistoryOK
  <2>2. CASE s = tip
    BY <2>2, <1>7, SMTT(30)
  <2>3. CASE s > tip
    <3>1. /\ s + 1 \in ((tip + 1) + 1)..((tip + 1) + k)
          /\ (s + 1) - (tip + 1) \in 1..k
      BY <2>3, <1>6, SMTT(30)
    <3> HIDE DEF k
    <3>2. new[s + 1] = Zero
      BY <3>1, <1>4, <1>5
    <3>3. QED BY <3>2, <1>8
  <2>4. QED BY <2>1, <2>2, <2>3
<1>9. HistoryOK(new, S)
  BY <1>5, <1>6, <1>8, SMTT(30) DEF HistoryOK
<1>10. QED BY <1>7, <1>9

\* Membership in the set of justified slots.
LEMMA JustifiedSetDef ==
    ASSUME NEW bits \in Seq(BOOLEAN), NEW fin \in Nat, NEW x
    PROVE  x \in JustifiedSet(bits, fin) <=>
              /\ x \in Nat
              /\ x > fin => x - fin \in 1..Len(bits) /\ bits[x - fin]
<1> DEFINE J == {j \in 1..Len(bits) : bits[j]}
<1>1. x \in JustifiedSet(bits, fin) <=> x \in 0..fin \/ \E i \in J : x = fin + i
  BY DEF JustifiedSet
<1>2. ASSUME NEW i \in J, x = fin + i
      PROVE  x \in Nat /\ x > fin /\ x - fin = i
  BY <1>2
<1>3. ASSUME x \in Nat, x > fin, x - fin \in 1..Len(bits), bits[x - fin]
      PROVE  x - fin \in J /\ x = fin + (x - fin)
  BY <1>3
<1>4. ASSUME x \in Nat, ~(x > fin) PROVE x \in 0..fin
  BY <1>4
<1>5. ASSUME x \in 0..fin PROVE x \in Nat /\ ~(x > fin)
  BY <1>5, SMTT(30)
<1>6. QED BY <1>1, <1>2, <1>3, <1>4, <1>5

\* The State the attestation loop starts from: nothing becomes justified or
\* finalized by a header, and the first block after genesis anchors both
\* checkpoints at its parent.
LEMMA HeaderStep ==
    ASSUME NEW st, StateOK(st), NEW r \in Root, SlotOf[r] > st.slot
    PROVE  LET block == [slot           |-> SlotOf[r],
                         proposer_index |-> SlotOf[r] % NumValidators,
                         parent_root    |-> st.latest_block_header.root,
                         root           |-> r]
               p == process_block_header(process_slots(st, block.slot), block)
           IN  /\ TipOK(p)
               /\ LocalsOK(p, Locals(p)) /\ GapWitness(p, Locals(p))
               /\ p.latest_finalized.slot = st.latest_finalized.slot
               /\ JustifiedSet(p.justified_slots, p.latest_finalized.slot) =
                     JustifiedSet(st.justified_slots, st.latest_finalized.slot)
<1> DEFINE S == SlotOf[r]
           block == [slot           |-> SlotOf[r],
                     proposer_index |-> SlotOf[r] % NumValidators,
                     parent_root    |-> st.latest_block_header.root,
                     root           |-> r]
           p == process_block_header(process_slots(st, block.slot), block)
           tip == TipSlot(st)
           root == st.latest_block_header.root
           h == st.historical_block_hashes
           fin == st.latest_finalized.slot
           bits == st.justified_slots
           anchor == [root |-> root, slot |-> 0]
           new_h == Append(h, root) \o [i \in 1..(S - tip - 1) |-> Zero]
           new_bits == extend_to_slot(bits, fin, S - 1)
           a == Locals(st)
           b == Locals(p)
<1>1. /\ st \in StateRecord /\ st.slot = tip /\ SlotOf[root] = tip
      /\ HistoryOK(h, tip)
  BY DEF StateOK, TipOK
<1>2. /\ S \in Nat /\ S > tip /\ tip \in Nat /\ root \in Root
      /\ fin \in Nat /\ bits \in Seq(BOOLEAN) /\ Len(bits) \in Nat
      /\ h \in Seq(Nat)
  BY <1>1, ChainAssumption, SMTT(30) DEF StateRecord, TipSlot
<1>3. p = [slot |-> S,
           latest_block_header |-> [slot |-> S, root |-> r],
           latest_justified |-> IF tip = 0 THEN anchor ELSE st.latest_justified,
           latest_finalized |-> IF tip = 0 THEN anchor ELSE st.latest_finalized,
           historical_block_hashes |-> new_h,
           justified_slots |-> new_bits,
           justifications_roots |-> st.justifications_roots,
           justifications_validators |-> st.justifications_validators]
  <2> DEFINE hdr == st.latest_block_header
             jr  == st.justifications_roots
             jv  == st.justifications_validators
             lj  == st.latest_justified
             lf  == st.latest_finalized
             sl  == st.slot
  <2>1. st = [slot |-> sl, latest_block_header |-> hdr,
              latest_justified |-> lj, latest_finalized |-> lf,
              historical_block_hashes |-> h, justified_slots |-> bits,
              justifications_roots |-> jr, justifications_validators |-> jv]
    BY <1>1 DEF StateRecord
  <2>2. block.slot = S /\ block.root = r
    OBVIOUS
  <2>3. tip = hdr.slot /\ root = hdr.root /\ fin = lf.slot
    BY DEF TipSlot
  <2> HIDE DEF sl, hdr, lj, lf, jr, jv, h, bits, S, block, new_h, new_bits, anchor, tip, fin, root
  <2> DEFINE m == process_slots(st, block.slot)
  <2>4. m = [slot |-> S, latest_block_header |-> hdr,
             latest_justified |-> lj, latest_finalized |-> lf,
             historical_block_hashes |-> h, justified_slots |-> bits,
             justifications_roots |-> jr, justifications_validators |-> jv]
    BY <2>1, <2>2 DEF process_slots
  <2> HIDE DEF m
  <2>5. p = [m EXCEPT !.latest_justified = IF tip = 0 THEN anchor ELSE lj,
                      !.latest_finalized = IF tip = 0 THEN anchor ELSE lf,
                      !.historical_block_hashes = new_h,
                      !.justified_slots = new_bits,
                      !.latest_block_header = [slot |-> S, root |-> r]]
    <3>1. /\ m.latest_block_header = hdr /\ m.latest_justified = lj
          /\ m.latest_finalized = lf /\ m.historical_block_hashes = h
          /\ m.justified_slots = bits
      BY <2>4
    <3>2. /\ [root |-> m.latest_block_header.root, slot |-> 0] = anchor
          /\ Append(m.historical_block_hashes, m.latest_block_header.root) \o
                EmptySlots(m.latest_block_header.slot, block.slot) = new_h
          /\ extend_to_slot(m.justified_slots, m.latest_finalized.slot, block.slot - 1)
                = new_bits
      BY <3>1, <2>2, <2>3, SMTT(30) DEF anchor, new_h, new_bits, EmptySlots
    <3>3. QED BY <3>1, <3>2, <2>2, <2>3, Zenon DEF process_block_header, m, p
  <2>6. QED BY <2>4, <2>5, ZenonT(30) DEF lj, lf, jr, jv
<1> HIDE DEF p, new_h, new_bits, anchor
<1>4. /\ TipSlot(p) = S /\ p.slot = S /\ p.latest_block_header.root = r
      /\ p.historical_block_hashes = new_h
      /\ p.justified_slots = new_bits
      /\ p.latest_justified = IF tip = 0 THEN anchor ELSE st.latest_justified
      /\ p.latest_finalized = IF tip = 0 THEN anchor ELSE st.latest_finalized
      /\ p.justifications_roots = st.justifications_roots
      /\ p.justifications_validators = st.justifications_validators
  BY <1>3 DEF TipSlot
<1> USE DEF anchor, new_h, new_bits
<1>5. /\ HistoryOK(new_h, S)
      /\ \A i \in 1..tip : new_h[i] = h[i]
      /\ new_h[tip + 1] = root
  <2> HIDE DEF S, tip, root, h
  <2>1. Grown(new_h, h, root, tip, S)
    BY DEF Grown
  <2> HIDE DEF new_h
  <2>2. QED BY <2>1, <1>1, <1>2, HistoryFacts
<1>6. \/ st = generate_genesis(GenesisRoot)
      \/ tip > 0 /\ LocalsOK(st, a)
  BY DEF StateOK
<1>7. st = generate_genesis(GenesisRoot) =>
        /\ tip = 0 /\ fin = 0 /\ bits = << >> /\ st.justifications_roots = << >>
  BY DEF generate_genesis, TipSlot
<1>8. Len(bits) + fin <= S - 1
  <2>1. tip > 0 /\ LocalsOK(st, a) => Len(bits) + fin = tip - 1
    <3>1. a.justified_slots = bits /\ a.latest_finalized = st.latest_finalized
      BY DEF Locals
    <3>2. LocalsOK(st, a) =>
            Len(a.justified_slots) + a.latest_finalized.slot = TipSlot(st) - 1
      <4> HIDE DEF a
      <4>1. QED BY ZenonT(30) DEF LocalsOK
    <3> HIDE DEF a
    <3>3. QED BY <3>1, <3>2, ZenonT(30)
  <2> HIDE DEF S, tip, bits, fin, a
  <2>2. QED BY <2>1, <1>2, <1>6, <1>7, SMTT(30)
<1>9. /\ new_bits \in Seq(BOOLEAN)
      /\ Len(new_bits) + fin = S - 1
      /\ Len(bits) <= Len(new_bits)
      /\ \A i \in 1..Len(new_bits) : new_bits[i] <=> i <= Len(bits) /\ bits[i]
  <2> HIDE DEF S, tip, bits, fin
  <2>1. S \in Nat \ {0}
    BY <1>2, SMTT(30)
  <2>2. QED BY <2>1, <1>2, <1>8, ExtendFacts, ZenonT(30)
<1> HIDE DEF new_h, new_bits
<1>10. p.latest_finalized.slot = fin
  <2>1. tip = 0 => fin = 0
    <3> HIDE DEF tip, fin, a
    <3>1. QED BY <1>2, <1>6, <1>7, SMTT(30)
  <2>2. QED BY <2>1, <1>4
<1>11. p.latest_justified \in [root : Nat, slot : Nat] /\ p.latest_finalized \in [root : Nat, slot : Nat]
  <2>1. anchor \in [root : Nat, slot : Nat]
    BY <1>2, ChainAssumption, SMTT(30)
  <2>2. /\ st.latest_justified \in [root : Nat, slot : Nat]
        /\ st.latest_finalized \in [root : Nat, slot : Nat]
    BY <1>1 DEF StateRecord
  <2> HIDE DEF anchor, tip
  <2>3. QED BY <2>1, <2>2, <1>4
<1>12. TipOK(p)
  <2>1. p \in StateRecord
    <3>1. /\ st.justifications_roots \in Seq(Nat)
          /\ st.justifications_validators \in Seq(BOOLEAN)
          /\ new_h \in Seq(Nat)
      BY <1>1, <1>5, SMTT(30) DEF StateRecord, HistoryOK
    <3> DEFINE lj == p.latest_justified
               lf == p.latest_finalized
    <3>2. p = [slot |-> S,
               latest_block_header |-> [slot |-> S, root |-> r],
               latest_justified |-> lj,
               latest_finalized |-> lf,
               historical_block_hashes |-> new_h,
               justified_slots |-> new_bits,
               justifications_roots |-> st.justifications_roots,
               justifications_validators |-> st.justifications_validators]
      BY <1>3
    <3>3. lj \in [root : Nat, slot : Nat] /\ lf \in [root : Nat, slot : Nat]
      BY <1>11, SMTT(30)
    <3> HIDE DEF lj, lf
    <3>4. QED BY <3>1, <3>2, <3>3, <1>2, <1>9 DEF StateRecord
  <2>2. QED BY <2>1, <1>4, <1>5, SMTT(30) DEF TipOK
<1>13. b.justifications = a.justifications
  BY <1>4, SMTT(30) DEF Locals
<1>14. /\ b = [latest_justified |-> b.latest_justified,
               latest_finalized |-> b.latest_finalized,
               justified_slots  |-> b.justified_slots,
               justifications   |-> b.justifications]
       /\ b.latest_justified = p.latest_justified
       /\ b.latest_finalized = p.latest_finalized
       /\ b.justified_slots = new_bits
  BY <1>4 DEF Locals
<1>15. LocalsOK(p, b)
  <2>1. CASE st = generate_genesis(GenesisRoot)
    <3>1. /\ tip = 0 /\ fin = 0 /\ st.justifications_roots = << >>
          /\ p.latest_justified = anchor /\ p.latest_finalized = anchor
      BY <2>1, <1>4, <1>7, SMTT(30)
    <3>2. DOMAIN a.justifications = {}
      <4>1. {st.justifications_roots[i] : i \in 1..Len(st.justifications_roots)} = {}
        BY <3>1, SMTT(30)
      <4>2. QED BY <4>1, ZenonT(30) DEF Locals, get_justifications
    <3>3. PendingOK(new_h, S, fin, new_bits, a.justifications)
      <4>1. a.justifications = [x \in DOMAIN a.justifications |-> a.justifications[x]]
        BY SMTT(30) DEF Locals, get_justifications
      <4>2. QED BY <3>2, <4>1 DEF PendingOK
    <3>4. root # Zero /\ HashAt(p, 0) = root
      <4>1. new_h[0 + 1] = root
        BY <3>1, <1>5, SMTT(30)
      <4>2. QED BY <4>1, <1>2, <1>4, ChainAssumption DEF HashAt
    <3>5. S > 0
      BY <3>1, <1>2, SMTT(30)
    <3>6. QED
      BY <3>1, <3>3, <3>4, <3>5, <1>4, <1>9, <1>11, <1>13, <1>14, SMTT(30) DEF LocalsOK
  <2>2. CASE tip > 0 /\ LocalsOK(st, a)
    <3> DEFINE j == st.latest_justified
               f == st.latest_finalized
               votes == a.justifications
    <3>1. p.latest_justified = j /\ p.latest_finalized = f
      <4> HIDE DEF tip
      <4>1. QED BY <2>2, <1>2, <1>4, SMTT(30)
    <3>2. /\ f.root = HashAt(st, fin) /\ f.root # Zero
          /\ j.slot < tip /\ j.root = HashAt(st, j.slot) /\ j.root # Zero
          /\ (j.slot > fin /\ bits[j.slot - fin]) \/ (j.slot = 0 /\ fin = 0)
          /\ PendingOK(h, tip, fin, bits, votes)
          /\ Len(bits) + fin = tip - 1
          /\ j.slot \in Nat
      BY <2>2, <1>1, ZenonT(30) DEF LocalsOK, Locals, StateRecord
    <3> HIDE DEF S, tip, fin, bits, h, root, votes
    <3>3. \A s \in 0..(tip - 1) : HashAt(p, s) = h[s + 1]
      <4>1. \A s \in 0..(tip - 1) : s + 1 \in 1..tip
        BY <1>2, SMTT(30)
      <4>2. QED BY <4>1, <1>4, <1>5, SMTT(30) DEF HashAt
    <3>4. f.root = HashAt(p, fin) /\ j.root = HashAt(p, j.slot)
      <4>1. fin \in 0..(tip - 1) /\ j.slot \in 0..(tip - 1)
        BY <3>2, <1>2
      <4>2. QED BY <4>1, <3>2, <3>3, SMTT(30) DEF HashAt, h
    <3>5. \A x \in (fin + 1)..(tip - 1) :
              /\ x - fin \in 1..Len(bits) /\ x - fin \in 1..Len(new_bits)
              /\ x - fin <= Len(bits) /\ x \in (fin + 1)..(S - 1)
      BY <3>2, <1>2, <1>9, SMTT(30)
    <3>6. \A x \in (fin + 1)..(tip - 1) : new_bits[x - fin] <=> bits[x - fin]
      BY <3>5, <1>9
    <3>7. (j.slot > fin /\ new_bits[j.slot - fin]) \/ (j.slot = 0 /\ fin = 0)
      <4>1. j.slot > fin => j.slot \in (fin + 1)..(tip - 1)
        BY <3>2, <1>2
      <4>2. QED BY <4>1, <3>2, <3>6, SMTT(30)
    <3>8. PendingOK(new_h, S, fin, new_bits, votes)
      <4> SUFFICES ASSUME NEW q \in DOMAIN votes
                   PROVE  /\ q \in Root
                          /\ votes[q] \subseteq Validators
                          /\ ~Supermajority(votes[q])
                          /\ SlotOf[q] \in (fin + 1)..(S - 1)
                          /\ new_h[SlotOf[q] + 1] = q
                          /\ ~new_bits[SlotOf[q] - fin]
        BY <3>2, SMTT(30) DEF PendingOK
      <4> DEFINE x == SlotOf[q]
      <4>1. /\ q \in Root
            /\ votes[q] \subseteq Validators
            /\ ~Supermajority(votes[q])
            /\ x \in (fin + 1)..(tip - 1)
            /\ h[x + 1] = q
            /\ ~bits[x - fin]
        BY <3>2 DEF PendingOK
      <4> HIDE DEF x
      <4>2. x + 1 \in 1..tip
        BY <4>1, <1>2, SMTT(30)
      <4>3. QED BY <4>1, <4>2, <3>5, <3>6, <1>5, SMTT(30) DEF x
    <3>9. j.slot < S
      BY <3>2, <1>2
    <3>10. b.justifications = votes
      BY <1>13 DEF votes
    <3>11. p.latest_finalized.slot = fin
      BY <1>10
    <3>12. QED
      BY <3>1, <3>2, <3>4, <3>7, <3>8, <3>9, <3>10, <3>11, <1>4, <1>9, <1>11, <1>14, SMTT(30)
      DEF LocalsOK
  <2>3. QED BY <2>1, <2>2, <1>6, SMTT(30)
<1>16. GapWitness(p, b)
  <2>1. ~(fin > fin) /\ fin >= fin
    <3> HIDE DEF fin
    <3>1. QED BY <1>2
  <2>2. QED BY <2>1, <1>10, <1>14, SMTT(30) DEF GapWitness
<1>17. JustifiedSet(new_bits, fin) = JustifiedSet(bits, fin)
  <2> HIDE DEF fin, bits, S
  <2>1. ASSUME NEW x \in Nat, x > fin
        PROVE  x - fin \in 1..Len(new_bits) /\ new_bits[x - fin] <=>
                  x - fin \in 1..Len(bits) /\ bits[x - fin]
    BY <2>1, <1>2, <1>9
  <2>2. ASSUME NEW x
        PROVE x \in JustifiedSet(new_bits, fin) <=> x \in JustifiedSet(bits, fin)
    BY <2>1, <1>2, <1>9, JustifiedSetDef, ZenonT(30)
  <2>3. QED BY <2>2, SMTT(30)
<1>18. QED BY <1>4, <1>10, <1>12, <1>15, <1>16, <1>17, ZenonT(30) DEF p

-----------------------------------------------------------------------------
(* The end of a block.                                                     *)

\* Writing the locals back and reading them again gives the same locals.
LEMMA CommitStep ==
    ASSUME NEW st, NEW a, TipOK(st), LocalsOK(st, a)
    PROVE  /\ StateOK(Commit(st, a))
           /\ Locals(Commit(st, a)) = a
           /\ Commit(st, a).justified_slots = a.justified_slots
           /\ Commit(st, a).latest_finalized = a.latest_finalized
<1> DEFINE c == Commit(st, a)
           h == st.historical_block_hashes
           tip == TipSlot(st)
           votes == a.justifications
           D == DOMAIN votes
           roots == sorted_roots(D)
           flat == flat_bits(roots, votes, NumValidators)
<1>1. /\ st \in StateRecord /\ tip \in Nat /\ tip > 0
      /\ h \in Seq(Nat) /\ Len(h) = tip
  BY SMTT(30) DEF TipOK, StateRecord, TipSlot, HistoryOK, LocalsOK
<1>2. PendingOK(h, tip, a.latest_finalized.slot, a.justified_slots, votes)
  BY DEF LocalsOK
<1>3. D \in SUBSET Nat /\ votes \in [D -> SUBSET (0..(NumValidators - 1))]
  <2>1. D \subseteq Root
    BY <1>2, SMTT(30) DEF PendingOK
  <2>2. \A r \in D : votes[r] \in SUBSET (0..(NumValidators - 1))
    BY <1>2 DEF PendingOK, Validators
  <2>3. votes = [r \in D |-> votes[r]]
    BY <1>2, SMTT(30) DEF PendingOK
  <2> HIDE DEF D, votes
  <2>4. QED BY <2>1, <2>2, <2>3, ChainAssumption
<1>4. IsFiniteSet(D)
  <2> DEFINE I == {h[i] : i \in 1..tip}
  <2>1. IsFiniteSet(I)
    <3>1. IsFiniteSet(1..tip)
      BY <1>1, FS_Interval
    <3>2. h \in Surjection(1..tip, I)
      BY <1>1, SMTT(30) DEF Surjection
    <3>3. QED BY <3>1, <3>2, FS_Surjection, SMTT(30)
  <2>2. ASSUME NEW r \in D PROVE r \in I
    <3> DEFINE x == SlotOf[r]
    <3>1. h[x + 1] = r /\ x \in (a.latest_finalized.slot + 1)..(tip - 1)
      BY <1>2 DEF PendingOK
    <3>2. a.latest_finalized.slot \in Nat
      BY DEF LocalsOK
    <3> HIDE DEF x, tip
    <3>3. x + 1 \in 1..tip
      BY <3>1, <3>2, <1>1
    <3>4. QED BY <3>1, <3>3
  <2> HIDE DEF D, I
  <2>3. QED BY <2>1, <2>2, FS_Subset
<1>5. NumValidators \in Nat
  BY NumValidatorsAssumption
<1> HIDE DEF votes, D
<1>6. get_justifications(roots, flat, NumValidators) = votes
  BY <1>3, <1>4, <1>5, FlatRoundTrip, SMTT(30)
<1>7. roots \in Seq(Nat) /\ Len(roots) \in Nat
  <2>1. roots \in Seq(Nat)
    BY <1>3, <1>4, SortedRoots, SMTT(30)
  <2> HIDE DEF roots
  <2>2. QED BY <2>1
<1>8. flat \in Seq(BOOLEAN)
  <2> DEFINE n == Len(roots) * NumValidators
  <2>1. n \in Nat
    BY <1>5, <1>7
  <2>2. flat \in [1..n -> BOOLEAN]
    BY DEF flat_bits
  <2> HIDE DEF n, flat
  <2>3. QED BY <2>1, <2>2
<1> HIDE DEF roots, flat
<1>9. c = [st EXCEPT !.latest_justified = a.latest_justified,
                     !.latest_finalized = a.latest_finalized,
                     !.justified_slots = a.justified_slots,
                     !.justifications_roots = roots,
                     !.justifications_validators = flat]
  BY DEF Commit, roots, flat, D, votes
<1>10. /\ a.latest_justified \in [root : Nat, slot : Nat]
       /\ a.latest_finalized \in [root : Nat, slot : Nat]
       /\ a.justified_slots \in Seq(BOOLEAN)
       /\ a = [latest_justified |-> a.latest_justified,
               latest_finalized |-> a.latest_finalized,
               justified_slots  |-> a.justified_slots,
               justifications   |-> votes]
  BY DEF LocalsOK, votes
<1>11. /\ c \in StateRecord
       /\ c.slot = st.slot /\ c.latest_block_header = st.latest_block_header
       /\ c.historical_block_hashes = h
       /\ c.latest_justified = a.latest_justified
       /\ c.latest_finalized = a.latest_finalized
       /\ c.justified_slots = a.justified_slots
       /\ c.justifications_roots = roots
       /\ c.justifications_validators = flat
  <2> DEFINE lj == a.latest_justified
             lf == a.latest_finalized
             js == a.justified_slots
  <2>1. /\ lj \in [root : Nat, slot : Nat] /\ lf \in [root : Nat, slot : Nat]
        /\ js \in Seq(BOOLEAN)
        /\ c = [st EXCEPT !.latest_justified = lj, !.latest_finalized = lf,
                          !.justified_slots = js, !.justifications_roots = roots,
                          !.justifications_validators = flat]
    BY <1>9, <1>10
  <2> HIDE DEF c, lj, lf, js
  <2>2. QED BY <2>1, <1>1, <1>7, <1>8, ZenonT(30) DEF StateRecord, lj, lf, js
<1> HIDE DEF c
<1>12. Locals(c) = a
  BY <1>6, <1>10, <1>11, SMTT(30) DEF Locals
<1>13. TipSlot(c) = tip /\ TipOK(c)
  BY <1>11 DEF TipOK, TipSlot
<1>14. LocalsOK(c, a)
  BY <1>11, <1>13 DEF LocalsOK, HashAt
<1>15. QED
  BY <1>1, <1>11, <1>12, <1>13, <1>14, SMTT(30) DEF StateOK, c

-----------------------------------------------------------------------------
(* Invariance.                                                             *)

\* Genesis satisfies the inductive invariant.
LEMMA InitIInv == Init => IInv
<1> SUFFICES ASSUME Init PROVE IInv
  OBVIOUS
<1> DEFINE g == generate_genesis(GenesisRoot)
<1>1. state = g /\ pre = state /\ acc = Locals(state) /\ mode = "idle"
  BY DEF Init
<1>2. g \in StateRecord
  BY ChainAssumption DEF generate_genesis, StateRecord, Zero
<1>3. /\ g.slot = 0 /\ TipSlot(g) = 0 /\ g.latest_block_header.root = GenesisRoot
      /\ g.historical_block_hashes = << >>
  BY DEF generate_genesis, TipSlot
<1>4. HistoryOK(<< >>, 0)
  BY SMTT(30) DEF HistoryOK
<1> HIDE DEF g
<1>5. TipOK(g)
  BY <1>2, <1>3, <1>4, ChainAssumption DEF TipOK
<1>6. QED BY <1>1, <1>5 DEF IInv, StateOK, g

\* Leaving the loop with the State the chain had restores the invariant.
LEMMA LeaveIInv ==
    ASSUME IInv, UNCHANGED state,
           LeaveLoop("idle") \/ LeaveLoop("panicked")
    PROVE  IInv'
BY SMTT(30) DEF IInv, LeaveLoop

\* Every step preserves the inductive invariant.
LEMMA NextIInv == IInv /\ [Next]_vars => IInv'
<1> SUFFICES ASSUME IInv, [Next]_vars PROVE IInv'
  OBVIOUS
<1>1. CASE UNCHANGED vars
  BY <1>1 DEF IInv, vars
<1>2. ASSUME NEW r \in Root, BeginBlock(r) PROVE IInv'
  <2> DEFINE block == [slot           |-> SlotOf[r],
                       proposer_index |-> SlotOf[r] % NumValidators,
                       parent_root    |-> state.latest_block_header.root,
                       root           |-> r]
             p == process_block_header(process_slots(state, block.slot), block)
  <2>1. /\ SlotOf[r] > state.slot
        /\ pre' = p /\ acc' = Locals(pre') /\ mode' = "attesting" /\ state' = state
    <3>1. SlotOf[r] \in Nat /\ state.slot \in Nat
      BY ChainAssumption DEF IInv, StateOK, TipOK, StateRecord
    <3>2. QED BY <1>2, <3>1, SMTT(30) DEF BeginBlock, SlotsOk
  <2>2. StateOK(state)
    BY SMTT(30) DEF IInv
  <2>3. /\ TipOK(p) /\ LocalsOK(p, Locals(p)) /\ GapWitness(p, Locals(p))
        /\ p.latest_finalized.slot = state.latest_finalized.slot
        /\ JustifiedSet(p.justified_slots, p.latest_finalized.slot) =
              JustifiedSet(state.justified_slots, state.latest_finalized.slot)
    BY <2>1, <2>2, HeaderStep, ZenonT(30)
  <2> HIDE DEF p
  <2>4. QED BY <2>1, <2>2, <2>3, SMTT(30) DEF IInv
<1>3. ASSUME NEW att \in Attestation, AttestVote(att) PROVE IInv'
  <2>1. /\ TipOK(pre) /\ LocalsOK(pre, acc) /\ GapWitness(pre, acc)
        /\ Counts(pre, acc, att) /\ ~Malformed(pre, acc, att) /\ ~Justifies(acc, att)
        /\ acc' = CountVotes(acc, att) /\ UNCHANGED <<state, pre, mode>>
        /\ mode = "attesting"
    BY <1>3, SMTT(30) DEF IInv, AttestVote
  <2>2. LocalsOK(pre, acc') /\ GapWitness(pre, acc')
    BY <2>1, VoteStep
  <2>3. QED BY <2>1, <2>2 DEF IInv
<1>4. ASSUME NEW att \in Attestation, AttestJustify(att) PROVE IInv'
  <2>1. /\ TipOK(pre) /\ LocalsOK(pre, acc) /\ GapWitness(pre, acc)
        /\ Counts(pre, acc, att)
        /\ acc' = Justify(acc, att) /\ UNCHANGED <<state, pre, mode>>
        /\ mode = "attesting"
    BY <1>4, SMTT(30) DEF IInv, AttestJustify, Completes
  <2>2. LocalsOK(pre, acc') /\ GapWitness(pre, acc')
    BY <2>1, JustifyStep, SMTT(30)
  <2>3. QED BY <2>1, <2>2, SMTT(30) DEF IInv
<1>5. ASSUME NEW att \in Attestation, AttestFinalize(att) PROVE IInv'
  <2>1. /\ TipOK(pre) /\ LocalsOK(pre, acc) /\ GapWitness(pre, acc)
        /\ Counts(pre, acc, att) /\ ~GapPanics(pre, att) /\ Finalizes(pre, att)
        /\ acc' = Finalize(pre, Justify(acc, att), att)
        /\ UNCHANGED <<state, pre, mode>>
        /\ mode = "attesting"
    BY <1>5, SMTT(30) DEF IInv, AttestFinalize, Completes
  <2>2. LocalsOK(pre, acc') /\ GapWitness(pre, acc')
    BY <2>1, FinalizeStep, SMTT(30)
  <2>3. QED BY <2>1, <2>2 DEF IInv
<1>6. ASSUME NEW att \in Attestation, RejectAttestation(att) PROVE IInv'
  BY <1>6, LeaveIInv DEF RejectAttestation
<1>7. ASSUME NEW att \in Attestation, Panic(att) PROVE IInv'
  BY <1>7, LeaveIInv, SMTT(30) DEF Panic
<1>8. CASE EndBlock
  <2>1. /\ TipOK(pre) /\ LocalsOK(pre, acc)
        /\ state' = Commit(pre, acc)
        /\ pre' = state' /\ acc' = Locals(state') /\ mode' = "idle"
    BY <1>8, SMTT(30) DEF IInv, EndBlock, LeaveLoop
  <2>2. StateOK(Commit(pre, acc))
    BY <2>1, CommitStep
  <2>3. QED BY <2>1, <2>2 DEF IInv
<1>9. CASE RejectStateRoot
  BY <1>9, LeaveIInv, SMTT(30) DEF RejectStateRoot
<1>10. QED
  BY <1>1, <1>2, <1>3, <1>4, <1>5, <1>6, <1>7, <1>8, <1>9, SMTT(30) DEF Next

\* The inductive invariant holds throughout.
LEMMA SpecIInv == Spec => []IInv
<1>1. QED BY InitIInv, NextIInv, PTL DEF Spec

-----------------------------------------------------------------------------
(* The invariants of Chain.                                                *)

\* The votes a genesis State stands for: none.
LEMMA GenesisLocals ==
    ASSUME NEW st, st = generate_genesis(GenesisRoot)
    PROVE  /\ DOMAIN Locals(st).justifications = {}
           /\ Locals(st).latest_justified = [root |-> Zero, slot |-> 0]
           /\ Locals(st).latest_finalized = [root |-> Zero, slot |-> 0]
           /\ Locals(st).justified_slots = << >>
<1>1. /\ st.justifications_roots = << >> /\ st.justified_slots = << >>
      /\ st.latest_justified = [root |-> Zero, slot |-> 0]
      /\ st.latest_finalized = [root |-> Zero, slot |-> 0]
  BY DEF generate_genesis
<1>2. {st.justifications_roots[i] : i \in 1..Len(st.justifications_roots)} = {}
  BY <1>1, SMTT(30)
<1>3. QED BY <1>1, <1>2, SMTT(30) DEF Locals, get_justifications

\* Type correctness of the State and of the locals of the attestation loop.
THEOREM TypeCorrect == Spec => []TypeOK
<1>1. ASSUME NEW st, NEW a, LocalsOK(st, a)
      PROVE  /\ a.latest_justified \in [root : Nat, slot : Nat]
             /\ a.latest_finalized \in [root : Nat, slot : Nat]
             /\ a.justified_slots \in Seq(BOOLEAN)
             /\ VotesOK(a.justifications)
  BY <1>1, SMTT(30) DEF LocalsOK, PendingOK, VotesOK
<1>2. ASSUME IInv PROVE TypeOK
  <2>1. state \in StateRecord /\ pre \in StateRecord
    BY <1>2, SMTT(30) DEF IInv, StateOK, TipOK
  <2>2. mode \in {"idle", "attesting", "panicked"}
    BY <1>2 DEF IInv
  <2>3. CASE mode = "attesting"
    BY <1>1, <1>2, <2>1, <2>2, <2>3, SMTT(30) DEF IInv, TypeOK
  <2>4. CASE mode # "attesting"
    <3>1. acc = Locals(state)
      BY <1>2, <2>4, SMTT(30) DEF IInv
    <3>2. CASE state = generate_genesis(GenesisRoot)
      <4>1. VotesOK(acc.justifications)
        BY <3>1, <3>2, GenesisLocals, SMTT(30) DEF VotesOK
      <4>2. /\ acc.latest_justified \in [root : Nat, slot : Nat]
            /\ acc.latest_finalized \in [root : Nat, slot : Nat]
            /\ acc.justified_slots \in Seq(BOOLEAN)
        <5>1. /\ acc.latest_justified = [root |-> Zero, slot |-> 0]
              /\ acc.latest_finalized = [root |-> Zero, slot |-> 0]
              /\ acc.justified_slots = << >>
          BY <3>1, <3>2, GenesisLocals, SMTT(30)
        <5>2. QED BY <5>1 DEF Zero
      <4>3. QED BY <2>1, <2>2, <4>1, <4>2 DEF TypeOK
    <3>3. CASE LocalsOK(state, Locals(state))
      BY <1>1, <2>1, <2>2, <3>1, <3>3 DEF TypeOK
    <3>4. QED BY <1>2, <3>2, <3>3 DEF IInv, StateOK
  <2>5. QED BY <2>3, <2>4, SMTT(30)
<1>3. QED BY <1>2, SpecIInv, PTL

\* The history and the window stay aligned with the tip of the chain through
\* every extension and shift.
THEOREM Alignment == Spec => []WindowAligned
<1>1. ASSUME IInv PROVE WindowAligned
  <2>1. /\ TipOK(state)
        /\ state = generate_genesis(GenesisRoot) \/ LocalsOK(state, Locals(state))
    BY <1>1 DEF IInv, StateOK
  <2>2. /\ state.slot = TipSlot(state)
        /\ Len(state.historical_block_hashes) = TipSlot(state)
    BY <2>1, SMTT(30) DEF TipOK, HistoryOK
  <2>3. CASE state = generate_genesis(GenesisRoot)
    <3>1. TipSlot(state) = 0
      BY <2>3, SMTT(30) DEF generate_genesis, TipSlot
    <3>2. QED BY <2>2, <3>1 DEF WindowAligned, TipSlot
  <2>4. CASE LocalsOK(state, Locals(state))
    <3>1. Len(state.justified_slots) + state.latest_finalized.slot = TipSlot(state) - 1
      BY <2>4, ZenonT(30) DEF LocalsOK, Locals
    <3>2. QED BY <2>2, <3>1, SMTT(30) DEF WindowAligned, TipSlot
  <2>5. QED BY <2>1, <2>3, <2>4, SMTT(30)
<1>2. QED BY <1>1, SpecIInv, PTL

\* Both checkpoints of a State name blocks of its chain, and the justified one
\* is justified and not behind the finalized one.
THEOREM Checkpoints == Spec => []CheckpointsOnChain
<1>1. ASSUME IInv PROVE CheckpointsOnChain
  <2>1. SUFFICES ASSUME state.latest_block_header.slot > 0
                 PROVE  LET j == state.latest_justified
                            f == state.latest_finalized
                        IN  /\ j.root = HashAt(state, j.slot)
                            /\ f.root = HashAt(state, f.slot)
                            /\ j.root # Zero /\ f.root # Zero
                            /\ j.slot \in JustifiedSet(state.justified_slots, f.slot)
                            /\ j.slot > f.slot \/ (j.slot = 0 /\ f.slot = 0)
    BY DEF CheckpointsOnChain
  <2> DEFINE j == state.latest_justified
             fin == state.latest_finalized.slot
             bits == state.justified_slots
  <2>2. state # generate_genesis(GenesisRoot)
    <3>1. generate_genesis(GenesisRoot).latest_block_header.slot = 0
      BY DEF generate_genesis
    <3>2. QED BY <2>1, <3>1, SMTT(30)
  <2>3. TipOK(state) /\ LocalsOK(state, Locals(state))
    BY <1>1, <2>2, SMTT(30) DEF IInv, StateOK
  <2>4. /\ j.root = HashAt(state, j.slot) /\ j.root # Zero
        /\ state.latest_finalized.root = HashAt(state, fin)
        /\ state.latest_finalized.root # Zero
        /\ (j.slot > fin /\ bits[j.slot - fin]) \/ (j.slot = 0 /\ fin = 0)
        /\ j.slot < TipSlot(state)
        /\ Len(bits) + fin = TipSlot(state) - 1
    BY <2>3, ZenonT(30) DEF LocalsOK, Locals
  <2>5. /\ j.slot \in Nat /\ fin \in Nat /\ bits \in Seq(BOOLEAN)
        /\ Len(bits) \in Nat /\ TipSlot(state) \in Nat
    BY <2>3 DEF TipOK, StateRecord, TipSlot
  <2>6. j.slot \in JustifiedSet(bits, fin)
    <3> DEFINE x == j.slot
    <3> HIDE DEF x, fin, bits
    <3>1. x > fin => x - fin \in 1..Len(bits) /\ bits[x - fin]
      BY <2>4, <2>5, SMTT(30) DEF x
    <3>2. x \in Nat
      BY <2>5 DEF x
    <3>3. x \in JustifiedSet(bits, fin)
      BY <3>1, <3>2, <2>5, JustifiedSetDef, SMTT(30)
    <3>4. QED BY <3>3 DEF x
  <2>7. QED BY <2>4, <2>6, SMTT(30)
<1>2. QED BY <1>1, SpecIInv, PTL

\* A State keeps votes only for unjustified blocks of its chain after the
\* finalized slot, always short of a supermajority.
THEOREM PendingVotes == Spec => []PendingVotesLive
<1>1. ASSUME IInv PROVE PendingVotesLive
  <2> DEFINE votes == Locals(state).justifications
             fin == state.latest_finalized.slot
             bits == state.justified_slots
             h == state.historical_block_hashes
             tip == TipSlot(state)
  <2>1. SUFFICES ASSUME NEW r \in DOMAIN votes
                 PROVE  /\ ~Supermajority(votes[r])
                        /\ \E s \in (fin + 1)..(Len(h) - 1) :
                              /\ HashAt(state, s) = r
                              /\ s \notin JustifiedSet(bits, fin)
    BY SMTT(30) DEF PendingVotesLive
  <2>2. LocalsOK(state, Locals(state)) /\ TipOK(state)
    BY <1>1, <2>1, GenesisLocals, SMTT(30) DEF IInv, StateOK
  <2> DEFINE s == SlotOf[r]
  <2>3. /\ ~Supermajority(votes[r])
        /\ s \in (fin + 1)..(tip - 1)
        /\ HashAt(state, s) = r
        /\ ~bits[s - fin]
    BY <2>2, ZenonT(30) DEF LocalsOK, Locals, PendingOK, HashAt
  <2>4. /\ fin \in Nat /\ bits \in Seq(BOOLEAN) /\ tip \in Nat /\ Len(h) = tip
    BY <2>2, ZenonT(30) DEF TipOK, StateRecord, TipSlot, HistoryOK
  <2> HIDE DEF votes, fin, bits, h, tip, s
  <2>5. s \notin JustifiedSet(bits, fin)
    BY <2>3, <2>4, JustifiedSetDef, SMTT(30)
  <2>6. QED BY <2>3, <2>4, <2>5
<1>2. QED BY <1>1, SpecIInv, PTL

-----------------------------------------------------------------------------
(* Finality.                                                               *)

\* What one step of the attestation loop does to the set of justified slots
\* and to the finalized slot.
LEMMA LoopStep ==
    ASSUME NEW st, NEW a, NEW att \in Attestation,
           TipOK(st), LocalsOK(st, a), GapWitness(st, a), Counts(st, a, att)
    PROVE  LET b    == Justify(a, att)
               c    == Finalize(st, b, att)
               fin  == a.latest_finalized.slot
               s    == att.data.source.slot
               t    == att.data.target.slot
               just == JustifiedSet(a.justified_slots, fin)
           IN  /\ t \notin just /\ s \in just /\ s < t
               /\ JustifiedSet(b.justified_slots, b.latest_finalized.slot)
                     = just \cup {t}
               /\ ~GapPanics(st, att) /\ Finalizes(st, att) =>
                     /\ s >= fin
                     /\ c.latest_finalized.slot = s
                     /\ JustifiedSet(c.justified_slots, s) = just \cup {t} \cup 0..s
<1> DEFINE b == Justify(a, att)
           c == Finalize(st, b, att)
           fin == a.latest_finalized.slot
           s == att.data.source.slot
           t == att.data.target.slot
           bits == a.justified_slots
           just == JustifiedSet(bits, fin)
           bbits == b.justified_slots
           cbits == c.justified_slots
<1>1. /\ s \in Nat /\ t \in Nat /\ s < t /\ t > fin
      /\ t - fin \in 1..Len(bits) /\ ~bits[t - fin]
      /\ s > fin => s - fin \in 1..Len(bits) /\ bits[s - fin]
  <2>1. /\ att.data.source \in [root : Nat, slot : Nat]
        /\ att.data.target \in [root : Nat, slot : Nat]
        /\ t \in (fin + 1)..(TipSlot(st) - 1)
        /\ t - fin \in 1..Len(bits) /\ ~bits[t - fin]
        /\ s < t
        /\ s > fin => s - fin \in 1..Len(bits) /\ bits[s - fin]
    BY CountsFacts, ZenonT(30)
  <2>2. s \in Nat /\ t \in Nat
    BY <2>1, SMTT(30)
  <2>3. fin \in Nat /\ TipSlot(st) \in Nat
    BY DEF LocalsOK, TipOK, TipSlot, StateRecord
  <2> HIDE DEF fin, s, t, bits
  <2>4. t > fin
    BY <2>1, <2>3, SMTT(30)
  <2>5. QED BY <2>1, <2>2, <2>4, SMTT(30)
<1>2. fin \in Nat /\ bits \in Seq(BOOLEAN) /\ Len(bits) \in Nat
  BY SMTT(30) DEF LocalsOK
<1>3. /\ b.latest_finalized.slot = fin
      /\ bbits \in Seq(BOOLEAN) /\ Len(bbits) = Len(bits)
      /\ \A i \in 1..Len(bits) : bbits[i] <=> bits[i] \/ i = t - fin
  BY JustifyStep, ZenonT(30) DEF LocalsOK
<1>4. ~GapPanics(st, att) /\ Finalizes(st, att) =>
         /\ s >= fin /\ c.latest_finalized.slot = s
         /\ cbits \in Seq(BOOLEAN)
         /\ Len(cbits) = Len(bbits) - (s - fin)
         /\ \A i \in 1..Len(cbits) : cbits[i] = bbits[i + (s - fin)]
  <2> SUFFICES ASSUME ~GapPanics(st, att), Finalizes(st, att)
               PROVE  /\ s >= fin /\ c.latest_finalized.slot = s
                      /\ cbits \in Seq(BOOLEAN)
                      /\ Len(cbits) = Len(bbits) - (s - fin)
                      /\ \A i \in 1..Len(cbits) : cbits[i] = bbits[i + (s - fin)]
    BY ZenonT(30)
  <2>1. /\ LocalsOK(st, c) /\ s >= fin /\ c.latest_finalized.slot = s
        /\ ShiftedBy(cbits, bbits, s - fin)
    BY FinalizeStep, ZenonT(30)
  <2>2. cbits \in Seq(BOOLEAN)
    BY <2>1, ZenonT(30) DEF LocalsOK
  <2>3. QED BY <2>1, <2>2, ZenonT(30) DEF ShiftedBy
<1> HIDE DEF b, c, fin, s, t, bits, bbits, cbits
<1>5. t \notin just /\ s \in just
  BY <1>1, <1>2, JustifiedSetDef, ZenonT(30)
<1>6. JustifiedSet(bbits, fin) = just \cup {t}
  <2>1. ASSUME NEW x
        PROVE x \in JustifiedSet(bbits, fin) <=> x \in just \/ x = t
    <3>1. ASSUME NEW y \in Nat, y > fin
          PROVE  (y - fin \in 1..Len(bbits) /\ bbits[y - fin]) <=>
                    (y - fin \in 1..Len(bits) /\ bits[y - fin]) \/ y = t
      BY <3>1, <1>1, <1>2, <1>3, SMTT(30)
    <3>2. QED BY <3>1, <1>1, <1>2, <1>3, JustifiedSetDef, ZenonT(30)
  <2> HIDE DEF just
  <2>2. QED BY <2>1
<1>7. ASSUME ~GapPanics(st, att), Finalizes(st, att)
      PROVE  JustifiedSet(cbits, s) = JustifiedSet(bbits, fin) \cup 0..s
  <2> DEFINE d == s - fin
  <2>1. /\ d \in Nat /\ s = fin + d /\ cbits \in Seq(BOOLEAN)
        /\ Len(cbits) = Len(bbits) - d
        /\ \A i \in 1..Len(cbits) : cbits[i] = bbits[i + d]
    <3>1. /\ s >= fin /\ cbits \in Seq(BOOLEAN)
          /\ Len(cbits) = Len(bbits) - d
          /\ \A i \in 1..Len(cbits) : cbits[i] = bbits[i + d]
      BY <1>4, <1>7
    <3>2. d \in Nat /\ s = fin + d
      BY <3>1, <1>1, <1>2, SMTT(30)
    <3>3. QED BY <3>1, <3>2, SMTT(30)
  <2>2. ASSUME NEW y \in Nat, y > s
        PROVE  (y - s \in 1..Len(cbits) /\ cbits[y - s]) <=>
                  (y - fin \in 1..Len(bbits) /\ bbits[y - fin])
    <3> HIDE DEF d
    <3>1. Len(bbits) \in Nat /\ Len(cbits) \in Nat
      BY <1>3, <2>1
    <3>2. y - s \in 1..Len(cbits) <=> y - fin \in 1..Len(bbits)
      BY <2>1, <2>2, <3>1, <1>1, <1>2, SMTT(30)
    <3>3. (y - s) + d = y - fin
      BY <2>1, <2>2, <1>1, <1>2, SMTT(30)
    <3>4. QED BY <3>2, <3>3, <2>1, SMTT(30)
  <2>3. ASSUME NEW x
        PROVE  x \in JustifiedSet(cbits, s) <=>
                  x \in JustifiedSet(bbits, fin) \/ x \in 0..s
    <3>1. x \in JustifiedSet(cbits, s) <=>
             x \in Nat /\ (x > s => x - s \in 1..Len(cbits) /\ cbits[x - s])
      BY <2>1, <1>1, JustifiedSetDef, SMTT(30)
    <3>2. x \in JustifiedSet(bbits, fin) <=>
             x \in Nat /\ (x > fin => x - fin \in 1..Len(bbits) /\ bbits[x - fin])
      BY <1>2, <1>3, JustifiedSetDef, SMTT(30)
    <3>3. x \in 0..s <=> x \in Nat /\ ~(x > s)
      BY <1>1
    <3>4. x \in Nat /\ x > s => x > fin
      BY <1>1, <1>2, <2>1, SMTT(30)
    <3>5. QED BY <3>1, <3>2, <3>3, <3>4, <2>2
  <2>4. QED BY <2>3
<1>8. QED BY <1>1, <1>3, <1>4, <1>5, <1>6, <1>7, ZenonT(30) DEF b, c, fin, s, t, bits, bbits, cbits

\* The finalized slot never moves backwards, from one accepted block to the
\* next or inside a block.
THEOREM FinalityMonotone == Spec => FinalizedNeverRegresses
<1> DEFINE Grows == /\ state'.latest_finalized.slot >= state.latest_finalized.slot
                    /\ mode = "attesting" /\ mode' = "attesting" =>
                          acc'.latest_finalized.slot >= acc.latest_finalized.slot
<1>1. ASSUME IInv, [Next]_vars PROVE [Grows]_vars
  <2> SUFFICES ASSUME Next PROVE Grows
    BY <1>1, SMTT(30)
  <2>1. state.latest_finalized.slot \in Nat
    BY <1>1, ZenonT(30) DEF IInv, StateOK, TipOK, StateRecord
  <2>2. mode = "attesting" =>
          /\ TipOK(pre) /\ LocalsOK(pre, acc) /\ GapWitness(pre, acc)
          /\ pre.latest_finalized.slot = state.latest_finalized.slot
          /\ acc.latest_finalized.slot \in Nat
    BY <1>1, SMTT(30) DEF IInv, LocalsOK
  <2>3. ASSUME NEW r \in Root, BeginBlock(r) PROVE Grows
    <3>1. state' = state /\ mode = "idle"
      BY <2>3, SMTT(30) DEF BeginBlock
    <3>2. QED BY <3>1, <2>1
  <2>4. ASSUME NEW att \in Attestation, AttestVote(att) PROVE Grows
    <3>1. acc'.latest_finalized = acc.latest_finalized /\ state' = state /\ mode = "attesting"
      BY <2>2, <2>4, VoteStep, ZenonT(30) DEF AttestVote
    <3>2. QED BY <3>1, <2>1, <2>2, SMTT(30)
  <2>5. ASSUME NEW att \in Attestation, AttestJustify(att) PROVE Grows
    <3>1. acc'.latest_finalized = acc.latest_finalized /\ state' = state /\ mode = "attesting"
      BY <2>2, <2>5, JustifyStep, ZenonT(30) DEF AttestJustify, Completes
    <3>2. QED BY <3>1, <2>1, <2>2
  <2>6. ASSUME NEW att \in Attestation, AttestFinalize(att) PROVE Grows
    <3>1. /\ acc'.latest_finalized.slot >= acc.latest_finalized.slot
          /\ state' = state
      BY <2>2, <2>6, FinalizeStep, ZenonT(30) DEF AttestFinalize, Completes
    <3>2. QED BY <3>1, <2>1, SMTT(30)
  <2>7. ASSUME NEW att \in Attestation, RejectAttestation(att) PROVE Grows
    BY <2>1, <2>7 DEF RejectAttestation, LeaveLoop
  <2>8. ASSUME NEW att \in Attestation, Panic(att) PROVE Grows
    BY <2>1, <2>8 DEF Panic, LeaveLoop
  <2>9. CASE EndBlock
    <3>1. /\ state'.latest_finalized = acc.latest_finalized
          /\ mode = "attesting" /\ mode' = "idle"
      BY <2>2, <2>9, CommitStep DEF EndBlock, LeaveLoop
    <3>2. acc.latest_finalized.slot >= pre.latest_finalized.slot
      BY <3>1, <2>2, SMTT(30) DEF GapWitness
    <3>3. QED BY <3>1, <3>2, <2>2, SMTT(30)
  <2>10. CASE RejectStateRoot
    BY <2>1, <2>10 DEF RejectStateRoot, LeaveLoop
  <2>11. QED
    BY <2>3, <2>4, <2>5, <2>6, <2>7, <2>8, <2>9, <2>10, SMTT(30) DEF Next
<1>2. QED BY <1>1, SpecIInv, PTL DEF Spec, FinalizedNeverRegresses

\* The square-root tests agree with the rule of Finality.
LEMMA JustifiableAsPromised ==
    ASSUME NEW x \in Nat, NEW base \in Nat, x >= base
    PROVE  is_justifiable_after(x, base) <=> F!Justifiable(x, base)
<1>1. CandidateOk(x, base)
  BY DEF CandidateOk
<1>2. is_justifiable_after(x, base) <=> Documented(x, base)
  BY <1>1, JustifiableAsDocumented
<1>3. Documented(x, base) <=> F!Justifiable(x, base)
  BY DEF Documented, F!Justifiable
<1>4. QED BY <1>2, <1>3

\* What the loop tests of an attestation that justifies its target, in the
\* words of Finality: the target is justifiable, and the source is finalized
\* exactly if no slot between is.
LEMMA LinkFacts ==
    ASSUME NEW st, NEW a, NEW att \in Attestation,
           TipOK(st), LocalsOK(st, a), GapWitness(st, a), Counts(st, a, att),
           ~GapPanics(st, att)
    PROVE  LET base == st.latest_finalized.slot
               s    == att.data.source.slot
               t    == att.data.target.slot
           IN  /\ F!Justifiable(t, base)
               /\ Finalizes(st, att) <=>
                     \A x \in F!Between(s, t) : ~F!Justifiable(x, base)
<1> DEFINE s == att.data.source.slot
           t == att.data.target.slot
           base == st.latest_finalized.slot
           fin == a.latest_finalized.slot
<1>1. /\ s \in Nat /\ t \in Nat /\ t > fin
      /\ is_justifiable_after(t, base)
  <2>1. fin \in Nat
    BY DEF LocalsOK
  <2>2. /\ att.data.source \in [root : Nat, slot : Nat]
        /\ att.data.target \in [root : Nat, slot : Nat]
        /\ t \in (fin + 1)..(TipSlot(st) - 1)
        /\ is_justifiable_after(t, base)
    BY CountsFacts
  <2>3. QED BY <2>1, <2>2, SMTT(30)
<1>2. base \in Nat /\ fin \in Nat /\ fin >= base
  BY DEF TipOK, StateRecord, TipSlot, LocalsOK, GapWitness
<1>3. F!Justifiable(t, base)
  <2>1. t >= base
    BY <1>1, <1>2
  <2>2. QED BY <1>1, <1>2, <2>1, JustifiableAsPromised
<1>4. \A x \in (s + 1)..(t - 1) : x \in Nat /\ x >= base
  BY <1>1, <1>2 DEF GapPanics, CandidateOk
<1>5. \A x \in (s + 1)..(t - 1) :
         is_justifiable_after(x, base) <=> F!Justifiable(x, base)
  BY <1>2, <1>4, JustifiableAsPromised
<1>6. QED BY <1>3, <1>5 DEF Finalizes, F!Between

\* The chain implements the abstract specification of finality: its window of
\* bits neither loses a justified slot nor makes one up, and its square roots
\* decide as the documented rule says which links justify and finalize.
THEOREM Refinement == Spec => ImplementsFinality
<1> DEFINE just == JustifiedSet(Current.justified_slots, Current.latest_finalized.slot)
           kept == JustifiedSet(state.justified_slots, state.latest_finalized.slot)
           Slot == {c.slot : c \in Checkpoint}
<1>1. Init => F!FInit
  <2> SUFFICES ASSUME Init PROVE F!FInit
    OBVIOUS
  <2>1. /\ Current = state
        /\ state.justified_slots = << >> /\ state.latest_finalized.slot = 0
    BY DEF Init, Current, generate_genesis
  <2>2. JustifiedSet(<< >>, 0) = {0}
    BY DEF JustifiedSet
  <2>3. QED BY <2>1, <2>2 DEF F!FInit
<1>2. ASSUME IInv, [Next]_vars PROVE [F!FNext]_(F!fvars)
  <2>1. mode = "attesting" =>
          /\ TipOK(pre) /\ LocalsOK(pre, acc) /\ GapWitness(pre, acc)
          /\ Current = acc
          /\ pre.latest_finalized.slot = state.latest_finalized.slot
    BY <1>2 DEF IInv, Current
  <2>2. mode # "attesting" => Current = state
    BY DEF Current
  <2>3. CASE UNCHANGED vars
    BY <2>3, SMTT(30) DEF vars, Current, F!fvars
  <2>4. ASSUME NEW r \in Root, BeginBlock(r) PROVE UNCHANGED F!fvars
    <3>1. IInv'
      BY <1>2, NextIInv, SMTT(30)
    <3>2. /\ mode = "idle" /\ mode' = "attesting" /\ state' = state
          /\ acc' = Locals(pre')
      BY <2>4 DEF BeginBlock
    <3>3. /\ pre'.latest_finalized.slot = state.latest_finalized.slot
          /\ JustifiedSet(pre'.justified_slots, pre'.latest_finalized.slot) = kept
      BY <3>1, <3>2, SMTT(30) DEF IInv
    <3>4. /\ Current = state /\ Current' = acc'
          /\ acc'.justified_slots = pre'.justified_slots
          /\ acc'.latest_finalized = pre'.latest_finalized
      BY <3>2 DEF Current, Locals
    <3>5. QED BY <3>2, <3>3, <3>4 DEF F!fvars
  <2>5. ASSUME NEW att \in Attestation, AttestVote(att) PROVE UNCHANGED F!fvars
    <3>1. /\ mode = "attesting" /\ mode' = "attesting" /\ state' = state
          /\ acc'.justified_slots = acc.justified_slots
          /\ acc'.latest_finalized = acc.latest_finalized
      BY <2>1, <2>5, VoteStep, SMTT(30) DEF AttestVote
    <3>2. QED BY <3>1, SMTT(30) DEF Current, F!fvars
  <2>6. ASSUME NEW att \in Attestation, AttestJustify(att) PROVE F!FNext
    <3> DEFINE s == att.data.source.slot
               t == att.data.target.slot
    <3>1. /\ mode = "attesting" /\ mode' = "attesting" /\ state' = state
          /\ acc' = Justify(acc, att)
          /\ Counts(pre, acc, att) /\ ~GapPanics(pre, att) /\ ~Finalizes(pre, att)
      BY <2>6, SMTT(30) DEF AttestJustify, Completes
    <3>2. /\ t \notin JustifiedSet(acc.justified_slots, acc.latest_finalized.slot)
          /\ s \in JustifiedSet(acc.justified_slots, acc.latest_finalized.slot)
          /\ s < t
          /\ JustifiedSet(acc'.justified_slots, acc'.latest_finalized.slot)
                = JustifiedSet(acc.justified_slots, acc.latest_finalized.slot) \cup {t}
      BY <3>1, <2>1, LoopStep, ZenonT(30)
    <3>3. acc'.latest_finalized = acc.latest_finalized
      BY <3>1, <2>1, JustifyStep, ZenonT(30)
    <3>4. s \in Slot /\ t \in Slot
      BY SMTT(30) DEF Attestation
    <3>5. Current' = acc' /\ Current = acc
      BY <3>1, SMTT(30) DEF Current
    <3>6. /\ F!Justifiable(t, state.latest_finalized.slot)
          /\ \E x \in F!Between(s, t) : F!Justifiable(x, state.latest_finalized.slot)
      BY <3>1, <2>1, LinkFacts, ZenonT(30)
    <3>7. F!Link(s, t)
      BY <3>1, <3>2, <3>5, <3>6, ZenonT(30) DEF F!Link
    <3>8. F!JustifySlot(s, t)
      BY <3>2, <3>3, <3>5, <3>6, <3>7, ZenonT(30) DEF F!JustifySlot
    <3>9. QED BY <3>4, <3>8, ZenonT(30) DEF F!FNext
  <2>7. ASSUME NEW att \in Attestation, AttestFinalize(att) PROVE F!FNext
    <3> DEFINE s == att.data.source.slot
               t == att.data.target.slot
    <3>1. /\ mode = "attesting" /\ mode' = "attesting" /\ state' = state
          /\ acc' = Finalize(pre, Justify(acc, att), att)
          /\ Counts(pre, acc, att) /\ ~GapPanics(pre, att) /\ Finalizes(pre, att)
      BY <2>7, SMTT(30) DEF AttestFinalize, Completes
    <3>2. /\ t \notin JustifiedSet(acc.justified_slots, acc.latest_finalized.slot)
          /\ s \in JustifiedSet(acc.justified_slots, acc.latest_finalized.slot)
          /\ s < t /\ s >= acc.latest_finalized.slot
          /\ acc'.latest_finalized.slot = s
          /\ JustifiedSet(acc'.justified_slots, s)
                = JustifiedSet(acc.justified_slots, acc.latest_finalized.slot)
                     \cup {t} \cup 0..s
      BY <3>1, <2>1, LoopStep, ZenonT(30)
    <3>3. s \in Slot /\ t \in Slot
      BY DEF Attestation
    <3>4. Current' = acc' /\ Current = acc
      BY <3>1 DEF Current
    <3>5. /\ F!Justifiable(t, state.latest_finalized.slot)
          /\ \A x \in F!Between(s, t) : ~F!Justifiable(x, state.latest_finalized.slot)
      BY <3>1, <2>1, LinkFacts, ZenonT(30)
    <3>6. F!Link(s, t)
      BY <3>1, <3>2, <3>4, <3>5, ZenonT(30) DEF F!Link
    <3>7. F!FinalizeSlot(s, t)
      BY <3>2, <3>4, <3>5, <3>6, ZenonT(30) DEF F!FinalizeSlot
    <3>8. QED BY <3>3, <3>7, ZenonT(30) DEF F!FNext
  <2>8. ASSUME state' = state, mode' # "attesting" PROVE F!FNext
    <3>1. Current' = state'
      BY <2>8, SMTT(30) DEF Current
    <3>2. F!Drop
      BY <2>8, <3>1 DEF F!Drop
    <3>3. QED BY <3>2 DEF F!FNext
  <2>9. CASE EndBlock
    <3>1. /\ state'.justified_slots = acc.justified_slots
          /\ state'.latest_finalized = acc.latest_finalized
          /\ mode = "attesting" /\ mode' = "idle"
      BY <2>1, <2>9, CommitStep, ZenonT(30) DEF EndBlock, LeaveLoop
    <3>2. Current' = state' /\ Current = acc
      BY <3>1, SMTT(30) DEF Current
    <3>3. F!Keep
      BY <3>1, <3>2 DEF F!Keep
    <3>4. QED BY <3>3, SMTT(30) DEF F!FNext
  <2>10. ASSUME NEW att \in Attestation, RejectAttestation(att) PROVE F!FNext
    BY <2>8, <2>10, SMTT(30) DEF RejectAttestation, LeaveLoop
  <2>11. ASSUME NEW att \in Attestation, Panic(att) PROVE F!FNext
    BY <2>8, <2>11 DEF Panic, LeaveLoop
  <2>12. CASE RejectStateRoot
    BY <2>8, <2>12 DEF RejectStateRoot, LeaveLoop
  <2>13. QED
    BY <1>2, <2>3, <2>4, <2>5, <2>6, <2>7, <2>9, <2>10, <2>11, <2>12, SMTT(30) DEF Next
<1>3. QED BY <1>1, <1>2, SpecIInv, PTL DEF Spec, ImplementsFinality, F!FSpec

=============================================================================
