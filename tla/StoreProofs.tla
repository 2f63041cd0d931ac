----------------------------- MODULE StoreProofs -----------------------------
(***************************************************************************)
(* Proofs about ChainService, for any tree of blocks, any attestations and *)
(* any order in which they arrive.  The head and the safe target are left  *)
(* out: what the recursive walk of get_fork_choice_head computes is beyond *)
(* the provers, so update_head and update_safe_target are used only as far *)
(* as that they change nothing else.                                       *)
(***************************************************************************)
EXTENDS ChainService, WellFoundedInduction, TLAPS

Fields == {"time", "head", "safe_target", "latest_justified", "latest_finalized",
           "blocks", "states", "latest_known_attestations", "latest_new_attestations",
           "blocks_queue", "gossip_signatures", "aggregated_payloads"}

\* Blocks, States, checkpoints and queue are the same.
SameTree(s, t) ==
    /\ DOMAIN t = Fields
    /\ t.blocks = s.blocks
    /\ t.states = s.states
    /\ t.latest_justified = s.latest_justified
    /\ t.latest_finalized = s.latest_finalized
    /\ t.blocks_queue = s.blocks_queue

\* Store s has a signature or an aggregate for v's vote d, or a block that
\* brought the vote had none.
BackedVote(v, d, s) ==
    \/ <<v, d>> \in DOMAIN s.gossip_signatures
    \/ \E p \in s.aggregated_payloads : p[1] = v /\ p[2] = d
    \/ Unproved(DOMAIN s.blocks, v, d)

Backed(votes, s) == \A v \in DOMAIN votes : BackedVote(v, votes[v], s)

AllBacked(s) ==
    Backed(s.latest_known_attestations, s) /\ Backed(s.latest_new_attestations, s)

-----------------------------------------------------------------------------
(* Handlers that touch neither blocks nor checkpoints.                     *)

LEMMA HeadOnly ==
    ASSUME NEW s, DOMAIN s = Fields
    PROVE  /\ SameTree(s, update_head(s))
           /\ AllBacked(s) => AllBacked(update_head(s))
           /\ update_head(s).latest_known_attestations = s.latest_known_attestations
           /\ update_head(s).latest_new_attestations = s.latest_new_attestations
           /\ update_head(s).gossip_signatures = s.gossip_signatures
           /\ update_head(s).aggregated_payloads = s.aggregated_payloads
  BY DEF update_head, SameTree, Fields, AllBacked, Backed, BackedVote

LEMMA SafeTargetOnly ==
    ASSUME NEW s, DOMAIN s = Fields
    PROVE  /\ SameTree(s, update_safe_target(s))
           /\ AllBacked(s) => AllBacked(update_safe_target(s))
  BY DEF update_safe_target, SameTree, Fields, AllBacked, Backed, BackedVote

LEMMA AcceptTree ==
    ASSUME NEW s, DOMAIN s = Fields
    PROVE  /\ SameTree(s, accept_new_attestations(s))
           /\ AllBacked(s) => AllBacked(accept_new_attestations(s))
  <1> DEFINE known == s.latest_known_attestations
             new   == s.latest_new_attestations
             merged == [v \in DOMAIN known \cup DOMAIN new |->
                           IF v \in DOMAIN new THEN new[v] ELSE known[v]]
             t == [s EXCEPT !.latest_known_attestations = merged,
                            !.latest_new_attestations = EmptyMap]
  <1>1. /\ SameTree(s, t)
        /\ t.latest_known_attestations = merged
        /\ t.latest_new_attestations = EmptyMap
        /\ t.gossip_signatures = s.gossip_signatures
        /\ t.aggregated_payloads = s.aggregated_payloads
    BY DEF SameTree, Fields
  <1>2. accept_new_attestations(s) = update_head(t)
    BY DEF accept_new_attestations
  <1>3. SameTree(s, update_head(t))
    BY <1>1, HeadOnly, ZenonT(30) DEF SameTree
  <1>4. ASSUME AllBacked(s) PROVE AllBacked(t)
    BY <1>1, <1>4 DEF AllBacked, Backed, BackedVote, EmptyMap, SameTree
  <1>5. DOMAIN t = Fields
    BY <1>1 DEF SameTree
  <1> HIDE DEF t
  <1> QED BY <1>2, <1>3, <1>4, <1>5, HeadOnly

LEMMA TickTree ==
    ASSUME NEW s, DOMAIN s = Fields
    PROVE  /\ SameTree(s, tick_interval(s, FALSE))
           /\ AllBacked(s) => AllBacked(tick_interval(s, FALSE))
  <1> DEFINE t == [s EXCEPT !.time = @ + 1]
  <1>1. /\ SameTree(s, t)
        /\ AllBacked(s) => AllBacked(t)
    BY DEF SameTree, Fields, AllBacked, Backed, BackedVote
  <1>2. tick_interval(s, FALSE) \in {t, accept_new_attestations(t), update_safe_target(t)}
    BY DEF tick_interval
  <1>3. DOMAIN t = Fields
    BY <1>1 DEF SameTree
  <1> HIDE DEF t
  <1>4. /\ SameTree(t, accept_new_attestations(t))
        /\ SameTree(t, update_safe_target(t))
        /\ AllBacked(t) => AllBacked(accept_new_attestations(t))
        /\ AllBacked(t) => AllBacked(update_safe_target(t))
    BY <1>3, AcceptTree, SafeTargetOnly
  <1>5. ASSUME NEW u, SameTree(t, u) PROVE SameTree(s, u)
    BY <1>1, <1>5 DEF SameTree
  <1> QED BY <1>1, <1>2, <1>4, <1>5, ZenonT(30)

\* A vote from gossip or of a proposer, whose signature is kept with it.
LEMMA GossipVote ==
    ASSUME NEW s, DOMAIN s = Fields, NEW v, NEW data, NEW signature
    PROVE  /\ SameTree(s, on_attestation(s, v, data, signature))
           /\ AllBacked(s) => AllBacked(on_attestation(s, v, data, signature))
  <1> DEFINE signed == Put(s.gossip_signatures, <<v, data>>, signature)
             votes  == Latest(s.latest_new_attestations, v, data)
             t == on_attestation(s, v, data, signature)
  <1>1. /\ SameTree(s, t)
        /\ t.gossip_signatures = signed
        /\ t.latest_new_attestations = votes
        /\ t.latest_known_attestations = s.latest_known_attestations
        /\ t.aggregated_payloads = s.aggregated_payloads
    BY DEF on_attestation, on_gossip_vote, SameTree, Fields
  <1>2. DOMAIN signed = DOMAIN s.gossip_signatures \cup {<<v, data>>}
    BY DEF Put
  <1>3. \A w \in DOMAIN votes :
           \/ w = v /\ votes[w] = data
           \/ w \in DOMAIN s.latest_new_attestations /\ votes[w] = s.latest_new_attestations[w]
    BY DEF Latest, Put
  <1> HIDE DEF t, signed, votes
  <1>4. ASSUME AllBacked(s) PROVE Backed(votes, t) /\ Backed(s.latest_known_attestations, t)
    BY <1>1, <1>2, <1>3, <1>4 DEF AllBacked, Backed, BackedVote, SameTree
  <1> QED BY <1>1, <1>4 DEF AllBacked, t

-----------------------------------------------------------------------------
(* The votes of a block body.                                              *)

\* The best of the first n attestations, if any of them carries v's vote.
HasBest(atts, v, n) ==
    (\E k \in Carrying(atts, v) : k <= n) =>
        \E i \in Carrying(atts, v) : i <= n /\ \A j \in Carrying(atts, v) :
            j <= n => \/ atts[j].data.slot < atts[i].data.slot
                      \/ atts[j].data.slot = atts[i].data.slot /\ i <= j

LEMMA BestOfOneMore ==
    ASSUME NEW atts, \A i \in 1..Len(atts) : atts[i].data.slot \in Nat, Len(atts) \in Nat,
           NEW v, NEW n \in Nat, HasBest(atts, v, n)
    PROVE  HasBest(atts, v, n + 1)
  <1> DEFINE C == Carrying(atts, v)
             Slot(i) == atts[i].data.slot
  <1>1. \A i \in C : i \in Nat /\ Slot(i) \in Nat
    BY DEF Carrying
  <1>2. CASE n + 1 \notin C
    <2>1. \A j \in C : j <= n + 1 <=> j <= n
      BY <1>1, <1>2
    <2> HIDE DEF C
    <2> QED BY <2>1 DEF HasBest, C
  <1>3. CASE n + 1 \in C /\ ~\E k \in C : k <= n
    <2>1. \A j \in C : j <= n + 1 => j = n + 1
      BY <1>1, <1>3
    <2>2. n + 1 <= n + 1
      OBVIOUS
    <2> HIDE DEF C
    <2> QED BY <1>3, <2>1, <2>2 DEF HasBest, C
  <1>4. CASE n + 1 \in C /\ \E k \in C : k <= n
    <2>1. PICK i \in C : i <= n /\ \A j \in C :
             j <= n => Slot(j) < Slot(i) \/ (Slot(j) = Slot(i) /\ i <= j)
      BY <1>4 DEF HasBest
    <2> DEFINE Best(b, m) == \A j \in C :
                  j <= m => Slot(j) < Slot(b) \/ (Slot(j) = Slot(b) /\ b <= j)
    <2>4. \A j \in C : j <= n + 1 => j <= n \/ j = n + 1
      BY <1>1
    <2>5. ASSUME NEW b \in C, b <= n + 1, Best(b, n + 1) PROVE HasBest(atts, v, n + 1)
      BY <2>5 DEF HasBest
    <2> HIDE DEF C, Slot
    <2>2. CASE Slot(n + 1) <= Slot(i)
      <3>1. Best(i, n + 1)
        BY <1>1, <1>4, <2>1, <2>2, <2>4
      <3> QED BY <1>1, <2>1, <2>5, <3>1
    <2>3. CASE Slot(n + 1) > Slot(i)
      <3>1. Best(n + 1, n + 1)
        BY <1>1, <1>4, <2>1, <2>3, <2>4
      <3> QED BY <1>4, <2>5, <3>1
    <2> QED BY <1>1, <1>4, <2>1, <2>2, <2>3
  <1> QED BY <1>2, <1>3, <1>4

\* By induction over n, as the absence of a least counterexample.
LEMMA BestExists ==
    ASSUME NEW atts, \A i \in 1..Len(atts) : atts[i].data.slot \in Nat, Len(atts) \in Nat,
           NEW v, NEW n \in Nat
    PROVE  HasBest(atts, v, n)
  <1> DEFINE Bad == {m \in Nat : ~HasBest(atts, v, m)}
  <1> SUFFICES ASSUME Bad # {} PROVE FALSE
    OBVIOUS
  <1>1. PICK m \in Bad : \A k \in Bad : ~(<<k, m>> \in OpToRel(<, Nat))
    BY WFMin, NatLessThanWellFounded, ZenonT(30)
  <1>2. \A k \in Bad : ~(k < m)
    BY <1>1, ZenonT(30) DEF OpToRel
  <1>3. m # 0
    BY DEF HasBest, Carrying
  <1>4. HasBest(atts, v, m - 1)
    BY <1>2, <1>3
  <1>5. HasBest(atts, v, (m - 1) + 1)
    BY <1>3, <1>4, BestOfOneMore
  <1> QED BY <1>3, <1>5

\* BodyVote is a vote of v that the body carries.
LEMMA BodyVoteCarried ==
    ASSUME NEW atts, \A i \in 1..Len(atts) : atts[i].data.slot \in Nat, Len(atts) \in Nat,
           NEW v, Carrying(atts, v) # {}
    PROVE  \E i \in Carrying(atts, v) : BodyVote(atts, v) = atts[i].data
  <1>1. HasBest(atts, v, Len(atts))
    BY BestExists
  <1>2. \A k \in Carrying(atts, v) : k <= Len(atts)
    BY DEF Carrying
  <1>3. \E i \in Carrying(atts, v) : \A j \in Carrying(atts, v) :
           \/ atts[j].data.slot < atts[i].data.slot
           \/ atts[j].data.slot = atts[i].data.slot /\ i <= j
    BY <1>1, <1>2 DEF HasBest
  <1> QED BY <1>3, ZenonT(30) DEF BodyVote

\* The votes of the body of a stored block are backed by the aggregates it came
\* with, as far as it came with any.
LEMMA BodyVotesTree ==
    ASSUME NEW s, DOMAIN s = Fields, NEW r \in Root, r \in DOMAIN s.blocks,
           NEW atts, NEW proofs,
           atts = Block[r].attestations, proofs = Block[r].attestation_signatures,
           \A i \in 1..Len(atts) : atts[i].data.slot \in Nat,
           Len(atts) \in Nat, Len(proofs) \in Nat,
           Payloads(atts, proofs) \subseteq s.aggregated_payloads
    PROVE  /\ SameTree(s, on_body_votes(s, atts))
           /\ AllBacked(s) => AllBacked(on_body_votes(s, atts))
  <1> DEFINE known  == s.latest_known_attestations
             new    == s.latest_new_attestations
             t      == on_body_votes(s, atts)
             voters == UNION {atts[i].aggregation_bits : i \in 1..Len(atts)}
  <1>1. /\ SameTree(s, t)
        /\ t.gossip_signatures = s.gossip_signatures
        /\ t.aggregated_payloads = s.aggregated_payloads
    BY DEF on_body_votes, SameTree, Fields
  <1>2. t.latest_known_attestations =
           [v \in DOMAIN known \cup voters |->
               IF v \in voters THEN Latest(known, v, BodyVote(atts, v))[v] ELSE known[v]]
    BY DEF on_body_votes, Fields
  <1>3. /\ DOMAIN t.latest_new_attestations \subseteq DOMAIN new
        /\ \A v \in DOMAIN t.latest_new_attestations : t.latest_new_attestations[v] = new[v]
    BY DEF on_body_votes, Fields, Without
  <1>4. ASSUME NEW v \in voters
        PROVE  BackedVote(v, BodyVote(atts, v), s)
    <2>1. PICK k \in 1..Len(atts) : v \in atts[k].aggregation_bits
      OBVIOUS
    <2>2. Carrying(atts, v) # {}
      BY <2>1 DEF Carrying
    <2>3. PICK i \in Carrying(atts, v) : BodyVote(atts, v) = atts[i].data
      BY <2>2, BodyVoteCarried
    <2>4. CASE i <= Len(proofs)
      <3>1. <<v, atts[i].data, proofs[i]>> \in Payloads(atts, proofs)
        BY <2>4 DEF Payloads, Carrying
      <3> QED BY <2>3, <3>1 DEF BackedVote
    <2>5. CASE i > Len(proofs)
      <3>1. Unproved(DOMAIN s.blocks, v, atts[i].data)
        BY <2>5 DEF Unproved
      <3> QED BY <2>3, <3>1 DEF BackedVote
    <2>6. i \in Nat
      BY DEF Carrying
    <2> QED BY <2>4, <2>5, <2>6
  <1>5. ASSUME NEW v \in voters
        PROVE  \/ Latest(known, v, BodyVote(atts, v))[v] = BodyVote(atts, v)
               \/ v \in DOMAIN known /\ Latest(known, v, BodyVote(atts, v))[v] = known[v]
    BY DEF Latest, Put
  <1> HIDE DEF t, voters
  <1>6. ASSUME NEW v, NEW d, BackedVote(v, d, s) PROVE BackedVote(v, d, t)
    BY <1>1, <1>6 DEF BackedVote, SameTree
  <1>7. ASSUME AllBacked(s) PROVE Backed(t.latest_known_attestations, t)
    <2>1. SUFFICES ASSUME NEW v \in DOMAIN t.latest_known_attestations
                   PROVE  BackedVote(v, t.latest_known_attestations[v], s)
      BY <1>6 DEF Backed
    <2>2. \/ v \in DOMAIN known /\ t.latest_known_attestations[v] = known[v]
          \/ v \in voters /\ t.latest_known_attestations[v] = BodyVote(atts, v)
      BY <1>2, <1>5
    <2> QED BY <1>4, <1>7, <2>2 DEF AllBacked, Backed
  <1>8. ASSUME AllBacked(s) PROVE Backed(t.latest_new_attestations, t)
    BY <1>3, <1>6, <1>8 DEF AllBacked, Backed
  <1> QED BY <1>1, <1>7, <1>8 DEF AllBacked, t

-----------------------------------------------------------------------------
(* process_block_internal.                                                 *)

LEMMA Imported ==
    ASSUME NEW s, DOMAIN s = Fields, NEW r \in Root
    PROVE  LET t == process_block_internal(s, r)
           IN  /\ DOMAIN t = Fields
               /\ t.blocks = Put(s.blocks, r, Block[r])
               /\ t.states = Put(s.states, r, Transition[r].value)
               /\ t.latest_justified =
                     Higher(s.latest_justified, Transition[r].value.latest_justified)
               /\ t.latest_finalized =
                     Higher(s.latest_finalized, Transition[r].value.latest_finalized)
               /\ t.blocks_queue = s.blocks_queue
               /\ AllBacked(s) => AllBacked(t)
  <1> DEFINE atts   == Block[r].attestations
             proofs == Block[r].attestation_signatures
             st     == Transition[r].value
             a == [s EXCEPT
                     !.blocks = Put(@, r, Block[r]),
                     !.states = Put(@, r, st),
                     !.latest_justified = Higher(@, st.latest_justified),
                     !.latest_finalized = Higher(@, st.latest_finalized),
                     !.aggregated_payloads = @ \cup Payloads(atts, proofs)]
             b == on_body_votes(a, atts)
             c == update_head(b)
             p == Block[r].proposer_attestation
             d == on_attestation(c, p.validator_id, p.data, Block[r].proposer_signature)
  <1>1. process_block_internal(s, r) = d
    BY DEF process_block_internal, on_attestation
  <1>2. /\ DOMAIN a = Fields
        /\ a.blocks = Put(s.blocks, r, Block[r])
        /\ a.states = Put(s.states, r, st)
        /\ a.latest_justified = Higher(s.latest_justified, st.latest_justified)
        /\ a.latest_finalized = Higher(s.latest_finalized, st.latest_finalized)
        /\ a.blocks_queue = s.blocks_queue
        /\ a.aggregated_payloads = s.aggregated_payloads \cup Payloads(atts, proofs)
    BY DEF Fields
  <1>3. AllBacked(s) => AllBacked(a)
    <2>1. /\ a.latest_known_attestations = s.latest_known_attestations
          /\ a.latest_new_attestations = s.latest_new_attestations
          /\ a.gossip_signatures = s.gossip_signatures
      BY DEF Fields
    <2>2. r \in DOMAIN a.blocks /\ DOMAIN s.blocks \subseteq DOMAIN a.blocks
      BY <1>2 DEF Put
    <2> HIDE DEF a
    <2>3. ASSUME NEW v, NEW x, BackedVote(v, x, s) PROVE BackedVote(v, x, a)
      <3>1. Unproved(DOMAIN s.blocks, v, x) => Unproved(DOMAIN a.blocks, v, x)
        BY <2>2 DEF Unproved
      <3> QED BY <1>2, <2>1, <2>3, <3>1 DEF BackedVote
    <2> QED BY <2>1, <2>3 DEF AllBacked, Backed
  <1>4. Len(atts) \in Nat /\ \A i \in 1..Len(atts) : atts[i].data.slot \in Nat
    <2> DEFINE A == [aggregation_bits : SUBSET Nat, data : AttestationData]
    <2>1. atts \in Seq(A)
      BY BlockAssumption, ZenonT(30)
    <2>2. \A x \in A : x.data.slot \in Nat
      BY BlockAssumption
    <2> HIDE DEF atts, A
    <2>3. Len(atts) \in Nat
      BY <2>1
    <2>4. \A i \in 1..Len(atts) : atts[i] \in A
      BY <2>1
    <2> QED BY <2>2, <2>3, <2>4
  <1>8. Len(proofs) \in Nat
    <2>1. proofs \in Seq(AggregatedSignatureProof)
      BY BlockAssumption, ZenonT(30)
    <2> HIDE DEF proofs
    <2> QED BY <2>1
  <1>9. r \in DOMAIN a.blocks
    BY <1>2 DEF Put
  <1> HIDE DEF a
  <1>5. SameTree(a, b) /\ (AllBacked(a) => AllBacked(b))
    <2>1. Payloads(atts, proofs) \subseteq a.aggregated_payloads
      BY <1>2
    <2> QED BY <1>2, <1>4, <1>8, <1>9, <2>1, BodyVotesTree
  <1> HIDE DEF b
  <1>6. SameTree(b, c) /\ (AllBacked(b) => AllBacked(c))
    BY <1>5, HeadOnly DEF SameTree
  <1> HIDE DEF c
  <1>7. SameTree(c, d) /\ (AllBacked(c) => AllBacked(d))
    BY <1>6, GossipVote DEF SameTree
  <1> HIDE DEF d
  <1> QED BY <1>1, <1>2, <1>3, <1>5, <1>6, <1>7 DEF SameTree

-----------------------------------------------------------------------------
(* The tree and its checkpoints.                                           *)

\* The stored blocks are valid and have their parents; the State of each is
\* the one state_transition gives, and its history names stored blocks.
TreeInv(s) ==
    /\ AnchorRoot \in DOMAIN s.blocks
    /\ DOMAIN s.blocks \subseteq Root
    /\ DOMAIN s.states = DOMAIN s.blocks
    /\ \A r \in DOMAIN s.blocks :
          /\ s.blocks[r] = Block[r]
          /\ s.states[r] = Transition[r].value
          /\ Transition[r].status = "ok"
          /\ r # AnchorRoot => Block[r].parent_root \in DOMAIN s.blocks
          /\ \A i \in 1..Len(Transition[r].value.historical_block_hashes) :
                Transition[r].value.historical_block_hashes[i] \in {Zero} \cup DOMAIN s.blocks

\* The checkpoints name stored blocks, and none is passed by a State's.
CheckInv(s) ==
    /\ \A c \in {s.latest_justified, s.latest_finalized} :
          c.root \in DOMAIN s.blocks /\ c.slot = Block[c.root].slot
    /\ \A r \in DOMAIN s.blocks :
          /\ Transition[r].value.latest_justified.slot <= s.latest_justified.slot
          /\ Transition[r].value.latest_finalized.slot <= s.latest_finalized.slot
    /\ \E r \in DOMAIN s.blocks :
          Transition[r].value.latest_justified.slot = s.latest_justified.slot
    /\ \E r \in DOMAIN s.blocks :
          Transition[r].value.latest_finalized.slot = s.latest_finalized.slot

\* What is assumed of the State of an accepted block, field by field.
LEMMA StateFacts ==
    ASSUME NEW r \in Root, Transition[r].status = "ok"
    PROVE  /\ Transition[r].value.latest_justified.slot \in Nat
           /\ Transition[r].value.latest_finalized.slot \in Nat
           /\ Transition[r].value.latest_finalized.slot <= Transition[r].value.latest_justified.slot
           /\ r # AnchorRoot =>
                 /\ OnHistory(Transition[r].value.latest_justified,
                              Transition[r].value.historical_block_hashes)
                 /\ OnHistory(Transition[r].value.latest_finalized,
                              Transition[r].value.historical_block_hashes)
                 /\ Block[Block[r].parent_root].slot < Block[r].slot
  <1>1. CASE r = AnchorRoot
    BY <1>1, TransitionAssumption
  <1>2. CASE r # AnchorRoot
    <2> DEFINE just == Transition[r].value.latest_justified
               fin  == Transition[r].value.latest_finalized
    <2>1. /\ OnHistory(just, Transition[r].value.historical_block_hashes)
          /\ OnHistory(fin, Transition[r].value.historical_block_hashes)
          /\ Block[Block[r].parent_root].slot < Block[r].slot
          /\ fin.slot <= just.slot
      BY <1>2, TransitionAssumption
    <2>2. \A q \in Root : Block[q].slot \in Nat
      BY BlockAssumption
    <2> HIDE DEF just, fin
    <2>3. just.slot \in Nat /\ fin.slot \in Nat
      BY <2>1, <2>2 DEF OnHistory
    <2> QED BY <2>1, <2>3 DEF just, fin
  <1> QED BY <1>1, <1>2

LEMMA TreeStep ==
    ASSUME NEW s, TreeInv(s), NEW t, NEW r \in Root, Transition[r].status = "ok",
           Block[r].parent_root \in DOMAIN s.blocks,
           t.blocks = Put(s.blocks, r, Block[r]),
           t.states = Put(s.states, r, Transition[r].value)
    PROVE  TreeInv(t) /\ DOMAIN t.blocks = DOMAIN s.blocks \cup {r}
  <1>1. /\ DOMAIN t.blocks = DOMAIN s.blocks \cup {r}
        /\ DOMAIN t.states = DOMAIN s.states \cup {r}
        /\ \A q \in DOMAIN t.blocks : t.blocks[q] = IF q = r THEN Block[r] ELSE s.blocks[q]
        /\ \A q \in DOMAIN t.states :
              t.states[q] = IF q = r THEN Transition[r].value ELSE s.states[q]
    BY DEF Put
  <1>2. r # AnchorRoot
    <2>1. Block[AnchorRoot].parent_root = Zero
      BY TransitionAssumption
    <2>2. Zero \notin Root
      BY BlockAssumption, ZenonT(30)
    <2> QED BY <2>1, <2>2 DEF TreeInv
  <1> DEFINE hist(q) == Transition[q].value.historical_block_hashes
             parent  == Block[r].parent_root
  <1>3. \A i \in 1..Len(hist(r)) : \/ hist(r)[i] \in {Zero, parent}
                                   \/ \E j \in 1..Len(hist(parent)) : hist(r)[i] = hist(parent)[j]
    BY <1>2, TransitionAssumption
  <1>4. \A i \in 1..Len(hist(r)) : hist(r)[i] \in {Zero} \cup DOMAIN s.blocks
    BY <1>3, ZenonT(30) DEF TreeInv
  <1> QED BY <1>1, <1>4 DEF TreeInv

LEMMA CheckpointSlots ==
    ASSUME NEW s, TreeInv(s), CheckInv(s)
    PROVE  s.latest_justified.slot \in Nat /\ s.latest_finalized.slot \in Nat
  <1>1. \A r \in Root : Block[r].slot \in Nat
    BY BlockAssumption
  <1> QED BY <1>1 DEF CheckInv, TreeInv

LEMMA CheckStep ==
    ASSUME NEW s, TreeInv(s), CheckInv(s), NEW t, NEW r \in Root, TreeInv(t),
           DOMAIN t.blocks = DOMAIN s.blocks \cup {r},
           t.latest_justified = Higher(s.latest_justified, Transition[r].value.latest_justified),
           t.latest_finalized = Higher(s.latest_finalized, Transition[r].value.latest_finalized)
    PROVE  CheckInv(t)
  <1> DEFINE just(q) == Transition[q].value.latest_justified
             fin(q)  == Transition[q].value.latest_finalized
  <1>1. \A q \in DOMAIN t.blocks : just(q).slot \in Nat /\ fin(q).slot \in Nat
    BY StateFacts DEF TreeInv
  <1>2. s.latest_justified.slot \in Nat /\ s.latest_finalized.slot \in Nat
    BY CheckpointSlots
  <1>3. CASE r = AnchorRoot
    <2>1. just(r).slot = 0 /\ fin(r).slot = 0
      BY <1>3, TransitionAssumption
    <2>2. t.latest_justified = s.latest_justified /\ t.latest_finalized = s.latest_finalized
      BY <1>2, <2>1 DEF Higher
    <2>3. DOMAIN t.blocks = DOMAIN s.blocks
      BY <1>3 DEF TreeInv
    <2> QED BY <2>2, <2>3 DEF CheckInv
  <1>4. CASE r # AnchorRoot
    <2>1. /\ just(r).root \in DOMAIN t.blocks /\ just(r).slot = Block[just(r).root].slot
          /\ fin(r).root \in DOMAIN t.blocks /\ fin(r).slot = Block[fin(r).root].slot
      <3>1. /\ OnHistory(just(r), Transition[r].value.historical_block_hashes)
            /\ OnHistory(fin(r), Transition[r].value.historical_block_hashes)
        BY <1>4, StateFacts DEF TreeInv
      <3>2. Zero \notin Root
        <4>1. Root \subseteq Nat \ {Zero}
          BY BlockAssumption
        <4> QED BY <4>1
      <3> QED BY <3>1, <3>2 DEF OnHistory, TreeInv
    <2> HIDE DEF just, fin
    <2>2. \A c \in {t.latest_justified, t.latest_finalized} :
             c.root \in DOMAIN t.blocks /\ c.slot = Block[c.root].slot
      BY <2>1, Zenon DEF CheckInv, Higher, just, fin
    <2>3. /\ t.latest_justified.slot >= s.latest_justified.slot
          /\ t.latest_justified.slot >= just(r).slot
          /\ t.latest_justified.slot \in {s.latest_justified.slot, just(r).slot}
      BY <1>1, <1>2 DEF Higher, just
    <2>4. /\ t.latest_finalized.slot >= s.latest_finalized.slot
          /\ t.latest_finalized.slot >= fin(r).slot
          /\ t.latest_finalized.slot \in {s.latest_finalized.slot, fin(r).slot}
      BY <1>1, <1>2 DEF Higher, fin
    <2>5. \A q \in DOMAIN t.blocks : /\ just(q).slot <= t.latest_justified.slot
                                     /\ fin(q).slot <= t.latest_finalized.slot
      BY <1>1, <1>2, <2>3, <2>4 DEF CheckInv, just, fin
    <2>6. /\ \E q \in DOMAIN t.blocks : just(q).slot = t.latest_justified.slot
          /\ \E q \in DOMAIN t.blocks : fin(q).slot = t.latest_finalized.slot
      BY <2>3, <2>4 DEF CheckInv, just, fin
    <2> QED BY <2>2, <2>5, <2>6, Zenon DEF CheckInv, just, fin
  <1> QED BY <1>3, <1>4

\* A block that is processed again changes neither tree nor checkpoints.
LEMMA AgainStep ==
    ASSUME NEW s, TreeInv(s), CheckInv(s), NEW r \in DOMAIN s.blocks
    PROVE  /\ Higher(s.latest_justified, Transition[r].value.latest_justified) = s.latest_justified
           /\ Higher(s.latest_finalized, Transition[r].value.latest_finalized) = s.latest_finalized
  <1>1. s.latest_justified.slot \in Nat /\ s.latest_finalized.slot \in Nat
    BY CheckpointSlots
  <1>2. Transition[r].value.latest_justified.slot \in Nat /\ Transition[r].value.latest_finalized.slot \in Nat
    BY StateFacts DEF TreeInv
  <1> QED BY <1>1, <1>2 DEF CheckInv, Higher

-----------------------------------------------------------------------------
(* The inductive invariant.                                                *)

\* The blocks that were received.
Got == {r \in Root : received[r] > 0}

TaskType ==
    /\ DOMAIN task = {"op", "block", "gossip", "roots", "batch"}
    /\ task.block \in Root \cup {Zero}
    /\ task.roots \in Seq(Root)
    /\ task.batch \in Seq(Root)

\* The handler's block, the batch and the queue hold blocks that were received.
Sound ==
    /\ task.block # Zero => task.block \in Got
    /\ task.batch \in Seq(Got)
    /\ \A p \in DOMAIN store.blocks_queue : store.blocks_queue[p] \in Seq(Got)

\* Every parent that is waited for was asked for; one that is stored is still
\* among the roots that process_pending_blocks goes through.
Covered ==
    \A p \in DOMAIN store.blocks_queue :
        /\ <<"request", p>> \in outbound
        /\ p \in DOMAIN store.blocks =>
              \/ task.op = "panicked"
              \/ task.op = "pending" /\ \E i \in 1..Len(task.roots) : task.roots[i] = p

IInv ==
    /\ DOMAIN store = Fields
    /\ received \in [Root -> Nat]
    /\ TaskType
    /\ TreeInv(store)
    /\ CheckInv(store)
    /\ AllBacked(store)
    /\ Sound
    /\ Covered

\* The store get_forkchoice_store returns, field by field.
LEMMA InitStore ==
    ASSUME Init
    PROVE  /\ DOMAIN store = Fields
           /\ store.blocks = [r \in {AnchorRoot} |-> Block[AnchorRoot]]
           /\ store.states = [r \in {AnchorRoot} |-> Transition[AnchorRoot].value]
           /\ store.blocks_queue = EmptyMap
           /\ store.latest_known_attestations = EmptyMap
           /\ store.latest_new_attestations = EmptyMap
           /\ store.latest_justified = [root |-> AnchorRoot, slot |-> 0]
           /\ store.latest_finalized = [root |-> AnchorRoot, slot |-> 0]
  <1>1. /\ Transition[AnchorRoot].value.latest_justified = [root |-> Zero, slot |-> 0]
        /\ Transition[AnchorRoot].value.latest_finalized = [root |-> Zero, slot |-> 0]
        /\ Block[AnchorRoot].slot = 0
    BY TransitionAssumption
  <1>2. store = get_forkchoice_store
    BY DEF Init
  <1> QED BY <1>1, <1>2 DEF get_forkchoice_store, Fields

LEMMA InitIInv == Init => IInv
  <1> SUFFICES ASSUME Init PROVE IInv
    OBVIOUS
  <1>1. /\ DOMAIN store = Fields
        /\ store.blocks = [r \in {AnchorRoot} |-> Block[AnchorRoot]]
        /\ store.states = [r \in {AnchorRoot} |-> Transition[AnchorRoot].value]
        /\ store.blocks_queue = EmptyMap
        /\ store.latest_known_attestations = EmptyMap
        /\ store.latest_new_attestations = EmptyMap
    BY InitStore
  <1>2. /\ store.latest_justified = [root |-> AnchorRoot, slot |-> 0]
        /\ store.latest_finalized = [root |-> AnchorRoot, slot |-> 0]
    BY InitStore
  <1>3. TreeInv(store)
    BY <1>1, TransitionAssumption, BlockAssumption DEF TreeInv
  <1>4. CheckInv(store)
    BY <1>1, <1>2, TransitionAssumption DEF CheckInv
  <1>5. AllBacked(store)
    BY <1>1 DEF AllBacked, Backed, EmptyMap
  <1>6. TaskType /\ received \in [Root -> Nat]
    BY DEF Init, TaskType, Idle
  <1>7. Sound /\ Covered
    BY <1>1 DEF Init, Idle, Sound, Covered, EmptyMap
  <1> QED BY <1>1, <1>3, <1>4, <1>5, <1>6, <1>7 DEF IInv

LEMMA SeqOfMore ==
    ASSUME NEW S, NEW T, S \subseteq T, NEW q \in Seq(S)
    PROVE  q \in Seq(T)
  OBVIOUS

\* Steps that leave blocks, checkpoints and queue alone and end in a handler's
\* first step, or in none.
LEMMA QuietStep ==
    ASSUME IInv, SameTree(store, store'), AllBacked(store'), UNCHANGED received,
           outbound \subseteq outbound', task' = task
    PROVE  IInv'
  <1>1. TreeInv(store') /\ CheckInv(store') /\ DOMAIN store' = Fields
    BY DEF IInv, TreeInv, CheckInv, SameTree
  <1>2. Got' = Got
    BY DEF Got
  <1>3. Sound' /\ Covered'
    BY <1>2 DEF IInv, Sound, Covered, SameTree
  <1> QED BY <1>1, <1>3 DEF IInv, TaskType

LEMMA TaskStep ==
    ASSUME IInv, UNCHANGED <<store, received>>, outbound \subseteq outbound',
           \/ task.op = "idle"
           \/ task.op = "ticking"
           \/ task.op = "pending" /\ task.roots = << >>,
           task' = Idle \/ task' = [Idle EXCEPT !.op = "ticking"]
    PROVE  IInv'
  <1>1. Got' = Got
    BY DEF Got
  <1>2. /\ task'.block = Zero /\ task'.roots = << >> /\ task'.batch = << >>
        /\ task'.op \in {"idle", "ticking"} /\ task'.gossip = FALSE
    BY DEF Idle
  <1>3. TaskType'
    <2>1. DOMAIN task' = {"op", "block", "gossip", "roots", "batch"}
      BY DEF Idle
    <2> QED BY <1>2, <2>1 DEF TaskType
  <1>4. Sound'
    BY <1>1, <1>2 DEF IInv, Sound
  <1>5. \A p \in DOMAIN store.blocks_queue : p \notin DOMAIN store.blocks
    <2>1. CASE task.op = "pending" /\ task.roots = << >>
      <3>1. 1..Len(task.roots) = {}
        BY <2>1
      <3> QED BY <2>1, <3>1, ZenonT(30) DEF IInv, Covered
    <2>2. CASE task.op \in {"idle", "ticking"}
      BY <2>2, ZenonT(30) DEF IInv, Covered
    <2> QED BY <2>1, <2>2
  <1>6. Covered'
    BY <1>5, ZenonT(30) DEF IInv, Covered
  <1> QED BY <1>3, <1>4, <1>6 DEF IInv

\* A block is taken from the channel.
LEMMA TakeBlockStep ==
    ASSUME IInv, NEW r \in Root, NEW g, TakeBlock(r, g)
    PROVE  /\ IInv'
           /\ Got' = Got \cup {r}
  <1>1. /\ received' = [received EXCEPT ![r] = @ + 1]
        /\ UNCHANGED <<store, outbound>>
        /\ task = Idle
    BY DEF TakeBlock
  <1>2. received' \in [Root -> Nat] /\ Got' = Got \cup {r}
    BY <1>1 DEF IInv, Got
  <1>3. /\ DOMAIN task' = {"op", "block", "gossip", "roots", "batch"}
        /\ task'.block = r /\ task'.roots = << >> /\ task'.batch = << >>
    BY DEF TakeBlock, Idle
  <1>4. TaskType'
    BY <1>3 DEF TaskType
  <1>5. Sound'
    BY <1>1, <1>2, <1>3, SeqOfMore DEF IInv, Sound
  <1>6. Covered'
    BY <1>1, ZenonT(30) DEF IInv, Covered, Idle
  <1> QED BY <1>1, <1>2, <1>4, <1>5, <1>6 DEF IInv

\* A step that changes nothing of the store but the queue.
LEMMA QueueOnly ==
    ASSUME NEW s, DOMAIN s = Fields, NEW q
    PROVE  LET t == [s EXCEPT !.blocks_queue = q]
           IN  /\ DOMAIN t = Fields
               /\ t.blocks = s.blocks /\ t.states = s.states
               /\ t.latest_justified = s.latest_justified
               /\ t.latest_finalized = s.latest_finalized
               /\ t.blocks_queue = q
               /\ AllBacked(s) => AllBacked(t)
  BY DEF Fields, AllBacked, Backed, BackedVote

\* A block is put aside.
LEMMA QueuedStep ==
    ASSUME IInv, NEW r \in Root, OnBlockQueued(r)
    PROVE  /\ IInv'
           /\ store'.blocks = store.blocks
           /\ store'.latest_justified = store.latest_justified
           /\ store'.latest_finalized = store.latest_finalized
           /\ UNCHANGED received
  <1> DEFINE parent == Block[r].parent_root
             queue  == store.blocks_queue
             queued == IF parent \in DOMAIN queue THEN queue[parent] ELSE << >>
             Q == Put(queue, parent, Append(queued, r))
  <1>1. /\ store' = queue_block(store, r)
        /\ outbound' = outbound \cup {<<"request", parent>>}
        /\ task' = Idle
        /\ received' = received
        /\ task.op = "ticking" /\ task.block = r
        /\ parent \notin DOMAIN store.states
    BY DEF OnBlockQueued, OnBlock
  <1>2. /\ DOMAIN store' = Fields
        /\ store'.blocks = store.blocks /\ store'.states = store.states
        /\ store'.latest_justified = store.latest_justified
        /\ store'.latest_finalized = store.latest_finalized
        /\ store'.blocks_queue = Q
        /\ AllBacked(store')
    <2>1. store' = [store EXCEPT !.blocks_queue = Q]
      BY <1>1 DEF queue_block
    <2>2. DOMAIN store = Fields /\ AllBacked(store)
      BY DEF IInv
    <2> HIDE DEF Q
    <2>3. QED BY <2>1, <2>2, QueueOnly, ZenonT(30)
  <1>4. TreeInv(store') /\ CheckInv(store')
    BY <1>2 DEF IInv, TreeInv, CheckInv
  <1>5. r \in Got /\ Got' = Got
    BY <1>1, BlockAssumption DEF IInv, Sound, Got
  <1>6. queued \in Seq(Got)
    BY DEF IInv, Sound
  <1>7. Append(queued, r) \in Seq(Got)
    BY <1>5, <1>6
  <1>8. task'.block = Zero /\ task'.batch = << >>
    BY <1>1, SMTT(20) DEF Idle
  <1>9. Sound'
    BY <1>2, <1>5, <1>7, <1>8 DEF IInv, Sound, Put
  <1>10. \A p \in DOMAIN queue : p \notin DOMAIN store.blocks
    BY <1>1, ZenonT(30) DEF IInv, Covered
  <1>11. Covered'
    <2>1. DOMAIN store'.blocks_queue = DOMAIN queue \cup {parent}
      BY <1>2 DEF Put
    <2>2. \A p \in DOMAIN queue \cup {parent} : p \notin DOMAIN store'.blocks
      BY <1>1, <1>2, <1>10 DEF IInv, TreeInv
    <2>3. \A p \in DOMAIN queue \cup {parent} : <<"request", p>> \in outbound'
      BY <1>1, ZenonT(30) DEF IInv, Covered
    <2> QED BY <2>1, <2>2, <2>3, ZenonT(30) DEF Covered
  <1>12. TaskType'
    BY <1>1 DEF TaskType, Idle
  <1> QED BY <1>1, <1>2, <1>4, <1>9, <1>11, <1>12 DEF IInv

\* A block is imported, by on_block or from the queue.
LEMMA ImportStep ==
    ASSUME IInv, NEW r \in Root, Outcome(r) = "ok", store' = process_block_internal(store, r)
    PROVE  /\ DOMAIN store' = Fields
           /\ TreeInv(store') /\ CheckInv(store') /\ AllBacked(store')
           /\ store'.blocks_queue = store.blocks_queue
           /\ DOMAIN store'.blocks = DOMAIN store.blocks \cup {r}
           /\ store'.latest_justified =
                 Higher(store.latest_justified, Transition[r].value.latest_justified)
           /\ store'.latest_finalized =
                 Higher(store.latest_finalized, Transition[r].value.latest_finalized)
           /\ Transition[r].status = "ok"
           /\ Block[r].parent_root \in DOMAIN store.blocks
  <1>1. Transition[r].status = "ok" /\ Block[r].parent_root \in DOMAIN store.blocks
    BY DEF Outcome, IInv, TreeInv
  <1>2. /\ DOMAIN store' = Fields
        /\ store'.blocks = Put(store.blocks, r, Block[r])
        /\ store'.states = Put(store.states, r, Transition[r].value)
        /\ store'.latest_justified =
              Higher(store.latest_justified, Transition[r].value.latest_justified)
        /\ store'.latest_finalized =
              Higher(store.latest_finalized, Transition[r].value.latest_finalized)
        /\ store'.blocks_queue = store.blocks_queue
        /\ AllBacked(store')
    BY Imported DEF IInv
  <1> DEFINE t == store'
  <1>3. TreeInv(store) /\ CheckInv(store)
    BY DEF IInv
  <1> HIDE DEF t
  <1>4. TreeInv(t) /\ DOMAIN t.blocks = DOMAIN store.blocks \cup {r}
    <2>1. t.blocks = Put(store.blocks, r, Block[r]) /\ t.states = Put(store.states, r, Transition[r].value)
      BY <1>2 DEF t
    <2> QED BY <1>1, <1>3, <2>1, TreeStep
  <1>5. CheckInv(t)
    <2>1. /\ t.latest_justified =
                Higher(store.latest_justified, Transition[r].value.latest_justified)
          /\ t.latest_finalized =
                Higher(store.latest_finalized, Transition[r].value.latest_finalized)
      BY <1>2 DEF t
    <2> QED BY <1>3, <1>4, <2>1, CheckStep
  <1> QED BY <1>1, <1>2, <1>4, <1>5 DEF t

LEMMA OnBlockImportedStep ==
    ASSUME IInv, NEW r \in Root, OnBlockImported(r)
    PROVE  IInv'
  <1>1. /\ store' = process_block_internal(store, r)
        /\ Outcome(r) = "ok"
        /\ task' = [task EXCEPT !.op = "pending", !.roots = <<r>>]
        /\ UNCHANGED <<received, outbound>>
        /\ task.op = "ticking" /\ task.block = r
    BY DEF OnBlockImported, OnBlock
  <1>2. /\ DOMAIN store' = Fields
        /\ TreeInv(store') /\ CheckInv(store') /\ AllBacked(store')
        /\ store'.blocks_queue = store.blocks_queue
        /\ DOMAIN store'.blocks = DOMAIN store.blocks \cup {r}
    BY <1>1, ImportStep
  <1>3. /\ DOMAIN task' = {"op", "block", "gossip", "roots", "batch"}
        /\ task'.op = "pending" /\ task'.block = task.block
        /\ task'.roots = <<r>> /\ task'.batch = task.batch
    BY <1>1 DEF IInv, TaskType
  <1>4. TaskType'
    BY <1>3 DEF IInv, TaskType
  <1>5. Got' = Got
    BY <1>1 DEF Got
  <1>6. Sound'
    BY <1>2, <1>3, <1>5 DEF IInv, Sound
  <1>7. Covered'
    <2>1. \A p \in DOMAIN store.blocks_queue :
             <<"request", p>> \in outbound /\ p \notin DOMAIN store.blocks
      BY <1>1, ZenonT(30) DEF IInv, Covered
    <2>2. 1 \in 1..Len(task'.roots) /\ task'.roots[1] = r
      BY <1>3
    <2> QED BY <1>1, <1>2, <1>3, <2>1, <2>2, ZenonT(30) DEF Covered
  <1> QED BY <1>1, <1>2, <1>4, <1>6, <1>7 DEF IInv

LEMMA PendingBlockStep ==
    ASSUME IInv, PendingBlock
    PROVE  IInv'
  <1> DEFINE r == Head(task.batch)
  <1>1. /\ task.op = "pending" /\ task.batch # << >>
        /\ UNCHANGED <<received, outbound>>
    BY DEF PendingBlock
  <1>2. r \in Root /\ Tail(task.batch) \in Seq(Root)
    BY <1>1 DEF IInv, TaskType
  <1>3. Tail(task.batch) \in Seq(Got) /\ Got' = Got
    BY <1>1 DEF IInv, Sound, Got
  <1>4. CASE /\ Outcome(r) = "ok"
             /\ store' = process_block_internal(store, r)
             /\ task' = [task EXCEPT !.batch = Tail(@), !.roots = Append(@, r)]
    <2>1. /\ DOMAIN store' = Fields
          /\ TreeInv(store') /\ CheckInv(store') /\ AllBacked(store')
          /\ store'.blocks_queue = store.blocks_queue
          /\ DOMAIN store'.blocks = DOMAIN store.blocks \cup {r}
      BY <1>2, <1>4, ImportStep
    <2>2. /\ DOMAIN task' = {"op", "block", "gossip", "roots", "batch"}
          /\ task'.op = "pending" /\ task'.block = task.block
          /\ task'.roots = Append(task.roots, r) /\ task'.batch = Tail(task.batch)
      BY <1>1, <1>4 DEF IInv, TaskType
    <2>3. TaskType'
      BY <1>2, <2>2 DEF IInv, TaskType
    <2>4. Sound'
      BY <1>3, <2>1, <2>2 DEF IInv, Sound
    <2>5. Covered'
      <3> DEFINE n == Len(task.roots)
      <3>1. /\ n \in Nat /\ Len(task'.roots) = n + 1 /\ task'.roots[n + 1] = r
            /\ \A i \in 1..n : task'.roots[i] = task.roots[i]
        BY <1>2, <2>2 DEF IInv, TaskType
      <3>2. SUFFICES ASSUME NEW p \in DOMAIN store.blocks_queue, p \in DOMAIN store'.blocks
                     PROVE  \E i \in 1..Len(task'.roots) : task'.roots[i] = p
        BY <1>1, <2>1, <2>2, ZenonT(30) DEF IInv, Covered
      <3>3. CASE p = r
        BY <3>1, <3>3
      <3>4. CASE p # r
        <4>1. p \in DOMAIN store.blocks
          BY <2>1, <3>2, <3>4
        <4>2. PICK i \in 1..n : task.roots[i] = p
          BY <1>1, <4>1, ZenonT(30) DEF IInv, Covered
        <4> QED BY <3>1, <4>2
      <3> QED BY <3>3, <3>4
    <2> QED BY <1>1, <2>1, <2>3, <2>4, <2>5 DEF IInv
  <1>5. CASE UNCHANGED store /\ task' = [task EXCEPT !.batch = Tail(@)]
    <2>1. /\ DOMAIN task' = {"op", "block", "gossip", "roots", "batch"}
          /\ task'.op = task.op /\ task'.block = task.block
          /\ task'.roots = task.roots /\ task'.batch = Tail(task.batch)
      BY <1>5 DEF IInv, TaskType
    <2>2. TaskType'
      BY <1>2, <2>1 DEF IInv, TaskType
    <2>3. Sound'
      BY <1>3, <1>5, <2>1 DEF IInv, Sound
    <2>4. Covered'
      BY <1>1, <1>5, <2>1, ZenonT(30) DEF IInv, Covered
    <2> QED BY <1>1, <1>5, <2>2, <2>3, <2>4 DEF IInv
  <1> QED BY <1>4, <1>5 DEF PendingBlock

LEMMA PendingRootStep ==
    ASSUME IInv, PendingRoot
    PROVE  /\ IInv'
           /\ store'.blocks = store.blocks
           /\ store'.latest_justified = store.latest_justified
           /\ store'.latest_finalized = store.latest_finalized
           /\ UNCHANGED received
  <1> DEFINE n == Len(task.roots)
             parent == task.roots[n]
             Q == Without(store.blocks_queue, {parent})
  <1>1. /\ task.op = "pending" /\ task.roots # << >>
        /\ store' = unqueue(store, parent)
        /\ task' = [task EXCEPT !.roots = SubSeq(@, 1, n - 1), !.batch = Purgatory(store, parent)]
        /\ UNCHANGED <<received, outbound>>
    BY DEF PendingRoot
  <1>2. /\ DOMAIN store' = Fields
        /\ store'.blocks = store.blocks /\ store'.states = store.states
        /\ store'.latest_justified = store.latest_justified
        /\ store'.latest_finalized = store.latest_finalized
        /\ store'.blocks_queue = Q
        /\ AllBacked(store')
    <2>1. store' = [store EXCEPT !.blocks_queue = Q]
      BY <1>1 DEF unqueue
    <2>2. DOMAIN store = Fields /\ AllBacked(store)
      BY DEF IInv
    <2> HIDE DEF Q
    <2>3. QED BY <2>1, <2>2, QueueOnly, ZenonT(30)
  <1>4. TreeInv(store') /\ CheckInv(store')
    BY <1>2 DEF IInv, TreeInv, CheckInv
  <1>5. /\ DOMAIN task' = {"op", "block", "gossip", "roots", "batch"}
        /\ task'.op = "pending" /\ task'.block = task.block
        /\ task'.roots = SubSeq(task.roots, 1, n - 1)
        /\ task'.batch = Purgatory(store, parent)
    BY <1>1 DEF IInv, TaskType
  <1>6. n \in Nat \ {0} /\ task.roots \in Seq(Root)
    BY <1>1 DEF IInv, TaskType
  <1>7. /\ task'.roots \in Seq(Root) /\ Len(task'.roots) = n - 1
        /\ \A i \in 1..(n - 1) : task'.roots[i] = task.roots[i]
    BY <1>5, <1>6
  <1>8. Purgatory(store, parent) \in Seq(Got) /\ Got' = Got /\ Got \subseteq Root
    BY <1>1 DEF Purgatory, IInv, Sound, Got
  <1>9. TaskType'
    BY <1>5, <1>7, <1>8, SeqOfMore DEF IInv, TaskType
  <1>10. Sound'
    BY <1>2, <1>5, <1>8 DEF IInv, Sound, Without
  <1>11. Covered'
    <2>1. \A p \in DOMAIN store'.blocks_queue : p # parent /\ p \in DOMAIN store.blocks_queue
      BY <1>2 DEF Without
    <2>2. \A p \in DOMAIN store'.blocks_queue : <<"request", p>> \in outbound'
      BY <1>1, <2>1, ZenonT(30) DEF IInv, Covered
    <2>3. ASSUME NEW p \in DOMAIN store'.blocks_queue, p \in DOMAIN store.blocks
          PROVE  \E i \in 1..Len(task'.roots) : task'.roots[i] = p
      <3>1. PICK i \in 1..n : task.roots[i] = p
        BY <1>1, <2>1, <2>3, ZenonT(30) DEF IInv, Covered
      <3>2. i \in 1..(n - 1)
        BY <1>6, <2>1, <3>1
      <3> QED BY <1>7, <3>1, <3>2
    <2> QED BY <1>2, <1>5, <2>2, <2>3, ZenonT(30) DEF Covered
  <1> QED BY <1>1, <1>2, <1>4, <1>9, <1>10, <1>11 DEF IInv

LEMMA PanicStep ==
    ASSUME IInv, task' = Panicked, UNCHANGED <<store, received, outbound>>
    PROVE  IInv'
  <1>1. /\ DOMAIN task' = {"op", "block", "gossip", "roots", "batch"}
        /\ task'.op = "panicked" /\ task'.block = Zero
        /\ task'.roots = << >> /\ task'.batch = << >>
    BY DEF Panicked, Idle
  <1>2. TaskType'
    BY <1>1 DEF TaskType
  <1>3. Got' = Got
    BY DEF Got
  <1>4. Sound' /\ Covered'
    BY <1>1, <1>3 DEF IInv, Sound, Covered
  <1> QED BY <1>2, <1>4 DEF IInv

-----------------------------------------------------------------------------
(* The steps of the task, with what they mean to BlockTree.                *)

\* The variables of BlockTree do not change.
TreeStutters ==
    /\ Got' = Got
    /\ DOMAIN store'.blocks = DOMAIN store.blocks
    /\ store'.latest_justified = store.latest_justified
    /\ store'.latest_finalized = store.latest_finalized

LEMMA SameIsStutter ==
    ASSUME SameTree(store, store'), UNCHANGED received
    PROVE  TreeStutters
  BY DEF SameTree, TreeStutters, Got

LEMMA StutterSteps ==
    ASSUME IInv,
           \/ AdvanceClock \/ TimerFires \/ TickInterval \/ TickDone
           \/ \E a \in Gossip : ProcessAttestation(a[1], a[2], a[3])
           \/ \E r \in Root : \/ OnBlockKnown(r) \/ OnBlockQueued(r)
                              \/ OnBlockRejected(r) \/ Panic(r)
           \/ PendingRoot \/ PendingDone
           \/ UNCHANGED vars
    PROVE  IInv' /\ TreeStutters
  <1>1. ASSUME store' = store PROVE SameTree(store, store') /\ AllBacked(store')
    BY <1>1 DEF IInv, SameTree
  <1>2. CASE AdvanceClock \/ UNCHANGED vars
    BY <1>1, <1>2, QuietStep, SameIsStutter DEF AdvanceClock, vars
  <1>3. CASE TickInterval
    <2>1. /\ store' = tick_interval(store, FALSE)
          /\ UNCHANGED <<task, received, outbound>>
      BY <1>3 DEF TickInterval
    <2>2. SameTree(store, store') /\ AllBacked(store')
      BY <2>1, TickTree, ZenonT(30) DEF IInv
    <2> QED BY <2>1, <2>2, QuietStep, SameIsStutter
  <1>4. CASE \E a \in Gossip : ProcessAttestation(a[1], a[2], a[3])
    <2>1. PICK v, data, signature : ProcessAttestation(v, data, signature)
      BY <1>4
    <2>2. /\ store' = on_attestation(store, v, data, signature)
          /\ outbound \subseteq outbound'
          /\ UNCHANGED <<task, received>>
      BY <2>1 DEF ProcessAttestation
    <2>3. SameTree(store, store') /\ AllBacked(store')
      BY <2>2, GossipVote DEF IInv
    <2> QED BY <2>2, <2>3, QuietStep, SameIsStutter
  <1>5. CASE \/ TimerFires \/ TickDone \/ PendingDone
             \/ \E r \in Root : OnBlockKnown(r) \/ OnBlockRejected(r)
    <2>1. UNCHANGED <<store, received>> /\ outbound \subseteq outbound'
      BY <1>5 DEF TimerFires, TickDone, PendingDone, OnBlockKnown, OnBlockRejected
    <2>2. task' = Idle \/ task' = [Idle EXCEPT !.op = "ticking"]
      BY <1>5 DEF TimerFires, TickDone, PendingDone, OnBlockKnown, OnBlockRejected
    <2>3. task = Idle => task.op = "idle"
      BY DEF Idle
    <2>4. \/ task.op = "idle"
          \/ task.op = "ticking"
          \/ task.op = "pending" /\ task.roots = << >>
      BY <1>5, <2>3 DEF TimerFires, TickDone, PendingDone, OnBlockKnown, OnBlockRejected, OnBlock
    <2> QED BY <1>1, <2>1, <2>2, <2>4, TaskStep, SameIsStutter
  <1>6. CASE \E r \in Root : OnBlockQueued(r)
    BY <1>6, QueuedStep DEF TreeStutters, Got
  <1>7. CASE \E r \in Root : Panic(r)
    <2>1. task' = Panicked /\ UNCHANGED <<store, received, outbound>>
      BY <1>7 DEF Panic
    <2> QED BY <1>1, <2>1, PanicStep, SameIsStutter
  <1>8. CASE PendingRoot
    BY <1>8, PendingRootStep DEF TreeStutters, Got
  <1> QED BY <1>2, <1>3, <1>4, <1>5, <1>6, <1>7, <1>8

\* The steps that are Receive or Import of BlockTree.
LEMMA ReceiveStep ==
    ASSUME IInv, NEW r \in Root, NEW g, ProcessBlock(r, g)
    PROVE  IInv' /\ Tree!Receive(r)
  <1>1. TakeBlock(r, g) /\ UNCHANGED store
    BY DEF ProcessBlock, TakeBlock
  <1>2. IInv' /\ Got' = Got \cup {r}
    BY <1>1, TakeBlockStep
  <1> QED BY <1>1, <1>2 DEF Tree!Receive, Got

LEMMA ImportRefines ==
    ASSUME IInv, NEW r \in Root, r \in Got, Outcome(r) = "ok",
           store' = process_block_internal(store, r), UNCHANGED received
    PROVE  Tree!Import(r) \/ TreeStutters
  <1> DEFINE just == Transition[r].value.latest_justified
             fin  == Transition[r].value.latest_finalized
  <1>1. /\ DOMAIN store'.blocks = DOMAIN store.blocks \cup {r}
        /\ store'.latest_justified = Higher(store.latest_justified, just)
        /\ store'.latest_finalized = Higher(store.latest_finalized, fin)
        /\ Transition[r].status = "ok"
        /\ Block[r].parent_root \in DOMAIN store.blocks
    BY ImportStep
  <1>2. Got' = Got
    BY DEF Got
  <1>3. CASE r \in DOMAIN store.blocks
    <2>1. /\ Higher(store.latest_justified, just) = store.latest_justified
          /\ Higher(store.latest_finalized, fin) = store.latest_finalized
      BY <1>3, AgainStep DEF IInv
    <2> QED BY <1>1, <1>2, <1>3, <2>1 DEF TreeStutters
  <1>4. CASE r \notin DOMAIN store.blocks
    BY <1>1, <1>2, <1>4 DEF Tree!Import, Tree!Raised, Higher, Got
  <1> QED BY <1>3, <1>4

LEMMA ImportSteps ==
    ASSUME IInv, PendingBlock \/ \E r \in Root : OnBlockImported(r)
    PROVE  IInv' /\ (TreeStutters \/ \E r \in Root : Tree!Import(r))
  <1>1. CASE \E r \in Root : OnBlockImported(r)
    <2>1. PICK r \in Root : OnBlockImported(r)
      BY <1>1
    <2>2. /\ store' = process_block_internal(store, r) /\ Outcome(r) = "ok"
          /\ UNCHANGED received /\ task.block = r
      BY <2>1, Zenon DEF OnBlockImported, OnBlock
    <2>3. r \in Got
      BY <2>2, BlockAssumption DEF IInv, Sound
    <2> QED BY <2>1, <2>2, <2>3, OnBlockImportedStep, ImportRefines
  <1>2. CASE PendingBlock
    <2> DEFINE r == Head(task.batch)
    <2>1. task.batch # << >> /\ UNCHANGED received
      BY <1>2 DEF PendingBlock
    <2>2. r \in Got /\ r \in Root
      BY <2>1 DEF IInv, Sound, Got
    <2>3. CASE Outcome(r) = "ok" /\ store' = process_block_internal(store, r)
      BY <1>2, <2>1, <2>2, <2>3, PendingBlockStep, ImportRefines
    <2>4. CASE UNCHANGED store
      BY <1>2, <2>1, <2>4, PendingBlockStep DEF TreeStutters, Got
    <2> QED BY <1>2, <2>3, <2>4 DEF PendingBlock
  <1> QED BY <1>1, <1>2

LEMMA NextStep ==
    ASSUME IInv, [Next]_vars
    PROVE  IInv' /\ [Tree!Next]_(Tree!treevars)
  <1>1. ASSUME TreeStutters PROVE UNCHANGED Tree!treevars
    BY <1>1 DEF TreeStutters, Tree!treevars, Got
  <1>2. CASE \E r \in Root \ {AnchorRoot}, g \in BOOLEAN : ProcessBlock(r, g)
    BY <1>2, ReceiveStep DEF Tree!Next
  <1>3. CASE PendingBlock \/ \E r \in Root : OnBlockImported(r)
    BY <1>1, <1>3, ImportSteps DEF Tree!Next
  <1>4. CASE \/ AdvanceClock \/ TimerFires \/ TickInterval \/ TickDone
             \/ \E a \in Gossip : ProcessAttestation(a[1], a[2], a[3])
             \/ \E r \in Root : \/ OnBlockKnown(r) \/ OnBlockQueued(r)
                                \/ OnBlockRejected(r) \/ Panic(r)
             \/ PendingRoot \/ PendingDone
             \/ UNCHANGED vars
    BY <1>1, <1>4, StutterSteps
  <1> QED BY <1>2, <1>3, <1>4 DEF Next, Input, HandlerStep, HandlerBody

-----------------------------------------------------------------------------

LEMMA Invariance == Spec => []IInv
  <1>1. IInv /\ [Next]_vars => IInv'
    BY NextStep
  <1> QED BY InitIInv, <1>1, PTL DEF Spec

\* For any tree of blocks and any order of messages, the store's checkpoints
\* are the highest of the States it holds.
THEOREM Highest == Spec => []CheckpointsHighest
  <1>1. IInv => CheckpointsHighest
    <2> SUFFICES ASSUME IInv PROVE CheckpointsHighest
      OBVIOUS
    <2>1. /\ DOMAIN store.states = DOMAIN store.blocks
          /\ \A r \in DOMAIN store.states : store.states[r] = Transition[r].value
      BY DEF IInv, TreeInv
    <2>2. CheckInv(store)
      BY DEF IInv
    <2>3. store.latest_finalized.slot <= store.latest_justified.slot
      <3>1. PICK r \in DOMAIN store.blocks :
               Transition[r].value.latest_finalized.slot = store.latest_finalized.slot
        BY <2>2 DEF CheckInv
      <3>2. /\ Transition[r].value.latest_finalized.slot \in Nat
            /\ Transition[r].value.latest_justified.slot \in Nat
            /\ Transition[r].value.latest_finalized.slot <= Transition[r].value.latest_justified.slot
        BY StateFacts DEF IInv, TreeInv
      <3>3. store.latest_justified.slot \in Nat
        BY CheckpointSlots DEF IInv
      <3> QED BY <2>2, <3>1, <3>2, <3>3 DEF CheckInv
    <2> QED BY <2>1, <2>2, <2>3 DEF CheckpointsHighest, CheckInv
  <1> QED BY Invariance, <1>1, PTL

\* No block waits for a parent that was not asked for, and between handlers
\* none waits for one that is stored.
THEOREM Orphans == Spec => []OrphansRequested
  <1>1. IInv => OrphansRequested
    <2>1. task = Idle => task.op = "idle"
      BY DEF Idle
    <2> QED BY <2>1, ZenonT(30) DEF IInv, Covered, OrphansRequested, TreeInv
  <1> QED BY Invariance, <1>1, PTL

\* Every vote, known or new, has a signature or an aggregate in the store
\* (process_block_internal, on_attestation), unless it came in a block without a
\* proof for it.
THEOREM Backing == Spec => []VotesBacked
  <1>1. IInv => VotesBacked
    BY DEF IInv, AllBacked, Backed, BackedVote, VotesBacked
  <1> QED BY Invariance, <1>1, PTL

\* Every stored block has its State and its parent, and the checkpoints are
\* stored blocks.
THEOREM Closed == Spec => []TreeClosed
  <1>1. IInv => TreeClosed
    <2> SUFFICES ASSUME IInv PROVE TreeClosed
      OBVIOUS
    <2>1. TreeInv(store) /\ CheckInv(store)
      BY DEF IInv
    <2>2. ASSUME NEW r \in DOMAIN store.blocks \ {AnchorRoot}
          PROVE  /\ store.blocks[r].parent_root \in DOMAIN store.blocks
                 /\ store.blocks[store.blocks[r].parent_root].slot < store.blocks[r].slot
      BY <2>1, StateFacts DEF TreeInv
    <2>3. ASSUME NEW c \in {store.latest_justified, store.latest_finalized}
          PROVE  c.root \in DOMAIN store.blocks /\ store.blocks[c.root].slot = c.slot
      BY <2>1 DEF TreeInv, CheckInv
    <2> QED BY <2>1, <2>2, <2>3 DEF TreeClosed, TreeInv
  <1> QED BY Invariance, <1>1, PTL

\* The chain task implements BlockTree.
THEOREM TreeRefinement == Spec => ImplementsBlockTree
  <1>1. Init => Tree!Init
    <2> SUFFICES ASSUME Init PROVE Tree!Init
      OBVIOUS
    <2>1. /\ store.blocks = [r \in {AnchorRoot} |-> Block[AnchorRoot]]
          /\ store.latest_justified = [root |-> AnchorRoot, slot |-> 0]
          /\ store.latest_finalized = [root |-> AnchorRoot, slot |-> 0]
      BY InitStore
    <2>2. {r \in Root : received[r] > 0} = {}
      BY DEF Init
    <2> QED BY <2>1, <2>2 DEF Tree!Init
  <1>2. IInv /\ [Next]_vars => [Tree!Next]_(Tree!treevars)
    BY NextStep
  <1> QED BY <1>1, <1>2, Invariance, PTL DEF Spec, ImplementsBlockTree, Tree!Spec
=============================================================================
