---------------------------- MODULE ChainService ----------------------------
(***************************************************************************)
(* The chain task of a node that runs no validator (src/main.rs): a loop   *)
(* that owns the fork choice store and answers the one-second timer and    *)
(* the blocks and attestations the network task hands it.                  *)
(*                                                                         *)
(* The network may deliver what there is to deliver in any order, again,   *)
(* or never.  The task runs one handler at a time.  A handler is split     *)
(* into steps where the code loops (on_tick, process_pending_blocks); only *)
(* the handler's next step is enabled until it returns.                    *)
(***************************************************************************)
EXTENDS ForkChoice

CONSTANTS
    Gossip,     \* the attestations that are gossiped: <<validator_id, data, signature>>
    Copies,     \* Copies[r]: how often the block r may be received
    Answered,   \* blocks that may come in answers to requests, too
    MaxTime     \* the last second of the wall clock

ASSUME GossipAssumption ==
    /\ Gossip \subseteq Nat \X AttestationData \X Signature
    /\ Copies \in [Root -> Nat]
    /\ Answered \subseteq Root
    /\ MaxTime \in Nat

VARIABLES
    now,       \* wall clock, in seconds since genesis
    store,     \* the fork choice store
    task,      \* the handler that runs, with its locals
    received,  \* how often each block was received
    outbound   \* messages sent to the network task

vars == <<now, store, task, received, outbound>>

\* Handlers: "ticking" is on_tick, "pending" process_pending_blocks; block is
\* the block being handled (Zero if none) and gossip its should_gossip; roots
\* and batch are the locals of process_pending_blocks.
Idle == [op |-> "idle", block |-> Zero, gossip |-> FALSE,
         roots |-> << >>, batch |-> << >>]

Panicked == [Idle EXCEPT !.op = "panicked"]

Init ==
    /\ now = 0
    /\ store = get_forkchoice_store
    /\ task = Idle
    /\ received = [r \in Root |-> 0]
    /\ outbound = {}

-----------------------------------------------------------------------------
(* The select loop.                                                        *)

\* A handler reads the clock once, when it starts: that the clock stands
\* still while one runs takes no behaviour away.
AdvanceClock ==
    /\ task = Idle
    /\ now < MaxTime
    /\ now' = now + 1
    /\ UNCHANGED <<store, task, received, outbound>>

TimerFires ==
    /\ task = Idle
    /\ task' = [Idle EXCEPT !.op = "ticking"]
    /\ UNCHANGED <<now, store, received, outbound>>

\* ChainMessage::ProcessBlock is taken.  The handler starts with on_tick.
TakeBlock(r, should_gossip) ==
    /\ task = Idle
    /\ received' = [received EXCEPT ![r] = @ + 1]
    /\ task' = [Idle EXCEPT !.op = "ticking", !.block = r, !.gossip = should_gossip]
    /\ UNCHANGED <<now, store, outbound>>

\* A block that was gossiped or, with should_gossip false, came in an answer;
\* nothing compares an answer with what was asked for.
ProcessBlock(r, should_gossip) ==
    /\ should_gossip \/ r \in Answered
    /\ received[r] < Copies[r]
    /\ TakeBlock(r, should_gossip)

\* ChainMessage::ProcessAttestation; one that fails validation changes nothing.
ProcessAttestation(validator_id, data, signature) ==
    /\ task = Idle
    /\ validate_attestation_data(store, data)
    /\ store' = on_attestation(store, validator_id, data, signature)
    /\ outbound' = outbound \cup {<<"attestation", validator_id, data>>}
    /\ UNCHANGED <<now, task, received>>

-----------------------------------------------------------------------------
(* on_tick.                                                                *)

\* Mutant: the loop goes one interval past the clock.
TickInterval_Ahead ==
    /\ task.op = "ticking"
    /\ store.time <= now
    /\ store' = tick_interval(store, FALSE)
    /\ UNCHANGED <<now, task, received, outbound>>

\* One round of on_tick's loop.
TickInterval ==
    /\ task.op = "ticking"
    /\ store.time < now
    /\ store' = tick_interval(store, FALSE)
    /\ UNCHANGED <<now, task, received, outbound>>

\* The timer's handler is done with on_tick.
TickDone ==
    /\ task.op = "ticking"
    /\ store.time >= now
    /\ task.block = Zero
    /\ task' = Idle
    /\ UNCHANGED <<now, store, received, outbound>>

-----------------------------------------------------------------------------
(* on_block.                                                               *)

\* on_tick is done and on_block is called.
OnBlock(r) == task.op = "ticking" /\ store.time >= now /\ task.block = r

\* What is sent once on_block returned Ok.
Relayed == IF task.gossip THEN {<<"block", task.block>>} ELSE {}

OnBlockKnown(r) ==
    /\ OnBlock(r)
    /\ r \in DOMAIN store.blocks
    /\ task' = Idle
    /\ outbound' = outbound \cup Relayed
    /\ UNCHANGED <<now, store, received>>

\* on_block goes past its two early exits.
HasParent(r) ==
    /\ r \notin DOMAIN store.blocks
    /\ Block[r].parent_root \in DOMAIN store.states \cup {Zero}

\* The parent has no State: the block is queued and the parent requested.
OnBlockQueued(r) ==
    /\ OnBlock(r)
    /\ r \notin DOMAIN store.blocks
    /\ Block[r].parent_root \notin DOMAIN store.states \cup {Zero}
    /\ store' = queue_block(store, r)
    /\ outbound' = outbound \cup {<<"request", Block[r].parent_root>>}
    /\ task' = Idle
    /\ UNCHANGED <<now, received>>

\* What process_block_internal comes to.
Outcome(r) ==
    IF Block[r].parent_root \notin DOMAIN store.states THEN "err"
    ELSE Transition[r].status

OnBlockRejected(r) ==
    /\ OnBlock(r) /\ HasParent(r)
    /\ Outcome(r) = "err"
    /\ task' = Idle
    /\ UNCHANGED <<now, store, received, outbound>>

\* Mutant: the blocks that wait for r are not looked at.
OnBlockImported_Alone(r) ==
    /\ OnBlock(r) /\ HasParent(r)
    /\ Outcome(r) = "ok"
    /\ store' = process_block_internal(store, r)
    /\ task' = [task EXCEPT !.op = "pending"]
    /\ UNCHANGED <<now, received, outbound>>

OnBlockImported(r) ==
    /\ OnBlock(r) /\ HasParent(r)
    /\ Outcome(r) = "ok"
    /\ store' = process_block_internal(store, r)
    /\ task' = [task EXCEPT !.op = "pending", !.roots = <<r>>]
    /\ UNCHANGED <<now, received, outbound>>

-----------------------------------------------------------------------------
(* process_pending_blocks.                                                 *)

\* The next root: the blocks that waited for it leave the queue.
PendingRoot ==
    /\ task.op = "pending"
    /\ task.batch = << >>
    /\ task.roots # << >>
    /\ LET last == Len(task.roots)
           parent_root == task.roots[last]
       IN  /\ task' = [task EXCEPT !.roots = SubSeq(@, 1, last - 1),
                                   !.batch = Purgatory(store, parent_root)]
           /\ store' = unqueue(store, parent_root)
    /\ UNCHANGED <<now, received, outbound>>

\* The next of these blocks; one that fails is dropped.
PendingBlock ==
    /\ task.op = "pending"
    /\ task.batch # << >>
    /\ LET r == Head(task.batch)
       IN  \/ /\ Outcome(r) = "ok"
              /\ store' = process_block_internal(store, r)
              /\ task' = [task EXCEPT !.batch = Tail(@), !.roots = Append(@, r)]
           \/ /\ Outcome(r) = "err"
              /\ task' = [task EXCEPT !.batch = Tail(@)]
              /\ UNCHANGED store
    /\ UNCHANGED <<now, received, outbound>>

\* on_block returns Ok.
PendingDone ==
    /\ task.op = "pending"
    /\ task.batch = << >>
    /\ task.roots = << >>
    /\ task' = Idle
    /\ outbound' = outbound \cup Relayed
    /\ UNCHANGED <<now, store, received>>

-----------------------------------------------------------------------------

\* An assert fails in state_transition: the chain task ends, and the node
\* with it.
Panic(r) ==
    /\ \/ OnBlock(r) /\ HasParent(r)
       \/ task.op = "pending" /\ task.batch # << >> /\ Head(task.batch) = r
    /\ Outcome(r) = "panic"
    /\ task' = Panicked
    /\ UNCHANGED <<now, store, received, outbound>>

\* A step of the handler that runs, other than the end of the timer's.
HandlerBody ==
    \/ TickInterval
    \/ \E r \in Root : OnBlockKnown(r)
    \/ \E r \in Root : OnBlockQueued(r)
    \/ \E r \in Root : OnBlockRejected(r)
    \/ \E r \in Root : OnBlockImported(r)
    \/ PendingRoot
    \/ PendingBlock
    \/ PendingDone
    \/ \E r \in Root : Panic(r)

HandlerStep == TickDone \/ HandlerBody

\* What the task waits for.
Input ==
    \/ AdvanceClock
    \/ TimerFires
    \/ \E r \in Root \ {AnchorRoot}, g \in BOOLEAN : ProcessBlock(r, g)
    \/ \E a \in Gossip : ProcessAttestation(a[1], a[2], a[3])

Next == Input \/ HandlerStep

Spec == Init /\ [][Next]_vars

\* A handler that runs goes on, the clock goes on, and of the messages and
\* the timer select! does not pass one over forever (it picks at random).
\* The first condition is WF_vars(HandlerStep), with the states in which the
\* step is enabled written out; the clock's is strong because AdvanceClock is
\* not enabled inside a handler.
FairSpec ==
    /\ Spec
    /\ []<>(task.op \in {"idle", "panicked"}) \/ []<><<HandlerStep>>_vars
    /\ SF_vars(AdvanceClock)
    /\ SF_vars(TimerFires)

-----------------------------------------------------------------------------
(* Properties.                                                             *)

\* Type invariant.
TypeOK ==
    /\ now \in 0..MaxTime
    /\ store.time \in 0..now
    /\ DOMAIN store.blocks \subseteq Root
    /\ {store.head, store.safe_target} \subseteq Root
    /\ \A v \in DOMAIN store.latest_known_attestations :
          store.latest_known_attestations[v] \in AttestationData
    /\ \A v \in DOMAIN store.latest_new_attestations :
          store.latest_new_attestations[v] \in AttestationData
    /\ \A p \in DOMAIN store.blocks_queue : store.blocks_queue[p] \in Seq(Root)
    /\ task.op \in {"idle", "ticking", "pending", "panicked"}
    /\ task.block \in Root \cup {Zero}
    /\ task.roots \in Seq(Root) /\ task.batch \in Seq(Root)
    /\ received \in [Root -> Nat] /\ \A r \in Root : received[r] <= Copies[r]

\* There is a State for every block, the parent of every block but the anchor,
\* at an earlier slot, and both checkpoints, under their own slots.
TreeClosed ==
    LET blocks == store.blocks
    IN  /\ DOMAIN store.states = DOMAIN blocks
        /\ AnchorRoot \in DOMAIN blocks
        /\ \A r \in DOMAIN blocks \ {AnchorRoot} :
              /\ blocks[r].parent_root \in DOMAIN blocks
              /\ blocks[blocks[r].parent_root].slot < blocks[r].slot
        /\ \A c \in {store.latest_justified, store.latest_finalized} :
              c.root \in DOMAIN blocks /\ blocks[c.root].slot = c.slot

\* Every index the fork choice uses without a check is there: those of
\* TreeClosed, the head and the safe target.
StoreClosed ==
    TreeClosed /\ {store.head, store.safe_target} \subseteq DOMAIN store.blocks

\* The store's checkpoints are the highest of any State it holds ("reflects
\* highest seen", src/main.rs:65), and finality is not ahead of justification.
CheckpointsHighest ==
    /\ \A r \in DOMAIN store.states :
          /\ store.states[r].latest_justified.slot <= store.latest_justified.slot
          /\ store.states[r].latest_finalized.slot <= store.latest_finalized.slot
    /\ \E r \in DOMAIN store.states :
          store.states[r].latest_justified.slot = store.latest_justified.slot
    /\ \E r \in DOMAIN store.states :
          store.states[r].latest_finalized.slot = store.latest_finalized.slot
    /\ store.latest_finalized.slot <= store.latest_justified.slot

\* Line[r]: r and its ancestors.
Line(blocks) ==
    LET line[r \in DOMAIN blocks] ==
            {r} \cup (IF r = AnchorRoot THEN {} ELSE line[blocks[r].parent_root])
    IN  line

\* At every moment, between handlers and inside them, the head is what
\* LMD-GHOST asks for: a leaf that descends from the justified block such
\* that, at every fork on the way, no sibling has more known votes for its
\* subtree, nor as many and a higher root.  No handler that adds blocks,
\* votes or a checkpoint leaves a stale head behind.
HeadHeaviest ==
    LET blocks == store.blocks
        votes  == store.latest_known_attestations
        line   == Line(blocks)
        support(b) == Cardinality({v \in DOMAIN votes :
                          /\ votes[v].head.root \in DOMAIN blocks
                          /\ b \in line[votes[v].head.root]})
    IN  /\ store.latest_justified.root \in line[store.head]
        /\ \A c \in DOMAIN blocks : blocks[c].parent_root # store.head
        /\ \A b \in line[store.head], c \in DOMAIN blocks :
              /\ blocks[b].slot > store.latest_justified.slot
              /\ blocks[c].parent_root = blocks[b].parent_root
              /\ c # b
              => \/ support(b) > support(c)
                 \/ support(b) = support(c) /\ b > c

\* r and all its ancestors but the anchor are in R and are valid.
Importable(r, R) ==
    LET ok[q \in Root] ==
            \/ q = AnchorRoot
            \/ /\ q \in R
               /\ Transition[q].status = "ok"
               /\ ok[Block[q].parent_root]
    IN  ok[r]

\* Between handlers the store holds exactly the received blocks whose
\* ancestors were all received and are valid, whatever order they came in and
\* however often: no block stays behind in the queue, none gets in early.
ImportOrderIrrelevant ==
    task = Idle =>
        DOMAIN store.blocks =
            {r \in Root : Importable(r, {q \in Root : received[q] > 0})}

Tree == INSTANCE BlockTree WITH
    Parent    <- [r \in Root |-> Block[r].parent_root],
    Valid     <- {r \in Root : Transition[r].status = "ok"},
    Justifies <- [r \in Root |-> Transition[r].value.latest_justified],
    Finalizes <- [r \in Root |-> Transition[r].value.latest_finalized],
    known     <- {r \in Root : received[r] > 0},
    stored    <- DOMAIN store.blocks,
    justified <- store.latest_justified,
    finalized <- store.latest_finalized

\* The chain task implements BlockTree.  Inside process_pending_blocks a block
\* that waited twice is processed twice, without a look at what is stored
\* (handlers.rs:454); the second time must change nothing.
ImplementsBlockTree == Tree!Spec

\* No block waits for a parent that was never asked for, and none waits for a
\* parent that is stored.
OrphansRequested ==
    \A p \in DOMAIN store.blocks_queue :
        /\ <<"request", p>> \in outbound
        /\ task = Idle => p \notin DOMAIN store.states

\* v's vote data is in a block of roots that has no proof at its place.
Unproved(roots, v, data) ==
    \E r \in roots \cap Root :
        \E i \in Carrying(Block[r].attestations, v) :
            /\ Block[r].attestations[i].data = data
            /\ i > Len(Block[r].attestation_signatures)

\* Each vote that fork choice counts, or will count, has a signature at hand
\* for block building, the gossiped one or an aggregate, unless a block came
\* with fewer proofs than attestations, which nothing prevents
\* (handlers.rs:387).  Votes move between the two maps, and older ones are
\* replaced, without their signatures: these must have been kept before.
VotesBacked ==
    \A votes \in {store.latest_known_attestations, store.latest_new_attestations} :
        \A v \in DOMAIN votes :
            \/ <<v, votes[v]>> \in DOMAIN store.gossip_signatures
            \/ \E p \in store.aggregated_payloads : p[1] = v /\ p[2] = votes[v]
            \/ Unproved(DOMAIN store.blocks, v, votes[v])

\* Gossip does not move fork choice by itself: the known votes and the head
\* change only when a block is processed or in interval 3 of a slot.
GossipWaits ==
    [][\/ /\ store'.head = store.head
          /\ store'.latest_known_attestations = store.latest_known_attestations
       \/ task'.op = "pending"
       \/ store'.time = store.time + 1 /\ store'.time % INTERVALS_PER_SLOT = 3]_vars

\* A validator's known vote is never replaced by an older one: the head is to
\* be computed "using LMD-GHOST" (store.rs:234), from the latest message of each
\* validator.
LatestVoteWins ==
    [][\A v \in DOMAIN store.latest_known_attestations :
          /\ v \in DOMAIN store'.latest_known_attestations
          /\ store'.latest_known_attestations[v].slot
                >= store.latest_known_attestations[v].slot]_vars

\* on_tick and process_pending_blocks terminate: a handler returns.
HandlersReturn == (task.op # "idle") ~> (task.op \in {"idle", "panicked"})

\* A vote does not stay new: with a slot's time left on the clock, it is
\* accepted, or dropped for one from a block.
NewVotesAccepted ==
    \A v \in {a[1] : a \in Gossip} :
        /\ v \in DOMAIN store.latest_new_attestations
        /\ now + INTERVALS_PER_SLOT <= MaxTime
        ~> v \notin DOMAIN store.latest_new_attestations \/ task.op = "panicked"
=============================================================================
