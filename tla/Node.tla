-------------------------------- MODULE Node --------------------------------
(***************************************************************************)
(* A node that follows the chain: the chain task of ChainService and the   *)
(* network task of NetworkService, joined by their channels (src/main.rs). *)
(* What the chain task sends waits in to_network; gossip and the answers   *)
(* to requests are on their way to it in to_chain, in any order, because   *)
(* an answer is handed over by a task of its own.                          *)
(*                                                                         *)
(* On the wire a block and its root are byte strings, Encoded(r) and       *)
(* Bytes(r).                                                               *)
(***************************************************************************)
EXTENDS ChainService, NetworkService

CONSTANT GossipCopies   \* GossipCopies[r]: how often block r may come by gossip

VARIABLES
    gossiped,   \* history: what came by gossip, a bag
    lost        \* history: roots that were under way and got lost

Bytes(r) == [i \in 1..RootLen |-> r]

Encoded(r) == [i \in 1..(RootLen + 1) |-> r]

RootOf(bytes) == bytes[1]

ASSUME WireAssumption ==
    /\ RootBytes = {Bytes(r) : r \in Root}
    /\ BlockBytes = {Encoded(r) : r \in Root}
    /\ GossipCopies \in [Root -> Nat]

nodevars == <<vars, netvars, gossiped, lost>>

NodeInit ==
    /\ Init
    /\ NetworkInit
    /\ gossiped = EmptyBag
    /\ lost = {}

-----------------------------------------------------------------------------
(* The chain task sends.                                                   *)

Sends(msgs) ==
    /\ to_network' = to_network \o msgs
    /\ UNCHANGED <<discovery, swarm, asked, to_chain, published, gossiped, lost>>

\* GossipBlockWithAttestation, if should_gossip.
RelayBlock ==
    IF task.gossip THEN <<[kind |-> "block", data |-> Encoded(task.block)]>> ELSE << >>

\* Mutant: the block itself is asked for.
RequestParent_Self(r) == <<[kind |-> "request", data |-> Bytes(r)]>>

\* RequestBlocksByRoot.
RequestParent(r) == <<[kind |-> "request", data |-> Bytes(Block[r].parent_root)]>>

\* A step of the chain task with what it sends.
ChainStep ==
    \/ \E r \in Root : OnBlockQueued(r) /\ Sends(RequestParent(r))
    \/ \E r \in Root : OnBlockKnown(r) /\ Sends(RelayBlock)
    \/ PendingDone /\ Sends(RelayBlock)
    \/ /\ \/ TickInterval \/ TickDone \/ PendingRoot \/ PendingBlock
          \/ \E r \in Root : OnBlockRejected(r) \/ OnBlockImported(r) \/ Panic(r)
       /\ Sends(<< >>)

Clock == (AdvanceClock \/ TimerFires) /\ Sends(<< >>)

-----------------------------------------------------------------------------
(* The chain task receives.                                                *)

Taken(m) ==
    /\ BagIn(m, to_chain)
    /\ to_chain' = to_chain (-) One(m)
    /\ UNCHANGED <<discovery, swarm, asked, published, gossiped, lost>>

TakeBlockMessage(m) ==
    /\ m.kind = "block"
    /\ Taken(m)
    /\ TakeBlock(RootOf(m.data), m.should_gossip)
    /\ UNCHANGED to_network

\* An attestation that passes validation is gossiped on.
TakeAttestation(m) ==
    /\ m.kind = "attestation"
    /\ Taken(m)
    /\ \/ /\ ProcessAttestation(m.data[1], m.data[2], m.data[3])
          /\ to_network' = Append(to_network, [kind |-> "attestation", data |-> m.data])
       \/ /\ task = Idle
          /\ ~validate_attestation_data(store, m.data[2])
          /\ UNCHANGED <<vars, to_network>>

Receive == \E m \in BagToSet(to_chain) : TakeBlockMessage(m) \/ TakeAttestation(m)

-----------------------------------------------------------------------------
(* The network task.                                                       *)

\* A request for r, or the block, is under way to the chain task.
UnderWay(r) ==
    \/ \E i \in 1..Len(to_network) :
          to_network[i] = [kind |-> "request", data |-> Bytes(r)]
    \/ \E q \in BagToSet(asked) : q.root = Bytes(r)
    \/ \E m \in BagToSet(to_chain) : m.kind = "block" /\ m.data = Encoded(r)

\* When the chain task has panicked the whole node ends.
Running == task.op # "panicked"

\* How often block r was handed over to the chain task, by gossip or as an
\* answer; answers are bounded by Copies.
HandedOver(r) ==
    received[r] + Times(ChainMessage("block", Encoded(r), TRUE), to_chain)
                + Times(ChainMessage("block", Encoded(r), FALSE), to_chain)

NetworkStep ==
    /\ Running
    /\ TaskNext
    /\ lost' = lost \cup {r \in Root : UnderWay(r) /\ ~UnderWay(r)'}
    /\ UNCHANGED <<vars, gossiped>>
    /\ \A r \in Root : HandedOver(r)' > HandedOver(r) => HandedOver(r)' <= Copies[r]

\* Other nodes gossip m, at most n times.
Arrives(m, n) ==
    /\ Running
    /\ Times(m, gossiped) < n
    /\ GossipMessage(m)
    /\ gossiped' = gossiped (+) One(m)
    /\ UNCHANGED <<vars, lost>>

GossipBlock(r) == Arrives([kind |-> "block", data |-> Encoded(r)], GossipCopies[r])

GossipAttestation(a) == Arrives([kind |-> "attestation", data |-> a], 1)

NodeNext ==
    \/ ChainStep
    \/ Clock
    \/ Receive
    \/ NetworkStep
    \/ \E r \in Root : GossipBlock(r)
    \/ \E a \in Gossip : GossipAttestation(a)

NodeSpec == NodeInit /\ [][NodeNext]_nodevars

\* The network task takes a message of the chain task; a request ends.
TakesRequest == Len(to_network') < Len(to_network)

RequestEnds == BagCardinality(asked') < BagCardinality(asked)

\* Both tasks go on: weak fairness of ChainStep and of ConnectToPeer, and
\* strong fairness of Receive, of Publish or Dispatch, and of Response or
\* OutboundFailure, with the states in which the action is enabled written
\* out.  select! picks at random among what is ready, so it does not pass over
\* a message, an outbound request or an answer for ever; that the network task
\* is in the middle of connect_to_peers, or the chain task in a handler, only
\* delays them.  A request ends with an answer or a failure.
NodeFairSpec ==
    /\ NodeSpec
    /\ []<>(task.op \in {"idle", "panicked"}) \/ []<><<ChainStep>>_nodevars
    /\ []<>(peers = << >> \/ ~Running) \/ []<><<ConnectToPeer>>_nodevars
    /\ <>[](task # Idle \/ to_chain = EmptyBag) \/ []<><<Receive>>_nodevars
    /\ \/ <>[](~Running \/ peers # << >> \/ to_network = << >>)
       \/ []<><<TakesRequest>>_nodevars
    /\ \/ <>[](~Running \/ peers # << >> \/ asked = EmptyBag)
       \/ []<><<RequestEnds>>_nodevars

-----------------------------------------------------------------------------
(* Properties.                                                             *)

\* Whenever blocks wait for a parent, something is being done about it: it is
\* asked for, on its way, being handled, or waits for its own parent in turn;
\* or it is not valid, or the request or the answer was lost (after which the
\* code does not ask again).
OrphansPursued ==
    \A p \in DOMAIN store.blocks_queue :
        \/ UnderWay(p)
        \/ task.block = p
        \/ \E q \in DOMAIN store.blocks_queue :
              \E i \in 1..Len(store.blocks_queue[q]) : store.blocks_queue[q][i] = p
        \/ task.op = "pending" /\ (p \in DOMAIN store.blocks
                                   \/ \E i \in 1..Len(task.batch) : task.batch[i] = p)
        \/ p \in lost
        \/ Transition[p].status # "ok"
        \/ ~Running

\* A node publishes only what came by gossip, and only blocks that it has
\* imported: "Don't re-gossip requested blocks" (service.rs:555), although a
\* block and an answer that contains it may cross.
OnlyGossipRelayed ==
    \A m \in published :
        /\ BagIn(m, gossiped)
        /\ m.kind = "block" => RootOf(m.data) \in DOMAIN store.blocks

\* The blocks that were received are imported, with all their ancestors, if
\* these are valid.
CaughtUp ==
    \A r \in Root : received[r] > 0 /\ Importable(r, Root) => r \in DOMAIN store.blocks

\* The node catches up again and again if nothing it asks for is lost: the
\* ancestors of a block are asked for one by one, each when its child arrives.
SyncCompletes == [](lost = {}) => []<>CaughtUp
=============================================================================
