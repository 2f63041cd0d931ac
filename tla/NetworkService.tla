--------------------------- MODULE NetworkService ---------------------------
(***************************************************************************)
(* The network task (networking/src/network/service.rs): a loop that owns  *)
(* the libp2p swarm and the table of peers, dials, gossips and asks for    *)
(* blocks on behalf of the chain task.  The two tasks talk over channels.  *)
(*                                                                         *)
(* libp2p is external.  What the code relies on is modelled: a dial that   *)
(* was started either succeeds, if the peer is at that address, or fails;  *)
(* connections are opened by either side, up to a limit per peer, and      *)
(* closed at any time; gossip arrives in any order and again; a request is *)
(* answered or fails.  Every event is handled before the next; only the    *)
(* loop of connect_to_peers is split, into one step per address.           *)
(***************************************************************************)
EXTENDS ReqResp, Discovery, FiniteSets, Bags

CONSTANTS
    Peer,               \* the other nodes
    ListensAt,          \* ListensAt[p]: the ip and port where p can be reached
    BootnodeArgs,       \* the bootnode arguments, a sequence
    DiscoveryEnabled,
    Discoverable,       \* records that discv5 may find
    GossipData,         \* gossip of the other nodes: [kind, data]
    ChainData,          \* what the chain task may send: [kind, data]
    MaxPendingOutgoing, \* dials in progress (connection_limits)
    MaxPerPeer,         \* established connections with one peer
    MaxInFlight         \* bound on messages and requests under way

ASSUME NetworkAssumption ==
    /\ IsFiniteSet(Peer)
    /\ None \notin Peer
    /\ DiscoveryEnabled \in BOOLEAN
    /\ \A m \in ChainData : m.kind = "request" => m.data \in RootBytes
    /\ MaxPendingOutgoing \in Nat \ {0}
    /\ MaxPerPeer \in Nat \ {0}
    /\ MaxInFlight \in Nat

VARIABLES
    discovery,    \* whether the discovery service runs
    peer_table,   \* what the task believes of the peers it has heard of
    peer_count,   \* the shared counter that the chain task prints
    peers,        \* addresses that connect_to_peers has still to go through
    dialing,      \* addresses being dialed, a bag
    connections,  \* connections[p]: open connections with p
    to_network,   \* channel from the chain task, first in, first out
    asked,        \* requests that have no answer yet, a bag
    to_chain,     \* messages on their way to the chain task, a bag
    published     \* history: what was published by gossip

swarm == <<peer_table, peer_count, peers, dialing, connections>>

messages == <<to_network, asked, to_chain, published>>

netvars == <<discovery, swarm, messages>>

\* The bag of x alone.
One(x) == SetToBag({x})

\* "none": not in the table.  The code never sets Disconnecting.
States == {"none", "disconnected", "connecting", "connected"}

Connected(table) == {p \in Peer : table[p] = "connected"}

\* A discovery service that cannot be started is done without.
NetworkInit ==
    /\ discovery \in {DiscoveryEnabled, FALSE}
    /\ peer_table = [p \in Peer |-> "none"]
    /\ peer_count = 0
    /\ peers = << >>
    /\ dialing = EmptyBag
    /\ connections = [p \in Peer |-> 0]
    /\ to_network = << >>
    /\ asked = EmptyBag
    /\ to_chain = EmptyBag
    /\ published = {}

\* The task waits in select!.
Waiting == peers = << >>

-----------------------------------------------------------------------------
(* Dialing.                                                                *)

bootnodes == BootnodeAddresses(BootnodeArgs)

\* The reconnect timer.
Reconnect ==
    /\ Waiting
    /\ peers' = bootnodes
    /\ UNCHANGED <<discovery, peer_table, peer_count, dialing, connections, messages>>

\* Discovery found a record.
Discovered(enr) ==
    /\ Waiting
    /\ discovery
    /\ peers' = enr_to_multiaddr(enr)
    /\ UNCHANGED <<discovery, peer_table, peer_count, dialing, connections, messages>>

Pending(dials) == BagCardinality(dials)

\* Mutant: a dial in progress is not repeated.
Dials_Once(addr) ==
    /\ addr.peer \in Peer
    /\ peer_table[addr.peer] \notin {"connected", "connecting"}
    /\ Pending(dialing) < MaxPendingOutgoing

\* Mutant: a dial past the limit is taken for started.
Dials_Unlimited(addr) ==
    /\ addr.peer \in Peer
    /\ peer_table[addr.peer] # "connected"

\* Mutant: connected peers are dialed too.
Dials_Always(addr) ==
    /\ addr.peer \in Peer
    /\ Pending(dialing) < MaxPendingOutgoing

\* An address is dialed unless it names no peer, or this node itself, or its
\* peer is connected; past the limit of pending dials it is refused.
Dials(addr) ==
    /\ addr.peer \in Peer
    /\ peer_table[addr.peer] # "connected"
    /\ Pending(dialing) < MaxPendingOutgoing

\* One round of connect_to_peers' loop.
ConnectToPeer ==
    /\ peers # << >>
    /\ peers' = Tail(peers)
    /\ LET addr == Head(peers)
       IN  IF Dials(addr)
           THEN /\ dialing' = dialing (+) One(addr)
                /\ peer_table' = [peer_table EXCEPT ![addr.peer] = "connecting"]
           ELSE UNCHANGED <<dialing, peer_table>>
    /\ UNCHANGED <<discovery, peer_count, connections, messages>>

-----------------------------------------------------------------------------
(* Swarm events.                                                           *)

\* peer_table is updated and the connected peers counted again.
SetState(p, state) ==
    /\ peer_table' = [peer_table EXCEPT ![p] = state]
    /\ peer_count' = Cardinality(Connected(peer_table'))

Reaches(addr) == ListensAt[addr.peer] = [ip |-> addr.ip, port |-> addr.port]

\* This node dialed addr.  (It then sends a Status request, whose answer is
\* only logged.)
DialSucceeds(addr) ==
    /\ Waiting
    /\ BagIn(addr, dialing)
    /\ Reaches(addr)
    /\ connections[addr.peer] < MaxPerPeer
    /\ connections' = [connections EXCEPT ![addr.peer] = @ + 1]
    /\ dialing' = dialing (-) One(addr)
    /\ SetState(addr.peer, "connected")
    /\ UNCHANGED <<discovery, peers, messages>>

\* The other side dialed.
IncomingConnection(p) ==
    /\ Waiting
    /\ connections[p] < MaxPerPeer
    /\ connections' = [connections EXCEPT ![p] = @ + 1]
    /\ SetState(p, "connected")
    /\ UNCHANGED <<discovery, peers, dialing, messages>>

\* Mutant: the table is left alone.
ConnectionClosed_Keep(p) ==
    /\ Waiting
    /\ connections[p] > 0
    /\ connections' = [connections EXCEPT ![p] = @ - 1]
    /\ UNCHANGED <<discovery, peer_table, peer_count, peers, dialing, messages>>

\* Whatever other connections there are with p.
ConnectionClosed(p) ==
    /\ Waiting
    /\ connections[p] > 0
    /\ connections' = [connections EXCEPT ![p] = @ - 1]
    /\ SetState(p, "disconnected")
    /\ UNCHANGED <<discovery, peers, dialing, messages>>

\* Only logged.
OutgoingConnectionError(addr) ==
    /\ Waiting
    /\ BagIn(addr, dialing)
    /\ dialing' = dialing (-) One(addr)
    /\ UNCHANGED <<discovery, peer_table, peer_count, peers, connections, messages>>

-----------------------------------------------------------------------------
(* Gossip.                                                                 *)

ChainMessage(kind, data, should_gossip) ==
    [kind |-> kind, data |-> data, should_gossip |-> should_gossip]

\* A message of a topic arrives and goes to the chain task.  (One that cannot
\* be decoded is only logged.)
GossipMessage(m) ==
    /\ Waiting
    /\ \E p \in Peer : connections[p] > 0
    /\ to_chain' = to_chain (+) One(ChainMessage(m.kind, m.data, TRUE))
    /\ UNCHANGED <<discovery, swarm, to_network, asked, published>>

\* dispatch_outbound_request for a block or an attestation.  gossipsub may
\* refuse it (a duplicate, no peer on the topic), which is only logged.
Publish ==
    /\ Waiting
    /\ to_network # << >>
    /\ Head(to_network).kind # "request"
    /\ to_network' = Tail(to_network)
    /\ published' \in {published} \cup
         (IF \E p \in Peer : connections[p] > 0
          THEN {published \cup {Head(to_network)}} ELSE {})
    /\ UNCHANGED <<discovery, swarm, asked, to_chain>>

-----------------------------------------------------------------------------
(* Requests for blocks.                                                    *)

Request(p, r, proto) ==
    [peer |-> p, root |-> r, protocol |-> proto,
     wire |-> encode_request(BlocksByRootRequest(<<r>>))]

\* dispatch_outbound_request for a missing block: to a connected peer at
\* random, under a protocol that libp2p settles with the peer; with no peer
\* the request is dropped.
Dispatch ==
    /\ Waiting
    /\ to_network # << >>
    /\ Head(to_network).kind = "request"
    /\ to_network' = Tail(to_network)
    /\ LET r == Head(to_network).data
       IN  \/ /\ Sendable(<<r>>)
              /\ \E p \in Connected(peer_table), proto \in Protocol :
                    asked' = asked (+) One(Request(p, r, proto))
           \/ Connected(peer_table) = {} /\ UNCHANGED asked
    /\ UNCHANGED <<discovery, swarm, to_chain, published>>

\* What a peer may answer to what it read: to a request for blocks none, as
\* this program does itself, or any one (of several in one answer the reader
\* makes one at most, see DecodeBlock), asked for or not; to a Status its own;
\* nothing to what it could not read.
Answers(request) ==
    CASE request.kind = "roots_request" ->
            {BlocksByRootResponse(<< >>)} \cup {BlocksByRootResponse(<<b>>) : b \in BlockBytes}
      [] request.kind = "status_request" -> {StatusResponse(DefaultStatus)}
      [] OTHER -> {}

\* Mutant: requested blocks are gossiped on.
Deliver_Loud(channel, blocks) ==
    FoldLeft(LAMBDA ch, b : ch (+) One(ChainMessage("block", b, TRUE)), channel, blocks)

\* The task that is spawned sends the blocks one by one.
Deliver(channel, blocks) ==
    FoldLeft(LAMBDA ch, b : ch (+) One(ChainMessage("block", b, FALSE)), channel, blocks)

\* The answer to the request q arrives, on an open connection, and its blocks
\* go to the chain task, without a look at what was asked for; any other answer
\* is only logged.
Response(q) ==
    /\ Waiting
    /\ BagIn(q, asked)
    /\ connections[q.peer] > 0
    /\ asked' = asked (-) One(q)
    /\ \E a \in Answers(decode_request(q.protocol, q.wire)) :
       \E m \in decode_response(q.protocol, encode_response(a)) :
          to_chain' = IF m.kind = "blocks_response"
                      THEN Deliver(to_chain, m.blocks) ELSE to_chain
    /\ UNCHANGED <<discovery, swarm, to_network, published>>

\* Only logged: nothing is asked again.
OutboundFailure(q) ==
    /\ Waiting
    /\ BagIn(q, asked)
    /\ asked' = asked (-) One(q)
    /\ UNCHANGED <<discovery, swarm, to_network, to_chain, published>>

-----------------------------------------------------------------------------

\* Everything but messages on the channels' far ends.
TaskNext ==
    \/ Reconnect
    \/ \E enr \in Discoverable : Discovered(enr)
    \/ ConnectToPeer
    \/ \E addr \in BagToSet(dialing) : DialSucceeds(addr)
    \/ \E addr \in BagToSet(dialing) : OutgoingConnectionError(addr)
    \/ \E p \in Peer : IncomingConnection(p)
    \/ \E p \in Peer : ConnectionClosed(p)
    \/ Publish
    \/ Dispatch
    \/ \E q \in BagToSet(asked) : Response(q)
    \/ \E q \in BagToSet(asked) : OutboundFailure(q)

InFlight == Len(to_network) + BagCardinality(asked) + BagCardinality(to_chain)

\* The chain task sends a message.
ChainSends(m) ==
    /\ InFlight < MaxInFlight
    /\ to_network' = Append(to_network, m)
    /\ UNCHANGED <<discovery, swarm, asked, to_chain, published>>

\* It takes one.
ChainTakes(m) ==
    /\ BagIn(m, to_chain)
    /\ to_chain' = to_chain (-) One(m)
    /\ UNCHANGED <<discovery, swarm, to_network, asked, published>>

NetworkNext ==
    \/ TaskNext
    \/ \E m \in GossipData : InFlight < MaxInFlight /\ GossipMessage(m)
    \/ \E m \in ChainData : ChainSends(m)
    \/ \E m \in BagToSet(to_chain) : ChainTakes(m)

NetworkSpec == NetworkInit /\ [][NetworkNext]_netvars

\* The reconnect timer keeps firing and the loop over the addresses goes on; a
\* dial comes to an end, and a peer that is dialed again and again at the
\* address where it listens answers in the end.
NetworkFairSpec ==
    /\ NetworkSpec
    /\ WF_netvars(ConnectToPeer)
    /\ SF_netvars(Reconnect)
    /\ \A addr \in ToSet(bootnodes) :
          /\ SF_netvars(DialSucceeds(addr) \/ OutgoingConnectionError(addr))
          /\ addr.peer \in Peer => SF_netvars(DialSucceeds(addr))

-----------------------------------------------------------------------------
(* The variables keep their types; the swarm's limits hold.                *)
NetworkTypeOK ==
    /\ discovery \in BOOLEAN
    /\ peer_table \in [Peer -> States]
    /\ peer_count \in 0..Cardinality(Peer)
    /\ Pending(dialing) <= MaxPendingOutgoing
    /\ \A addr \in BagToSet(dialing) : addr.peer \in Peer
    /\ connections \in [Peer -> 0..MaxPerPeer]
    /\ \A q \in BagToSet(asked) :
          q.peer \in Peer /\ q.root \in RootBytes /\ q.protocol \in Protocol
    /\ \A m \in BagToSet(to_chain) :
          m.kind \in {"block", "attestation"} /\ m.should_gossip \in BOOLEAN

(* The shared counter that the chain task prints is the number of entries  *)
(* of peer_table that are Connected, although dialing changes the table    *)
(* without counting again (service.rs:685 against 353-359).                *)
PeerCountExact == peer_count = Cardinality(Connected(peer_table))

\* How often x is in a bag.
Times(x, bag) == IF BagIn(x, bag) THEN bag[x] ELSE 0

(* A request for blocks goes to a peer with an open connection: the table  *)
(* that get_random_connected_peer trusts may miss connections (a peer with *)
(* two of them, one closed), but never reports one that is gone.           *)
RequestsToLivePeers ==
    [][\A q \in BagToSet(asked') :
          Times(q, asked') > Times(q, asked) => connections[q.peer] > 0]_netvars

\* Peers that a bootnode argument tells how to reach: a full multiaddr, the
\* record the peer's own client publishes, or one with QUIC ports only.
TellsAddress(b, p) ==
    \/ b.kind = "multiaddr" /\ b.addr = Address(ListensAt[p].ip, ListensAt[p].port, p)
    \/ /\ b.kind = "enr"
       /\ b.enr.peer = p
       /\ b.enr.key = "secp256k1"
       /\ \E ip4 \in BOOLEAN, udp_port \in {b.enr.fields.udp4, b.enr.fields.udp6} :
             LET own == build_enr(p, ListensAt[p].ip, ip4, udp_port, ListensAt[p].port)
             IN  b.enr \in {own, [own EXCEPT
                    !.fields.quic4 = own.fields.tcp4, !.fields.tcp4 = None,
                    !.fields.quic6 = own.fields.tcp6, !.fields.tcp6 = None]}

ReachableBootnodes ==
    {p \in Peer : \E i \in 1..Len(BootnodeArgs) :
        \E b \in ToSet(parse_bootnode_argument(BootnodeArgs[i])) : TellsAddress(b, p)}

(* Whatever dials fail and connections close, a bootnode whose address was *)
(* given, as a multiaddr or in a record, is Connected again and again: the *)
(* conversions keep the address where it listens, and no entry of the table *)
(* stops connect_to_peers from dialing.                                    *)
BootnodesReconnect ==
    \A p \in ReachableBootnodes : []<>(peer_table[p] = "connected")

(* Both kinds of request share one behaviour (service.rs:838), so libp2p   *)
(* may agree on either protocol.  Under its own, a request for a parent is *)
(* read as it was sent; under the other one it is an error, never a Status *)
(* (no number of roots is as long as one).                                 *)
RequestsUnderstood ==
    \A q \in BagToSet(asked) :
        decode_request(q.protocol, q.wire) =
            IF q.protocol = "blocks_by_root"
            THEN BlocksByRootRequest(<<q.root>>) ELSE Error
=============================================================================
