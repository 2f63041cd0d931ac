---------------------------- MODULE NetworkProofs ----------------------------
(***************************************************************************)
(* Proofs about NetworkService, for any peers, addresses and limits: the   *)
(* counter is exact, and block requests go to peers that are connected.    *)
(***************************************************************************)
EXTENDS NetworkService, FiniteSetTheorems, TLAPS

\* A bag, as far as it matters here.
BagOK(bag) == \A x \in DOMAIN bag : bag[x] \in Nat \ {0}

\* The table reports no connection that is gone.
TableSound ==
    /\ peer_table \in [Peer -> States]
    /\ connections \in [Peer -> Nat]
    /\ \A p \in Peer : peer_table[p] = "connected" => connections[p] > 0

\* Only addresses of peers are dialed.
DialsPeers(dials) == \A addr \in BagToSet(dials) : addr.peer \in Peer

\* The inductive invariant.
IInv == TableSound /\ PeerCountExact /\ DialsPeers(dialing) /\ BagOK(asked)

-----------------------------------------------------------------------------
(* Bags.                                                                   *)

\* Adding an element raises its own count only.
LEMMA AddOne ==
    ASSUME NEW bag, BagOK(bag), NEW x
    PROVE  /\ BagOK(bag (+) One(x))
           /\ \A y : Times(y, bag (+) One(x)) > Times(y, bag) => y = x
  BY DEF BagOK, (+), One, SetToBag, Times, BagIn, BagToSet

LEMMA AddDial ==
    ASSUME NEW dials, DialsPeers(dials), NEW addr, addr.peer \in Peer
    PROVE  DialsPeers(dials (+) One(addr))
  BY DEF DialsPeers, (+), One, SetToBag, BagToSet

LEMMA RemoveDial ==
    ASSUME NEW dials, DialsPeers(dials), NEW addr
    PROVE  DialsPeers(dials (-) One(addr))
  BY DEF DialsPeers, (-), One, SetToBag, BagToSet

\* Removing an element raises no count.
LEMMA RemoveOne ==
    ASSUME NEW bag, BagOK(bag), NEW x
    PROVE  /\ BagOK(bag (-) One(x))
           /\ \A y : ~(Times(y, bag (-) One(x)) > Times(y, bag))
  BY DEF BagOK, (-), One, SetToBag, Times, BagIn, BagToSet

-----------------------------------------------------------------------------
(* The invariant.                                                          *)

\* Who is connected does not change with an entry that neither was nor becomes
\* Connected.
LEMMA NotConnected ==
    ASSUME NEW table \in [Peer -> States], NEW p \in Peer, table[p] # "connected",
           NEW state \in States \ {"connected"}
    PROVE  Connected([table EXCEPT ![p] = state]) = Connected(table)
  BY DEF Connected, States

LEMMA InitIInv == NetworkInit => IInv
  <1> SUFFICES ASSUME NetworkInit PROVE IInv
    OBVIOUS
  <1>1. TableSound
    BY DEF NetworkInit, TableSound, States
  <1>2. Connected(peer_table) = {}
    BY DEF NetworkInit, Connected
  <1>3. PeerCountExact
    BY <1>2, FS_EmptySet, Zenon DEF NetworkInit, PeerCountExact
  <1>4. BagOK(asked)
    BY DEF NetworkInit, BagOK, EmptyBag, SetToBag
  <1>5. DialsPeers(dialing)
    BY DEF NetworkInit, DialsPeers, EmptyBag, SetToBag, BagToSet
  <1> QED BY <1>1, <1>3, <1>4, <1>5 DEF IInv

\* A dial that is started is not one of a Connected peer: table and count
\* stay in step.
LEMMA ConnectToPeerIInv == IInv /\ ConnectToPeer => IInv'
  <1> SUFFICES ASSUME IInv, ConnectToPeer PROVE IInv'
    OBVIOUS
  <1> DEFINE addr == Head(peers)
  <1> USE DEF IInv
  <1>1. CASE ~Dials(addr)
    BY <1>1 DEF ConnectToPeer, TableSound, PeerCountExact, messages
  <1>2. CASE Dials(addr)
    <2>1. /\ addr.peer \in Peer
          /\ peer_table[addr.peer] # "connected"
          /\ peer_table' = [peer_table EXCEPT ![addr.peer] = "connecting"]
          /\ dialing' = dialing (+) One(addr)
          /\ UNCHANGED <<peer_count, connections, asked>>
      BY <1>2 DEF ConnectToPeer, Dials, messages
    <2>2. TableSound'
      BY <2>1 DEF TableSound, States
    <2>3. Connected(peer_table') = Connected(peer_table)
      BY <2>1, NotConnected, Zenon DEF TableSound, States
    <2>4. PeerCountExact'
      BY <2>1, <2>3 DEF PeerCountExact
    <2>5. DialsPeers(dialing')
      BY <2>1, AddDial
    <2> QED BY <2>1, <2>2, <2>4, <2>5
  <1> QED BY <1>1, <1>2

\* A connection is opened: the entry says so.
LEMMA OpenedIInv ==
    ASSUME IInv, NEW p \in Peer, UNCHANGED asked, DialsPeers(dialing'), SetState(p, "connected"),
           connections' = [connections EXCEPT ![p] = @ + 1]
    PROVE  IInv'
  <1>1. TableSound'
    BY DEF IInv, TableSound, SetState, States
  <1> QED BY <1>1 DEF IInv, PeerCountExact, SetState

\* One is closed: whatever others there are, the entry says Disconnected.
LEMMA ClosedIInv ==
    ASSUME IInv, NEW p \in Peer, ConnectionClosed(p)
    PROVE  IInv'
  <1>1. TableSound'
    BY DEF IInv, TableSound, ConnectionClosed, SetState, States
  <1> QED BY <1>1 DEF IInv, PeerCountExact, ConnectionClosed, SetState, messages

\* The swarm is left alone.
LEMMA SwarmUnchanged ==
    ASSUME IInv, UNCHANGED <<peer_table, peer_count, connections>>,
           DialsPeers(dialing'), BagOK(asked')
    PROVE  IInv'
  BY DEF IInv, TableSound, PeerCountExact

\* Dispatch leaves the swarm alone and adds a request to a peer that the table
\* reports as Connected, so one with a connection.
LEMMA DispatchStep ==
    ASSUME IInv, Dispatch
    PROVE  /\ IInv'
           /\ \A q : Times(q, asked') > Times(q, asked) => connections[q.peer] > 0
  <1> DEFINE r == Head(to_network).data
  <1>1. UNCHANGED <<peer_table, peer_count, connections, dialing>>
    BY DEF Dispatch, swarm
  <1>2. CASE UNCHANGED asked
    <2>1. \A q : ~(Times(q, asked') > Times(q, asked))
      BY <1>2 DEF IInv, BagOK, Times, BagIn, BagToSet
    <2> QED BY <1>1, <1>2, <2>1, SwarmUnchanged DEF IInv
  <1>3. CASE \E p \in Connected(peer_table), proto \in Protocol :
                 asked' = asked (+) One(Request(p, r, proto))
    <2>1. PICK p \in Connected(peer_table), proto \in Protocol :
                 asked' = asked (+) One(Request(p, r, proto))
      BY <1>3
    <2>2. connections[p] > 0
      BY DEF IInv, TableSound, Connected
    <2>3. Request(p, r, proto).peer = p
      BY DEF Request
    <2>4. BagOK(asked') /\ \A q : Times(q, asked') > Times(q, asked) => q = Request(p, r, proto)
      BY <2>1, AddOne DEF IInv
    <2> QED BY <1>1, <2>2, <2>3, <2>4, SwarmUnchanged DEF IInv
  <1> QED BY <1>2, <1>3 DEF Dispatch

\* A request comes to an end.
LEMMA EndedStep ==
    ASSUME IInv, NEW q, Response(q) \/ OutboundFailure(q)
    PROVE  /\ IInv'
           /\ \A x : ~(Times(x, asked') > Times(x, asked))
  <1>1. /\ UNCHANGED <<peer_table, peer_count, connections, dialing>>
        /\ asked' = asked (-) One(q)
    BY DEF Response, OutboundFailure, swarm
  <1> QED BY <1>1, RemoveOne, SwarmUnchanged DEF IInv

\* Every other step leaves the requests alone.
LEMMA QuietStep ==
    ASSUME IInv, UNCHANGED asked
    PROVE  \A q : ~(Times(q, asked') > Times(q, asked))
  BY DEF IInv, BagOK, Times, BagIn, BagToSet

LEMMA NextIInv == IInv /\ [NetworkNext]_netvars => IInv' /\
    \A q : Times(q, asked') > Times(q, asked) => connections[q.peer] > 0
  <1> SUFFICES ASSUME IInv, [NetworkNext]_netvars
               PROVE  /\ IInv'
                      /\ \A q : Times(q, asked') > Times(q, asked) => connections[q.peer] > 0
    OBVIOUS
  <1>1. ASSUME UNCHANGED <<peer_table, peer_count, connections, dialing, asked>>
        PROVE  IInv' /\ UNCHANGED asked
    BY <1>1, SwarmUnchanged DEF IInv
  <1>2. CASE UNCHANGED netvars
    BY <1>1, <1>2, QuietStep DEF netvars, swarm, messages
  <1>3. CASE Reconnect \/ \E enr \in Discoverable : Discovered(enr)
    BY <1>1, <1>3, QuietStep DEF Reconnect, Discovered, messages
  <1>4. CASE ConnectToPeer
    <2>1. UNCHANGED asked
      BY <1>4 DEF ConnectToPeer, messages
    <2> QED BY <1>4, <2>1, ConnectToPeerIInv, QuietStep
  <1>5. CASE \E addr \in BagToSet(dialing) : DialSucceeds(addr)
    <2>1. PICK addr \in BagToSet(dialing) : DialSucceeds(addr)
      BY <1>5
    <2>2. /\ addr.peer \in Peer
          /\ UNCHANGED asked
          /\ SetState(addr.peer, "connected")
          /\ connections' = [connections EXCEPT ![addr.peer] = @ + 1]
          /\ dialing' = dialing (-) One(addr)
      BY <2>1 DEF DialSucceeds, IInv, DialsPeers, messages
    <2>3. DialsPeers(dialing')
      BY <2>2, RemoveDial DEF IInv
    <2> QED BY <2>2, <2>3, OpenedIInv, QuietStep, Zenon
  <1>6. CASE \E addr \in BagToSet(dialing) : OutgoingConnectionError(addr)
    <2>1. PICK addr \in BagToSet(dialing) : OutgoingConnectionError(addr)
      BY <1>6
    <2>2. /\ UNCHANGED <<peer_table, peer_count, connections, asked>>
          /\ dialing' = dialing (-) One(addr)
      BY <2>1 DEF OutgoingConnectionError, messages
    <2>3. DialsPeers(dialing')
      BY <2>2, RemoveDial DEF IInv
    <2> QED BY <2>2, <2>3, SwarmUnchanged, QuietStep DEF IInv
  <1>7. CASE \E p \in Peer : IncomingConnection(p)
    <2>1. PICK p \in Peer : IncomingConnection(p)
      BY <1>7
    <2>2. /\ UNCHANGED <<asked, dialing>>
          /\ SetState(p, "connected")
          /\ connections' = [connections EXCEPT ![p] = @ + 1]
      BY <2>1 DEF IncomingConnection, messages
    <2>3. DialsPeers(dialing')
      BY <2>2 DEF IInv
    <2> QED BY <2>2, <2>3, OpenedIInv, QuietStep, Zenon
  <1>8. CASE \E p \in Peer : ConnectionClosed(p)
    <2>1. PICK p \in Peer : ConnectionClosed(p)
      BY <1>8
    <2>2. UNCHANGED asked
      BY <2>1 DEF ConnectionClosed, messages
    <2> QED BY <2>1, <2>2, ClosedIInv, QuietStep
  <1>9. CASE Dispatch
    BY <1>9, DispatchStep
  <1>10. CASE \E q \in BagToSet(asked) : Response(q) \/ OutboundFailure(q)
    BY <1>10, EndedStep
  <1>11. CASE \/ Publish
              \/ \E m \in GossipData : GossipMessage(m)
              \/ \E m \in ChainData : ChainSends(m)
              \/ \E m \in BagToSet(to_chain) : ChainTakes(m)
    BY <1>1, <1>11, QuietStep, Zenon DEF Publish, GossipMessage, ChainSends, ChainTakes, swarm
  <1> QED BY <1>2, <1>3, <1>4, <1>5, <1>6, <1>7, <1>8, <1>9, <1>10, <1>11
          DEF NetworkNext, TaskNext

-----------------------------------------------------------------------------

\* The counter the chain task prints is the number of Connected entries, with
\* any peers, dials and limits (connect_to_peers sets entries to Connecting
\* without counting again).
THEOREM PeerCount == NetworkSpec => []PeerCountExact
  <1>1. IInv /\ [NetworkNext]_netvars => IInv'
    BY NextIInv
  <1>2. IInv => PeerCountExact
    BY DEF IInv
  <1> QED BY InitIInv, <1>1, <1>2, PTL DEF NetworkSpec

\* dispatch_outbound_request asks only peers with an open connection, however
\* connections and dials overlap.
THEOREM LivePeers == NetworkSpec => RequestsToLivePeers
  <1>1. IInv /\ [NetworkNext]_netvars => IInv'
    BY NextIInv
  <1>2. IInv /\ [NetworkNext]_netvars =>
          [\A q \in BagToSet(asked') :
              Times(q, asked') > Times(q, asked) => connections[q.peer] > 0]_netvars
    BY NextIInv
  <1> QED BY InitIInv, <1>1, <1>2, PTL DEF NetworkSpec, RequestsToLivePeers
=============================================================================
