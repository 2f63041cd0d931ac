-------------------------- MODULE MCNetworkService --------------------------
(* Two units a root, five a Status: the proportion of 32 to 80 bytes.  One *)
(* bootnode can be reached, by the record in a file that also holds an     *)
(* address without peer id; the other arguments are useless, as are two of *)
(* the records that discovery finds.                                       *)
EXTENDS NetworkService

CONSTANTS b1, p2, self

MCListensAt == [p \in Peer |-> IF p = b1 THEN [ip |-> 1, port |-> 2] ELSE [ip |-> 3, port |-> 4]]

Multiaddr(addr) == [kind |-> "multiaddr", addr |-> addr]

OneBootnode ==
    <<[kind |-> "unknown"],
      [kind |-> "file",
       bootnodes |-> <<Multiaddr(Address(3, 4, None)),
                       [kind |-> "enr", enr |-> build_enr(b1, 1, FALSE, 9, 2)]>>],
      Multiaddr(Address(5, 6, self))>>

QuicRecord == Enr(b1, "secp256k1", [NoFields EXCEPT !.ip4 = 1, !.quic4 = 2])

MCDiscoverable ==
    {QuicRecord,
     Enr(p2, "ed25519", [NoFields EXCEPT !.ip4 = 3, !.tcp4 = 4]),
     Enr(p2, "secp256k1", [NoFields EXCEPT !.ip4 = 3, !.udp4 = 4])}

OneRoot == {<<0, 1>>}

OneBlock == {<<1, 2, 3>>}

MCGossipData == {[kind |-> "attestation", data |-> 1]}

MCChainData == {[kind |-> "request", data |-> <<0, 1>>], [kind |-> "block", data |-> <<1, 2, 3>>]}
=============================================================================
