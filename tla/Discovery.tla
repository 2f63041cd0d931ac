------------------------------ MODULE Discovery ------------------------------
(***************************************************************************)
(* Where the network task gets addresses from: the bootnode arguments of   *)
(* the command line (NetworkServiceConfig::new, bootnodes.rs) and the node *)
(* records (ENR) that discv5 finds (discovery/mod.rs).                     *)
(*                                                                         *)
(* An address is the ip, the port and the peer id of a multiaddr           *)
(* /ip/udp/port/quic-v1/p2p/peer.  A record has a field of each kind once, *)
(* or not.  What is missing is None; ips and ports are numbers from 1.     *)
(***************************************************************************)
EXTENDS Naturals, SequencesExt

None == 0

Address(ip, port, peer) == [ip |-> ip, port |-> port, peer |-> peer]

-----------------------------------------------------------------------------
(* Node records.                                                           *)

NoFields == [ip4 |-> None, ip6 |-> None, udp4 |-> None, udp6 |-> None,
             tcp4 |-> None, tcp6 |-> None, quic4 |-> None, quic6 |-> None]

\* A record of peer, signed with a key of the given kind.
Enr(peer, key, fields) == [peer |-> peer, key |-> key, fields |-> fields]

\* The record a node publishes of itself; its libp2p (QUIC) port goes into the
\* field for TCP.
build_enr(peer, ip, is_ip4, udp_port, libp2p_port) ==
    Enr(peer, "secp256k1",
        IF is_ip4
        THEN [NoFields EXCEPT !.ip4 = ip, !.udp4 = udp_port, !.tcp4 = libp2p_port]
        ELSE [NoFields EXCEPT !.ip6 = ip, !.udp6 = udp_port, !.tcp6 = libp2p_port])

\* A chain of or_else: the first that is there.
FirstOf(options) ==
    LET present == SelectSeq(options, LAMBDA x : x # None)
    IN  IF present = << >> THEN None ELSE Head(present)

\* Only secp256k1 keys become peer ids.
enr_to_peer_id(enr) == IF enr.key = "secp256k1" THEN enr.peer ELSE None

\* Mutant: the port of discv5 is taken.
enr_to_multiaddr_Udp(enr) ==
    LET ip   == FirstOf(<<enr.fields.ip4, enr.fields.ip6>>)
        port == FirstOf(<<enr.fields.udp4, enr.fields.udp6>>)
        peer == enr_to_peer_id(enr)
    IN  IF ip = None \/ port = None \/ peer = None
        THEN << >> ELSE <<Address(ip, port, peer)>>

\* At most one address: as a sequence, empty for none.
enr_to_multiaddr(enr) ==
    LET fields == enr.fields
        ip     == FirstOf(<<fields.ip4, fields.ip6>>)
        port   == FirstOf(<<fields.tcp4, fields.tcp6, fields.quic4, fields.quic6>>)
        peer   == enr_to_peer_id(enr)
    IN  IF ip = None \/ port = None \/ peer = None
        THEN << >> ELSE <<Address(ip, port, peer)>>

-----------------------------------------------------------------------------
(* Bootnodes.                                                              *)

\* An argument is a multiaddr, a record, the name of a file with a list of
\* these, or nothing that can be read.
parse_bootnode_argument(arg) ==
    CASE arg.kind \in {"multiaddr", "enr"} -> <<arg>>
      [] arg.kind = "file" -> arg.bootnodes
      [] arg.kind = "unknown" -> << >>

MultiaddrOf(bootnode) ==
    IF bootnode.kind = "multiaddr" THEN <<bootnode.addr>> ELSE enr_to_multiaddr(bootnode.enr)

\* StaticBootnodes::new, what it keeps to dial.
BootnodeAddresses(args) ==
    LET bootnodes == FlattenSeq([i \in 1..Len(args) |-> parse_bootnode_argument(args[i])])
    IN  FlattenSeq([i \in 1..Len(bootnodes) |-> MultiaddrOf(bootnodes[i])])
=============================================================================
