------------------------------- MODULE MCNode -------------------------------
(* A branch of three blocks, of which the second and the tip come by       *)
(* gossip and the first has to be asked for; one peer, which dials.        *)
EXTENDS MCChainService, Node

CONSTANTS b1

MCListensAt == [p \in Peer |-> [ip |-> 1, port |-> 2]]

NoBootnode == << >>

BranchRoot == {G0, A1, A2, A4}

MCRootBytes == {Bytes(r) : r \in Root}

MCBlockBytes == {Encoded(r) : r \in Root}

\* The gossiped ones may come in answers, too.
NodeCopies == [r \in Root |-> IF r = G0 THEN 0 ELSE MCCopies[r]]

MCGossipCopies == [r \in Root |-> IF r \in Twice THEN 1 ELSE 0]
=============================================================================
