----------------------------- MODULE BlockTree ------------------------------
(***************************************************************************)
(* What the chain task promises of its blocks and checkpoints, whatever    *)
(* queues, handlers and repeated blocks do: a tree that grows by one block *)
(* at a time, each one received, valid and the child of a stored one, and  *)
(* two checkpoints that move only with such a block, only up, and only to  *)
(* what the block's own State says.                                        *)
(***************************************************************************)
EXTENDS Integers

CONSTANTS
    Root,
    AnchorRoot,
    Parent,      \* Parent[r]: the root of the parent of block r
    Valid,       \* the blocks that state_transition accepts
    Justifies,   \* Justifies[r], Finalizes[r]: checkpoints of the State of r
    Finalizes

VARIABLES
    known,       \* blocks that were received
    stored,      \* blocks in the tree
    justified,
    finalized

treevars == <<known, stored, justified, finalized>>

\* The anchor stands for both checkpoints at first.
Init ==
    /\ known = {}
    /\ stored = {AnchorRoot}
    /\ justified = [root |-> AnchorRoot, slot |-> 0]
    /\ finalized = [root |-> AnchorRoot, slot |-> 0]

Receive(r) ==
    /\ known' = known \cup {r}
    /\ UNCHANGED <<stored, justified, finalized>>

\* A checkpoint gives way to a later one only.
Raised(current, checkpoint) ==
    IF checkpoint.slot > current.slot THEN checkpoint ELSE current

Import(r) ==
    /\ r \in (known \cap Valid) \ stored
    /\ Parent[r] \in stored
    /\ stored' = stored \cup {r}
    /\ justified' = Raised(justified, Justifies[r])
    /\ finalized' = Raised(finalized, Finalizes[r])
    /\ UNCHANGED known

Next == \E r \in Root : Receive(r) \/ Import(r)

Spec == Init /\ [][Next]_treevars
=============================================================================
