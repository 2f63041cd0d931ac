SPECIFICATION Spec
CONSTANTS
    NumValidators = 3
    MaxRoot = 8
    Root <- MCRoot
    AnchorRoot <- G0
    AttestationData <- MCData
    Block <- MCBlock
    Transition <- MCTransition
    GossipSlots = {}
    Gossip <- MCGossip
    Twice = {2, 3, 7}
    Bare = {}
    Borrowed = {}
    Answered = {2, 5, 7}
    Copies <- MCCopies
    MaxTime = 0
INVARIANTS
    StoreClosed
    CheckpointsHighest
    ImportOrderIrrelevant
    OrphansRequested
CHECK_DEADLOCK FALSE
PROPERTIES
    ImplementsBlockTree
