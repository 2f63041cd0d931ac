SPECIFICATION NodeSpec
CONSTANTS
    NumValidators = 3
    MaxRoot = 9
    Root <- SyncRoot
    AnchorRoot <- G0
    AttestationData <- NodeData
    Block <- MCBlock
    Transition <- MCTransition
    GossipSlots = {}
    Gossip <- MCGossip
    Twice = {}
    Bare = {}
    Borrowed = {}
    Answered = {}
    Copies <- MCCopies
    MaxTime = 16
    Own = {1}
    OwnRoot <- MCOwnRoot
    KeyFiles = {0}
    SignFails = {}
INVARIANTS
    StoreClosed
    OwnVotesValid
CHECK_DEADLOCK FALSE
