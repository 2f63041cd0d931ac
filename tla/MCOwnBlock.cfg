SPECIFICATION NodeSpec
CONSTANTS
    NumValidators = 3
    MaxRoot = 9
    Root <- ForkedRoot
    AnchorRoot <- G0
    AttestationData <- NodeData
    Block <- MCBlock
    Transition <- MCTransition
    GossipSlots = {}
    Gossip <- OtherVotes
    Twice = {}
    Bare = {}
    Borrowed = {}
    Answered = {}
    Copies <- MCCopies
    MaxTime = 13
    Own = {0, 2}
    OwnRoot <- MCOwnRoot
    KeyFiles = {0, 2}
    SignFails = {}
INVARIANTS
    CheckpointsHighest
CHECK_DEADLOCK FALSE
