SPECIFICATION NodeSpec
CONSTANTS
    NumValidators = 3
    MaxRoot = 9
    Root <- AggregateRoot
    AnchorRoot <- G0
    AttestationData <- NodeData
    Block <- MCBlock
    Transition <- MCTransition
    GossipSlots = {}
    Gossip <- OtherVotes
    Twice = {}
    Bare = {}
    Borrowed = {10}
    Answered = {}
    Copies <- MCCopies
    MaxTime = 12
    Own = {0, 2}
    OwnRoot <- MCOwnRoot
    KeyFiles = {0, 2}
    SignFails = {}
INVARIANTS
    BlocksVerified
CHECK_DEADLOCK FALSE
