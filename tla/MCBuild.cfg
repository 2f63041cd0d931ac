SPECIFICATION NodeSpec
CONSTANTS
    NumValidators = 4
    MaxRoot = 9
    Root <- AggregateRoot
    AnchorRoot <- G0
    AttestationData <- NodeData
    Block <- MCBlock
    Transition <- MCTransition
    GossipSlots = {}
    Gossip <- SameVote
    Twice = {}
    Bare = {}
    Borrowed = {}
    Answered = {}
    Copies <- MCCopies
    MaxTime = 16
    Own = {0}
    OwnRoot <- MCOwnRoot
    KeyFiles = {0}
    SignFails = {}
INVARIANTS
    BlockIsBuilt
ACTION_CONSTRAINT OnTime
CHECK_DEADLOCK FALSE
