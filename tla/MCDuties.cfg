SPECIFICATION NodeSpec
CONSTANTS
    NumValidators = 4
    MaxRoot = 9
    Root <- ProposalRoot
    AnchorRoot <- G0
    AttestationData <- NodeData
    Block <- MCBlock
    Transition <- MCTransition
    GossipSlots = {}
    Gossip <- SameVote
    Twice = {}
    Bare = {}
    Borrowed = {}
    Answered = {}
    Copies <- MCCopies
    MaxTime = 12
    Own = {0, 2}
    OwnRoot <- MCOwnRoot
    KeyFiles = {0, 2}
    SignFails = {2}
INVARIANTS
    OwnBlocksVerify
    OwnBlocksValid
    VotedBlocksSent
    HeadBehindOwnBlock
CHECK_DEADLOCK FALSE
ACTION_CONSTRAINT OnTime
