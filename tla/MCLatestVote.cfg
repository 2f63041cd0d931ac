SPECIFICATION Spec
CONSTANTS
    NumValidators = 3
    MaxRoot = 8
    Root <- VoteRoot
    AnchorRoot <- G0
    AttestationData <- MCData
    Block <- MCBlock
    Transition <- MCTransition
    GossipSlots = {1, 3}
    Gossip <- MCGossip
    Twice = {}
    Bare = {}
    Borrowed = {}
    Answered = {}
    Copies <- MCCopies
    MaxTime = 8
PROPERTIES
    LatestVoteWins
CHECK_DEADLOCK FALSE
