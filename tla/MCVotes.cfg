SPECIFICATION FairSpec
CONSTANTS
    NumValidators = 3
    MaxRoot = 8
    Root <- VoteRoot
    AnchorRoot <- G0
    AttestationData <- MCData
    Block <- MCBlock
    Transition <- MCTransition
    GossipSlots = {1, 2, 3}
    Gossip <- MCGossip
    Twice = {}
    Bare = {6}
    Borrowed = {}
    Answered = {}
    Copies <- MCCopies
    MaxTime = 8
INVARIANTS
    TypeOK
    HeadHeaviest
    VotesBacked
PROPERTIES
    GossipWaits
    HandlersReturn
    NewVotesAccepted
CHECK_DEADLOCK FALSE
