SPECIFICATION NodeFairSpec
CONSTANTS
    b1 = b1
    NumValidators = 3
    MaxRoot = 8
    Root <- BranchRoot
    AnchorRoot <- G0
    AttestationData <- MCData
    Block <- MCBlock
    Transition <- MCTransition
    GossipSlots = {1}
    Gossip <- MCGossip
    Twice = {2, 6}
    Bare = {}
    Borrowed = {}
    Answered = {}
    Copies <- NodeCopies
    GossipCopies <- MCGossipCopies
    RootBytes <- MCRootBytes
    BlockBytes <- MCBlockBytes
    GossipData = {}
    ChainData = {}
    MaxInFlight = 0
    MaxTime = 0
    Peer = {b1}
    ListensAt <- MCListensAt
    BootnodeArgs <- NoBootnode
    DiscoveryEnabled = FALSE
    Discoverable = {}
    RootLen = 2
    StatusLen = 5
    MAX_REQUEST_BLOCKS = 1
    MaxPendingOutgoing = 1
    MaxPerPeer = 1
INVARIANTS
    OrphansPursued
    OnlyGossipRelayed
PROPERTIES
    SyncCompletes
CHECK_DEADLOCK FALSE
