SPECIFICATION NetworkFairSpec
CONSTANTS
    b1 = b1
    p2 = p2
    self = self
    Peer = {b1, p2}
    ListensAt <- MCListensAt
    BootnodeArgs <- OneBootnode
    DiscoveryEnabled = TRUE
    Discoverable <- MCDiscoverable
    RootBytes <- OneRoot
    RootLen = 2
    StatusLen = 5
    BlockBytes <- OneBlock
    GossipData <- MCGossipData
    ChainData <- MCChainData
    MAX_REQUEST_BLOCKS = 1
    MaxPendingOutgoing = 2
    MaxPerPeer = 2
    MaxInFlight = 2
INVARIANTS
    NetworkTypeOK
    PeerCountExact
    RequestsUnderstood
PROPERTIES
    RequestsToLivePeers
    BootnodesReconnect
