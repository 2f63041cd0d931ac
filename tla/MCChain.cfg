SPECIFICATION Spec
CONSTANTS
    NumValidators = 3
    BlockSlots <- MCSlots
    Root <- MCRoot
    SlotOf <- MCSlotOf
    GenesisRoot <- MCGenesisRoot
    Checkpoint <- MCCheckpoint
    Voters <- MCVoters
INVARIANTS
    TypeOK
    WindowAligned
    CheckpointsOnChain
    PendingVotesLive
PROPERTIES
    FinalizedNeverRegresses
    ImplementsFinality
CHECK_DEADLOCK FALSE
