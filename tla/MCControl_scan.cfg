SPECIFICATION FairSpec
CONSTANTS
    NChan = 3
    Names <- MCNames
    NameSize <- MCNameSize
    TxSize = 2
    PageSlots = 2
    PageRoom = 3
    RenameIds <- MCRenameIds
    ByteBits = 2
    NumMod = 2
    Tables <- MCTables
    MaxFlows = 3
    MaxChanges = 2
INVARIANTS
    ScanIsExact
    ViewIsCurrent
PROPERTIES
    FlowScanIsSound
    ScanAdvances
    ScanEnds
CHECK_DEADLOCK FALSE
