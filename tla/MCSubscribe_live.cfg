SPECIFICATION FairSpec
CONSTANTS
    t1 = t1
    t2 = t2
    NoTx = NoTx
    Partial = Partial
    NChan = 1
    Tx <- OneTx
    RangePorts <- OnePort
    EphPorts <- NoPorts
    IdMod = 3
    MaxTasks = 2
    Controller = "any"
INVARIANTS
    TypeOK
    FlowIsKnown
    ReceivingIsLive
    StopsOnlyUnwanted
    EstablishingIsBacked
PROPERTIES
    AttemptsEnd
    ShutdownQuiesces
    EstablishingSettles
CHECK_DEADLOCK FALSE
