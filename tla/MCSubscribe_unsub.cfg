SPECIFICATION Spec
CONSTANTS
    t1 = t1
    t2 = t2
    NoTx = NoTx
    Partial = Partial
    NChan = 1
    Tx <- OneTx
    RangePorts <- OnePort
    EphPorts <- NoPorts
    IdMod = 2
    MaxTasks = 1
    Controller = "any"
INVARIANTS
    UnsubscribedIsSilent
CHECK_DEADLOCK FALSE
