SPECIFICATION Spec
CONSTANTS
    t1 = t1
    t2 = t2
    NoTx = NoTx
    Partial = Partial
    NChan = 1
    Tx <- MCTx
    RangePorts <- OnePort
    EphPorts <- MCEphPorts
    IdMod = 4
    MaxTasks = 3
    Controller = "polite"
INVARIANTS
    FlowsAreWanted
    NoForgottenFlow
PROPERTIES
    IsSession
SYMMETRY TxSymmetry
CHECK_DEADLOCK FALSE
