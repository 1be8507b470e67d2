SPECIFICATION FairSpec
CONSTANTS
    MaxStarts = 2
    Contended = {"arc", "cmc", "info", "mdns", "ptp"}
    Runtimes = {"current_thread", "multi_thread"}
INVARIANTS
    StartedIsWhole
    ShutdownLeavesNoThread
    NoVainWait
PROPERTIES
    StopReturns
    StoppedDeviceEnds
    AbandonedControlEnds
CHECK_DEADLOCK FALSE
