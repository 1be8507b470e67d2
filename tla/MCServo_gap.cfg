SPECIFICATION FairSpec
CONSTANTS
    Decimate = 2
    MinDt = 3
    Idle = 4
    MaxDt = 5
    Jump = 3
    Outlier = 4
    LockErr = 2
    UnlockErr = 2
    Coarse = 2
    Fine = 1
    MaxHold = 0
    Kinds <- MediaOnly
PROPERTIES
    MediaDrives
