SPECIFICATION FairSpec
CONSTANTS
    Writers <- OneWriter
    Readers <- OneReader
    MaxPublish = 5
INVARIANTS
    SnapshotIsWhole
    SnapshotIsFresh
PROPERTIES
    ReadsReturn
