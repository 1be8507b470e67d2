SPECIFICATION Spec
CONSTANTS
    Writers <- BothWriters
    Readers <- OneReader
    MaxPublish = 2
INVARIANTS
    SnapshotIsWhole
