SPECIFICATION FairSpec
CONSTANTS
    OwnRate = 48
    DefaultPort = 5
    ArcPort = 3
    Attempts <- MCAttempts
    Host = "h"
    Channel = "b"
    Links <- MCLinks
    Ports <- MCPorts
    ReplyTimeout = 3
    Expire = 6
    MaxLoss = 1
INVARIANTS
    ResolvedIsNamed
    KeptAlive
PROPERTIES
    AbandonedIsNotKept
    OrphanExpires
