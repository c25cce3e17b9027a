\* A queue of two is the smallest one in which a block can wait behind another;
\* four more heights fill the queue, the accepter and a blocked Accept at once.
\* Crashes anywhere, in recovery too.
CONSTANTS
    QueueSize = 2
    CacheSize = 4
    MaxHeight = 6
    MaxCrashes = 2
    MaxRestarts = 4
SPECIFICATION FairSpec
INVARIANTS
    PipelineInv
    CrashCosts
PROPERTIES
    ImplementsLog
    AcceptedIsDelivered
CHECK_DEADLOCK FALSE
