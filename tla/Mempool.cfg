SPECIFICATION NodeSpec
CONSTANTS
    i1 = i1
    i2 = i2
    i3 = i3
    Items <- ThreeItems
    TimedItems <- TwoItems
    Sponsor <- TwoSponsors
    Expiry <- TwoExpiries
    MaxSize = 2
    MaxSponsorSize = 2
    StreamBatch = 2
    PrefetchAt = 1
    MaxTime = 2
    GossipMinLife = 1
    GossipMaxSize = 1
CHECK_DEADLOCK FALSE
INVARIANTS MempoolInv GossipInv
PROPERTIES BuildAsked
