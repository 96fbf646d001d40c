SPECIFICATION FairUpstream

CONSTANTS
    MaxRetries = 3
    Base = 1
    RetryAfters = {0, 3, 6}
    NoHeader = NoHeader
    NumUrls = 3
    Latency <- SlowFirst
    Strategies = {"round_robin", "least_latency", "random"}
    MaxPicks = 2

INVARIANTS
    UpstreamTypeOK
    RetryAfterHonoured
    RepeatedOnlyUnanswered
    GivesUpLast
    TurnsEven

PROPERTIES
    Ends

CHECK_DEADLOCK FALSE
