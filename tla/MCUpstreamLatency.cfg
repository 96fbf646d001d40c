SPECIFICATION UpstreamSpec

CONSTANTS
    MaxRetries = 3
    Base = 1
    RetryAfters = {0, 3, 6}
    NoHeader = NoHeader
    NumUrls = 3
    Latency <- SlowFirst
    Strategies = {"least_latency"}
    MaxPicks = 2

PROPERTIES
    FastestPicked

CHECK_DEADLOCK FALSE
