SPECIFICATION Spec
CONSTANTS
    Workers = {w1, w2}
    Questions = {"a"}
    DohCount = 1
    UdpCount = 1
    Conns = {"c1", "c2", "c3"}
    Replies <- MCReplies
    DNS_CACHE_SIZE = 2
    DNS_TTL_MIN = 1
    DNS_TTL_MAX = 1
    DNS_NEGATIVE_TTL = 1
    DNS_SERVER_FAIL_LIMIT = 1
    DNS_SERVER_BACKOFF_SECONDS = 1
    DOH_POOL = 1
    MaxNow = 1
    MaxNet = 1
INVARIANTS ConnectionsOwned FlushForgets OneSlotPerQuestion
SYMMETRY Symmetry
