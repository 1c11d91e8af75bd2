CONSTANTS
    t1 = t1
    t2 = t2
    Threads <- MCTwoThreads
    Addrs = {"a", "b"}
    FWD_MAX_INFLIGHT = 1
    QUIC_SEEN_MAX = 1
    TP_QUIC_BLOCK_TIMEOUT_S = 4
    NftFails = TRUE
    MaxStraddle = 1
    MaxNow = 4
SPECIFICATION Spec
SYMMETRY Symmetry
INVARIANTS RememberedStaysBlocked AnsweredIsBlocked InflightIsWorkers
