CONSTANTS
    TP_MAX_ATTEMPTS = 2
    Hosts = {"h"}
    Families <- MCIPv4
    Nets <- MCNets
    NETFP_UNKNOWN = "unknown"
    TP_DECISIONS_MAX = 1
    TP_DECISIONS_FIRST_CAP = 1
    TP_COOLDOWN_MAX = 1
    TP_COOLDOWN_SECONDS = 1
    TP_DIRECT_BAD_MAX = 1
    TP_DIRECT_BAD_TTL_SECONDS = 1
    TP_DECISION_TTL_SECONDS = 2
    c1 = c1
    c2 = c2
    Conns <- MCOneConn
    Listed = {}
    ManualRules = {"none"}
    TrustAnswers = {"MISMATCH"}
    QUEUE_MAX = 2
    RECENT_MAX = 2
    RECENT_WINDOW_S = 1
    MaxNow = 0
SPECIFICATION Spec
PROPERTIES JobsAreJudged
