SPECIFICATION Spec
CONSTANTS
    Probers = {p, q}
    Domains <- MCDomains
    Nets = {"n1"}
    Works <- MCWorks
    Conf <- MCConf
    Profile <- MCProfile
    NETFP_UNKNOWN = "unknown"
    STRATEGY_MAX_DOMAINS = 3
    DISCOVERY_CACHE_MAX = 3
    DISCOVERY_CACHE_FILE = 3
    DISCOVERY_CACHE_DEFAULT_TTL_SECONDS = 0
    DISCOVERY_LADDER_LEN = 2
    DISCOVERY_MAX_ATTEMPTS_PER_CANDIDATE = 1
    Times = {1}
INVARIANTS NothingLeftApplied ServiceRulesBack RulesAsWritten
PROPERTIES CacheKeepsResults
SYMMETRY Symmetry
