SPECIFICATION Spec
CONSTANTS
    BYTE = 4
    TLS_RECORD_MAX = 8
    RELAY_TLSREC_TCP_CUT = 3
    ATTEMPTS = 2
    Setups <- MCSetups
    Replies <- MCReplies
INVARIANTS
    UpstreamErrorResetsClient
