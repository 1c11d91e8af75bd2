CONSTANTS
    Keys = {"k", "l"}
    V6Keys = {"l"}
    StreamLen <- MCStreamLen
    HelloLen = 2
    Splits = {1}
    Kinds = {"TLS", "OTHER"}
    SeqMod = 4
    ISNs <- MCISNs
    Chains <- MCChains
    FLOW_TABLE_MAX = 1
    FLOW_DEFAULT_TIMEOUT_SECONDS = 1
    FLOW_REASSEMBLY_CAP = 2
    TcpHdr = 1
    IP_FRAG_UNIT = 2
SPECIFICATION Spec
INVARIANTS Intact AtMostOneDrop OnePacketAfterSignal
PROPERTIES FreshHelloTreated
