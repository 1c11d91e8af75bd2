CONSTANTS
    TP_MAX_ATTEMPTS = 4
    h1 = h1
    h2 = h2
    h3 = h3
    Hosts <- MCHosts
    Families <- MCFamilies
    Nets <- MCNets
    NETFP_UNKNOWN = NETFP_UNKNOWN
    LearnSteps <- MCLearnSteps
    TP_DECISIONS_MAX = 2
    TP_DECISIONS_FIRST_CAP = 1
    TP_COOLDOWN_MAX = 2
    TP_COOLDOWN_SECONDS = 2
    TP_DIRECT_BAD_MAX = 1
    TP_DIRECT_BAD_TTL_SECONDS = 2
    TP_DECISION_TTL_SECONDS = 2
    EditedFiles <- MCEditedFiles
    MaxNow = 1
SPECIFICATION StoreSpec
SYMMETRY Symmetry
INVARIANTS OneSlotPerHost FileCurrentUnlessWriteFailed SavedComesBack
PROPERTIES EvictsOldest CooldownOverwritesSoonest
