CONSTANT TP_MAX_ATTEMPTS = 4
SPECIFICATION Spec
INVARIANTS
    NoOriginalAfterConnectFail
    ListedBypassBeforeDirectUnlessCached
    DirectBadSkipsDirectUnlessCached
    GivesUpOnlyWhenExhausted
PROPERTY EventuallyDecided
CHECK_DEADLOCK FALSE
