CONSTANTS
    Daemons = {"service", "manual"}
    Units = {"service"}
    HEARTBEAT = 1
    ALIVE = 3
    MaxLate = 1
SPECIFICATION Spec
INVARIANTS FailOpen NoGap
PROPERTIES KeepsPromise TableComesBack
