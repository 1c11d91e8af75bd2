CONSTANTS
    Watchdogs = {1, 2}
    ALIVE = 3
    MaxToken = 3
    MaxFaults = 2
SPECIFICATION Spec
PROPERTIES KeepsPromise ReleasedByOwner RulesComeBack
