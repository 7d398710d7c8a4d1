\* Two workers; an outage, a crash or a lost answer.
CONSTANTS
    Workers = {w1, w2}
    MaxAttempts = 2
    MaxFaults = 1
SPECIFICATION LiveSpec
CHECK_DEADLOCK FALSE
INVARIANTS
    ReferencesExist
    ServingIsComplete
PROPERTIES
    StartupEnds
    ShutdownEnds
