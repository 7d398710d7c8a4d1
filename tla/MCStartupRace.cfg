\* Two workers that start together, as the README has them.
CONSTANTS
    Workers = {w1, w2}
    MaxAttempts = 2
    MaxFaults = 0
SPECIFICATION LiveSpec
CHECK_DEADLOCK FALSE
INVARIANTS
    NoDuplicateExecution
