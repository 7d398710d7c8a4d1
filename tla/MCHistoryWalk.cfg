\* Four messages, two in each direction, pages of two.
SPECIFICATION Spec
CONSTANTS
    m1 = m1
    m2 = m2
    m3 = m3
    m4 = m4
    Messages = {m1, m2, m3, m4}
    Mine = {m1, m2}
    Limit = 2
    MaxTime = 4
CHECK_DEADLOCK FALSE
INVARIANTS
    PageIsNewest
    OnlyTiesAreMissed
PROPERTIES
    NoRepeats
    WalkEnds
