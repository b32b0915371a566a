SPECIFICATION FairMainSpec
CONSTANTS
    Slots = {s1, s2}
    Workers = {w1, w2}
INVARIANTS
    ThreadsGoneFirst
    NothingLeft
PROPERTY
    SignalEnds
CHECK_DEADLOCK FALSE
