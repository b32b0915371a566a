CONSTANTS
    Sockets = {s1}
    Workers = {w1}
    Lively = {s1}
    MaxOpens = 1
    MaxMessages = 1
SPECIFICATION FairSpec
PROPERTY IdleTimeoutCleansUp
