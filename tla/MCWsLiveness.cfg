\* One WebSocket with two requests, served by concurrent workers.
CONSTANTS
    Sockets = {s1, s2}
    Workers = {w1, w2}
    Lively = {s1}
    MaxOpens = 1
    MaxMessages = 2
SPECIFICATION FairSpec
PROPERTIES
    StopReturns
    RequestsSettle
    SilentClientsLeave
