\* Two socket addresses and two WebSockets, which may live at once or one after
\* the other at the same address, with a worker still serving the first.
CONSTANTS
    Sockets = {s1, s2}
    Workers = {w1, w2}
    Lively = {s1, s2}
    MaxOpens = 2
    MaxMessages = 1
SYMMETRY Symmetric
SPECIFICATION Spec
INVARIANTS
    KeyOutlivesWorkers
    RsaSerialised
    PendingIsOpenSockets
    ReplyToOwnSession
    NothingLeftBehind
