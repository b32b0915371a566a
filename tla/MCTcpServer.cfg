\* Two slots, three clients and a descriptor to spare: slots and descriptors are
\* reused, and a client is turned away when both slots are taken.  A payload fits (1..2) or
\* not (0, 3).
CONSTANTS
    Descriptors = {d1, d2, d3, d4}
    max_connections = 2
    connection_timeout = 1
    BufferSize = 2
    MaxU16 = 3
    MaxClients = 3
SYMMETRY Symmetric
SPECIFICATION TcpSpec
INVARIANTS
    OwnedDescriptors
    WholeRequests
    SettledBetweenTurns
    NothingLeftOpen
PROPERTY PolledUntouched
