\* One slot for two clients and one descriptor beside the listener's: the second
\* client waits until the first is gone, or is turned away.
CONSTANTS
    Descriptors = {d1, d2}
    max_connections = 1
    connection_timeout = 2
    BufferSize = 2
    MaxU16 = 3
    MaxClients = 2
SPECIFICATION FairTcpSpec
PROPERTIES
    ConnectionsEnd
    ClientsAreTaken
    SignalEnds
