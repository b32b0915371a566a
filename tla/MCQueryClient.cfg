\* Three queries in a row over at most three connections.  The client is deleted
\* in the end, hence no deadlock check.
CONSTANTS
    MaxQueries = 3
    MaxConnections = 3
CHECK_DEADLOCK FALSE
SPECIFICATION FairSpec
INVARIANTS
    RequestsIntact
    LoginComesFirst
    StaleConnectionHidden
PROPERTIES
    ImplementsService
    QueriesReturn
