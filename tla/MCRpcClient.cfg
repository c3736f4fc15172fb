CONSTANTS
    matchengine = matchengine
    marketprice = marketprice
    Clients <- MCClients
    SocketFailures = FALSE
SPECIFICATION Spec
INVARIANTS
    TypeOK
    RetryPending
PROPERTIES
    EventuallyConnected
