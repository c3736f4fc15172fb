CONSTANTS
    matchengine = matchengine
    marketprice = marketprice
    Clients <- MCClients
    SocketFailures = TRUE
SPECIFICATION Spec
PROPERTIES
    EventuallyConnected
