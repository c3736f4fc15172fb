CONSTANTS
    matchengine = matchengine
    marketprice = marketprice
    Clients <- MCClients
    SocketFailures = FALSE
SPECIFICATION Spec
INVARIANT
    CloseReportedOnce
