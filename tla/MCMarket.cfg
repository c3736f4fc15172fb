CONSTANTS
    u1 = u1
    u2 = u2
    Users <- MCUsers
    Prices = {1, 2}
    Amounts = {1, 2}
    MarketBidAmounts = {3}
    TakerFees = {1}
    MakerFees = {0, 1}
    FeeScale = 10
    MinAmount = 1
    InitStock <- MCInitStock
    InitMoney <- MCInitMoney
    DepthLimits = {1, 2}
    DepthIntervals = {0, 2}
    PageOffsets = {0, 1}
    PageLimits = {1, 2}
    BusinessIds = {1}
    BalanceChanges <- MCBalanceChanges
SPECIFICATION Spec
SYMMETRY MCSymmetry
CONSTRAINT OrderIdBound
INVARIANTS
    TypeOK
    FreezeConsistency
    Conservation
    NoCrossedBook
    BookIndexConsistent
    OrderStreamMatchesBook
    DepthMatchesBook
    QueriesMatchBook
    OrderDetailMatchesDeals
PROPERTIES
    ImplementsOrderBook
