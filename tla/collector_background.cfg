SPECIFICATION Spec
CONSTANTS
    o1 = o1
    o2 = o2
    f1 = f1
    Exchanges = {"x"}
    Orders = {o1, o2}
    Own = {o1, o2}
    ExchangeOf <- OneExchange
    Trades <- OneEach
    Background = {"x"}
    Runners = {"run"}
    Recoverers = {"rec"}
    TradeFirst = FALSE
    QueueCap = 1
    MaxDrops = 0
    QueryFails = FALSE
    AddOrderUpdate = FALSE
    RemoveCancelled = FALSE
    RemoveFilled = FALSE
SYMMETRY Symmetry
INVARIANTS TypeOK NoTradeLost NothingLeftBehind ReportedIsCurrent BookedOnce
PROPERTY ImplementsLedger
