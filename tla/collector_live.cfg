SPECIFICATION FairSpec
CONSTANTS
    o1 = o1
    o2 = o2
    f1 = f1
    Exchanges = {"x"}
    Orders = {o1}
    Own = {o1}
    ExchangeOf <- OneExchange
    Trades <- OneEach
    Background = {"x"}
    Runners = {"run"}
    Recoverers = {"rec"}
    TradeFirst = TRUE
    QueueCap = 1
    MaxDrops = 1
    QueryFails = TRUE
    AddOrderUpdate = FALSE
    RemoveCancelled = FALSE
    RemoveFilled = FALSE
PROPERTY EventuallyBooked
