SPECIFICATION Spec
CONSTANTS
    o1 = o1
    o2 = o2
    f1 = f1
    Exchanges = {"x"}
    Orders = {o1, f1}
    Own = {o1}
    ExchangeOf <- OneExchange
    Trades <- WithForeign
    Background = {}
    Runners = {}
    Recoverers = {}
    TradeFirst = TRUE
    QueueCap = 1
    MaxDrops = 0
    QueryFails = FALSE
    AddOrderUpdate = TRUE
    RemoveCancelled = TRUE
    RemoveFilled = TRUE
INVARIANT NoneMissedByRemoval
\* The orders are finite: everything has stopped once they are traded.
CHECK_DEADLOCK FALSE
