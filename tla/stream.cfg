SPECIFICATION FairSpec
CONSTANTS
    c1 = c1
    c2 = c2
    Conns = {c1, c2}
INVARIANTS TypeOK ReconnectComing SubscriptionsComing
PROPERTIES ImplementsEvents ConnectsAgain CloseStopsAll
