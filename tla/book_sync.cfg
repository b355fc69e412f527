SPECIFICATION FairSpec
CONSTANTS
    o1 = o1
    o2 = o2
    stream = stream
    cancel = cancel
    Orders = {o1}
    Streams = {stream}
    Cancelers = {}
    FastCancelers = {}
    Syncers = {"sync"}
    FullQty = 2
    MaxDups = 0
    Settings <- Failing
PROPERTIES FilledOrdersEventuallyLeave OpenOrdersEventuallyTracked
