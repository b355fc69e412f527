SPECIFICATION Spec
CONSTANTS
    o1 = o1
    o2 = o2
    stream = stream
    cancel = cancel
    Orders = {o1}
    Streams = {stream}
    Cancelers = {}
    FastCancelers = {}
    Syncers = {}
    FullQty = 1
    MaxDups = 0
    Settings <- Plain
INVARIANT FilledOrdersLeave
\* The orders are finite: everything has stopped once they are closed.
CHECK_DEADLOCK FALSE
