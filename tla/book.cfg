SPECIFICATION Spec
CONSTANTS
    o1 = o1
    o2 = o2
    stream = stream
    cancel = cancel
    Orders = {o1, o2}
    Streams = {stream}
    Cancelers = {cancel}
    FastCancelers = {"fast"}
    Syncers = {}
    FullQty = 2
    MaxDups = 1
    Settings <- Several
INVARIANTS TypeOK OpenOrdersTracked FillAnnounced GracefulCancelCloses
PROPERTY ImplementsEvents
\* The orders are finite: everything has stopped once they are closed.
CHECK_DEADLOCK FALSE
