SPECIFICATION FairSpec
CONSTANTS
    Settings <- Each
    Quantity = 2
    MinQuantity = 1
    MakerFund = 8
    MaxFills = 2
INVARIANTS TypeOK CoverIsOutstanding QuotesTracked
PROPERTY EventuallyHedged
CHECK_DEADLOCK FALSE
