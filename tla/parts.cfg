SPECIFICATION PartsSpec
CONSTANTS
    Prices = {1, 2, 3}
    KLines <- FewKLines
    Settings <- Each
    BaseFund = 4
    QuoteFund = 12
    MaxKLines = 2
    MaxOrderCount = 2
    Qty = 2
    MaxRounds = 2
    MaxFaults = 1
    MaxCrashes = 1
    BookPrices = {1, 2, 3, 4, 5, 6, 7}
    Volumes = {1, 2}
    Depths = {1, 3}
    Executions <- TwoExecutions
    MaxOrders = 2
INVARIANTS AllTypesOK LockedIsReserved BalancesMatchPosition ProfitIsExact NoneLeftCrossed
INVARIANTS RoundSettled SellsAlone
INVARIANTS SearchTree TargetKept
PROPERTIES RecoveredRight ImplementsLevels
CHECK_DEADLOCK FALSE
