SPECIFICATION Spec
CONSTANTS
    Settings <- Limited
    Quantity = 2
    MinQuantity = 1
    MakerFund = 8
    MaxFills = 2
PROPERTY ExposureRespected
CHECK_DEADLOCK FALSE
