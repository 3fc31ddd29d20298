SPECIFICATION CourierSpec
CONSTANTS
    CodTotal = 2
    PartTaken = 1
    MaxParcels = 2
    MaxDues = 3
    MaxStops = 1
    Practices <- InOrder
INVARIANTS CourierTypeOK NotOverpaid ParcelOwed ReturnedNotOwed BankMatches
PROPERTY PartialReachesOrder
CHECK_DEADLOCK FALSE
