SPECIFICATION Spec
CONSTANTS
    r1 = r1
    r2 = r2
    h1 = h1
    h2 = h2
    sms = sms
    Rows = {r1, r2}
    Templates = {sms}
    Handlers = {h1, h2}
    MaxEdits = 2
    MaxOrders = 2
    MaxRequests = 4
SYMMETRY RowSymmetry
INVARIANTS ClosedStepsStopped OneLiveOrder
PROPERTY ClosedRowsKeepHistory
CHECK_DEADLOCK FALSE
