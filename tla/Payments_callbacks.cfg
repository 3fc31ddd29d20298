SPECIFICATION Spec
CONSTANTS
    t1 = t1 t2 = t2 h1 = h1 h2 = h2
    Submissions = {}
    Amount <- NoPayments
    Total = 3
    Advances = {}
    AfterCapture = "PENDING"
    Requested = {}
    Requests = {h1, h2}
    Overlaps <- TwoCallbacks
SYMMETRY RequestSymmetry
PROPERTY CapturedNeverFails
