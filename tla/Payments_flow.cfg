SPECIFICATION Spec
CONSTANTS
    t1 = t1 t2 = t2 h1 = h1 h2 = h2
    Submissions = {t1, t2}
    Amount <- PartPayments
    Total = 3
    Advances = {2}
    AfterCapture = "CONFIRMED"
    Requested = {"HOLD", "COMPLETED", "CANCELED"}
    Requests = {h1, h2}
    Overlaps <- SafeOverlaps
SYMMETRY RequestSymmetry
INVARIANTS IncomeWasReceived TakenIsVisible FilesPaidFor AdvanceExact
