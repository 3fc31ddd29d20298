\* Two sales of up to two lines share the shop, two requests in flight.
SPECIFICATION Spec
CONSTANTS
    s1 = s1
    s2 = s2
    tee = tee
    mug = mug
    h1 = h1
    h2 = h2
    Sales = {s1, s2}
    SKUs = {tee, mug}
    InitStock <- Shelf2
    Quantities = {0, 1, 2}
    Rates = {1}
    Requests = {h1, h2}
    Overlaps <- SafeOverlaps
INVARIANTS
    TypeOK
    MovementsMatchSale
    MoneyMatchesSale
SYMMETRY Symmetry
CHECK_DEADLOCK FALSE
