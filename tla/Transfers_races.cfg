\* Two transfers between the online store and a shop, two requests in flight.
SPECIFICATION Spec
CONSTANTS
    t1 = t1
    t2 = t2
    online = online
    shop = shop
    tee = tee
    mug = mug
    h1 = h1
    h2 = h2
    Transfers = {t1, t2}
    Stores = {online, shop}
    Online = online
    SKUs = {tee}
    Tracked = {tee}
    Backorder = {}
    InitStock <- OneEach
    Quantities = {0, 2}
    Arrivals = {0, 1, 2}
    Closable = {shop}
    Requests = {h1, h2}
    MaxStock = 2
    MaxBelow = 1
INVARIANTS
    TypeOK
    MovementsMatchStatus
    HoldsCovered
PROPERTY
    GoodsLandOnce
SYMMETRY Symmetry
