SPECIFICATION Spec
CONSTANTS
    o1 = o1 o2 = o2 l1 = l1 l2 = l2 l3 = l3 tee = tee mug = mug ebook = ebook h1 = h1
    Orders = {o1}
    Lines = {l1, l2, l3}
    SKUs = {tee, mug, ebook}
    SkuOf <- ThreeSkus
    Tracked = {tee, mug}
    Digital = {ebook}
    Backorder = {mug}
    InitStock <- Shelf1
    Quantities = {1}
    Requests = {h1}
    Requested = {"PROCESSING", "COMPLETED", "CANCELED", "RETURNED", "PARTIALLY_RETURNED"}
    MaxMoved = 1
    Practices = {}
INVARIANTS ReservationsAccounted StockAccounted
