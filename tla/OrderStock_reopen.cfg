SPECIFICATION Spec
CONSTANTS
    o1 = o1 o2 = o2 l1 = l1 l2 = l2 l3 = l3 tee = tee mug = mug ebook = ebook h1 = h1
    Orders = {o1, o2}
    Lines = {l1}
    SKUs = {tee}
    SkuOf <- OneSku
    Tracked = {tee}
    Digital = {}
    Backorder = {}
    InitStock <- Shelf2
    Quantities = {1, 2}
    Requests = {h1}
    Requested = {"PENDING", "PROCESSING", "COMPLETED", "CANCELED", "RETURNED", "PARTIALLY_RETURNED"}
    MaxMoved = 1
    Practices = {"reopen"}
SYMMETRY OrderSymmetry
INVARIANT ReservedNeverNegative
