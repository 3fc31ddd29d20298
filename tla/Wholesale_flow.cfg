SPECIFICATION Spec
CONSTANTS
    o1 = o1
    h1 = h1
    h2 = h2
    sack = sack
    ebook = ebook
    Orders = {o1}
    SKUs = {sack, ebook}
    Digital = {ebook}
    MaxQty = 1
    MaxReceipts = 2
    Staff = {h1, h2}
    Overlaps <- SafeOverlaps
    Practices <- NoPractices
INVARIANTS StockBalanced InvoiceExact
SYMMETRY Symmetry
