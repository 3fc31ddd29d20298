------------------------------ MODULE OrderStock ------------------------------
(***************************************************************************)
(* Stock of the online store under the life of website and staff orders.   *)
(*                                                                         *)
(* An order line first HOLDS its units (products.reserved_stock), and its  *)
(* order's status changes then release them, take them off the shelf       *)
(* (products.stock), or bring some of them back.  Sources, all under       *)
(* src/apps/backend/src/modules: orders/orders.service.ts (updateStatus,   *)
(* the item edits, setReturnedStock), orders/stock-reservation.util.ts,    *)
(* orders/checkout.service.ts, orders/admin-order-creation.service.ts and  *)
(* the online-store half of stock/stock.service.ts.                        *)
(*                                                                         *)
(* A transaction that takes the order row lock before it commits is one    *)
(* step; a line edit is two, because it reads the order and the line       *)
(* before its transaction begins.  An exception rolls the transaction      *)
(* back, so a check that throws is a conjunct.                             *)
(***************************************************************************)
EXTENDS Integers, FiniteSets, Functions

CONSTANTS
    Orders,         \* orders that may be placed
    Lines,          \* slots for order_items rows; one row per slot and order
    SKUs,           \* a product without variants, or one variant
    SkuOf,          \* the SKU each slot sells, [Lines -> SKUs]
    Tracked,        \* SKUs whose product has trackInventory
    Digital,        \* SKUs whose product is DIGITAL
    Backorder,      \* SKUs whose product has allowBackorder
    InitStock,      \* units on the shelf at the start, [SKUs -> Nat]
    Quantities,     \* quantities a customer or the staff may type
    Requests,       \* item-edit requests that may be in flight at a time
    Requested,      \* statuses the staff, the couriers and the shop ask for
    MaxMoved,       \* bound: units the online store gains or loses otherwise
    Practices       \* what the staff do that the code permits, see below

RELEASE_ON_CANCEL == {"CANCELED", "RETURNED", "PARTIALLY_RETURNED"}
ITEM_EDITABLE_STATUSES == {"PENDING", "CONFIRMED", "PROCESSING", "HOLD"}
OrderStatus == RELEASE_ON_CANCEL \cup ITEM_EDITABLE_STATUSES \cup {"COMPLETED"}

(***************************************************************************)
(* Uses of the API that no guard of the code refuses.  A run names those   *)
(* it admits:                                                              *)
(*   overlap      other requests run between the reads of an item edit     *)
(*                and its transaction                                      *)
(*   reopen       an order closed before it was ever completed is moved    *)
(*                back to an open status or completed                      *)
(*   edit_sold    lines are edited on an order moved back from COMPLETED   *)
(*   empty_cancel a completed order is cancelled with return lines that    *)
(*                bring nothing back                                       *)
(***************************************************************************)
AllPractices == {"overlap", "reopen", "edit_sold", "empty_cancel"}

ASSUME ConstantsAssumption ==
    /\ IsFiniteSet(Orders) /\ IsFiniteSet(Lines)
    /\ SkuOf \in [Lines -> SKUs]
    /\ Tracked \subseteq SKUs /\ Digital \subseteq SKUs /\ Backorder \subseteq SKUs
    /\ InitStock \in [SKUs -> Nat]
    /\ Quantities \subseteq Nat \ {0}
    /\ Requested \subseteq OrderStatus
    /\ MaxMoved \in Nat
    /\ Practices \subseteq AllPractices

\* ProductsService forces trackInventory off on every DIGITAL product.
ASSUME DigitalUntracked == Digital \cap Tracked = {}

VARIABLES
    stock,          \* products.stock / product_variants.stock
    reserved,       \* products.reserved_stock / product_variants.reserved_stock
    moved,          \* sum of the online store's stock_movements rows
    status,         \* orders.status, "none" before the order exists
    completed,      \* orders.completed_at is set
    lastStock,      \* newest history entry that stockIsOut looks at, or "none"
    line,           \* order_items: quantity, restocked and written-off counts
    edit            \* what each item-edit request has read so far

stockVars == <<stock, reserved, moved>>
orderVars == <<status, completed, lastStock, line>>
vars == <<stock, reserved, moved, status, completed, lastStock, line, edit>>

Idle == [kind |-> "idle"]
NewLine(n) == [qty |-> n, back |-> 0, off |-> 0]
NoLine == NewLine(0)

LineRow == [qty : Nat, back : Nat, off : Nat]
EditRequest == [kind : {"add", "set", "remove"}, o : Orders, l : Lines,
                qty : Nat, seen : Nat]

-----------------------------------------------------------------------------
\* Sums and shifts.

\* The units of SKU p in d, a number per slot.
PerSku(d, p) == SumFunctionOnSet(d, {l \in Lines : SkuOf[l] = p})

\* The counter f of every SKU in S moved by the amounts d.
Shift(f, S, d) == [p \in SKUs |-> IF p \in S THEN f[p] + PerSku(d, p) ELSE f[p]]

Negated(d) == [l \in Lines |-> -d[l]]
Quantity(o) == [l \in Lines |-> line[o][l].qty]
Physical == SKUs \ Digital

Rows(o) == {l \in Lines : line[o][l].qty > 0}
Counted(o) == \E l \in Lines : line[o][l].back > 0 \/ line[o][l].off > 0

\* stockIsOut, for an order completed at some point.
StockIsOut(o) == completed[o] /\ lastStock[o] = "COMPLETED"

\* No request is between its reads and its transaction, or nobody waits.
Quiet == "overlap" \in Practices \/ \A h \in Requests : edit[h] = Idle

-----------------------------------------------------------------------------
\* reserveStock, releaseStock and the helpers of OrdersService.

\* Mutant: availability forgets what is already reserved.
CanReserveIgnoringHolds(d) ==
    \A p \in Tracked \ Backorder : stock[p] >= PerSku(d, p)

CanReserve(d) ==
    \A p \in Tracked \ Backorder :
        PerSku(d, p) > 0 => stock[p] - reserved[p] >= PerSku(d, p)

reserveStock(d) == CanReserve(d) /\ reserved' = Shift(reserved, Tracked, d)
releaseStock(d) == reserved' = Shift(reserved, Tracked, Negated(d))

releaseReservations(o) == reserved' = Shift(reserved, Physical, Negated(Quantity(o)))
commitReservations(o) ==
    /\ reserved' = Shift(reserved, Physical, Negated(Quantity(o)))
    /\ stock' = Shift(stock, Physical, Negated(Quantity(o)))
restockReturnedItems(d) == stock' = Shift(stock, Physical, d)
decrementStockOnly(d) == stock' = Shift(stock, Physical, Negated(d))

\* The counts of an order's lines after a return.
SetCounts(o, back, off) ==
    line' = [line EXCEPT ![o] =
               [l \in Lines |-> [qty |-> line[o][l].qty, back |-> back[l], off |-> off[l]]]]

-----------------------------------------------------------------------------
CountersOK ==
    /\ stock \in [SKUs -> Int]
    /\ reserved \in [SKUs -> Int]
    /\ moved \in [SKUs -> Int]

OrdersOK ==
    /\ status \in [Orders -> OrderStatus \cup {"none"}]
    /\ completed \in [Orders -> BOOLEAN]
    /\ lastStock \in [Orders -> RELEASE_ON_CANCEL \cup {"COMPLETED", "none"}]
    /\ line \in [Orders -> [Lines -> LineRow]]
    /\ edit \in [Requests -> EditRequest \cup {Idle}]

\* The types of the columns: counters may go below zero, line counts may not.
TypeOK == CountersOK /\ OrdersOK

Init ==
    /\ stock = InitStock
    /\ reserved = [p \in SKUs |-> 0]
    /\ moved = [p \in SKUs |-> 0]
    /\ status = [o \in Orders |-> "none"]
    /\ completed = [o \in Orders |-> FALSE]
    /\ lastStock = [o \in Orders |-> "none"]
    /\ line = [o \in Orders |-> [l \in Lines |-> NoLine]]
    /\ edit = [h \in Requests |-> Idle]

-----------------------------------------------------------------------------
\* Placing an order: every line is reserved and the order created in one
\* transaction, PENDING from the website, CONFIRMED from the staff.
PlaceOrder(o, initial, q) ==
    /\ Quiet
    /\ status[o] = "none"
    /\ \E l \in Lines : q[l] > 0
    /\ reserveStock(q)
    /\ status' = [status EXCEPT ![o] = initial]
    /\ line' = [line EXCEPT ![o] = [l \in Lines |-> NewLine(q[l])]]
    /\ UNCHANGED <<stock, moved, completed, lastStock, edit>>

Checkout(o, q) == PlaceOrder(o, "PENDING", q)
CreateByStaff(o, q) == PlaceOrder(o, "CONFIRMED", q)

\* StockService.move at the online store: stock in, adjustments, transfers,
\* and the sales and returns of other channels.
OnlineMove(p, n) ==
    /\ Quiet
    /\ p \in Tracked
    /\ n > 0 \/ p \in Backorder \/ stock[p] - reserved[p] + n >= 0
    /\ moved[p] + n \in -MaxMoved..MaxMoved
    /\ stock' = [stock EXCEPT ![p] = @ + n]
    /\ moved' = [moved EXCEPT ![p] = @ + n]
    /\ UNCHANGED <<reserved, orderVars, edit>>

-----------------------------------------------------------------------------
(***************************************************************************)
(* Item edits.  assertItemsEditable and the read of the line run before    *)
(* the transaction, which re-checks neither.                               *)
(***************************************************************************)
BeginEdit(h, o) ==
    /\ Quiet
    /\ edit[h] = Idle
    /\ status[o] \in ITEM_EDITABLE_STATUSES
    /\ completed[o] => "edit_sold" \in Practices
    /\ UNCHANGED <<stockVars, orderVars>>

Targets(o, l) == {h \in Requests : edit[h] # Idle /\ edit[h].o = o /\ edit[h].l = l}

ReadForAdd(h, o, l, q) ==
    /\ BeginEdit(h, o)
    /\ line[o][l].qty = 0 /\ Targets(o, l) = {}      \* a slot for the new row
    /\ edit' = [edit EXCEPT ![h] =
                 [kind |-> "add", o |-> o, l |-> l, qty |-> q, seen |-> 0]]

ReadForUpdate(h, o, l, q) ==
    /\ BeginEdit(h, o)
    /\ line[o][l].qty > 0
    /\ edit' = [edit EXCEPT ![h] = [kind |-> "set", o |-> o, l |-> l,
                                    qty |-> q, seen |-> line[o][l].qty]]

ReadForRemove(h, o, l) ==
    /\ BeginEdit(h, o)
    /\ l \in Rows(o) /\ Rows(o) # {l}
    /\ edit' = [edit EXCEPT ![h] = [kind |-> "remove", o |-> o, l |-> l,
                                    qty |-> 0, seen |-> line[o][l].qty]]

OneLine(l, n) == [k \in Lines |-> IF k = l THEN n ELSE 0]

EndEdit(h) ==
    /\ edit[h] # Idle
    /\ edit' = [edit EXCEPT ![h] = Idle]
    /\ UNCHANGED <<stock, moved, status, completed, lastStock>>

addItem(h) ==
    /\ EndEdit(h)
    /\ edit[h].kind = "add"
    /\ reserveStock(OneLine(edit[h].l, edit[h].qty))
    /\ line' = [line EXCEPT ![edit[h].o][edit[h].l] = NewLine(edit[h].qty)]

\* The row must still exist: Prisma's update and delete throw otherwise.
updateItemQuantity(h) ==
    LET e == edit[h] IN
    /\ EndEdit(h)
    /\ e.kind = "set" /\ line[e.o][e.l].qty > 0
    /\ \/ e.qty > e.seen /\ reserveStock(OneLine(e.l, e.qty - e.seen))
       \/ e.qty < e.seen /\ releaseStock(OneLine(e.l, e.seen - e.qty))
       \/ e.qty = e.seen /\ UNCHANGED reserved
    /\ line' = [line EXCEPT ![e.o][e.l].qty = e.qty]

\* Mutant: the line goes, its hold stays.
removeItemKeepingHold(h) ==
    /\ EndEdit(h)
    /\ edit[h].kind = "remove" /\ line[edit[h].o][edit[h].l].qty > 0
    /\ line' = [line EXCEPT ![edit[h].o][edit[h].l] = NoLine]
    /\ UNCHANGED reserved

removeItem(h) ==
    LET e == edit[h] IN
    /\ EndEdit(h)
    /\ e.kind = "remove" /\ line[e.o][e.l].qty > 0
    /\ releaseStock(OneLine(e.l, e.seen))
    /\ line' = [line EXCEPT ![e.o][e.l] = NoLine]

\* The transaction rolls back: out of stock, the row is gone, a deadlock.
editFails(h) == EndEdit(h) /\ UNCHANGED <<reserved, line>>

-----------------------------------------------------------------------------
(***************************************************************************)
(* updateStatus.  ret is dto.returnLines: a choice for some of the lines,  *)
(* nothing chosen when the field is absent.                                *)
(***************************************************************************)

\* applyReturnLines
applyReturnLines(o, s, ret, fromPartial) ==
    LET prevBack == [l \in Lines |-> IF fromPartial THEN line[o][l].back ELSE 0]
        prevOff  == [l \in Lines |-> IF fromPartial THEN line[o][l].off ELSE 0]
        back == [l \in Lines |-> IF l \in DOMAIN ret THEN ret[l].restock
                                 ELSE line[o][l].qty - prevOff[l]]
        off  == [l \in Lines |-> IF l \in DOMAIN ret THEN ret[l].writeOff ELSE prevOff[l]]
    IN  /\ DOMAIN ret \subseteq Rows(o)
        /\ \A l \in Rows(o) :
              /\ back[l] >= prevBack[l] /\ off[l] >= prevOff[l]
              /\ back[l] + off[l] <= line[o][l].qty
              /\ s = "RETURNED" => back[l] + off[l] = line[o][l].qty
        /\ s = "PARTIALLY_RETURNED" => \E l \in Rows(o) : back[l] + off[l] > 0
        /\ s = "CANCELED" /\ "empty_cancel" \notin Practices
              => \E l \in Rows(o) : back[l] + off[l] > 0
        /\ restockReturnedItems([l \in Lines |-> back[l] - prevBack[l]])
        /\ SetCounts(o, back, off)

\* writeOffFromShelf
writeOffFromShelf(o, ret) ==
    LET counted == Counted(o)
        onShelf == [l \in Lines |-> IF counted THEN line[o][l].back ELSE line[o][l].qty]
        prevOff == [l \in Lines |-> IF counted THEN line[o][l].off ELSE 0]
        more == [l \in Lines |-> IF l \in DOMAIN ret /\ ret[l].writeOff > prevOff[l]
                                 THEN ret[l].writeOff - prevOff[l] ELSE 0]
    IN  /\ DOMAIN ret \subseteq Rows(o)
        /\ \A l \in Rows(o) : more[l] <= onShelf[l]
        /\ decrementStockOnly(more)
        /\ SetCounts(o,
             [l \in Lines |-> IF more[l] > 0 THEN onShelf[l] - more[l] ELSE line[o][l].back],
             [l \in Lines |-> IF more[l] > 0 THEN ret[l].writeOff ELSE line[o][l].off])

\* Mutant: whether counts exist is decided line by line.
setReturnStockPerLine(o, ret) ==
    LET has == [l \in Lines |-> line[o][l].back + line[o][l].off > 0]
        onShelf == [l \in Lines |-> IF has[l] THEN line[o][l].back ELSE line[o][l].qty]
        returned == [l \in Lines |-> IF has[l] THEN line[o][l].back + line[o][l].off
                                     ELSE line[o][l].qty]
        back == [l \in Lines |-> IF l \in DOMAIN ret THEN ret[l].restock ELSE onShelf[l]]
    IN  /\ DOMAIN ret \subseteq Rows(o)
        /\ \A l \in Rows(o) : back[l] \in 0..returned[l]
        /\ restockReturnedItems([l \in Lines |-> back[l] - onShelf[l]])
        /\ SetCounts(o, back, [l \in Lines |-> returned[l] - back[l]])

\* setReturnStock: which of the units that came back are on the shelf.
setReturnStock(o, ret) ==
    LET counted == Counted(o)
        onShelf == [l \in Lines |-> IF counted THEN line[o][l].back ELSE line[o][l].qty]
        returned == [l \in Lines |-> IF counted THEN line[o][l].back + line[o][l].off
                                     ELSE line[o][l].qty]
        back == [l \in Lines |-> IF l \in DOMAIN ret THEN ret[l].restock ELSE onShelf[l]]
    IN  /\ DOMAIN ret \subseteq Rows(o)
        /\ \A l \in Rows(o) : back[l] \in 0..returned[l]
        /\ restockReturnedItems([l \in Lines |-> back[l] - onShelf[l]])
        /\ SetCounts(o, back, [l \in Lines |-> returned[l] - back[l]])

\* Mutant: every history entry decides whether the stock is out.
SetStatusAnyEntry(o, s) ==
    /\ status' = [status EXCEPT ![o] = s]
    /\ completed' = [completed EXCEPT ![o] = @ \/ s = "COMPLETED"]
    /\ lastStock' = [lastStock EXCEPT ![o] = s]
    /\ UNCHANGED <<moved, edit>>

\* The write of the status, its dates and its history entry.
SetStatus(o, s) ==
    /\ status' = [status EXCEPT ![o] = s]
    /\ completed' = [completed EXCEPT ![o] = @ \/ s = "COMPLETED"]
    /\ lastStock' = [lastStock EXCEPT ![o] =
                       IF s \in RELEASE_ON_CANCEL \cup {"COMPLETED"} THEN s ELSE @]
    /\ UNCHANGED <<moved, edit>>

Asked(o, s) ==
    /\ Quiet
    /\ status[o] \notin {"none", s}
    /\ status[o] \in RELEASE_ON_CANCEL /\ s \notin RELEASE_ON_CANCEL
          => completed[o] \/ "reopen" \in Practices

Closing(o, s) == s \in RELEASE_ON_CANCEL /\ status[o] \notin RELEASE_ON_CANCEL

\* Closed before it was ever completed: the hold is given back.  Units of an
\* undelivered parcel that came back damaged leave the shelf.
CloseUnsold(o, s, ret) ==
    /\ Asked(o, s) /\ Closing(o, s) /\ ~completed[o]
    /\ releaseReservations(o)
    /\ IF ret # <<>> /\ s # "CANCELED" THEN setReturnStock(o, ret)
                                       ELSE UNCHANGED <<stock, line>>
    /\ SetStatus(o, s)

\* A completed order comes back: units are restocked or written off.
CloseSold(o, s, ret) ==
    /\ Asked(o, s) /\ Closing(o, s) /\ StockIsOut(o)
    /\ applyReturnLines(o, s, ret, FALSE)
    /\ UNCHANGED reserved
    /\ SetStatus(o, s)

\* Closed again although its stock is already back.
CloseReturned(o, s, ret) ==
    /\ Asked(o, s) /\ Closing(o, s) /\ completed[o] /\ ~StockIsOut(o)
    /\ IF ret # <<>> THEN writeOffFromShelf(o, ret) ELSE UNCHANGED <<stock, line>>
    /\ UNCHANGED reserved
    /\ SetStatus(o, s)

\* The rest of a partial return comes back.
FinishesReturn(o, s) ==
    /\ status[o] = "PARTIALLY_RETURNED" /\ s = "RETURNED"
    /\ completed[o] /\ Counted(o)

\* Mutant: what came back earlier is restocked again.
FinishReturnFromNothing(o, s, ret) ==
    /\ Asked(o, s) /\ FinishesReturn(o, s)
    /\ applyReturnLines(o, s, ret, FALSE)
    /\ UNCHANGED reserved
    /\ SetStatus(o, s)

FinishReturn(o, s, ret) ==
    /\ Asked(o, s) /\ FinishesReturn(o, s)
    /\ applyReturnLines(o, s, ret, TRUE)
    /\ UNCHANGED reserved
    /\ SetStatus(o, s)

\* The first completion consumes the reservation.
CompleteFirst(o, s) ==
    /\ Asked(o, s) /\ s = "COMPLETED" /\ ~completed[o]
    /\ commitReservations(o)
    /\ UNCHANGED line
    /\ SetStatus(o, s)

\* Mutant: the second completion consumes a reservation too.
CompleteAgainWithHold(o, s) ==
    /\ Asked(o, s) /\ s = "COMPLETED" /\ completed[o] /\ ~StockIsOut(o)
    /\ commitReservations(o)
    /\ SetCounts(o, [l \in Lines |-> 0], [l \in Lines |-> 0])
    /\ SetStatus(o, s)

\* Mutant: the counts of the earlier return stay on the lines.
CompleteAgainKeepingCounts(o, s) ==
    /\ Asked(o, s) /\ s = "COMPLETED" /\ completed[o] /\ ~StockIsOut(o)
    /\ decrementStockOnly([l \in Lines |-> IF Counted(o) THEN line[o][l].back
                                                         ELSE line[o][l].qty])
    /\ UNCHANGED <<reserved, line>>
    /\ SetStatus(o, s)

\* Completed once more after its stock came back: only stock moves.
CompleteAgain(o, s) ==
    /\ Asked(o, s) /\ s = "COMPLETED" /\ completed[o] /\ ~StockIsOut(o)
    /\ decrementStockOnly([l \in Lines |-> IF Counted(o) THEN line[o][l].back
                                                         ELSE line[o][l].qty])
    /\ SetCounts(o, [l \in Lines |-> 0], [l \in Lines |-> 0])
    /\ UNCHANGED reserved
    /\ SetStatus(o, s)

\* Every other change moves no stock.
Relabel(o, s) ==
    /\ Asked(o, s) /\ ~Closing(o, s) /\ ~FinishesReturn(o, s)
    /\ s = "COMPLETED" => StockIsOut(o)
    /\ UNCHANGED <<stock, reserved, line>>
    /\ SetStatus(o, s)

\* setReturnedStock, which also writes a history entry.
setReturnedStock(o, ret) ==
    /\ Quiet
    /\ status[o] \in {"RETURNED", "PARTIALLY_RETURNED"}
    /\ setReturnStock(o, ret)
    /\ lastStock' = [lastStock EXCEPT ![o] = status[o]]
    /\ UNCHANGED <<reserved, moved, status, completed, edit>>

-----------------------------------------------------------------------------
Counts == Quantities \cup {0}
ReturnLines == UNION {[S -> [restock : Counts, writeOff : Counts]] : S \in SUBSET Lines}

Next ==
    \/ \E o \in Orders, q \in [Lines -> Counts] : Checkout(o, q) \/ CreateByStaff(o, q)
    \/ \E p \in SKUs, n \in {1, -1} : OnlineMove(p, n)
    \/ \E h \in Requests, o \in Orders, l \in Lines :
          \/ \E q \in Quantities : ReadForAdd(h, o, l, q) \/ ReadForUpdate(h, o, l, q)
          \/ ReadForRemove(h, o, l)
    \/ \E h \in Requests :
          addItem(h) \/ updateItemQuantity(h) \/ removeItem(h) \/ editFails(h)
    \/ \E o \in Orders, s \in Requested :
          \/ CompleteFirst(o, s) \/ CompleteAgain(o, s) \/ Relabel(o, s)
          \/ \E ret \in ReturnLines :
                \/ CloseUnsold(o, s, ret) \/ CloseSold(o, s, ret)
                \/ CloseReturned(o, s, ret) \/ FinishReturn(o, s, ret)
    \/ \E o \in Orders, ret \in ReturnLines : setReturnedStock(o, ret)

Spec == Init /\ [][Next]_vars

-----------------------------------------------------------------------------
(***************************************************************************)
(* What the stock counters must add up to.                                 *)
(***************************************************************************)

\* Units order o holds on its lines: all of them while it is open for the
\* first time, none once it is completed or closed.
Held(o) == [l \in Lines |->
              IF status[o] \in ITEM_EDITABLE_STATUSES /\ ~completed[o]
              THEN line[o][l].qty ELSE 0]

\* Units of order o that left the shelf and did not come back to it.
OffShelf(o) == [l \in Lines |->
                  CASE StockIsOut(o) -> line[o][l].qty
                    [] completed[o] /\ ~StockIsOut(o) ->
                         IF Counted(o) THEN line[o][l].qty - line[o][l].back ELSE 0
                    [] OTHER -> line[o][l].off]

OverOrders(U(_), p) == SumFunctionOnSet([o \in Orders |-> PerSku(U(o), p)], Orders)

\* The reserved counter of a tracked SKU is exactly what open, never completed
\* orders hold: nothing is released twice, consumed twice or left behind.
ReservationsAccounted ==
    \A p \in Tracked : reserved[p] = OverOrders(Held, p)

\* Every unit of a tracked SKU is on the shelf, out with an order, written off,
\* or explained by a stock movement: no path restocks or takes it twice.
StockAccounted ==
    \A p \in Tracked : stock[p] + OverOrders(OffShelf, p) = InitStock[p] + moved[p]

\* While an order's goods are out, its lines carry no return counts, and no
\* line ever has more units back and written off than it sold.
CountsConsistent ==
    \A o \in Orders :
        /\ StockIsOut(o) => ~Counted(o)
        /\ \A l \in Lines : line[o][l].back + line[o][l].off <= line[o][l].qty

\* More is promised than is on the shelf only by a step on an order whose goods
\* had already come back (sold again, or written off late).  Checkout, staff
\* orders, edits, stock moves, completions and cancellations never do it.
OversoldOnlyAfterReturn ==
    [][\A p \in Tracked \ Backorder :
          reserved[p] <= stock[p] /\ reserved'[p] > stock'[p]
             => \E o \in Orders : /\ lastStock[o] \in RELEASE_ON_CANCEL
                                  /\ <<status[o], line[o]>>' # <<status[o], line[o]>>]_vars

\* The reserved counter never goes below zero, which would overstate what is
\* sellable (the comment in updateStatus on re-completing an order).
ReservedNeverNegative == \A p \in Tracked : reserved[p] >= 0
=============================================================================
