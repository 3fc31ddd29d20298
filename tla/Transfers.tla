------------------------------ MODULE Transfers ------------------------------
(***************************************************************************)
(* Stock transfers between stores: TransfersService in                     *)
(* src/apps/backend/src/modules/stock/transfers.service.ts over            *)
(* StockService.move in stock.service.ts.                                  *)
(*                                                                         *)
(* A handler reads the transfer, judges what it read, and then claims the  *)
(* row with UPDATE ... WHERE status = <what it read>.  Its transaction is  *)
(* READ COMMITTED, so anything may commit between the read and the claim:  *)
(* the read is one step, the claim with all it moves another.  A transfer  *)
(* may have several lines of one SKU; they always move together, so the    *)
(* model keeps their total.                                                *)
(***************************************************************************)
EXTENDS Integers

CONSTANTS
    Transfers,      \* transfers that may be created
    Stores,         \* all stores
    Online,         \* the online store, whose stock website orders reserve
    SKUs,           \* SKUs sold at every store
    Tracked,        \* SKUs with an inventory: trackInventory, not DIGITAL
    Backorder,      \* SKUs whose product has allowBackorder
    InitStock,      \* units at the start, [Stores -> [SKUs -> Nat]]
    Quantities,     \* quantities somebody may ask for, zero for no line
    Arrivals,       \* quantities somebody may count on arrival
    Closable,       \* stores the staff may make inactive and active again
    Requests,       \* requests that may be in flight at a time
    MaxStock,       \* bound: units of a SKU at a store that trade leads to
    MaxBelow        \* bound: how far website orders run the counters below zero
                    \* or take units unchecked

ASSUME ConstantsAssumption ==
    /\ Online \in Stores
    /\ Tracked \subseteq SKUs
    /\ InitStock \in [Stores -> [SKUs -> Nat]]
    /\ Quantities \subseteq Nat /\ Arrivals \subseteq Nat
    /\ Closable \subseteq Stores
    /\ MaxStock \in Nat /\ MaxBelow \in Nat

VARIABLES
    stock,          \* store_stock.quantity; products.stock at the online store
    reserved,       \* products.reserved_stock, held by website orders
    retaken,        \* history: units that orders completed again took unchecked
    active,         \* the stores with isActive
    status,         \* stock_transfers.status, "NONE" before the row exists
    route,          \* from_store_id and to_store_id
    qty,            \* units sent, per SKU
    got,            \* received_qty, per SKU
    moved,          \* sum of the transfer's stock_movements rows, per SKU
    req             \* what each request in flight has read

shopVars == <<stock, reserved, retaken, active>>
rowVars == <<status, route, qty, got, moved>>
vars == <<stock, reserved, retaken, active, status, route, qty, got, moved, req>>

TransferStatus == {"REQUESTED", "APPROVED", "DISPATCHED", "RECEIVED", "CANCELLED"}
TRANSITIONS == [
    NONE       |-> {},
    REQUESTED  |-> {"APPROVED", "CANCELLED"},
    APPROVED   |-> {"DISPATCHED", "CANCELLED"},
    DISPATCHED |-> {"RECEIVED", "CANCELLED"},
    RECEIVED   |-> {},
    CANCELLED  |-> {}]

Idle == [to |-> "NONE"]
Units == [SKUs -> Nat]
Nothing == [p \in SKUs |-> 0]
Route == [from : Stores, to : Stores]
Request == [to : TransferStatus, t : Transfers, seen : TransferStatus, got : Units]

TypeOK ==
    /\ stock \in [Stores -> [SKUs -> Int]]
    /\ \A s \in Stores \ {Online}, p \in SKUs : stock[s][p] >= 0
    /\ reserved \in [SKUs -> Int]
    /\ retaken \in Units
    /\ active \subseteq Stores
    /\ status \in [Transfers -> TransferStatus \cup {"NONE"}]
    /\ route \in [Transfers -> Route]
    /\ qty \in [Transfers -> Units]
    /\ got \in [Transfers -> Units]
    /\ moved \in [Transfers -> [SKUs -> Int]]
    /\ req \in [Requests -> Request \cup {Idle}]

Init ==
    /\ stock = InitStock
    /\ reserved = Nothing
    /\ retaken = Nothing
    /\ active = Stores
    /\ status = [t \in Transfers |-> "NONE"]
    /\ route = [t \in Transfers |-> [from |-> Online, to |-> Online]]
    /\ qty = [t \in Transfers |-> Nothing]
    /\ got = [t \in Transfers |-> Nothing]
    /\ moved = [t \in Transfers |-> Nothing]
    /\ req = [h \in Requests |-> Idle]

-----------------------------------------------------------------------------
\* StockService.move for every line of a document: n[p] units of p come to
\* store s, or leave it when negative; one line that does not fit fails all.
Out(n) == [p \in SKUs |-> -n[p]]
Counted(n) == [p \in SKUs |-> IF p \in Tracked THEN n[p] ELSE 0]

\* Mutant: the units website orders hold may leave the online store.
RoomIgnoringHolds(s, n) ==
    \A p \in Tracked : n[p] < 0 =>
        (s = Online /\ p \in Backorder) \/ stock[s][p] + n[p] >= 0

\* Mutant: only the online store's stock is looked at.
RoomOnlineOnly(s, n) ==
    \A p \in Tracked : n[p] < 0 /\ s = Online =>
        p \in Backorder \/ stock[s][p] - reserved[p] + n[p] >= 0

Room(s, n) ==
    \A p \in Tracked : n[p] < 0 =>
        IF s = Online THEN p \in Backorder \/ stock[s][p] - reserved[p] + n[p] >= 0
                      ELSE stock[s][p] + n[p] >= 0

move(s, n) ==
    /\ Room(s, n)
    /\ stock' = [stock EXCEPT ![s] = [p \in SKUs |-> stock[s][p] + Counted(n)[p]]]

\* The movements carry the id of their transfer.
moveFor(t, s, n) ==
    /\ move(s, n)
    /\ moved' = [moved EXCEPT ![t] = [p \in SKUs |-> moved[t][p] + Counted(n)[p]]]

-----------------------------------------------------------------------------
create(t, r, n) ==
    /\ status[t] = "NONE"
    /\ r.from # r.to /\ {r.from, r.to} \subseteq active
    /\ n # Nothing
    /\ status' = [status EXCEPT ![t] = "REQUESTED"]
    /\ route' = [route EXCEPT ![t] = r]
    /\ qty' = [qty EXCEPT ![t] = n]
    /\ UNCHANGED <<shopVars, got, moved, req>>

\* findUniqueOrThrow, assertTransition and, for a receipt, the checks of the
\* destination and of the typed quantities.
Read(h, t, s, n) ==
    /\ req[h] = Idle
    /\ s \in TRANSITIONS[status[t]]
    /\ IF s = "RECEIVED"
       THEN route[t].to \in active /\ \A p \in SKUs : n[p] <= qty[t][p]
       ELSE n = Nothing
    /\ req' = [req EXCEPT ![h] = [to |-> s, t |-> t, seen |-> status[t], got |-> n]]
    /\ UNCHANGED <<shopVars, rowVars>>

\* Mutant: the status is written whatever it has become.
claimBlindly(h, s) ==
    /\ req[h].to = s
    /\ status' = [status EXCEPT ![req[h].t] = s]
    /\ req' = [req EXCEPT ![h] = Idle]
    /\ UNCHANGED <<reserved, retaken, active, route, qty>>

claim(h, s) ==
    /\ req[h].to = s
    /\ status[req[h].t] = req[h].seen
    /\ status' = [status EXCEPT ![req[h].t] = s]
    /\ req' = [req EXCEPT ![h] = Idle]
    /\ UNCHANGED <<reserved, retaken, active, route, qty>>

approve(h) == claim(h, "APPROVED") /\ UNCHANGED <<stock, got, moved>>

dispatch(h) ==
    /\ claim(h, "DISPATCHED")
    /\ moveFor(req[h].t, route[req[h].t].from, Out(qty[req[h].t]))
    /\ UNCHANGED got

receive(h) ==
    /\ claim(h, "RECEIVED")
    /\ moveFor(req[h].t, route[req[h].t].to, req[h].got)
    /\ got' = [got EXCEPT ![req[h].t] = req[h].got]

\* Mutant: goods called back are those of a transfer that was not dispatched.
cancelWrongWay(h) ==
    /\ claim(h, "CANCELLED")
    /\ IF req[h].seen = "APPROVED"
       THEN moveFor(req[h].t, route[req[h].t].from, qty[req[h].t])
       ELSE UNCHANGED <<stock, moved>>
    /\ UNCHANGED got

cancel(h) ==
    /\ claim(h, "CANCELLED")
    /\ IF req[h].seen = "DISPATCHED"
       THEN moveFor(req[h].t, route[req[h].t].from, qty[req[h].t])
       ELSE UNCHANGED <<stock, moved>>
    /\ UNCHANGED got

\* The claim finds another status, a line does not fit, or the server stops:
\* the transaction rolls back.
rollback(h) ==
    /\ req[h] # Idle
    /\ req' = [req EXCEPT ![h] = Idle]
    /\ UNCHANGED <<shopVars, rowVars>>

-----------------------------------------------------------------------------
\* What the rest of the shop does to the same counters.

\* Goods receipts, adjustments, sales and returns: move for other documents.
Trade(s, p, n) ==
    /\ stock[s][p] + n \in 0..MaxStock
    /\ move(s, [q \in SKUs |-> IF q = p THEN n ELSE 0])
    /\ UNCHANGED <<reserved, retaken, active, rowVars, req>>

\* A website order reserves a unit, gives it back, or is completed.  Neither of
\* the last two looks at the counters.
Hold(p) ==
    /\ p \in Tracked
    /\ p \in Backorder \/ stock[Online][p] - reserved[p] >= 1
    /\ reserved[p] < MaxStock
    /\ reserved' = [reserved EXCEPT ![p] = @ + 1]
    /\ UNCHANGED <<stock, retaken, active, rowVars, req>>

Release(p) ==
    /\ reserved[p] > -MaxBelow
    /\ reserved' = [reserved EXCEPT ![p] = @ - 1]
    /\ UNCHANGED <<stock, retaken, active, rowVars, req>>

\* commitReservations.
Complete(p) ==
    /\ reserved[p] > -MaxBelow /\ stock[Online][p] > -MaxBelow
    /\ reserved' = [reserved EXCEPT ![p] = @ - 1]
    /\ stock' = [stock EXCEPT ![Online][p] = @ - 1]
    /\ UNCHANGED <<retaken, active, rowVars, req>>

\* decrementStockOnly: an order completed again takes back what its return had
\* put on the shelf, whoever holds it now.
CompleteAgain(p) ==
    /\ retaken[p] < MaxBelow
    /\ stock' = [stock EXCEPT ![Online][p] = @ - 1]
    /\ retaken' = [retaken EXCEPT ![p] = @ + 1]
    /\ UNCHANGED <<reserved, active, rowVars, req>>

\* StoresService.update
SetActive(s) ==
    /\ active' = IF s \in active THEN active \ {s} ELSE active \cup {s}
    /\ UNCHANGED <<stock, reserved, retaken, rowVars, req>>

Next ==
    \/ \E t \in Transfers, r \in Route, n \in [SKUs -> Quantities] : create(t, r, n)
    \/ \E h \in Requests, t \in Transfers, s \in TransferStatus,
          n \in [SKUs -> Arrivals] : Read(h, t, s, n)
    \/ \E h \in Requests :
          approve(h) \/ dispatch(h) \/ receive(h) \/ cancel(h) \/ rollback(h)
    \/ \E s \in Stores, p \in SKUs, n \in {1, -1} : Trade(s, p, n)
    \/ \E p \in SKUs : Hold(p) \/ Release(p) \/ Complete(p) \/ CompleteAgain(p)
    \/ \E s \in Closable : SetActive(s)

Spec == Init /\ [][Next]_vars

-----------------------------------------------------------------------------
\* The movements booked for a transfer are what its status says: nothing until
\* it is dispatched, all its units out while it is on the road, only the
\* shortfall missing once it is received, and nothing once it is cancelled,
\* whichever of two concurrent clicks won.
MovementsMatchStatus ==
    \A t \in Transfers, p \in SKUs :
        /\ status[t] = "DISPATCHED" => moved[t][p] = -Counted(qty[t])[p]
        /\ status[t] = "RECEIVED" =>
              moved[t][p] = Counted(got[t])[p] - Counted(qty[t])[p]
        /\ status[t] \notin {"DISPATCHED", "RECEIVED"} => moved[t][p] = 0

\* What website orders hold is on the shelf of the online store, but for the units
\* that orders completed again took unchecked: no dispatch, calling back, sale,
\* adjustment or new reservation, in any order, adds to what is missing.
HoldsCovered ==
    \A p \in Tracked \ Backorder : stock[Online][p] + retaken[p] >= reserved[p]

\* How far the goods are, by status.
Leg == [
    NONE |-> "unknown", REQUESTED |-> "planned", APPROVED |-> "planned",
    DISPATCHED |-> "onroad", RECEIVED |-> "over", CANCELLED |-> "over"]
OnRoad(t) == IF status[t] = "DISPATCHED" THEN Counted(qty[t]) ELSE Nothing

Goods == INSTANCE Consignments WITH
    Consignments <- Transfers,
    shelf <- stock,
    leg <- [t \in Transfers |-> Leg[status[t]]],
    load <- [t \in Transfers |-> OnRoad(t)]

\* Goods leave once and land once, at one end of their route: the claim is all
\* that keeps two requests that read the same status from both moving stock.
GoodsLandOnce == Goods!Spec
=============================================================================
