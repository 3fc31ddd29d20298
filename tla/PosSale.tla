------------------------------- MODULE PosSale -------------------------------
(***************************************************************************)
(* A till sale after it was rung up: returns, edits, the Trash and back    *)
(* (PosSaleService in src/apps/backend/src/modules/pos/pos-sale.service.ts *)
(* over StockService.move).                                                *)
(*                                                                         *)
(* Every handler reads the sale with its lines, decides what to move and   *)
(* to pay from that copy, and then runs a transaction that first claims    *)
(* something of the sale: a return its lines, an edit the row as it was    *)
(* last written (updated_at), a delete and a restore the status.  The read *)
(* is one step and the transaction another; the postings to the ledger     *)
(* that follow the transaction only append rows that no handler reads, so  *)
(* they belong to the second step.                                         *)
(*                                                                         *)
(* A sale has at most one line per SKU and every unit costs the sale's     *)
(* rate, so the shares that returns pay back need no rounding.             *)
(***************************************************************************)
EXTENDS Integers, FiniteSets, Functions

CONSTANTS
    Sales,          \* sales that may be rung up at the shop
    SKUs,           \* what the shop sells, all with an inventory
    InitStock,      \* units in the shop at the start, [SKUs -> Nat]
    Quantities,     \* quantities a cashier may ring up, zero for no line
    Rates,          \* what the customer pays per unit after all discounts
    Requests,       \* requests that may be in flight at a time
    Overlaps        \* sets of request kinds that may be in flight together

Kinds == {"return", "edit", "delete", "restore", "purge"}

\* Requests that may overlap without harm: of one kind, a delete with a restore,
\* and the nightly purge with anything.
SafeOverlaps == {{"return"}, {"edit"}, {"delete"}, {"restore"}, {"delete", "restore"}}
                \cup {{"purge", k} : k \in Kinds}

ASSUME ConstantsAssumption ==
    /\ IsFiniteSet(SKUs)
    /\ InitStock \in [SKUs -> Nat]
    /\ Quantities \subseteq Nat /\ Rates \subseteq Nat
    /\ Overlaps \subseteq SUBSET Kinds

VARIABLES
    stock,          \* store_stock.quantity of the shop
    status,         \* orders.status, "none" before and "purged" after the row
    deleted,        \* orders.deleted_at is set: the sale is in the Trash
    voided,         \* orders.pos_voided_by_delete
    qty,            \* order_items.quantity, 0 when there is no line
    back,           \* order_items.restocked_quantity
    rate,           \* unit price less discounts
    refunded,       \* orders.pos_refunded_amount
    moved,          \* sum of the sale's stock_movements rows
    till,           \* net money the ledger shows for the sale
    req             \* what each request in flight has read

saleVars == <<status, deleted, voided, qty, back, rate, refunded>>
bookVars == <<stock, moved, till>>
vars == <<stock, status, deleted, voided, qty, back, rate, refunded,
          moved, till, req>>

Live == {"COMPLETED", "PARTIALLY_RETURNED"}
Existing == Live \cup {"RETURNED"}
Units == [SKUs -> Nat]
Nothing == [p \in SKUs |-> 0]
Idle == [kind |-> "none"]
\* fresh: orders.updated_at is still what the request has read.
Request == [kind : Kinds, s : Sales, n : Units, fresh : BOOLEAN,
            status : Existing, voided : BOOLEAN,
            qty : Units, back : Units, refunded : Nat]

TypeOK ==
    /\ stock \in [SKUs -> Nat]
    /\ status \in [Sales -> Existing \cup {"none", "purged"}]
    /\ deleted \in [Sales -> BOOLEAN]
    /\ voided \in [Sales -> BOOLEAN]
    /\ qty \in [Sales -> Units]
    /\ back \in [Sales -> Units]
    /\ rate \in [Sales -> Nat]
    /\ refunded \in [Sales -> Nat]
    /\ moved \in [Sales -> [SKUs -> Int]]
    /\ till \in [Sales -> Int]
    /\ req \in [Requests -> Request \cup {Idle}]

Init ==
    /\ stock = InitStock
    /\ status = [s \in Sales |-> "none"]
    /\ deleted = [s \in Sales |-> FALSE]
    /\ voided = [s \in Sales |-> FALSE]
    /\ qty = [s \in Sales |-> Nothing]
    /\ back = [s \in Sales |-> Nothing]
    /\ rate = [s \in Sales |-> 0]
    /\ refunded = [s \in Sales |-> 0]
    /\ moved = [s \in Sales |-> Nothing]
    /\ till = [s \in Sales |-> 0]
    /\ req = [h \in Requests |-> Idle]

-----------------------------------------------------------------------------
Count(n) == SumFunctionOnSet(n, SKUs)
Minus(m, n) == [p \in SKUs |-> m[p] - n[p]]
Lesser(a, b) == IF a < b THEN a ELSE b

\* What the customer pays for n, orders.total_amount when n is the sale.
Price(s, n) == rate[s] * Count(n)

\* Mutant: the update of store_stock is not conditional.
moveUnchecked(s, n) ==
    /\ stock' = [p \in SKUs |-> stock[p] + n[p]]
    /\ moved' = [moved EXCEPT ![s] = [p \in SKUs |-> moved[s][p] + n[p]]]

\* StockService.move for the lines of a sale: n[p] units of p come back, or
\* leave when negative.
move(s, n) ==
    /\ \A p \in SKUs : n[p] < 0 => stock[p] + n[p] >= 0
    /\ stock' = [p \in SKUs |-> stock[p] + n[p]]
    /\ moved' = [moved EXCEPT ![s] = [p \in SKUs |-> moved[s][p] + n[p]]]

\* postPrepaidCapture (amount > 0) and postRefund (amount < 0).
Post(s, amount) == till' = [till EXCEPT ![s] = @ + amount]

\* Request h ends; a write of the order row outdates the other copies of it.
Finish(h) == req' = [g \in Requests |->
    IF g = h THEN Idle
    ELSE IF req[g] # Idle /\ req[g].s = req[h].s THEN [req[g] EXCEPT !.fresh = FALSE]
    ELSE req[g]]

-----------------------------------------------------------------------------
\* create: the sale is COMPLETED and its goods leave in one transaction.
create(s, n, r) ==
    /\ status[s] = "none"
    /\ n # Nothing
    /\ move(s, Minus(Nothing, n))
    /\ status' = [status EXCEPT ![s] = "COMPLETED"]
    /\ qty' = [qty EXCEPT ![s] = n]
    /\ rate' = [rate EXCEPT ![s] = r]
    /\ Post(s, r * Count(n))
    /\ UNCHANGED <<deleted, voided, back, refunded, req>>

\* get, and the checks that a handler makes on its copy.
Begin(h, k, s, n) ==
    /\ req[h] = Idle /\ status[s] \in Existing
    /\ \A g \in Requests :
          req[g] # Idle /\ req[g].s = s => {k, req[g].kind} \in Overlaps
    /\ req' = [req EXCEPT ![h] =
         [kind |-> k, s |-> s, n |-> n, fresh |-> TRUE, status |-> status[s],
          voided |-> voided[s], qty |-> qty[s], back |-> back[s],
          refunded |-> refunded[s]]]
    /\ UNCHANGED <<saleVars, bookVars>>

ReadForReturn(h, s, n) ==
    /\ Begin(h, "return", s, n)
    /\ ~deleted[s] /\ status[s] \in Live
    /\ n # Nothing /\ \A p \in SKUs : n[p] <= qty[s][p] - back[s][p]

ReadForEdit(h, s, n) ==
    /\ Begin(h, "edit", s, n)
    /\ ~deleted[s] /\ status[s] = "COMPLETED" /\ refunded[s] = 0
    /\ n # Nothing /\ n # qty[s]

ReadForDelete(h, s) == Begin(h, "delete", s, Nothing) /\ ~deleted[s]
ReadForRestore(h, s) == Begin(h, "restore", s, Nothing) /\ deleted[s]

\* purgeTrash lists the sales that have been in the Trash for long.
ReadForPurge(h, s) ==
    Begin(h, "purge", s, Nothing) /\ deleted[s] /\ status[s] # "COMPLETED"

-----------------------------------------------------------------------------
\* A request in flight, and the row it is about to write.
Running(h, k) == req[h].kind = k /\ status[req[h].s] \in Existing

\* Each picked line is claimed by what it may still give back.
returnSale(h) ==
    LET r == req[h]
        s == r.s
        all == \A p \in SKUs : r.n[p] = r.qty[p] - r.back[p]
        left == Price(s, r.qty) - r.refunded
        amount == IF all THEN left ELSE Lesser(Price(s, r.n), left)
    IN  /\ Running(h, "return")
        /\ \A p \in SKUs : r.n[p] > 0 =>
              qty[s][p] > 0 /\ back[s][p] <= r.qty[p] - r.n[p]
        /\ back' = [back EXCEPT ![s] = [p \in SKUs |-> back[s][p] + r.n[p]]]
        /\ move(s, r.n)
        /\ status' = [status EXCEPT ![s] = IF all THEN "RETURNED" ELSE "PARTIALLY_RETURNED"]
        /\ refunded' = [refunded EXCEPT ![s] = @ + amount]
        /\ Post(s, -amount)
        /\ Finish(h)
        /\ UNCHANGED <<deleted, voided, qty, rate>>

\* Mutant: the claim forgets that the row may have been written since.
editUnversioned(h) ==
    LET r == req[h]
        s == r.s
    IN  /\ Running(h, "edit")
        /\ status[s] = "COMPLETED" /\ ~deleted[s]
        /\ qty' = [qty EXCEPT ![s] = r.n]
        /\ back' = [back EXCEPT ![s] = [p \in SKUs |-> IF r.n[p] = 0 THEN 0 ELSE @[p]]]
        /\ move(s, Minus(r.qty, r.n))
        /\ Post(s, Price(s, r.n) - Price(s, r.qty))
        /\ Finish(h)
        /\ UNCHANGED <<status, deleted, voided, rate, refunded>>

editSale(h) ==
    LET r == req[h]
        s == r.s
    IN  /\ Running(h, "edit")
        /\ status[s] = "COMPLETED" /\ ~deleted[s] /\ r.fresh
        /\ qty' = [qty EXCEPT ![s] = r.n]
        /\ back' = [back EXCEPT ![s] = [p \in SKUs |-> IF r.n[p] = 0 THEN 0 ELSE @[p]]]
        /\ move(s, Minus(r.qty, r.n))
        /\ Post(s, Price(s, r.n) - Price(s, r.qty))
        /\ Finish(h)
        /\ UNCHANGED <<status, deleted, voided, rate, refunded>>

\* A sale with items still sold is undone first, claimed by its status.
deleteSale(h) ==
    LET r == req[h]
        s == r.s
    IN  /\ Running(h, "delete")
        /\ \/ /\ r.status \in Live
              /\ status[s] = r.status /\ ~deleted[s]
              /\ status' = [status EXCEPT ![s] = "RETURNED"]
              /\ move(s, Minus(r.qty, r.back))
              /\ Post(s, -(Price(s, r.qty) - r.refunded))
           \/ r.status = "RETURNED" /\ UNCHANGED <<status, bookVars>>
        /\ deleted' = [deleted EXCEPT ![s] = TRUE]
        /\ voided' = [voided EXCEPT ![s] = r.status \in Live]
        /\ Finish(h)
        /\ UNCHANGED <<qty, back, rate, refunded>>

\* Mutant: the whole sale is sold again, returned items included.
restoreWhole(h) ==
    LET r == req[h]
        s == r.s
    IN  /\ Running(h, "restore")
        /\ \/ /\ r.voided /\ status[s] = "RETURNED" /\ deleted[s]
              /\ status' = [status EXCEPT ![s] =
                   IF r.refunded > 0 THEN "PARTIALLY_RETURNED" ELSE "COMPLETED"]
              /\ voided' = [voided EXCEPT ![s] = FALSE]
              /\ move(s, Minus(Nothing, r.qty))
              /\ Post(s, Price(s, r.qty) - r.refunded)
           \/ ~r.voided /\ UNCHANGED <<status, voided, bookVars>>
        /\ deleted' = [deleted EXCEPT ![s] = FALSE]
        /\ Finish(h)
        /\ UNCHANGED <<qty, back, rate, refunded>>

\* What the delete undid is applied again; items returned before stay so.
restoreSale(h) ==
    LET r == req[h]
        s == r.s
    IN  /\ Running(h, "restore")
        /\ \/ /\ r.voided /\ status[s] = "RETURNED" /\ deleted[s]
              /\ status' = [status EXCEPT ![s] =
                   IF r.refunded > 0 THEN "PARTIALLY_RETURNED" ELSE "COMPLETED"]
              /\ voided' = [voided EXCEPT ![s] = FALSE]
              /\ move(s, Minus(r.back, r.qty))
              /\ Post(s, Price(s, r.qty) - r.refunded)
           \/ ~r.voided /\ UNCHANGED <<status, voided, bookVars>>
        /\ deleted' = [deleted EXCEPT ![s] = FALSE]
        /\ Finish(h)
        /\ UNCHANGED <<qty, back, rate, refunded>>

\* The claim fails, the shop is out of stock, or the server stops.
rollback(h) ==
    /\ req[h] # Idle
    /\ req' = [req EXCEPT ![h] = Idle]
    /\ UNCHANGED <<saleVars, bookVars>>

\* A listed row goes for good, whatever it has become since; its movements and
\* postings stay.
purgeTrash(h) ==
    /\ Running(h, "purge")
    /\ status' = [status EXCEPT ![req[h].s] = "purged"]
    /\ Finish(h)
    /\ UNCHANGED <<deleted, voided, qty, back, rate, refunded, bookVars>>

-----------------------------------------------------------------------------
Next ==
    \/ \E s \in Sales, n \in [SKUs -> Quantities], r \in Rates : create(s, n, r)
    \/ \E h \in Requests, s \in Sales :
          \/ \E n \in [SKUs -> Quantities] : ReadForReturn(h, s, n) \/ ReadForEdit(h, s, n)
          \/ ReadForDelete(h, s) \/ ReadForRestore(h, s) \/ ReadForPurge(h, s)
    \/ \E h \in Requests :
          \/ returnSale(h) \/ editSale(h) \/ deleteSale(h) \/ restoreSale(h)
          \/ purgeTrash(h) \/ rollback(h)

Spec == Init /\ [][Next]_vars

-----------------------------------------------------------------------------
\* Units of the sale that are with the customer.
Out(s) == IF deleted[s] THEN Nothing ELSE Minus(qty[s], back[s])

\* The movements booked for a sale are exactly the units that are with the
\* customer: after any returns, edits, deletes and restores nothing is restocked
\* twice or sold twice, and a sale that was purged from the Trash nets to zero.
\* One that was restored after the purge had listed it leaves its goods out.
MovementsMatchSale ==
    \A s \in Sales, p \in SKUs : moved[s][p] = -Out(s)[p]

\* The ledger shows what was paid for a sale less what was paid back, which is
\* nothing for a sale that was returned, and nothing while it is in the Trash.
MoneyMatchesSale ==
    \A s \in Sales : till[s] = IF deleted[s] THEN 0 ELSE Price(s, qty[s]) - refunded[s]
==============================================================================
