------------------------------- MODULE Wholesale -------------------------------
(***************************************************************************)
(* Orders placed by staff for the shops that buy in bulk, their stock and  *)
(* their invoices (WholesaleService over DuesService and LedgerService;    *)
(* the parcel through ShipmentsService).                                   *)
(*                                                                         *)
(* Every handler reads the order with its invoice and what was paid on it, *)
(* judges that copy, and then writes; no transaction checks the order      *)
(* again.  Cancelling writes twice: the order and its goods first, the     *)
(* invoice (a due) in a transaction of its own.  What was paid on an       *)
(* invoice is never stored: it is the sum of its ledger entries.           *)
(*                                                                         *)
(* One buyer, one accounting month.  A unit of any SKU costs 1 here, and   *)
(* discounts are part of the charge.  Payments are dated in a month that   *)
(* is open.                                                                *)
(***************************************************************************)
EXTENDS Integers, FiniteSets, Functions

CONSTANTS
    Orders,         \* orders that may be placed
    SKUs,           \* what is sold
    Digital,        \* those that have no stock
    MaxQty,         \* bound on the quantity of a line
    MaxReceipts,    \* bound on the payments of an invoice
    Staff,          \* requests that may be in progress at a time
    Overlaps,       \* sets of kinds of requests that may overlap on one order
    Practices       \* what may happen besides, see below

Kinds == {"create", "edit", "light", "cancel", "restore", "pay", "void", "dispatch"}

\* "void_again": an invoice is voided whose receipts were reversed before.
\* "place_cancelled": an order is placed with the status CANCELLED.
AllPractices == {"void_again", "place_cancelled"}

\* Requests about one order that leave each other's reads true.  Cancelling,
\* restoring and placing are not among them.
SafeOverlaps ==
    {{"light"}}
    \cup {{k, "light"} : k \in {"pay", "edit", "void", "dispatch"}}
    \cup {{k, "dispatch"} : k \in {"pay", "edit", "void"}}
    \cup {{"edit", "void"}, {"cancel", "void"}}

ASSUME WholesaleAssumption ==
    /\ IsFiniteSet(Orders) /\ IsFiniteSet(SKUs)
    /\ Digital \subseteq SKUs
    /\ MaxQty \in Nat /\ MaxReceipts \in Nat
    /\ Overlaps \subseteq SUBSET Kinds /\ Practices \subseteq AllPractices

VARIABLES
    stock,          \* the stock column of each SKU, less what was there at first
    order,          \* of each order: status, line quantities, total
    due,            \* of its invoice: state, amount
    receipt,        \* of each payment: amount, how often it was reversed
    parcel,         \* its shipment with Steadfast; "back" when refused or returned
    buyer,          \* "active" or "inactive", a removed one is inactive
    locked,         \* the accounting month is closed
    req             \* what each request in progress has read

vars == <<stock, order, due, receipt, parcel, buyer, locked, req>>

Live == {"PENDING", "PROCESSING", "DELIVERED"}
Lines == [SKUs -> 0..MaxQty]
NoLines == [p \in SKUs |-> 0]
NoOrder == [status |-> "none", line |-> NoLines, total |-> 0]
NoReceipt == [amount |-> 0, reversals |-> 0]
\* line, total: what the order is to have; before: the lines it had when read;
\* amount: a payment; status: the one asked for, or the one read; entries: the
\* receipts to reverse.
Idle == [kind |-> "none", at |-> "none", o |-> "none", line |-> NoLines, before |-> NoLines,
         total |-> 0, amount |-> 0, status |-> "none", entries |-> {}]

TypeOK ==
    /\ stock \in [SKUs -> Int] /\ \A p \in Digital : stock[p] = 0
    /\ order \in [Orders -> [status : Live \cup {"none", "CANCELLED"}, line : Lines,
                             total : Nat]]
    /\ \A o \in Orders : order[o].status # "none" => order[o].total > 0
    /\ due \in [Orders -> [state : {"none", "live", "void"}, amount : Nat]]
    /\ receipt \in [Orders -> [1..MaxReceipts -> [amount : Nat, reversals : Nat]]]
    /\ parcel \in [Orders -> {"none", "sent", "delivered", "back"}]
    /\ buyer \in {"active", "inactive"}
    /\ locked \in BOOLEAN
    /\ \A h \in Staff : req[h].kind \in Kinds \cup {"none"}

Init ==
    /\ stock = [p \in SKUs |-> 0]
    /\ order = [o \in Orders |-> NoOrder]
    /\ due = [o \in Orders |-> [state |-> "none", amount |-> 0]]
    /\ receipt = [o \in Orders |-> [r \in 1..MaxReceipts |-> NoReceipt]]
    /\ parcel = [o \in Orders |-> "none"]
    /\ buyer = "active" /\ locked = FALSE
    /\ req = [h \in Staff |-> Idle]

-----------------------------------------------------------------------------
Total(line, charge) == SumFunctionOnSet(line, SKUs) + charge

\* paidForDues: receipts less reversals.
Made(o) == {r \in 1..MaxReceipts : receipt[o][r].amount > 0}
Worth(o) == [r \in 1..MaxReceipts |-> receipt[o][r].amount * (1 - receipt[o][r].reversals)]
Paid(o) == SumFunctionOnSet(Worth(o), 1..MaxReceipts)

\* Ledger post of a payment.
Post(o, amount) ==
    \E r \in 1..MaxReceipts :
        /\ Made(o) = 1..(r - 1)
        /\ receipt' = [receipt EXCEPT ![o][r] = [amount |-> amount, reversals |-> 0]]

\* n[p] units of p come back, or leave when negative; stock may run negative.
moveStock(n) == stock' = [p \in SKUs |-> IF p \in Digital THEN stock[p] ELSE stock[p] + n[p]]

Minus(m, n) == [p \in SKUs |-> m[p] - n[p]]

MayStart(k, o) ==
    \A g \in Staff :
        req[g] # Idle /\ req[g].o = o => {k, req[g].kind} \in Overlaps

\* Request h of kind k about order o begins.
Begin(h, k, o, copy) ==
    /\ req[h] = Idle /\ MayStart(k, o)
    /\ req' = [req EXCEPT ![h] = [copy EXCEPT !.kind = k, !.o = o]]

At(h, k, at) == req[h].kind = k /\ req[h].at = at
End(h) == req' = [req EXCEPT ![h] = Idle]
Onto(h, at) == req' = [req EXCEPT ![h].at = at]

-----------------------------------------------------------------------------
(* Placing and editing                                                     *)

ReadForCreate(h, o) ==
    /\ order[o].status = "none"
    /\ buyer = "active" /\ ~locked
    /\ \E line \in Lines \ {NoLines}, charge \in {0, 1} :
       \E paid \in {0, Total(line, charge)} :
          Begin(h, "create", o, [Idle EXCEPT !.at = "write", !.line = line,
                                             !.total = Total(line, charge), !.amount = paid])
    /\ UNCHANGED <<stock, order, due, receipt, parcel, buyer, locked>>

\* The order, its goods, its invoice and its first payment, in one transaction;
\* the payment is dated in the order's month.
createOrder(h) ==
    /\ At(h, "create", "write")
    /\ LET r == req[h] IN
          /\ \E status \in Live \cup {s \in {"CANCELLED"} : "place_cancelled" \in Practices} :
                order' = [order EXCEPT ![r.o] = [status |-> status, line |-> r.line,
                                                total |-> r.total]]
          /\ moveStock(Minus(NoLines, r.line))
          /\ due' = [due EXCEPT ![r.o] = [state |-> "live", amount |-> r.total]]
          /\ \/ r.amount = 0 /\ UNCHANGED receipt
             \/ r.amount > 0 /\ ~locked /\ Post(r.o, r.amount)
    /\ End(h)
    /\ UNCHANGED <<parcel, buyer, locked>>

\* Mutant: a sale may be restated below what was collected.
ReadForEditUnchecked(h, o) ==
    /\ order[o].status \in Live /\ due[o].state = "live" /\ ~locked
    /\ \E line \in Lines \ {NoLines}, charge \in {0, 1} :
          Begin(h, "edit", o, [Idle EXCEPT !.at = "write", !.line = line, !.before = order[o].line,
                                           !.total = Total(line, charge)])
    /\ UNCHANGED <<stock, order, due, receipt, parcel, buyer, locked>>

\* updateOrder with lines or money.
ReadForEdit(h, o) ==
    /\ order[o].status \in Live /\ due[o].state = "live" /\ ~locked
    /\ \E line \in Lines \ {NoLines}, charge \in {0, 1} :
          /\ Total(line, charge) >= Paid(o)
          /\ Begin(h, "edit", o, [Idle EXCEPT !.at = "write", !.line = line,
                                              !.before = order[o].line,
                                              !.total = Total(line, charge)])
    /\ UNCHANGED <<stock, order, due, receipt, parcel, buyer, locked>>

\* Mutant: the goods of all lines leave again.
editOrderWhole(h) ==
    /\ At(h, "edit", "write")
    /\ LET r == req[h] IN
          /\ moveStock(Minus(NoLines, r.line))
          /\ \E status \in Live \cup {order[r.o].status} :
                order' = [order EXCEPT ![r.o] = [status |-> status, line |-> r.line,
                                                total |-> r.total]]
          /\ due' = [due EXCEPT ![r.o].amount = r.total]
    /\ End(h)
    /\ UNCHANGED <<receipt, parcel, buyer, locked>>

\* Stock moves by the difference to the lines that were read (stockDeltas); a
\* status may come with the lines.
editOrder(h) ==
    /\ At(h, "edit", "write")
    /\ LET r == req[h] IN
          /\ moveStock(Minus(r.before, r.line))
          /\ \E status \in Live \cup {order[r.o].status} :
                order' = [order EXCEPT ![r.o] = [status |-> status, line |-> r.line,
                                                total |-> r.total]]
          /\ due' = [due EXCEPT ![r.o].amount = r.total]
    /\ End(h)
    /\ UNCHANGED <<receipt, parcel, buyer, locked>>

\* updateOrder with a status alone.
ReadForLight(h, o) ==
    /\ order[o].status \in Live
    /\ \E status \in Live \ {order[o].status} :
          Begin(h, "light", o, [Idle EXCEPT !.at = "write", !.status = status])
    /\ UNCHANGED <<stock, order, due, receipt, parcel, buyer, locked>>

editStatus(h) ==
    /\ At(h, "light", "write")
    /\ order' = [order EXCEPT ![req[h].o].status = req[h].status]
    /\ End(h)
    /\ UNCHANGED <<stock, due, receipt, parcel, buyer, locked>>

-----------------------------------------------------------------------------
(* Cancelling, voiding, restoring                                          *)

ReadForCancel(h, o) ==
    /\ order[o].status \in Live
    /\ due[o].state = "live" => Paid(o) = 0
    /\ Begin(h, "cancel", o, [Idle EXCEPT !.at = "write", !.before = order[o].line,
                                          !.status = due[o].state])
    /\ UNCHANGED <<stock, order, due, receipt, parcel, buyer, locked>>

\* The goods come back; the invoice that was live when read is voided next.
cancelOrder(h) ==
    /\ At(h, "cancel", "write")
    /\ order' = [order EXCEPT ![req[h].o].status = "CANCELLED"]
    /\ moveStock(req[h].before)
    /\ IF req[h].status = "live" THEN Onto(h, "due") ELSE End(h)
    /\ UNCHANGED <<due, receipt, parcel, buyer, locked>>

\* Staff void the invoice in Accounts, the way to reverse a receipt.
ReadForVoid(h, o) ==
    /\ due[o].state = "live"
    /\ Begin(h, "void", o, [Idle EXCEPT !.at = "due"])
    /\ UNCHANGED <<stock, order, due, receipt, parcel, buyer, locked>>

\* Every receipt of the invoice is one that a void would reverse for the first
\* time.
MayVoid(o) == "void_again" \in Practices \/ \A r \in Made(o) : receipt[o][r].reversals = 0

\* DuesService.void, for staff or for a cancel, refuses a voided due and a
\* closed month: a cancel then leaves the invoice live.
readDue(h) ==
    /\ req[h].at = "due"
    /\ MayVoid(req[h].o)
    /\ IF due[req[h].o].state = "live" /\ ~locked
       THEN req' = [req EXCEPT ![h].at = "void", ![h].entries = Made(req[h].o)]
       ELSE End(h)
    /\ UNCHANGED <<stock, order, due, receipt, parcel, buyer, locked>>

\* reverse of the ledger entry behind a receipt.
Reversal(x) == [x EXCEPT !.reversals = @ + 1]

\* Every receipt it read is reversed, one that was reversed before as well.
void(h) ==
    /\ req[h].at = "void"
    /\ LET o == req[h].o IN
          /\ receipt' = [receipt EXCEPT ![o] = [r \in 1..MaxReceipts |->
                IF r \in req[h].entries THEN Reversal(receipt[o][r]) ELSE receipt[o][r]]]
          /\ due' = [due EXCEPT ![o].state = "void"]
    /\ End(h)
    /\ UNCHANGED <<stock, order, parcel, buyer, locked>>

ReadForRestore(h, o) ==
    /\ order[o].status = "CANCELLED" /\ due[o].state = "void" /\ ~locked
    /\ buyer = "active"
    /\ Begin(h, "restore", o, [Idle EXCEPT !.at = "write", !.before = order[o].line])
    /\ UNCHANGED <<stock, order, due, receipt, parcel, buyer, locked>>

restoreOrder(h) ==
    /\ At(h, "restore", "write")
    /\ LET o == req[h].o IN
          /\ order' = [order EXCEPT ![o].status = "PENDING"]
          /\ due' = [due EXCEPT ![o].state = "live"]
    /\ moveStock(Minus(NoLines, req[h].before))
    /\ End(h)
    /\ UNCHANGED <<receipt, parcel, buyer, locked>>

-----------------------------------------------------------------------------
(* Payments                                                                *)

ReadForPayment(h, o) ==
    /\ due[o].state = "live"
    /\ \E amount \in 1..(due[o].amount - Paid(o)) :
          Begin(h, "pay", o, [Idle EXCEPT !.at = "write", !.amount = amount])
    /\ UNCHANGED <<stock, order, due, receipt, parcel, buyer, locked>>

recordPayment(h) ==
    /\ At(h, "pay", "write")
    /\ Post(req[h].o, req[h].amount)
    /\ End(h)
    /\ UNCHANGED <<stock, order, due, parcel, buyer, locked>>

-----------------------------------------------------------------------------
(* The parcel                                                              *)

ReadForDispatch(h, o) ==
    /\ order[o].status \in Live /\ parcel[o] # "sent"
    /\ Begin(h, "dispatch", o, [Idle EXCEPT !.at = "book", !.status = order[o].status])
    /\ UNCHANGED <<stock, order, due, receipt, parcel, buyer, locked>>

\* The courier takes the parcel or refuses it; either way it gets a row.
book(h) ==
    /\ At(h, "dispatch", "book")
    /\ \/ parcel' = [parcel EXCEPT ![req[h].o] = "sent"] /\ Onto(h, "forward")
       \/ parcel' = [parcel EXCEPT ![req[h].o] = "back"] /\ End(h)
    /\ UNCHANGED <<stock, order, due, receipt, buyer, locked>>

forward(h) ==
    /\ At(h, "dispatch", "forward")
    /\ order' = IF req[h].status = "PENDING"
                THEN [order EXCEPT ![req[h].o].status = "PROCESSING"] ELSE order
    /\ End(h)
    /\ UNCHANGED <<stock, due, receipt, parcel, buyer, locked>>

\* handleCourierWebhook of a wholesale parcel, as often as the courier likes; a
\* stop may leave the order behind.
webhook(o) ==
    /\ \/ /\ parcel[o] \in {"sent", "delivered"}
          /\ parcel' = [parcel EXCEPT ![o] = "delivered"]
          /\ \/ /\ order[o].status \in {"PENDING", "PROCESSING"}
                /\ order' = [order EXCEPT ![o].status = "DELIVERED"]
             \/ UNCHANGED order
       \/ /\ parcel[o] = "sent"
          /\ parcel' = [parcel EXCEPT ![o] = "back"]
          /\ UNCHANGED order
    /\ UNCHANGED <<stock, due, receipt, buyer, locked, req>>

removeWholesaleShipments(o) ==
    /\ parcel[o] # "none"
    /\ parcel' = [parcel EXCEPT ![o] = "none"]
    /\ UNCHANGED <<stock, order, due, receipt, buyer, locked, req>>

-----------------------------------------------------------------------------
(* The buyer and the month                                                 *)

\* updateCustomer's isActive, deleteCustomer and restoreCustomer.
setActive ==
    /\ buyer' = IF buyer = "active" THEN "inactive" ELSE "active"
    /\ UNCHANGED <<stock, order, due, receipt, parcel, locked, req>>

lockPeriod ==
    /\ locked' = ~locked
    /\ UNCHANGED <<stock, order, due, receipt, parcel, buyer, req>>

\* An error or the server's stop ends a request, a cancel between its writes too.
stop(h) ==
    /\ req[h] # Idle
    /\ End(h)
    /\ UNCHANGED <<stock, order, due, receipt, parcel, buyer, locked>>

Next ==
    \/ \E h \in Staff, o \in Orders :
          \/ ReadForCreate(h, o) \/ ReadForEdit(h, o) \/ ReadForLight(h, o)
          \/ ReadForCancel(h, o) \/ ReadForVoid(h, o) \/ ReadForRestore(h, o)
          \/ ReadForPayment(h, o) \/ ReadForDispatch(h, o)
    \/ \E h \in Staff :
          \/ createOrder(h) \/ editOrder(h) \/ editStatus(h) \/ cancelOrder(h)
          \/ readDue(h) \/ void(h) \/ restoreOrder(h) \/ recordPayment(h)
          \/ book(h) \/ forward(h) \/ stop(h)
    \/ \E o \in Orders : webhook(o) \/ removeWholesaleShipments(o)
    \/ setActive \/ lockPeriod

Spec == Init /\ [][Next]_vars

-----------------------------------------------------------------------------
(* Properties                                                              *)

\* The units of p that order o took off the shelf.
Sold(o, p) == IF order[o].status \in Live THEN order[o].line[p] ELSE 0

\* The shelf has lost exactly the goods of the orders that are not cancelled:
\* edits move the difference, a cancelled order's goods come back once and
\* leave again when it is restored (updateOrder, cancelOrder, restoreOrder).
StockBalanced ==
    \A p \in SKUs \ Digital : stock[p] = -SumFunctionOnSet([o \in Orders |-> Sold(o, p)], Orders)

\* The invoice follows the sale: it is of the order's total whatever edits,
\* cancelling and restoring did, no more than that was collected, never less
\* than nothing, and nothing on a voided one (the comment of updateOrder).
InvoiceExact ==
    \A o \in Orders :
        /\ due[o].state # "none" => due[o].amount = order[o].total
        /\ 0 <= Paid(o) /\ Paid(o) <= due[o].amount
        /\ due[o].state = "void" => Paid(o) = 0
=============================================================================
