# The Amader shop in TLA+: stock, sales, payments, couriers and carts

This directory holds TLA+ models of the parts of the Amader backend
(`src/apps/backend`) in which several requests change the same rows, the TLC
configurations that check them on small instances, and TLAPS proofs of what holds
for every instance. It is kept beside the code: each definition that models code
is tied to its lines by the `map` of `PROJECT.json`.

## 1. The system

A NestJS backend over one PostgreSQL database (Prisma, `READ COMMITTED`), a
Next.js web shop and a Next.js admin panel. All state is in the database; the
processes keep none. Concurrency comes from requests of customers, staff and
couriers, from the crons of `@nestjs/schedule`, and from handlers of events
(`order.created`, `order.status_changed`, ...) that run after the transaction that
emitted them. A handler typically reads rows, decides, and then opens a
transaction. Safety therefore rests on what the transaction re-checks: a row lock
(`SELECT ... FOR UPDATE`), a conditional `updateMany` whose count is tested (a
*claim*), or nothing.

### 1.1 Components

| component | state | operations | what makes it correct |
|---|---|---|---|
| Online order stock (`orders/orders.service.ts`, `stock-reservation.util.ts`) | `products.stock`, `reserved_stock`, order status, `completed_at`, history, line counts | place, edit items, change status, set returned stock | `stock` and `reserved_stock` add up under every order of status changes; nothing is oversold |
| Coupon redemption (`discounts/coupon-redemption.ts`) | `discounts.used_count`, `discount_redemptions` | redeem, release, reclaim, from five callers | limits hold under races; a use counts while its order is in the books |
| Stock transfers (`stock/transfers.service.ts`) | `stock_transfers`, store stock, movements | create, approve, dispatch, receive, cancel | goods leave once, land once |
| Stock ledger (`stock/stock.service.ts`, `stock-docs.service.ts`) | `store_stock`, `stock_movements` | move, stock in, adjust | no negative shop stock; held units stay |
| POS sales (`pos/pos-sale.service.ts`) | sale, lines, payment, movements, ledger | sell, return, edit, delete, restore, purge | stock, money and movements match the sale's rows |
| Checkout (`orders/checkout.service.ts`), cart, gift vouchers | cart, voucher balance, OTP flag | check out | one order per cart, a balance is spent once |
| Payments (`payments/`, `net-profit/manual-payment`, `advance-payment`) | payment status, submissions, advances | bKash callback, verify, reject, require, record, waive | captured once; no status write undoes staff's |
| Courier (`courier/`) | shipments, events | dispatch, webhook, track, cancel | one active parcel per order; order follows parcel |
| Accounts (`net-profit/accounts/`) | ledger entries, dues, settlements, expenses | post, reverse, pay, void, settle | a receivable is cleared once, balances are sums of entries |
| Wholesale (`wholesale/`) | wholesale orders, stock, dues | create, edit, cancel, restore, pay | stock and due change together |
| Digital downloads (`digital-products/`) | download rows | create, unlock, stream | unlocked exactly when paid |
| OTP and accounts (`auth/`) | codes, attempts, sessions | issue, verify | limits on codes and attempts |
| Campaign queues (`net-profit/cart-campaigns`, `customer-campaigns`, `newsletter-campaigns`), recovery | queue rows, incomplete orders | enqueue, worker, retry, skip | each step sent at most once and eventually settled |
| Catalogue, content, settings, media, search, reports, RBAC, UI | their rows | CRUD, reads | no protocol; not modelled |

`PROJECT.json` lists every one with its status. Interactions of the modelled parts:
orders and till sales call `StockService.move` and the coupon functions inside
their transactions; website orders hold units of the online store, which is also
an end of transfers; a courier webhook and the Order Manager change statuses
through `OrdersService.updateStatus`; payment handlers write the status directly. A
till sale posts to the ledger after its transaction; dispatching a parcel opens a
receivable, a settlement clears it. Buying emits `order.created`, which closes the
shopper's abandoned carts, and closing a cart skips its win-back messages.

### 1.2 Hard behaviour

Pre-reads that a transaction does not re-check (item edits, restores, returns,
settlements); a status graph without forbidden edges, so that long legal sequences
(complete, return in part, reopen, complete, return) must keep counters exact; one
of several lines failing; two staff clicking at once; the last unit and the last
coupon use; duplicated callbacks and late webhooks; queue workers racing manual
retries. `PROJECT.json` "hazards" lists each at its line with the property that covers it,
or says why none does.

## 2. Plan

Done, the most important behaviour first:

1. `OrderStock` - the life of online orders over the two counters.
2. `Coupons` - one coupon under concurrent checkouts, cancellations and restores.
3. `Transfers`, refining the abstract `Consignments`.
4. `PosSale` - what may happen to a till sale after it was rung up.
5. `Payments` - gateway callbacks, reviews of submissions, advances, refunds and
   the abandoned payment, every write a step of its own.
6. `CampaignQueue`, refining the abstract `CampaignSteps`, with liveness; and
   `Recovery`, built on `CampaignSteps`.
7. `Courier` - parcels, reports, receivables, settlements, with a crash between
   any two writes and the reconciliation that mends it.
8. `Wholesale` - order, goods and invoice of the shops that buy in bulk.

What TLC checked of these is then proved for every instance, component by component
(section 5): the types, every safety invariant and action property of the passing runs,
and both refinements. What is left to TLC alone is the liveness of `CampaignQueue` and
`Courier`, and the two runs that end in a violation.

## 3. Modules

### 3.1 OrderStock

Variables are columns: `stock`, `reserved` (per SKU: a product or one variant),
`status`, `completed` (`completed_at` is set, never cleared), `line` (quantity,
restocked and written-off counts per slot), and three that stand for rows:
`moved`, the sum of the online store's `stock_movements`; `lastStock`, the newest
history entry that `stockIsOut` looks at; `edit`, what an item-edit request has
read. `updateStatus` locks the order row before it decides, so each of its stock
branches is one action: `CloseUnsold`, `CloseSold`, `CloseReturned`,
`FinishReturn`, `CompleteFirst`, `CompleteAgain`, `Relabel`. The return lines of
the request are a function from a set of slots to counts. Item edits read first
(`ReadFor...`) and commit later (`addItem`, `updateItemQuantity`, `removeItem`,
`editFails`).

`Practices` names uses that no guard of the code refuses; section 4.3 lists them.

Left out: the status writes of payment flows that bypass `updateStatus` (see
`Payments`), the product form's absolute stock writes, exchange orders, POS orders
(see `PosSale`). Digital and inventory flags are constants.

### 3.2 Coupons

One coupon. `redemption` is the order's row (none, live, released), `usedCount`
the counter. `redeemCoupon` holds the discount's row lock, so count, check and
insert are one step; the per-customer count joins account and phone
(`SameCustomer`). `restore` in the Order Manager reads the order first
(`ReadOrder`) and trusts it in its transaction (`restoreOrder`). Its names differ from
those of `PosSale`, so that one module can speak of both.
`givenBack` and `overtaken` are history variables: they constrain nothing and let
the properties tell which uses were re-taken unchecked (which the code permits) and
which orders changed under a restore's feet.

### 3.3 Transfers and Consignments

`Consignments` says what a transfer promises: goods go from planned to the road to
one end, leaving once and landing once. `Transfers` is the service: a request reads
the transfer and judges it (`Read`), then claims the row with the status it read
and moves stock in the same transaction. `Trade`, `Hold`, `Release`, `Complete`,
`CompleteAgain` and `SetActive` are what the rest of the shop does to the same rows
meanwhile; as in the code, only `Hold` and the moves of stock look at the counters:
completing an order decrements both (`commitReservations`), completing it again takes
stock alone (`decrementStockOnly`), so both counters may fall below zero. `retaken` is
a history variable, the units taken by the latter. The
refinement maps the status to a leg of the journey and the dispatched quantities to
the load. `GoodsLandOnce` is `Consignments!Spec` under that mapping.

### 3.4 PosSale

Sales of one shop. Each handler is a read (`ReadForReturn`, ...) that copies what the code
loads, with the checks it makes on the copy, and a commit (`returnSale`, `editSale`,
`deleteSale`, `restoreSale`) guarded by what the transaction claims: a return its lines,
an edit the `updated_at` it read (`fresh`), delete and restore the status. The nightly
purge lists sales of the Trash (`ReadForPurge`) and removes each by its id alone
(`purgeTrash`). `moved` and `till` are the sums of the sale's stock movements and ledger
entries. `Overlaps` names the kinds of requests that may be in flight together; the run
admits those that exclude each other, and the purge with anything (`SafeOverlaps`). `rate`
is what a unit of the sale was sold for after discounts; the run has positive rates
(section 4.3). Ledger entries are posted after the commit; nobody reads them, so they are
part of the commit step, and postings that fail are left out. Left out as well: a till
sale whose status is changed through `OrdersService.updateStatus`
(`orders.service.ts:247-264`, `:318-331`), which moves all units of the sale at its store
and no money, whatever was returned of it.

### 3.5 Payments

One online order. `payment` is its `payments` row, `gateway` what bKash did (which
the shop may never learn), `submission` and `advance` the rows of manual and advance
payments, `income` the order's SALE entries, `files` whether its downloads are open
and who opened them. No handler but `updateStatus` runs in a transaction, so each of
its reads and writes is a step: `ReadForCallback`, `executePayment`, `capture`,
`forward`, `unlockCaptured` are one `settle`; `ReadForReview`, `verify`,
`verifyCapture`, `readAdvance`, `record`, `forward`, `unlockVerified` one `verify`. A
request carries the copies it decides by (`paid`, `saw`, `due`, `got`). `stop` ends a
request anywhere, and with it the gateway's answer is lost. `credited` is a history
variable: the submissions recorded against the advance.

### 3.6 CampaignSteps and CampaignQueue

`CampaignSteps` says what the win-back queue promises: a step is scheduled once, and
once settled only staff bring it back. `CampaignQueue` is the service: `tick` reads a
batch, `take`, `deliver` and `settle` handle its steps one by one, `retryQueueItem`
sends one directly, `stop` ends every run. That a message is delivered and that its
step is marked are two actions, between which anything may happen. `told`, `retried`
and `stops` are history variables. `StepsKept` is `CampaignSteps!StepsSpec` with each
step's status mapped to `waiting`, `again`, `settled` or `deleted`.

### 3.7 Recovery

The abandoned carts of one signed-in shopper. It extends `CampaignSteps` and drives
its variable `step` with `Enqueued`, `Skipped` and `Deleted`, so the queue is present
by its promises only (`campaigns`), which `CampaignQueue` was shown to keep. `row` is
`incomplete_orders`, `order` the orders with the rows they were recreated from, `req`
the listeners and requests in progress: a capture reads, writes the row and schedules; a
purchase finds the open rows, marks them and skips their steps one after the other;
a recreated order is placed, marks its row, and then emits `order.created` itself and
does it again; cancelling and binning write the row and then skip. No two of these
writes share a transaction, so each is a step, any requests interleave, about one row
too, and `stop` ends a request at any of them. Three history variables say where that
left its mark: `loose` has the rows whose messages nobody is about to skip, `slips`
counts how often an order and the mark on its row came apart, and `shut`, of a visit,
has the rows that were closed when it began.

### 3.8 Courier

The cash-on-delivery parcels of one online order. `parcel` is a `shipments` row, `truth`
what became of the parcel at the courier, `due` the receivables, `cash` and `banked` what
the ledger and the bank say of the settlements. `webhook` stores the report, then
`moveOrder`, `resizeCodReceivable`, `openCodReceivable` and `capturePayment` follow, each
a write that a stop may precede and between which staff act. Voiding a receivable is
refused when its month is closed (`dues.service.ts:276`), and opening one may fail; both
errors are logged and the handler goes on (`sales-posting.service.ts:119-123`,
`:160-164`), so `resizeCodReceivable` and `openCodReceivable` may do nothing, at any time.
`known` chooses whether a report names the amount collected; the courier's statement
(`applyPayout`) may come at any time. `heard`, `cut` and `refused` are history variables:
the last report that was taken in, whether work was cut, and which postings were refused,
by parcel. What a settlement reaches and expects are sums over its parcels (`Reached`,
`Expected`). The status change by staff is `staffUpdateStatus` and the stop is `crash`;
these and the variables are named apart from those of `Payments`, so that `Money_proofs`
can speak of both. Delivery charges and the voucher that settles them are left out, as are
two reports, dispatches or settlements at one time, a COD amount typed in at dispatch, and
`track` by the order's number, which only finds the parcel.

### 3.9 Wholesale

Orders of one buyer within one accounting month. `order`, `due`, `receipt` and `parcel`
are rows; `buyer` is whether the buyer is active (a removed one is not), `locked` whether
the month is closed, which may happen at any time. Every handler is a read (`ReadFor...`)
with the checks it makes on the copy, and a write that trusts it. `cancelOrder` returns
the goods and goes on to void the invoice: `readDue` and `void` are `DuesService.void`, a
transaction of its own, which a closed month refuses and a stop may prevent. What was paid
is the sum of the entries, so a receipt is an amount and the number of its reversals.
Prices are 1, and a discount is part of `charge`.

## 4. Runs

### 4.1 Questions and bounds

| run | question | bounds, and why they are enough |
|---|---|---|
| `order_stock_flow` | do both counters add up through every status path, and who may overdraw? | 2 orders, 1 line each, quantities 1-2, 2 units: both orders fit alone and not together, and a return can be split between shelf and write-off |
| `order_stock_lines` | the same with lines of different kinds | 1 order with a plain, a backorder and a digital line: counts are judged for the order as a whole, so lines that differ matter |
| `order_stock_reopen` | is `reserved_stock` never negative? (violated) | the practice `reopen`, 2 orders |
| `coupons_limits` | counter, both limits, and when a use counts | 3 orders of a customer with and without account over 2 phones and 1 walk-in, limits 2 and 1, 2 racing restores: two orders share the account, two a phone, and three orders of different customers are one past the total |
| `transfers_races` | do concurrent requests refine `Consignments`? | 2 transfers, 2 stores, 2 requests, 2 units sent and 0-2 received: two clicks on one transfer, or two transfers over one shelf; stock up to 2, counters down to -1 and one unit taken unchecked, which is all that a hold of the last unit needs to be missed |
| `pos_sale_life` | do stock, money and movements match the sale? | 2 sales of 2 lines over 2 units each, 2 requests: partial returns of quantity and of line, two requests of one kind, a purge beside a restore |
| `payments_flow` | is what is booked received, what is taken visible, what is open paid? | price 3, submissions of 1 and 2 that cover it only together, an advance of 2 that either may leave PARTIAL or meet, 2 requests |
| `payments_callbacks` | can a captured payment fail? (violated) | 2 callbacks |
| `campaign_queue_live` | is no step sent twice or forgotten, and are `CampaignSteps` kept? | 2 carts, 1 template, batches of 2: a run holds one step it read while it sends the other; 2 attempts, 1 retry by staff, 1 stop |
| `recovery_flow` | do closed carts stay closed and quiet, and become one order? | 2 rows (a closed one and the next of the same cart), 2 requests at a time and 4 in all, 2 versions of the cart, 2 orders, 1 template: two requests about one row, either of which may stop, before and after a third and a fourth |
| `courier_flow` | does what the courier owes follow the parcels? | an order of 2 of which a partial delivery brings 1, 2 parcels (a resend), 3 receivables (each may be resized), 1 stop, any number of refused postings |
| `wholesale_flow` | do goods and invoice follow the order? | 1 order, a physical and a digital product, up to 1 of each and a charge of 0 or 1, 2 receipts, 2 staff: one request, or the closing of the month, may fall between any two steps of another |

`MaxMoved`, `MaxStock`, `MaxBelow`, `MaxRequests`, `MaxEdits`, `MaxOrders`, `MaxParcels`,
`MaxDues`, `MaxReceipts`, `MaxQty`, `MaxRetries` and `MaxStops` cap what would grow
without end, by guards in the actions that would let it; `banked` is capped in `settle`.
All other sets are finite by their constants.

### 4.2 Properties

Beyond the type invariants:

- OrderStock. `ReservationsAccounted`, `StockAccounted`: sums over all orders equal
  the counters. `CountsConsistent`: goods that are out have no return counts.
  `OversoldOnlyAfterReturn` (action): promising more than the shelf holds needs a step
  on an order whose goods had come back.
- Coupons. `UsesCounted`, `TotalKept`, `CustomerKept`, `CountsUnlessOvertaken`.
  Reviving an order takes its use back unchecked, so the limits speak of uses never
  given back; more than one such use may exceed the limit, one per revived order.
- Transfers. `MovementsMatchStatus`, `GoodsLandOnce` (refinement). `HoldsCovered`: what
  website orders hold is on the shelf but for the units that orders completed again took
  unchecked, so that no dispatch, calling back, sale or new hold adds to what is missing.
- PosSale. `MovementsMatchSale`, `MoneyMatchesSale`. Of a purged sale both say what the
  sale was when it went: nothing for one in the Trash, its goods and its money for one
  that was restored after the purge had listed it (section 4.3).
- Payments. `IncomeWasReceived`, `TakenIsVisible`, `FilesPaidFor`, `AdvanceExact`.
- CampaignQueue. `NoDoubleSend` (one message, one more per retry of staff and per
  stop), `DueStepsSettle` (liveness), `StepsKept` (refinement).
- Recovery, whatever overlaps and stops. `ClosedStepsStopped`: only messages scheduled
  after the closing, or left by a closing that stopped, wait on a closed row.
  `OneLiveOrder`: a cart has one live order, and one more at most for each time that an
  order and its mark came apart. `ClosedRowsKeepHistory` (action): a visit never rewrites
  a row that was closed when it began.
- Courier. `NotOverpaid`, `ParcelOwed`, `ReturnedNotOwed`, `BankMatches`,
  `PartialReachesOrder` (liveness). The middle three speak of undisturbed work
  (`~cut`): a stop between two writes leaves them apart, and only partial deliveries
  are reconciled. They also exempt the parcels whose own posting was refused: `ParcelOwed`
  either kind, `ReturnedNotOwed` a voiding, `BankMatches` an opening; what the refusal
  for one parcel does to the next is not exempt.
- Wholesale. `StockBalanced`, `InvoiceExact`.

A run that ends in a violation states what a comment of the code says and shows a
sequence of legal calls that breaks it; `PROJECT.json` "findings" quotes the comment.

### 4.3 What the passing runs leave out, and what goes wrong then

Much of this code has no guard against requests that overlap. Each model has those
overlaps; a constant (`Practices`, or `Overlaps`, which lists pairs of kinds) says
which an instance admits. The passing runs admit the most under which their
properties hold. Setting one of the following as well makes TLC show the consequence:

| constant | meaning | breaks |
|---|---|---|
| OrderStock `overlap` | other requests run between an edit's reads and its transaction | `ReservationsAccounted` |
| `reopen` | an order closed before its first completion is opened or completed again | `ReservedNeverNegative` (run `order_stock_reopen`) |
| `edit_sold` | lines of an order moved back from COMPLETED are edited | `ReservationsAccounted` |
| `empty_cancel` | a completed order is cancelled with nothing coming back, and completed again | `StockAccounted` |
| PosSale, return with delete or edit, edit with delete | each claims something else | `MovementsMatchSale`, `MoneyMatchesSale` |
| Payments, two callbacks | the refused one writes FAILED from its copy | `TakenIsVisible`, `CapturedNeverFails` (run `payments_callbacks`) |
| two reviews | both book, or both record from one copy | `IncomeWasReceived`, `AdvanceExact` |
| verify with require | the record continues an account that was replaced | `AdvanceExact` |
| CampaignQueue `retry_during_tick`, `ticks_overlap` | two senders hold one step | `NoDoubleSend` |
| Courier `late_report`, `early_resend` | a report that was overtaken, or a parcel sent before the last one's end was reported | `ParcelOwed` |
| Wholesale `void_again` | an invoice whose receipts were reversed before is voided: they are reversed again | `InvoiceExact` |
| `place_cancelled` | an order is placed with status CANCELLED: its goods leave the shelf | `StockBalanced` |
| Wholesale, two writers of one order | cancel, restore, create or a payment with another writer | `StockBalanced`, `InvoiceExact` |

The overlaps that Wholesale admits are those of its `SafeOverlaps`:
status edits and dispatch with most others, and an edit or a cancel with a void.

Some comments of the code promise more than the code keeps, in cases that are in the
passing runs, or that no property could exclude. The properties say what is left:

- **Counters of the online store.** `move` lets no store run below zero, but website
  orders take units of the online store without it: completing an order again looks at
  neither counter (`orders.service.ts:339`, `:1256-1285`), and completing one that holds
  nothing takes `reserved_stock` below zero (run `order_stock_reopen`).
- **Purge of the Trash.** "They were undone on delete, so their ledger entries (sale in,
  refund out) and stock moves net to zero" (`pos-sale.service.ts:1266-1268`): not of a
  sale restored between the listing (`:1272`) and the removal (`:1285`). Its row is gone
  with its goods out and its money in the ledger.
- **A paid order that was given back.** `orders.service.ts:874-877` says that a paid order
  must not have been cancelled out from under the customer; a capture between the check
  (`:870`) and the cancelling (`:890`) leaves the order cancelled and paid. The money
  stays visible on the payment (`TakenIsVisible`).
- **Messages of closed carts.** "A recovered order cancels the rest of that cart's
  scheduled campaign steps" (`recovery.service.ts:682-683`): not those that a capture
  schedules after the row was closed, nor those of a closing that stopped before the
  skip. They go out unless the row is closed once more.
- **Two orders of one cart.** A failure between placing the recreated order
  (`recovery.service.ts:1059`) and marking the row (`:1112`) leaves the row open, and
  recreating it again gives a second live order; so do two recreations that both read the
  row before either marks it.
- **Rewritten rows.** A capture that read the row while it was open writes its newest
  products into it although it was closed meanwhile (`recovery.service.ts:581`, `:611`),
  which `openRowForCart` is there to prevent.
- **Receivables of a closed month.** A parcel that was dispatched in one month and comes
  back, or is accepted in part, after that month was closed keeps its old receivable,
  although "the courier will pay less" (`sales-posting.service.ts:97`): the void is
  refused and the error only logged, "best-effort, like every posting here" (`:101`). A
  receivable that could not be opened leaves the settlement's legs without the one that
  clears it.
- **Cancelled wholesale orders.** "Put the goods back and void the invoice, together"
  (`wholesale.service.ts:2014`), "in one transaction" (`:1843-1844`): a closed month
  refuses the second half, and a stop prevents it; the order is cancelled, its goods are
  back, and its invoice stays live. No property claims otherwise.
- **Removed buyers.** Blocking the removal while orders stand is to mean that the party
  statement "can never point at a counterparty that no longer exists" (`:1310-1316`); an
  order placed or restored between the count (`:1319`) and the write (`:1327`) is one that
  does. The model has no more of the removal than the flag it clears.

Read in the code while modelling, and without a run of its own: `forward` in `Payments`
judges the status that the callback read at its start, so a capture may put an order that
staff cancelled or completed meanwhile back to the status after payment, though the
comment of `advanceOrder` says "never over a status staff already progressed"
(`bkash-callback.service.ts:142`); `restoreSale` and `editSale` tell a partly returned
till sale by its refunded money (`pos-sale.service.ts:1180`, `:687`), which is zero when
discounts took the price to nothing (`:97-108`), so that after a delete and a restore an
edit is admitted that must not be; `track` writes CANCELED first, so that the webhook that
follows takes it for staff's own cancelling (`shipments.service.ts:953`);
`dispatchWholesale` writes PROCESSING over an order cancelled since it was read (`:426`),
which needs the overlap of cancel and dispatch; an order recreated from a cart reserves no
stock (`recovery.service.ts:1059`); the sweep of first messages does not look at whether a
cart was written off (`:1246`), though the comment at `:1143` says such a cart gets none;
physical products without inventory run their counters below zero
(`orders.service.ts:1287`).

### 4.4 Symmetry, deadlock, fairness

**Symmetry** is declared for orders, rows, requests, staff, sales and SKUs where no
property distinguishes them and the run checks only safety: invariants, action
properties, or, in `transfers_races`, a refinement whose abstract specification has no
fairness. Not in `campaign_queue_live` and `courier_flow`, which check liveness.

**Deadlock** is checked in every run but those of `PosSale`, `Recovery` and
`Courier`, which may come to rest: all sales are purged; the rows, orders and versions
of the cart are used up; both parcels have reached their end and are settled.

**Fairness.** `CampaignQueue`: a scheduled moment comes (`becomeDue`, weak); the cron
fires every five minutes as long as the server is up, so a tick that is possible again and
again, between quiet hours and runs of staff, happens (strong); a run that has started
goes on (`work`, weak; `MaxStops` makes stops finite); quiet hours end every day
(`dayPasses` when quiet, weak). Nothing is assumed of staff. The settings are taken to be
enabled, with quiet hours that begin and end at different hours. `Courier`: what has
started goes on (`progress`, weak), and the reconciliation, which runs at start-up and
every six hours, gets its turn whenever it is possible again and again (strong). The
courier owes nothing: it may never report. All other specifications state safety only. A
handler may stop anywhere (`rollback`, `editFails`, `stop`, `crash`), which stands for
errors, aborted transactions and crashes; a transaction that aborts is a request that ends
without its commit. Processes keep no state of their own.

## 5. Proofs

Constants are arbitrary, subject to the named assumptions of each module: the types of the
constants, the finiteness of what is summed or counted (orders, lines, SKUs, sales,
submissions; a database has finitely many rows), and `DigitalUntracked`, which
`ProductsService` enforces. What else a theorem needs is its hypothesis (those of
`Transfers` and `Recovery` need none): that nobody follows the practices of section 4.3
(`Practices = {}`), or that only requests overlap that leave each other's reads true
(`Overlaps \subseteq SafeOverlaps`). These are the conditions of the runs (`NeverOverpaid`
asks for less: late reports are allowed), under which the models have the same requests,
interleavings and stops as the runs; without them TLC shows the properties violated.

Most of the properties are not inductive, for the same reason: a request reads,
decides and later writes what it computed from its copies. Each invariant therefore
says of every request in flight how much of its copies is still true, and of the rows
how the columns that the code judges by agree with those that it books by.

- `SumTheorems`. What a sum over a finite set is (`SumFunctionOnSet`): empty, of one
  more element, of changed terms, negated, added. The sum is defined by a recursion
  under a CHOOSE; that a function following the recursion exists is proved by taking
  the least number of elements for which none does, and facts about all subsets are
  inductions over a set of good subsets (`SubsetInduction`), which is a first-order
  statement.
- `OrderStock_proofs`. `OrdersTyped`, `StockTyped`: the types, for any practices. They
  need that a removed line has no counts (`EmptySlots`) and that nobody asks for zero
  units (`PositiveRequests`). `CountsAgree`: `CountsConsistent`. `IInv` adds, per order,
  which status and history entries go together, that counts fit, and that a request in
  flight still sees the line it read (`EditFresh`). Every way of recording a return is
  first shown to be a recount that fits (`...Recounts`), then one lemma per kind of
  step preserves the invariant. `ReservationsHold`, `StockConserved`: both sums.
  `StockInv` adds to `IInv` where an order's goods are (`GoodsKnown`), that a request
  sees the line it will change (`SeesLine`) and that edits run alone; each step then
  changes one order's term of the sum and the counter by the same amount.
  `OversoldAfterReturn`, the action property, also needs that the newest history entry
  of an order that was completed tells whether its goods came back (`EntriesKept`).
- `Till_proofs`. Of `PosSale`: `SalesTyped` (with it, that the shop's stock never goes
  below zero), `MovementsMatch`, `MoneyMatches`. The invariant says per sale that the
  status, the Trash flags and the refunded money agree with the counts on its lines
  (`SaleKnown`), which needs positive rates (`0 \notin Rates`): a return that pays nothing
  is invisible to the code. The purge needs nothing of what it listed: it changes none of
  the columns and sums that the two properties relate. Of `Coupons`: `CouponsTyped`,
  `CounterIsExact`, `LimitsKept`, `CustomerLimitsKept`, `BooksExact`. Every transaction
  keeps, releases, reclaims or redeems a use; the invariant records that a released use
  was given back, so a reclaim never adds to the uses the limits speak of. The limits
  follow from cardinalities: a redeemed use joins a set whose size the guard has just
  bounded. `BooksExact` needs what a request knows of its order until it is overtaken.
- `Transfers_proofs`. `TransfersTyped`, `MovementsBalance`, `HoldsStayCovered`, and
  `TransfersImplementConsignments`: every step maps to a step of `Consignments` or a
  stutter. The types have the shops' stock and every count in `Nat`, and the online
  store's counters only in `Int`. The strengthening (`Judged`): the status a request asks
  for follows the one it read, and what it counted fits what was sent; with the claim's
  guard that makes the read's checks valid at the commit.
- `Money_proofs`, of `Payments`: `PaymentsTyped`, `IncomeReceived`, `TakenVisible`,
  `FilesPaid`, `AdvanceAdds`. `Fresh` says
  where a request may stand and what is true of its copies there; the income is what
  was taken and verified less what a request in flight has taken or verified and not
  yet booked.
- `Money_proofs`, of `Courier`: `CourierRowsTyped`, for any practices (with it, that
  one receivable is open at most, for which `OneOpenDue` says so without counting);
  `NeverOverpaid`, whenever a report comes, as long as no parcel is sent early;
  `ParcelsOwed`, `ReturnsNotOwed`, `BankAgrees`, with reports in order. The parcels
  follow each other (`InTurn`): all but the newest came back, so a statement or a
  settlement is about the newest; with reports in order their returns were also taken
  in, and no report is about them any more (`Ordered`). `ParcelKnown` relates
  a row to what became of the parcel (an amount that is known is what the courier
  took), `DueKnown` a receivable to the parcel it is for, `JobKnown` the work in
  progress to both. `Owing` says, at each of the writes that follow a report, how much
  of the receivable is already right, for a parcel whose postings were accepted; `Unopened`
  what a refusal for an earlier parcel may have left when the next one's receivable is
  due, `Cleared` that the report of a return took it away, `Booking` that the bank agrees
  while every receivable could be opened. All of these hold until a stop.
  A settlement then has one parcel and one receivable, and its sums one term.
- `CampaignQueue_proofs`. `QueueTyped`; `SentOnce`, from an account of who still owes a
  step a message (`SendInv`); `QueueImplementsCampaignSteps`, whatever overlaps, for
  which it is enough that a step is in no run before it is scheduled.
- `Recovery_proofs`. `RecoveryTyped`, whatever overlaps; `ClosedCartsStop`,
  `RecreatedOnce` and the action property `ClosedRowsKeep`, whatever overlaps and stops.
  The invariant is the types and what a request may still count on: one that emits holds
  one row (`Held`), rows that are held were written (`RowsKnown`), a visit does not hold
  to write a row that was closed when it began (`VisitsLate`), and per row the live orders
  are counted against the mark, those about to mark and the slips (`Counts`).
- `Wholesale_proofs`. `ShelfBalanced`, `InvoicesExact`. The invariant has what is true of
  an order's invoice and receipts (`BooksKnown`), of a request's copies (`Fresh`), and of
  the receipts that a voiding has read (`Voiding`).

Model-checked only, as it is out of the prover's reach: liveness under fairness
(`DueStepsSettle`, `PartialReachesOrder`) and `ENABLED`. No module declares a RECURSIVE
operator, and no theorem needs an induction over an operator parameter.

## 6. Not modelled

Prices, rounding and tax as decimals; names, addresses and messages; product
attributes that change while goods are out; absolute stock writes of the product form;
row locks as such (a deadlock that PostgreSQL aborts is a transaction that rolls back).
Of checkout, the cart's lines, the gift voucher's balance and the OTP flag: each is a
read before the transaction with no guard in it, and no comment of the code says what
should hold, so a model could only show the unguarded reads that the hazard list
names. The codes and sessions of accounts; the campaigns to customers and newsletters,
which have the shape of `CampaignQueue`; delivery charges and their vouchers; expenses,
cash accounts, parties and VAT, which post to the ledger by hand; content, catalogue,
reports, media and user interfaces, which share no state with the modelled parts. The
share of the repository's lines that the models stand for is small for that reason:
most of it is forms, tables, CRUD and reports. `PROJECT.json` gives each part its
reason.
