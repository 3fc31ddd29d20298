-------------------------------- MODULE Recovery --------------------------------
(***************************************************************************)
(* One signed-in shopper's abandoned carts (RecoveryService) over the      *)
(* steps of their win-back messages.  An edit of the cart or a visit to    *)
(* the checkout is captured in the row attached to the cart; buying, or    *)
(* staff recreating the order, closes rows as recovered; staff cancel,     *)
(* bin, restore and reopen them.  Every listener and endpoint works in     *)
(* several statements without a transaction, each of them a step here:     *)
(* others run in between, about the same row too, and any of them may stop *)
(* there, by an error or because the process does.                         *)
(***************************************************************************)
EXTENDS CampaignSteps, Integers, FiniteSets

CONSTANTS
    MaxEdits,       \* bound on the versions of the cart
    MaxOrders,      \* bound on the orders
    MaxRequests,    \* bound on the requests that shopper and staff make
    Handlers        \* listeners and requests that may be in progress at a time

ASSUME RecoveryAssumption == MaxEdits \in Nat /\ MaxOrders \in Nat /\ MaxRequests \in Nat

Orders == 1..MaxOrders

VARIABLES
    content,        \* version of what is in the cart, 0 when it is empty
    edits,          \* versions so far (history)
    row,            \* of each abandoned cart, see Unused
    order,          \* of each order: its state, and while it is live the row it
                    \* was recreated from
    req,            \* of each handler, see Idle
    begun,          \* requests so far (history)
    loose,          \* closed rows whose messages nobody is about to skip: they
                    \* were scheduled late, or the closing stopped (history)
    slips           \* of each row, how often an order recreated from it and its
                    \* mark came apart (history)

tableVars == <<content, edits, row, order>>
history == <<loose, slips>>
recoveryVars == <<tableVars, req, begun, history>>
vars == <<step, recoveryVars>>

\* cart: cart_id is set; snap: the version of the cart stored; order: the
\* recovered_order_id.
Unused == [state |-> "unused", cart |-> FALSE, recovered |-> FALSE,
           canceled |-> FALSE, deleted |-> FALSE, snap |-> 0, order |-> 0]

\* at: the next step; snap: what a capture writes; rows: those read,
\* that are still to be written; order: the order that closes them; emits: the
\* request goes on to emit order.created; shut: the rows that were closed when a
\* visit began, and were not reopened since (history).
Idle == [at |-> "idle", snap |-> 0, rows |-> {}, order |-> 0, emits |-> FALSE, shut |-> {}]

Kept(r) == row[r].state = "kept"
Closed(r) == row[r].canceled \/ row[r].recovered
Attached == {r \in Rows : Kept(r) /\ row[r].cart}
OrdersIn(S) == {n \in Orders : order[n].state \in S}

\* cartId is unique: at most one row is attached to the cart.
TypeOK ==
    /\ StepsTyped
    /\ content \in 0..MaxEdits /\ edits \in 0..MaxEdits
    /\ row \in [Rows -> [state : {"unused", "kept", "gone"}, cart : BOOLEAN,
                         recovered : BOOLEAN, canceled : BOOLEAN, deleted : BOOLEAN,
                         snap : 0..MaxEdits, order : 0..MaxOrders]]
    /\ order \in [Orders -> [state : {"none", "live", "canceled"}, from : SUBSET Rows]]
    /\ req \in [Handlers -> [at : {"idle", "read", "update", "create", "enqueue", "place",
                                   "find", "mark", "skip"},
                             snap : 0..MaxEdits,
                             rows : SUBSET Rows, order : 0..MaxOrders, emits : BOOLEAN,
                             shut : SUBSET Rows]]
    /\ begun \in 0..MaxRequests /\ loose \subseteq Rows /\ slips \in [Rows -> Nat]
    /\ Cardinality(Attached) <= 1

Init ==
    /\ StepsInit
    /\ content = 0 /\ edits = 0
    /\ row = [r \in Rows |-> Unused]
    /\ order = [n \in Orders |-> [state |-> "none", from |-> {}]]
    /\ req = [h \in Handlers |-> Idle]
    /\ begun = 0 /\ loose = {} /\ slips = [r \in Rows |-> 0]

begin(h) == req[h].at = "idle" /\ begun < MaxRequests /\ begun' = begun + 1
finish(h) == req' = [req EXCEPT ![h] = Idle]

-----------------------------------------------------------------------------
(* Captures                                                                *)

visit(h) == req' = [req EXCEPT ![h].at = "read", ![h].shut = {r \in Rows : Kept(r) /\ Closed(r)}]

\* CartService changes the cart and emits cart.updated.
editCart(h) ==
    /\ begin(h) /\ edits < MaxEdits
    /\ content' = edits + 1 /\ edits' = edits + 1
    /\ visit(h)
    /\ UNCHANGED <<step, row, order, history>>

\* The checkout form or the OTP request reports what the shopper typed.
visitCheckout(h) ==
    /\ begin(h) /\ content # 0
    /\ visit(h)
    /\ UNCHANGED <<step, tableVars, history>>

\* Mutant: the row of the cart is used whatever its outcome.
captureReadAny(h) ==
    /\ req[h].at = "read"
    /\ IF content = 0 THEN finish(h)
       ELSE req' = [req EXCEPT ![h].snap = content, ![h].rows = Attached,
                               ![h].at = IF Attached = {} THEN "create" ELSE "update"]
    /\ UNCHANGED <<step, tableVars, begun, history>>

\* Read the cart, then openRowForCart: a closed row gives the cart up.
captureRead(h) ==
    /\ req[h].at = "read"
    /\ IF content = 0 THEN finish(h) /\ UNCHANGED row
       ELSE LET open == {r \in Attached : ~Closed(r)}
            IN  /\ row' = [r \in Rows |-> IF r \in Attached /\ Closed(r)
                                          THEN [row[r] EXCEPT !.cart = FALSE] ELSE row[r]]
                /\ req' = [req EXCEPT ![h].snap = content, ![h].rows = open,
                                      ![h].at = IF open = {} THEN "create" ELSE "update"]
    /\ UNCHANGED <<step, content, edits, order, begun, history>>

\* The row that was read is written whatever it has become; one that has been
\* removed throws.
captureUpdate(h) ==
    /\ req[h].at = "update"
    /\ row' = [r \in Rows |-> IF r \in req[h].rows /\ Kept(r)
                              THEN [row[r] EXCEPT !.snap = req[h].snap]
                              ELSE row[r]]
    /\ finish(h)
    /\ UNCHANGED <<step, content, edits, order, begun, history>>

\* A second row for the cart violates the unique key and throws.
captureCreate(h) ==
    /\ req[h].at = "create"
    /\ \/ /\ Attached # {}
          /\ finish(h) /\ UNCHANGED row
       \/ /\ Attached = {}
          /\ \E r \in Rows :
                /\ row[r].state = "unused"
                /\ row' = [row EXCEPT ![r] =
                     [Unused EXCEPT !.state = "kept", !.cart = TRUE, !.snap = req[h].snap]]
                /\ req' = [req EXCEPT ![h] = [Idle EXCEPT !.at = "enqueue", !.rows = {r}]]
    /\ UNCHANGED <<step, content, edits, order, begun, history>>

\* Steps are scheduled once, for the templates active at that moment that have
\* an address, whatever has become of the row.
captureEnqueue(h) ==
    /\ req[h].at = "enqueue"
    /\ \E r \in req[h].rows :
          /\ \E active \in SUBSET Templates :
                step' = IF Kept(r) THEN Enqueued(r, active) ELSE step
          /\ loose' = IF Closed(r) \/ row[r].deleted THEN loose \cup {r} ELSE loose
    /\ finish(h)
    /\ UNCHANGED <<tableVars, begun, slips>>

-----------------------------------------------------------------------------
(* Orders                                                                  *)

NewOrder(n, from) ==
    /\ n \in OrdersIn({"none"}) /\ \A m \in OrdersIn({"none"}) : n <= m
    /\ order' = [order EXCEPT ![n] = [state |-> "live", from |-> from]]

\* The shopper's checkout empties the cart and emits order.created.
checkout(h) ==
    /\ begin(h) /\ content # 0
    /\ content' = 0
    /\ \E n \in Orders :
          /\ NewOrder(n, {})
          /\ req' = [req EXCEPT ![h].at = "find", ![h].order = n]
    /\ UNCHANGED <<step, edits, row, history>>

\* onOrderCreated: the shopper's open rows.
orderFind(h) ==
    LET found == {r \in Rows : Kept(r) /\ ~Closed(r)}
    IN  /\ req[h].at = "find"
        /\ IF found = {} THEN finish(h)
           ELSE req' = [req EXCEPT ![h].at = "mark", ![h].rows = found]
        /\ UNCHANGED <<step, tableVars, begun, history>>

\* createOrderFromIncomplete, for a row not recovered yet.
recreate(h, r) ==
    /\ begin(h)
    /\ Kept(r) /\ ~row[r].recovered
    /\ req' = [req EXCEPT ![h].at = "place", ![h].rows = {r}, ![h].emits = TRUE]
    /\ UNCHANGED <<step, tableVars, history>>

Slipped(S) == slips' = [r \in Rows |-> IF r \in S THEN slips[r] + 1 ELSE slips[r]]

\* An order of a row is placed, and the row not marked yet.
Placed(r) == \E g \in Handlers : req[g].at = "mark" /\ req[g].emits /\ r \in req[g].rows

\* The order is placed on what was read, whatever has become of the row.
recreatePlace(h) ==
    /\ req[h].at = "place"
    /\ \E n \in Orders :
          /\ NewOrder(n, req[h].rows)
          /\ req' = [req EXCEPT ![h].at = "mark", ![h].order = n]
    /\ Slipped({r \in req[h].rows : ~Kept(r) \/ row[r].recovered \/ Placed(r)})
    /\ UNCHANGED <<step, content, edits, row, begun, loose>>

\* The rows that were read are marked recovered whatever they have become; a
\* request whose row is gone throws.
orderMark(h) ==
    LET marked == {r \in req[h].rows : Kept(r)}
    IN  /\ req[h].at = "mark"
        /\ row' = [r \in Rows |-> IF r \in marked
                                  THEN [row[r] EXCEPT !.recovered = TRUE, !.order = req[h].order]
                                  ELSE row[r]]
        /\ Slipped({r \in marked : row[r].recovered /\ row[r].order # req[h].order})
        /\ IF req[h].emits /\ marked # req[h].rows THEN finish(h)
           ELSE req' = [req EXCEPT ![h].at = "skip"]
        /\ UNCHANGED <<step, content, edits, order, begun, loose>>

\* Mutant: only one row of those found is cleared ("the newest one").
skipRemainingOne(h) ==
    /\ req[h].at = "skip"
    /\ \E r \in req[h].rows :
          /\ step' = Skipped(r) /\ loose' = loose \ {r}
          /\ finish(h)
    /\ UNCHANGED <<tableVars, begun, slips>>

\* The steps of each closed row are skipped, one row after the other.  A
\* recreated order then emits order.created itself.
skipRemaining(h) ==
    /\ req[h].at = "skip"
    /\ \E r \in req[h].rows :
          /\ step' = Skipped(r) /\ loose' = loose \ {r}
          /\ IF req[h].rows # {r} THEN req' = [req EXCEPT ![h].rows = @ \ {r}]
             ELSE IF req[h].emits
             THEN req' = [req EXCEPT ![h] = [Idle EXCEPT !.at = "find", !.order = req[h].order]]
             ELSE finish(h)
    /\ UNCHANGED <<tableVars, begun, slips>>

\* The order is canceled in Order Manager.
cancelOrder(n) ==
    /\ order[n].state = "live"
    /\ order' = [order EXCEPT ![n] = [state |-> "canceled", from |-> {}]]
    /\ UNCHANGED <<step, content, edits, row, req, begun, history>>

-----------------------------------------------------------------------------
(* Staff and the retention of the trash                                    *)

cancel(h, r) ==
    /\ begin(h)
    /\ Kept(r) /\ ~row[r].recovered
    /\ row' = [row EXCEPT ![r].canceled = TRUE]
    /\ req' = [req EXCEPT ![h].at = "skip", ![h].rows = {r}]
    /\ UNCHANGED <<step, content, edits, order, history>>

softDelete(h, r) ==
    /\ begin(h)
    /\ Kept(r) /\ ~row[r].deleted
    /\ row' = [row EXCEPT ![r].deleted = TRUE]
    /\ req' = [req EXCEPT ![h].at = "skip", ![h].rows = {r}]
    /\ UNCHANGED <<step, content, edits, order, history>>

restore(r) ==
    /\ Kept(r) /\ row[r].deleted
    /\ row' = [row EXCEPT ![r].deleted = FALSE]
    /\ UNCHANGED <<step, content, edits, order, req, begun, history>>

\* The rows of order n may be chased again.
Reopened(n) ==
    LET rows == {r \in Rows : row[r].order = n}
    IN  /\ rows # {}
        /\ row' = [r \in Rows |-> IF r \in rows
                                  THEN [row[r] EXCEPT !.recovered = FALSE, !.order = 0]
                                  ELSE row[r]]
        /\ req' = [h \in Handlers |-> [req[h] EXCEPT !.shut = @ \ rows]]
        /\ UNCHANGED <<step, content, edits, order, begun, history>>

\* Mutant: the order need not be canceled.
reopenFromAnyOrder(n) == order[n].state # "none" /\ Reopened(n)

\* Staff reopen the rows of a canceled order; their steps stay as they are.
reopenFromOrder(n) == order[n].state = "canceled" /\ Reopened(n)

\* purgeExpiredTrash removes binned rows, clearAll rows still open; the steps
\* go with them.
removeRow(r) ==
    /\ Kept(r)
    /\ row[r].deleted \/ ~Closed(r)
    /\ row' = [row EXCEPT ![r] = [Unused EXCEPT !.state = "gone"]]
    /\ step' = Deleted(r)
    /\ UNCHANGED <<content, edits, order, req, begun, history>>

\* A listener or request stops at its next step: an error, or the process ends.
stop(h) ==
    /\ req[h].at # "idle"
    /\ finish(h)
    /\ loose' = IF req[h].at = "skip" THEN loose \cup req[h].rows ELSE loose
    /\ Slipped(IF req[h].at = "mark" /\ req[h].emits THEN req[h].rows ELSE {})
    /\ UNCHANGED <<step, tableVars, begun>>

-----------------------------------------------------------------------------
\* The queue's worker and the staff of the Campaigns page.
campaigns ==
    /\ QueueStep
    /\ UNCHANGED recoveryVars

Capture(h) ==
    \/ editCart(h) \/ visitCheckout(h) \/ captureRead(h)
    \/ captureUpdate(h) \/ captureCreate(h) \/ captureEnqueue(h)

Buy(h) == checkout(h) \/ orderFind(h) \/ orderMark(h) \/ skipRemaining(h)

StaffOf(h) ==
    \/ recreatePlace(h)
    \/ \E r \in Rows : recreate(h, r) \/ cancel(h, r) \/ softDelete(h, r)

Next ==
    \/ \E h \in Handlers : Capture(h) \/ Buy(h) \/ StaffOf(h) \/ stop(h)
    \/ \E n \in Orders : cancelOrder(n) \/ reopenFromOrder(n)
    \/ \E r \in Rows : restore(r) \/ removeRow(r)
    \/ campaigns

Spec == Init /\ [][Next]_vars

-----------------------------------------------------------------------------
(* Properties                                                              *)

\* A cart that was bought, canceled or binned has no message left to send, unless
\* a request is about to skip them, or staff asked for one again.  Captures, visits,
\* closings and the queue's runs interleave; only messages that a capture schedules
\* after its row was closed, and those of a closing that stopped before the skip,
\* are left over, until the row is closed once more (skipRemaining).
ClosedStepsStopped ==
    \A r \in Rows :
        /\ Kept(r) /\ (Closed(r) \/ row[r].deleted) /\ r \notin loose
        /\ \A h \in Handlers : r \in req[h].rows => req[h].at # "skip"
        => \A t \in Templates : step[<<r, t>>] # "waiting"

\* A shopper who comes back to a cart that was canceled or recovered leaves the
\* products it was closed with (openRowForCart); only a visit that began before
\* the row was closed may still write it.
ClosedRowsKeepHistory ==
    [][\A h \in Handlers : captureUpdate(h) =>
          \A r \in req[h].shut : Kept(r) => row'[r].snap = row[r].snap]_vars

\* An abandoned cart is recreated into a second live order only when the first was
\* canceled, but for each time that its order and its mark came apart: a request
\* that stopped between the two, an order placed for a row that was bought, taken or
\* removed meanwhile, a mark that replaced another's (createOrderFromIncomplete).
OneLiveOrder ==
    \A r \in Rows :
        Cardinality({n \in OrdersIn({"live"}) : r \in order[n].from}) <= 1 + slips[r]
=============================================================================
