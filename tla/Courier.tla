-------------------------------- MODULE Courier --------------------------------
(***************************************************************************)
(* The cash-on-delivery parcels of one online order (ShipmentsService,     *)
(* SalesPostingService, SettlementSyncService, CodSettlementService).      *)
(*                                                                         *)
(* Sending a parcel opens a receivable against the courier.  The courier   *)
(* reports the parcel's end by webhook, as often as it likes or never; its *)
(* statement says what it collected; a settlement clears the receivable    *)
(* with the payout that reached the bank.  The parcel, the order, the      *)
(* receivable and the payment are written one after the other, without a   *)
(* common transaction: staff may act on the order or the parcel between    *)
(* any two of these writes, and the server may stop there.  Opening and    *)
(* voiding a receivable may be refused, for instance because its month was *)
(* closed: the error is logged and the work goes on.  Two webhooks,        *)
(* dispatches or settlements of one order do not overlap here.  Delivery   *)
(* charges are left out: they are billed per settlement, on a voucher.     *)
(* The names differ from those of Payments, so that one module can speak   *)
(* of both: codOrder is the order, job the request in progress.            *)
(***************************************************************************)
EXTENDS Integers, FiniteSets, Functions

CONSTANTS
    CodTotal,       \* what the customer owes on delivery
    PartTaken,      \* what a partial delivery collects
    MaxParcels,     \* bound on the parcels
    MaxDues,        \* bound on the receivables
    MaxStops,       \* bound on the server's stops
    Practices       \* what may happen besides, see below

\* "late_report": a report that a later one or a later parcel has overtaken.
\* "early_resend": a parcel is sent before the end of the last was reported.
AllPractices == {"late_report", "early_resend"}

ASSUME CourierAssumption ==
    /\ CodTotal \in Nat \ {0} /\ PartTaken \in 0..(CodTotal - 1)
    /\ MaxParcels \in Nat /\ MaxDues \in Nat /\ MaxStops \in Nat
    /\ Practices \subseteq AllPractices

Parcels == 1..MaxParcels
Dues == 1..MaxDues
Unknown == -1

VARIABLES
    codOrder,       \* its status, and that of its COD payment
    parcel,         \* of each shipment row, see NoParcel
    truth,          \* what has become of each parcel at the courier
    due,            \* of each COD_IN_TRANSIT receivable: amount, paid, open (not voided)
    cash,           \* what the ledger says the settlements brought in
    banked,         \* what they did bring in (history)
    job,            \* the webhook, request or job in progress, see NoJob
    heard,          \* the last report of each parcel taken in (history)
    stops,          \* how often the server stopped (history)
    cut,            \* a stop ended work in progress (history)
    refused         \* the postings refused and only logged, by parcel (history)

history == <<heard, stops, cut, refused>>
courierVars == <<codOrder, parcel, truth, due, cash, banked, job, history>>

ActiveStatuses == {"PENDING", "DISPATCHED", "IN_TRANSIT"}
ActiveOrderStatuses == {"PENDING", "CONFIRMED", "PROCESSING", "HOLD"}
Ends == {"delivered", "partial", "returned", "cancelled"}

\* cod: codAmount; collected: collectedCodAmount, from a webhook; settled:
\* settledCodAmount, from a statement; batch: codSettlementId is set.
NewParcel(status, cod) == [status |-> status, cod |-> cod, collected |-> Unknown,
                           settled |-> Unknown, batch |-> FALSE]
NoParcel == NewParcel("none", 0)

\* k: the parcel; word: the report; seen: the status read at the start; cod:
\* the amount the receivable is to have, or Unknown.
NoJob == [at |-> "none", k |-> 0, word |-> "none", seen |-> "none", cod |-> Unknown]
Resizing(k, cod) == [at |-> "resize", k |-> k, word |-> "none", seen |-> "none", cod |-> cod]

OpenDues == {d \in Dues : due[d].open}
Shipped == {k \in Parcels : parcel[k].status # "none"}
Booked == {k \in Parcels : truth[k] # "none"}
Newest(k) == k \in Booked /\ \A j \in Booked : j <= k

CourierTypeOK ==
    /\ codOrder \in [status : ActiveOrderStatuses \cup
                           {"COMPLETED", "RETURNED", "PARTIALLY_RETURNED", "CANCELED"},
                  pay : {"PENDING", "CAPTURED", "CANCELED"}]
    /\ parcel \in [Parcels -> [status : ActiveStatuses \cup {"none", "FAILED", "DELIVERED",
                                 "PARTIALLY_DELIVERED", "RETURNED", "CANCELED"},
                               cod : 0..CodTotal, collected : Unknown..CodTotal,
                               settled : Unknown..CodTotal, batch : BOOLEAN]]
    /\ truth \in [Parcels -> {"none", "carried"} \cup Ends]
    /\ due \in [Dues -> [amount : 0..CodTotal, paid : Nat, open : BOOLEAN]]
    /\ cash \in Int /\ banked \in Nat
    /\ job.at \in {"none", "book", "store", "process", "move", "resize", "open", "pay"}
    /\ heard \in [Parcels -> {"none", "in_transit"} \cup Ends]
    /\ stops \in Nat /\ cut \in BOOLEAN
    /\ refused \subseteq Parcels \X {"void", "open"}
    /\ Cardinality(OpenDues) <= 1

CourierInit ==
    /\ codOrder = [status |-> "PENDING", pay |-> "PENDING"]
    /\ parcel = [k \in Parcels |-> NoParcel]
    /\ truth = [k \in Parcels |-> "none"]
    /\ due = [d \in Dues |-> [amount |-> 0, paid |-> 0, open |-> FALSE]]
    /\ cash = 0 /\ banked = 0
    /\ job = NoJob
    /\ heard = [k \in Parcels |-> "none"]
    /\ stops = 0 /\ cut = FALSE /\ refused = {}

\* What a parcel brought in.
Taken(k) ==
    CASE truth[k] = "delivered" -> parcel[k].cod
      [] truth[k] = "partial"   ->
             IF PartTaken < parcel[k].cod THEN PartTaken ELSE parcel[k].cod
      [] OTHER                  -> 0

\* The last report about a parcel is done with.
done == job' = NoJob /\ heard' = IF job.word = "none" THEN heard
                                ELSE [heard EXCEPT ![job.k] = job.word]

\* A posting fails: the error is logged, and what called it goes on.
refuse(posting) == refused' = refused \cup {<<job.k, posting>>}

\* None of that parcel's postings of this kind was refused.
accepted(k, posting) == <<k, posting>> \notin refused

\* What follows the receivable: a partial delivery's payment is captured.
afterwards == IF job.word = "partial" THEN job' = [job EXCEPT !.at = "pay"] /\ UNCHANGED heard
              ELSE done

-----------------------------------------------------------------------------
(* dispatch                                                                *)

\* A parcel follows another once the courier has reported that one's return.
MayResend ==
    \/ "early_resend" \in Practices
    \/ \A k \in Booked : truth[k] \in {"returned", "cancelled"} /\ heard[k] = truth[k]

dispatch ==
    /\ job = NoJob
    /\ \A k \in Shipped : parcel[k].status \notin ActiveStatuses
    /\ MayResend
    /\ \E k \in Parcels :
          /\ k \notin Shipped \cup Booked
          /\ 1..(k - 1) \subseteq Shipped \cup Booked
          /\ job' = [at |-> "book", k |-> k, word |-> "none", seen |-> codOrder.status,
                     cod |-> IF codOrder.pay = "PENDING" THEN CodTotal ELSE 0]
    /\ UNCHANGED <<codOrder, parcel, truth, due, cash, banked, history>>

\* createConsignment: the courier takes the parcel or refuses it.
book ==
    /\ job.at = "book"
    /\ \/ /\ truth' = [truth EXCEPT ![job.k] = "carried"]
          /\ job' = [job EXCEPT !.at = "store"]
          /\ UNCHANGED parcel
       \/ /\ parcel' = [parcel EXCEPT ![job.k] = NewParcel("FAILED", job.cod)]
          /\ job' = NoJob
          /\ UNCHANGED truth
    /\ UNCHANGED <<codOrder, due, cash, banked, history>>

store ==
    /\ job.at = "store"
    /\ parcel' = [parcel EXCEPT ![job.k] = NewParcel("DISPATCHED", job.cod)]
    /\ job' = [job EXCEPT !.at = "process"]
    /\ UNCHANGED <<codOrder, truth, due, cash, banked, history>>

process ==
    /\ job.at = "process"
    /\ codOrder' = IF job.seen = "PENDING" THEN [codOrder EXCEPT !.status = "PROCESSING"]
                  ELSE codOrder
    /\ job' = IF job.cod > 0 THEN [job EXCEPT !.at = "open"] ELSE NoJob
    /\ UNCHANGED <<parcel, truth, due, cash, banked, history>>

NewDue(amount) ==
    \E d \in Dues :
        /\ due[d].amount = 0 /\ \A e \in Dues : e < d => due[e].amount # 0
        /\ due' = [due EXCEPT ![d] = [amount |-> amount, paid |-> 0, open |-> TRUE]]

\* A receivable that is already open is kept as it is.
openCodReceivable ==
    /\ job.at = "open"
    /\ \/ OpenDues = {} /\ NewDue(job.cod) /\ UNCHANGED refused
       \/ OpenDues # {} /\ UNCHANGED <<due, refused>>
       \/ OpenDues = {} /\ refuse("open") /\ UNCHANGED due
    /\ afterwards
    /\ UNCHANGED <<codOrder, parcel, truth, cash, banked, stops, cut>>

-----------------------------------------------------------------------------
(* Reports                                                                 *)

\* Mutant: a report without a status of its own is stored as it came.
MappedAsIs(word) ==
    CASE word = "delivered" -> "DELIVERED"
      [] word = "partial"   -> "PARTIALLY_DELIVERED"
      [] word = "returned"  -> "RETURNED"
      [] word = "cancelled" -> "CANCELED"
      [] OTHER              -> word

\* mapRawCourierStatus.
Mapped(word) ==
    CASE word = "delivered" -> "DELIVERED"
      [] word = "partial"   -> "PARTIALLY_DELIVERED"
      [] word = "returned"  -> "RETURNED"
      [] word = "cancelled" -> "CANCELED"
      [] OTHER              -> "IN_TRANSIT"

\* What the courier says of the parcel now.
Word(k) == IF truth[k] = "carried" THEN "in_transit" ELSE truth[k]

Reportable(k) ==
    IF "late_report" \in Practices THEN {Word(k), "in_transit"}
    ELSE IF Newest(k) THEN {Word(k)} ELSE {}

\* handleCourierWebhook, up to its first write: the report may carry the
\* amount collected.
webhook ==
    /\ job = NoJob
    /\ \E k \in Shipped \cap Booked, known \in BOOLEAN : \E word \in Reportable(k) :
          /\ parcel' = [parcel EXCEPT
               ![k].status = Mapped(word),
               ![k].collected = IF known /\ word \in {"delivered", "partial"}
                                THEN Taken(k) ELSE @]
          /\ job' = [at |-> "move", k |-> k, word |-> word, seen |-> parcel[k].status,
                     cod |-> IF word = "partial"
                             THEN IF parcel'[k].collected # Unknown THEN parcel'[k].collected
                                  ELSE parcel[k].settled
                             ELSE 0]
    /\ UNCHANGED <<codOrder, truth, due, cash, banked, history>>

\* ORDER_STATUS_ON_SHIPMENT_STATUS.
OrderStatusOn(word) ==
    CASE word = "delivered" -> "COMPLETED"
      [] word = "partial"   -> "PARTIALLY_RETURNED"
      [] OTHER              -> "RETURNED"

\* The order follows while it is active; a parcel already marked canceled was
\* canceled by staff, and leaves it alone.
moveOrder ==
    /\ job.at = "move"
    /\ codOrder' = IF /\ job.word \in Ends
                   /\ ~(job.word = "cancelled" /\ job.seen = "CANCELED")
                   /\ codOrder.status \in ActiveOrderStatuses
                THEN [codOrder EXCEPT !.status = OrderStatusOn(job.word)] ELSE codOrder
    /\ IF job.word = "delivered" THEN job' = [job EXCEPT !.at = "pay"] /\ UNCHANGED heard
       ELSE IF job.word \in Ends THEN job' = [job EXCEPT !.at = "resize"] /\ UNCHANGED heard
       ELSE done
    /\ UNCHANGED <<parcel, truth, due, cash, banked, stops, cut, refused>>

\* The unpaid open receivable of another amount than the parcel's now.
OtherDues == {d \in OpenDues : due[d].amount # job.cod /\ due[d].paid = 0}
voidOthers == due' = [d \in Dues |-> [due[d] EXCEPT !.open = @ /\ d \notin OtherDues]]

\* Mutant: only partial deliveries touch the receivable.
resizePartOnly ==
    /\ job.at = "resize"
    /\ IF job.cod <= 0 \/ OtherDues = {} THEN afterwards /\ UNCHANGED <<due, refused>>
       ELSE \/ /\ voidOthers
               /\ job' = [job EXCEPT !.at = "open"]
               /\ UNCHANGED <<heard, refused>>
            \/ refuse("void") /\ afterwards /\ UNCHANGED due
    /\ UNCHANGED <<codOrder, parcel, truth, cash, banked, stops, cut>>

\* Mutant: the receivable is voided and not opened again.
resizeVoidOnly ==
    /\ job.at = "resize"
    /\ IF job.cod = Unknown \/ OtherDues = {} THEN afterwards /\ UNCHANGED <<due, refused>>
       ELSE \/ voidOthers /\ afterwards /\ UNCHANGED refused
            \/ refuse("void") /\ afterwards /\ UNCHANGED due
    /\ UNCHANGED <<codOrder, parcel, truth, cash, banked, stops, cut>>

\* resizeCodReceivable: the open receivable of another amount is voided, and
\* opened again when something was collected; one with a payment is left, and
\* so is one that may not be voided.
resizeCodReceivable ==
    /\ job.at = "resize"
    /\ \/ /\ job.cod = Unknown \/ OtherDues = {}
          /\ afterwards
          /\ UNCHANGED <<due, refused>>
       \/ /\ job.cod # Unknown /\ OtherDues # {}
          /\ voidOthers
          /\ IF job.cod > 0 THEN job' = [job EXCEPT !.at = "open"] /\ UNCHANGED heard
             ELSE afterwards
          /\ UNCHANGED refused
       \/ /\ job.cod # Unknown /\ OtherDues # {}
          /\ refuse("void")
          /\ afterwards
          /\ UNCHANGED due
    /\ UNCHANGED <<codOrder, parcel, truth, cash, banked, stops, cut>>

\* A delivered parcel's COD payment is captured.
capturePayment ==
    /\ job.at = "pay"
    /\ codOrder' = IF codOrder.pay = "PENDING" THEN [codOrder EXCEPT !.pay = "CAPTURED"]
                  ELSE codOrder
    /\ done
    /\ UNCHANGED <<parcel, truth, due, cash, banked, stops, cut, refused>>

\* Mutant: a partial delivery of unknown amount is left for later.
reconcileKnown(k) ==
    /\ job = NoJob
    /\ parcel[k].status = "PARTIALLY_DELIVERED" /\ codOrder.status \in ActiveOrderStatuses
    /\ parcel[k].collected # Unknown
    /\ codOrder' = [codOrder EXCEPT !.status = "PARTIALLY_RETURNED"]
    /\ job' = Resizing(k, parcel[k].collected)
    /\ UNCHANGED <<parcel, truth, due, cash, banked, history>>

\* reconcilePartialDeliveries: a partial delivery whose order is still active.
reconcile(k) ==
    /\ job = NoJob
    /\ parcel[k].status = "PARTIALLY_DELIVERED" /\ codOrder.status \in ActiveOrderStatuses
    /\ codOrder' = [codOrder EXCEPT !.status = "PARTIALLY_RETURNED"]
    /\ LET amount == IF parcel[k].collected # Unknown THEN parcel[k].collected
                     ELSE parcel[k].settled
       IN  job' = IF amount = Unknown THEN NoJob
                  ELSE Resizing(k, amount)
    /\ UNCHANGED <<parcel, truth, due, cash, banked, history>>

\* applyPayout: the statement's amount for a parcel, which resizes the
\* receivable of a partial delivery.
applyPayout(k) ==
    /\ job = NoJob
    /\ k \in Shipped /\ truth[k] \in {"delivered", "partial"} /\ parcel[k].settled # Taken(k)
    /\ parcel' = [parcel EXCEPT ![k].settled = Taken(k)]
    /\ job' = IF parcel[k].status = "PARTIALLY_DELIVERED"
              THEN Resizing(k, Taken(k)) ELSE NoJob
    /\ UNCHANGED <<codOrder, truth, due, cash, banked, history>>

\* track asks the courier; updateStatus enters what staff learned by phone.
\* Neither touches the order, the receivable or the payment.
track(k) ==
    /\ k \in Shipped \cap Booked
    /\ parcel' = [parcel EXCEPT ![k].status = Mapped(Word(k))]
    /\ UNCHANGED <<codOrder, truth, due, cash, banked, job, history>>

\* The courier stops the parcel, or goes on with it.
cancelOrReturn(k) ==
    /\ k \in Shipped /\ truth[k] = "carried"
    /\ parcel' = [parcel EXCEPT ![k].status = "CANCELED"]
    /\ \/ truth' = [truth EXCEPT ![k] = "cancelled"]
       \/ UNCHANGED truth
    /\ UNCHANGED <<codOrder, due, cash, banked, job, history>>

\* What staff do to the order themselves.
staffUpdateStatus(s) ==
    /\ codOrder.status # s
    /\ codOrder' = [status |-> s,
                    pay |-> IF s = "CANCELED" /\ codOrder.pay = "PENDING" THEN "CANCELED"
                            ELSE codOrder.pay]
    /\ UNCHANGED <<parcel, truth, due, cash, banked, job, history>>

\* The courier brings the parcel to an end.
carry(k) ==
    /\ truth[k] = "carried"
    /\ \E end \in Ends : truth' = [truth EXCEPT ![k] = end]
    /\ UNCHANGED <<codOrder, parcel, due, cash, banked, job, history>>

-----------------------------------------------------------------------------
(* Settlements                                                             *)

codOf(k) ==
    IF parcel[k].collected # Unknown THEN parcel[k].collected
    ELSE IF parcel[k].settled # Unknown THEN parcel[k].settled ELSE parcel[k].cod

Reached(S) == SumFunctionOnSet([k \in Parcels |-> Taken(k)], S)
Expected(S) == SumFunctionOnSet([k \in Parcels |-> codOf(k)], S)

\* Mutant: a parcel may be settled again.
unsettledAny ==
    {k \in Shipped : /\ parcel[k].status \in {"DELIVERED", "PARTIALLY_DELIVERED"}
                  /\ parcel[k].cod > 0}

unsettledShipments ==
    {k \in Shipped : /\ ~parcel[k].batch
                  /\ parcel[k].status \in {"DELIVERED", "PARTIALLY_DELIVERED"}
                  /\ parcel[k].cod > 0}

\* Mutant: the payout's difference is not booked.
settleNoAdjustment ==
    /\ job = NoJob
    /\ unsettledShipments # {} /\ banked < MaxParcels * CodTotal
    /\ \E k \in unsettledShipments :
          LET net   == Reached(unsettledShipments)
              clear == codOf(k) > 0
          IN  /\ parcel' = [j \in Parcels |-> [parcel[j] EXCEPT !.batch =
                                                  @ \/ j \in unsettledShipments]]
              /\ due' = [d \in Dues |-> [due[d] EXCEPT !.paid =
                                           IF d \in OpenDues /\ clear THEN @ + codOf(k) ELSE @]]
              /\ cash' = cash + (IF clear THEN Cardinality(OpenDues) * codOf(k) ELSE 0)
              /\ banked' = banked + net
    /\ UNCHANGED <<codOrder, truth, job, history>>

\* One transaction: the parcels get the settlement's number, the order's open
\* receivable is paid at what one of its parcels collected, and the difference
\* between the payout and the expected amount is booked as an adjustment.
settle ==
    /\ job = NoJob
    /\ unsettledShipments # {} /\ banked < MaxParcels * CodTotal
    /\ \E k \in unsettledShipments :
          LET net        == Reached(unsettledShipments)
              adjustment == net - Expected(unsettledShipments)
              clear      == codOf(k) > 0
          IN  /\ parcel' = [j \in Parcels |-> [parcel[j] EXCEPT !.batch =
                                                  @ \/ j \in unsettledShipments]]
              /\ due' = [d \in Dues |-> [due[d] EXCEPT !.paid =
                                           IF d \in OpenDues /\ clear THEN @ + codOf(k) ELSE @]]
              /\ cash' = cash + (IF clear THEN Cardinality(OpenDues) * codOf(k) ELSE 0)
                              + adjustment
              /\ banked' = banked + net
    /\ UNCHANGED <<codOrder, truth, job, history>>

-----------------------------------------------------------------------------
crash ==
    /\ job # NoJob /\ stops < MaxStops
    /\ job' = NoJob
    /\ stops' = stops + 1 /\ cut' = TRUE
    /\ UNCHANGED <<codOrder, parcel, truth, due, cash, banked, heard, refused>>

\* What is in progress goes on.
progress ==
    \/ book \/ store \/ process \/ moveOrder
    \/ openCodReceivable \/ resizeCodReceivable \/ capturePayment

CourierNext ==
    \/ dispatch \/ webhook \/ progress \/ settle \/ crash
    \/ \E k \in Parcels :
          reconcile(k) \/ applyPayout(k) \/ track(k) \/ cancelOrReturn(k) \/ carry(k)
    \/ \E s \in {"PROCESSING", "COMPLETED", "CANCELED"} : staffUpdateStatus(s)

\* What has started goes on unless the server stops; the reconciliation runs
\* every six hours, between whatever else there is.
Fairness ==
    /\ WF_courierVars(progress)
    /\ SF_courierVars(\E k \in Parcels : reconcile(k))

CourierSpec == CourierInit /\ [][CourierNext]_courierVars /\ Fairness

-----------------------------------------------------------------------------
(* Properties                                                              *)

\* A receivable never takes in more than it is owed, whatever the webhook, the
\* statement and the settlement say of the collected amount.
NotOverpaid == \A d \in Dues : due[d].paid <= due[d].amount

\* Between pieces of work, a parcel whose money is still with the courier, as far
\* as the shop knows, has its open receivable, of what was asked or, for a partial
\* delivery, of what was collected (the comment on openCodReceivable); unless one
\* of that parcel's own postings was refused.
ParcelOwed ==
    (job = NoJob /\ ~cut) =>
        \A k \in Shipped \cap Booked :
            /\ codOf(k) > 0 /\ ~parcel[k].batch /\ heard[k] \notin {"returned", "cancelled"}
            /\ accepted(k, "void") /\ accepted(k, "open")
            => \E d \in OpenDues :
                 /\ due[d].paid = 0
                 /\ \/ due[d].amount = Taken(k) /\ truth[k] = "partial"
                    \/ /\ due[d].amount = parcel[k].cod
                       /\ heard[k] = "partial" => parcel[k].collected = Unknown

\* A parcel that came back is not owed: nothing stays "with the courier" once
\* its report was taken in (the comment on resizeCodReceivable), unless the
\* voiding it asked for was refused. What an earlier parcel's refusal left open
\* goes with it.
ReturnedNotOwed ==
    (job = NoJob /\ ~cut) =>
        \A k \in Booked :
            /\ Newest(k) /\ heard[k] \in {"returned", "cancelled"}
            /\ accepted(k, "void")
            => OpenDues = {}

\* The ledger's receipts, clearings and adjustments net to what reached the
\* bank (the comment in settle: "the three legs net to the payout"), also when a
\* refused voiding left the receivable at another amount, but not when none
\* could be opened.
BankMatches == (~cut /\ \A k \in Parcels : accepted(k, "open")) => cash = banked

\* A partial delivery reaches its order even when the server stopped before
\* the order was moved (the comment on reconcilePartialDeliveries).
PartialReachesOrder ==
    \A k \in Parcels :
        (parcel[k].status = "PARTIALLY_DELIVERED" /\ codOrder.status \in ActiveOrderStatuses)
        ~> (codOrder.status \notin ActiveOrderStatuses
            \/ parcel[k].status # "PARTIALLY_DELIVERED")
===================================================================================
