------------------------------- MODULE Payments -------------------------------
(***************************************************************************)
(* The money of one online order: the bKash gateway's callbacks            *)
(* (BkashCallbackService.settle), the submissions that staff review        *)
(* (ManualPaymentService), the advance an order may be held for            *)
(* (AdvancePaymentService), refunds (PaymentsService.refund), the return   *)
(* of an abandoned payment (OrdersService.restoreCartFromPayment) and the  *)
(* status changes of staff.                                                *)
(*                                                                         *)
(* None of these handlers but updateStatus runs in a transaction: each     *)
(* reads rows, decides, and writes them one after the other, so every      *)
(* write is a step of its own that trusts what was read before.  Postings  *)
(* to the ledger follow the capture they belong to and are not read by     *)
(* anyone, so they belong to its step.                                     *)
(***************************************************************************)
EXTENDS Integers, FiniteSets, Functions

CONSTANTS
    Submissions,    \* transaction ids the customer may submit
    Amount,         \* money sent with each, [Submissions -> Nat \ {0}]
    Total,          \* what the order costs
    Advances,       \* amounts that may be required in advance
    AfterCapture,   \* PaymentMethodConfig.orderStatusAfterVerify
    Requested,      \* statuses staff may give the order
    Requests,       \* requests that may be in flight at a time
    Overlaps        \* sets of request kinds that may be in flight together

Kinds == {"callback", "verify", "reject", "require", "waive", "restore"}
\* The statuses that the payment code tells apart; CONFIRMED stands for every
\* other status of an order that is being fulfilled.
OrderStatuses == {"PENDING", "HOLD", "CONFIRMED", "COMPLETED", "CANCELED"}

\* Requests that may overlap without harm to the properties below.  Two callbacks
\* and two reviews each trust what the other writes; so does a verification that
\* records on an advance while it is required anew.
SafeOverlaps ==
    {{"callback", k} : k \in {"verify", "reject", "require", "waive", "restore"}} \cup
    {{"verify", "waive"}, {"verify", "restore"}, {"reject", "require"}, {"reject", "waive"},
     {"reject", "restore"}, {"restore"}, {"restore", "require"}, {"restore", "waive"}}

ASSUME ConstantsAssumption ==
    /\ Total \in Nat \ {0}
    /\ IsFiniteSet(Submissions)
    /\ Amount \in [Submissions -> Nat \ {0}]
    /\ Advances \subseteq Nat \ {0}
    /\ AfterCapture \in OrderStatuses /\ Requested \subseteq OrderStatuses
    /\ Overlaps \subseteq SUBSET Kinds

VARIABLES
    order,          \* orders.status
    payment,        \* the order's payments row: status, and transaction_ref
    gateway,        \* what bKash did: "open", "taken", or "unanswered" when it
                    \* took the money and the shop never learned of it
    submission,     \* manual_payments.status, "NONE" before the row
    advance,        \* the advance_payments row, status "NONE" before it
    credited,       \* submissions recorded against the advance (history)
    income,         \* sum of the order's SALE entries in the ledger
    files,          \* "locked", "paid" or "delivered": whether the downloads
                    \* are unlocked, and which of the two occasions did it
    req             \* requests in flight

moneyVars == <<payment, gateway, submission, income, files>>
vars == <<order, payment, gateway, submission, advance, credited, income, files, req>>

PaymentStatuses == {"PENDING", "CAPTURED", "FAILED", "REFUNDED", "CANCELED"}
AdvanceStatuses == {"NONE", "PENDING", "PARTIAL", "PAID", "WAIVED"}
Idle == [kind |-> "none"]
\* paid, saw, due, got: copies of payment and order status and of the advance.
Request == [kind : Kinds, at : {"fail", "execute", "capture", "forward", "unlock",
                                "review", "advance", "record", "release", "confirm",
                                "hold", "cancel", "write"},
            sub : Submissions \cup {"none"}, paid : PaymentStatuses,
            saw : OrderStatuses, due : Nat, got : Nat]

TypeOK ==
    /\ order \in OrderStatuses
    /\ payment \in [status : PaymentStatuses, ref : {"paymentID", "trxID", "none"}]
    /\ gateway \in {"open", "taken", "unanswered"}
    /\ submission \in [Submissions -> {"NONE", "SUBMITTED", "VERIFIED", "REJECTED"}]
    /\ advance \in [status : AdvanceStatuses, required : Nat, paid : Nat]
    /\ credited \subseteq Submissions
    /\ income \in Nat
    /\ files \in {"locked", "paid", "delivered"}
    /\ req \in [Requests -> Request \cup {Idle}]

\* CheckoutService.checkout has placed the order: with a hosted payment, with a
\* provider that authorizes nothing, or with a gateway that did not answer.
Init ==
    /\ order = "PENDING"
    /\ payment \in {[status |-> "PENDING", ref |-> "paymentID"],
                    [status |-> "PENDING", ref |-> "none"],
                    [status |-> "FAILED", ref |-> "none"]}
    /\ gateway = "open"
    /\ submission = [s \in Submissions |-> "NONE"]
    /\ advance = [status |-> "NONE", required |-> 0, paid |-> 0]
    /\ credited = {}
    /\ income = 0
    /\ files = "locked"
    /\ req = [h \in Requests |-> Idle]

-----------------------------------------------------------------------------
Sent(S) == SumFunctionOnSet(Amount, S)
Verified == {s \in Submissions : submission[s] = "VERIFIED"}

\* A request of kind k may start: nothing in flight that it must not meet.
MayStart(h, k) ==
    /\ req[h] = Idle
    /\ \A g \in Requests : req[g] # Idle => {k, req[g].kind} \in Overlaps

\* A request that has read nothing yet.
Blank == [kind |-> "waive", at |-> "release", sub |-> "none", paid |-> "PENDING",
          saw |-> "PENDING", due |-> 0, got |-> 0]

\* Request h starts, with nothing read or with what the code reads at its start.
Start(h, k, at) ==
    /\ MayStart(h, k)
    /\ req' = [req EXCEPT ![h] = [Blank EXCEPT !.kind = k, !.at = at]]

StartOnOrder(h, k, at, sub) ==
    /\ MayStart(h, k)
    /\ req' = [req EXCEPT ![h] = [Blank EXCEPT !.kind = k, !.at = at, !.sub = sub,
                 !.paid = IF k = "callback" THEN payment.status ELSE "PENDING",
                 !.saw = order]]

At(h, k, at) == req[h].kind = k /\ req[h].at = at

\* On to the next step; copies that no later step reads are dropped.
GoTo(h, at) ==
    req' = [req EXCEPT ![h].at = at,
              ![h].paid = IF at = "fail" THEN @ ELSE "PENDING",
              ![h].saw = IF at = "unlock" THEN "PENDING" ELSE @,
              ![h].due = 0, ![h].got = 0]

End(h) == req' = [req EXCEPT ![h] = Idle]

\* DownloadsService.unlockForOrder: only rows that are still locked.
Unlock(occasion) == files' = IF files = "locked" THEN occasion ELSE files

-----------------------------------------------------------------------------
(* bKash                                                                   *)

\* settle: the payment is found by bKash's paymentID; a copy that is captured
\* is answered as it is.
ReadForCallback(h, success) ==
    /\ payment.ref = "paymentID"
    /\ success => payment.status # "CAPTURED"
    /\ StartOnOrder(h, "callback", IF success THEN "execute" ELSE "fail", "none")
    /\ UNCHANGED <<order, moneyVars, advance, credited>>

\* bKash takes the money at most once, and refuses at will.
executePayment(h) ==
    /\ At(h, "callback", "execute")
    /\ \/ /\ gateway = "open" /\ gateway' = "taken"
          /\ GoTo(h, "capture")
       \/ UNCHANGED gateway /\ GoTo(h, "fail")
    /\ UNCHANGED <<order, payment, submission, income, files, advance, credited>>

\* markFailed judges the copy of the status.
markFailed(h) ==
    /\ At(h, "callback", "fail")
    /\ payment' = IF req[h].paid = "PENDING"
                  THEN [payment EXCEPT !.status = "FAILED"] ELSE payment
    /\ End(h)
    /\ UNCHANGED <<order, gateway, submission, income, files, advance, credited>>

\* Mutant: the payment keeps its status until staff look at it.
capturePostsOnly(h) ==
    /\ At(h, "callback", "capture")
    /\ payment' = [payment EXCEPT !.ref = "trxID"]
    /\ income' = income + Total
    /\ GoTo(h, "forward")
    /\ UNCHANGED <<order, gateway, submission, files, advance, credited>>

capture(h) ==
    /\ At(h, "callback", "capture")
    /\ payment' = [status |-> "CAPTURED", ref |-> "trxID"]
    /\ income' = income + Total
    /\ GoTo(h, "forward")
    /\ UNCHANGED <<order, gateway, submission, files, advance, credited>>

\* advanceOrder, and the same block of verify: the copy decides.
forward(h) ==
    /\ req[h].kind \in {"callback", "verify"} /\ req[h].at = "forward"
    /\ IF AfterCapture # "PENDING" /\ req[h].saw \in {"PENDING", "HOLD"}
       THEN order' = AfterCapture ELSE UNCHANGED order
    /\ GoTo(h, "unlock")
    /\ UNCHANGED <<moneyVars, advance, credited>>

unlockCaptured(h) ==
    /\ At(h, "callback", "unlock")
    /\ Unlock("paid")
    /\ End(h)
    /\ UNCHANGED <<order, payment, gateway, submission, income, advance, credited>>

-----------------------------------------------------------------------------
(* Submissions                                                             *)

submit(s) ==
    /\ submission[s] = "NONE"
    /\ submission' = [submission EXCEPT ![s] = "SUBMITTED"]
    /\ UNCHANGED <<order, payment, gateway, income, files, advance, credited, req>>

ReadForReview(h, k, s) ==
    /\ k \in {"verify", "reject"}
    /\ submission[s] = "SUBMITTED"
    /\ StartOnOrder(h, k, "review", s)
    /\ UNCHANGED <<order, moneyVars, advance, credited>>

reject(h) ==
    /\ At(h, "reject", "review")
    /\ submission' = [submission EXCEPT ![req[h].sub] = "REJECTED"]
    /\ End(h)
    /\ UNCHANGED <<order, payment, gateway, income, files, advance, credited>>

\* The submission is VERIFIED, then the payment is read.
verify(h) ==
    /\ At(h, "verify", "review")
    /\ submission' = [submission EXCEPT ![req[h].sub] = "VERIFIED"]
    /\ req' = [req EXCEPT ![h].at = "capture", ![h].paid = payment.status]
    /\ UNCHANGED <<order, payment, gateway, income, files, advance, credited>>

\* Mutant: what is booked is the price of the order.
verifyCaptureTotal(h) ==
    /\ At(h, "verify", "capture")
    /\ IF req[h].paid = "PENDING"
       THEN /\ payment' = [status |-> "CAPTURED", ref |-> "trxID"]
            /\ income' = income + Total
       ELSE UNCHANGED <<payment, income>>
    /\ GoTo(h, "advance")
    /\ UNCHANGED <<order, gateway, submission, files, advance, credited>>

\* The first verified money captures a pending payment and is booked.
verifyCapture(h) ==
    /\ At(h, "verify", "capture")
    /\ IF req[h].paid = "PENDING"
       THEN /\ payment' = [status |-> "CAPTURED", ref |-> "trxID"]
            /\ income' = income + Amount[req[h].sub]
       ELSE UNCHANGED <<payment, income>>
    /\ GoTo(h, "advance")
    /\ UNCHANGED <<order, gateway, submission, files, advance, credited>>

\* AdvancePaymentService.get and the read of record.
readAdvance(h) ==
    /\ At(h, "verify", "advance")
    /\ req' = [req EXCEPT ![h].at = IF advance.status \in {"PENDING", "PARTIAL"}
                                    THEN "record" ELSE "forward",
                          ![h].due = advance.required, ![h].got = advance.paid]
    /\ UNCHANGED <<order, moneyVars, advance, credited>>

AdvanceStatus(paid, required) ==
    IF paid >= required THEN "PAID" ELSE IF paid > 0 THEN "PARTIAL" ELSE "PENDING"

\* Mutant: the last submission replaces what was paid before.
recordLast(h) ==
    LET paid == Amount[req[h].sub]
        status == AdvanceStatus(paid, req[h].due)
    IN  /\ At(h, "verify", "record")
        /\ advance' = [advance EXCEPT !.paid = paid, !.status = status]
        /\ credited' = credited \cup {req[h].sub}
        /\ GoTo(h, IF status = "PAID" THEN "release" ELSE "forward")
        /\ UNCHANGED <<order, moneyVars>>

\* record writes the sum of its copy and the new money.
record(h) ==
    LET paid == req[h].got + Amount[req[h].sub]
        status == AdvanceStatus(paid, req[h].due)
    IN  /\ At(h, "verify", "record")
        /\ advance' = [advance EXCEPT !.paid = paid, !.status = status]
        /\ credited' = credited \cup {req[h].sub}
        /\ GoTo(h, IF status = "PAID" THEN "release" ELSE "forward")
        /\ UNCHANGED <<order, moneyVars>>

\* Mutant: an advance that is paid opens the files.
unlockOnAdvance(h) ==
    /\ At(h, "verify", "unlock")
    /\ IF Sent(Verified) >= Total \/ advance.status = "PAID"
       THEN Unlock("paid") ELSE UNCHANGED files
    /\ End(h)
    /\ UNCHANGED <<order, payment, gateway, submission, income, advance, credited>>

\* The files are released once the verified money covers the order.
unlockVerified(h) ==
    /\ At(h, "verify", "unlock")
    /\ IF Sent(Verified) >= Total THEN Unlock("paid") ELSE UNCHANGED files
    /\ End(h)
    /\ UNCHANGED <<order, payment, gateway, submission, income, advance, credited>>

-----------------------------------------------------------------------------
(* Advances                                                                *)

\* require starts a new account whatever was paid before.
require(h, amount) ==
    /\ Start(h, "require", "hold")
    /\ advance' = [status |-> "PENDING", required |-> amount, paid |-> 0]
    /\ credited' = {}
    /\ UNCHANGED <<order, moneyVars>>

\* The order is put on hold whatever its status is.
hold(h) ==
    /\ At(h, "require", "hold")
    /\ order' = "HOLD"
    /\ End(h)
    /\ UNCHANGED <<moneyVars, advance, credited>>

waive(h) ==
    /\ advance.status # "NONE"
    /\ Start(h, "waive", "release")
    /\ advance' = [advance EXCEPT !.status = "WAIVED"]
    /\ UNCHANGED <<order, moneyVars, credited>>

\* record and waive read the order again, and confirm it when it is on hold.
AfterRelease(h) == IF req[h].kind = "verify" THEN [req[h] EXCEPT !.at = "forward"] ELSE Idle

readRelease(h) ==
    /\ req[h].kind \in {"verify", "waive"} /\ req[h].at = "release"
    /\ req' = [req EXCEPT ![h] = IF order = "HOLD" THEN [@ EXCEPT !.at = "confirm"]
                                 ELSE AfterRelease(h)]
    /\ UNCHANGED <<order, moneyVars, advance, credited>>

confirm(h) ==
    /\ req[h].kind \in {"verify", "waive"} /\ req[h].at = "confirm"
    /\ order' = "CONFIRMED"
    /\ req' = [req EXCEPT ![h] = AfterRelease(h)]
    /\ UNCHANGED <<moneyVars, advance, credited>>

-----------------------------------------------------------------------------
(* Status changes, the abandoned payment and refunds                       *)

\* updateStatus: a cancelled order's pending payment is cancelled with it, a
\* completed order's files are released.
StatusEffects(status) ==
    /\ payment' = IF status = "CANCELED" /\ payment.status = "PENDING"
                  THEN [payment EXCEPT !.status = "CANCELED"] ELSE payment
    /\ IF status = "COMPLETED" THEN Unlock("delivered") ELSE UNCHANGED files

updateStatus(status) ==
    /\ status # order
    /\ order' = status
    /\ StatusEffects(status)
    /\ UNCHANGED <<gateway, submission, income, advance, credited, req>>

\* restoreCartFromPayment: keyed on the paymentID, never for a captured payment
\* or an order that staff moved on.
ReadForRestore(h) ==
    /\ payment.ref = "paymentID" /\ payment.status # "CAPTURED"
    /\ order \in {"PENDING", "HOLD"}
    /\ Start(h, "restore", "cancel")
    /\ UNCHANGED <<order, moneyVars, advance, credited>>

restoreCart(h) ==
    /\ At(h, "restore", "cancel")
    /\ order' = "CANCELED"
    /\ StatusEffects("CANCELED")
    /\ End(h)
    /\ UNCHANGED <<gateway, submission, income, advance, credited>>

\* The refund is recorded on the payment, whatever its status.
refund ==
    /\ payment' = [payment EXCEPT !.status = "REFUNDED"]
    /\ UNCHANGED <<order, gateway, submission, advance, credited, income, files, req>>

\* The server stops, or the gateway's answer is lost: what was written stays.
stop(h) ==
    /\ req[h] # Idle
    /\ End(h)
    /\ gateway' = IF At(h, "callback", "capture") THEN "unanswered" ELSE gateway
    /\ UNCHANGED <<order, payment, submission, income, files, advance, credited>>

-----------------------------------------------------------------------------
Next ==
    \/ \E s \in Submissions : submit(s)
    \/ \E h \in Requests :
          \/ \E success \in BOOLEAN : ReadForCallback(h, success)
          \/ executePayment(h) \/ markFailed(h) \/ capture(h) \/ forward(h)
          \/ unlockCaptured(h)
          \/ \E k \in {"verify", "reject"}, s \in Submissions : ReadForReview(h, k, s)
          \/ reject(h) \/ verify(h) \/ verifyCapture(h) \/ readAdvance(h)
          \/ record(h) \/ unlockVerified(h)
          \/ \E amount \in Advances : require(h, amount)
          \/ hold(h) \/ waive(h) \/ readRelease(h) \/ confirm(h)
          \/ ReadForRestore(h) \/ restoreCart(h)
          \/ stop(h)
    \/ \E status \in Requested : updateStatus(status)
    \/ refund

Spec == Init /\ [][Next]_vars

-----------------------------------------------------------------------------
InFlight(k) == \E h \in Requests : req[h].kind = k

\* The ledger never shows money that nobody sent: what is booked for an order
\* is at most what bKash took and what staff verified (the bookings of settle
\* and verify).
IncomeWasReceived ==
    income <= (IF gateway = "open" THEN 0 ELSE Total) + Sent(Verified)

\* Money that bKash took and answered for is visible on the payment once its
\* callback is done, whatever staff did to the order meanwhile, and also when the
\* shopper gave the cart back while bKash took the money (settle).
TakenIsVisible ==
    gateway = "taken" /\ ~InFlight("callback") => payment.status \in {"CAPTURED", "REFUNDED"}

\* Files are opened by payment only when the order is paid in full: by the
\* gateway, or by verified submissions that cover its price, never by an
\* advance (the comment on the unlock of verify).
FilesPaidFor ==
    files = "paid" => gateway # "open" \/ Sent(Verified) >= Total

\* The advance shows exactly the submissions recorded against it, and its
\* status follows from what was paid (record, require).
AdvanceExact ==
    /\ advance.paid = Sent(credited)
    /\ advance.status \in {"PENDING", "PARTIAL", "PAID"} =>
          advance.status = AdvanceStatus(advance.paid, advance.required)

\* A payment that was captured can be refunded but never fails again (the
\* comment of markFailed).
CapturedNeverFails ==
    [][payment.status = "CAPTURED" => payment'.status \in {"CAPTURED", "REFUNDED"}]_payment
=============================================================================
