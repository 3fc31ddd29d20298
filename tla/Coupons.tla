-------------------------------- MODULE Coupons --------------------------------
(***************************************************************************)
(* The uses of one coupon: who may spend one, and how cancelling, reviving,*)
(* deleting and restoring an order give it back and take it again.         *)
(*                                                                         *)
(* Sources, under src/apps/backend/src/modules: discounts/coupon-          *)
(* redemption.ts and its callers in orders/checkout.service.ts,            *)
(* orders/admin-order-creation.service.ts, orders/orders.service.ts,       *)
(* net-profit/order-manager/order-manager.service.ts and                   *)
(* pos/pos-sale.service.ts.                                                *)
(*                                                                         *)
(* redeemCoupon holds the row lock of the discount, and every other step   *)
(* holds the row lock of its order, so each transaction is one step.  A    *)
(* restore reads the order before its transaction and trusts what it read. *)
(*                                                                         *)
(* Names that PosSale has as well carry the component here, so that both   *)
(* can be extended together.                                               *)
(***************************************************************************)
EXTENDS Integers, FiniteSets

CONSTANTS
    Orders,         \* orders that apply the coupon
    Accounts,       \* customer accounts
    Phones,         \* phone keys, the last ten digits of a number
    AccountOf,      \* the account of each order, or Unknown for a guest
    PhoneOf,        \* the phone key of each order, or Unknown
    Unknown,        \* neither an account nor a phone
    MaxUsesTotal,   \* the discount's limit over all customers; none is a large one
    MaxUsesPerCustomer,     \* its limit per customer, 0 when there is none
    Staff           \* restore requests that may be in flight at a time

ASSUME CouponsAssumption ==
    /\ IsFiniteSet(Orders)
    /\ Unknown \notin Accounts \cup Phones
    /\ AccountOf \in [Orders -> Accounts \cup {Unknown}]
    /\ PhoneOf \in [Orders -> Phones \cup {Unknown}]
    /\ MaxUsesTotal \in Nat /\ MaxUsesPerCustomer \in Nat

VARIABLES
    redemption,     \* the order's discount_redemptions row: none, live, released
    usedCount,      \* discounts.used_count
    orderStatus,    \* orders.status, as far as coupons look: none, active, CANCELED
    deletedAt,      \* orders.deleted_at is set
    restore,        \* what each restore request has read so far
    givenBack,      \* history: orders whose use was given back at some point
    overtaken       \* history: orders that changed under a restore's feet

couponVars == <<redemption, usedCount, orderStatus, deletedAt, restore, givenBack, overtaken>>

NoRestore == [o |-> Unknown]
RestoreRequest == [o : Orders, canceled : BOOLEAN]

\* The uses that count.
LiveUses == {o \in Orders : redemption[o] = "live"}

\* The orders of the same account or the same phone.
SameCustomer(o) ==
    {x \in Orders : \/ AccountOf[o] # Unknown /\ AccountOf[x] = AccountOf[o]
                    \/ PhoneOf[o] # Unknown /\ PhoneOf[x] = PhoneOf[o]}

\* An order whose status changes while a restore has read but not written it.
Overtakes(o) ==
    overtaken' = IF \E h \in Staff : restore[h] # NoRestore /\ restore[h].o = o
                 THEN overtaken \cup {o} ELSE overtaken

-----------------------------------------------------------------------------
\* The columns' types.
CouponsTypeOK ==
    /\ redemption \in [Orders -> {"none", "live", "released"}]
    /\ usedCount \in Nat
    /\ orderStatus \in [Orders -> {"none", "active", "CANCELED"}]
    /\ deletedAt \in [Orders -> BOOLEAN]
    /\ restore \in [Staff -> RestoreRequest \cup {NoRestore}]
    /\ givenBack \in SUBSET Orders /\ overtaken \in SUBSET Orders

CouponsInit ==
    /\ redemption = [o \in Orders |-> "none"]
    /\ usedCount = 0
    /\ orderStatus = [o \in Orders |-> "none"]
    /\ deletedAt = [o \in Orders |-> FALSE]
    /\ restore = [h \in Staff |-> NoRestore]
    /\ givenBack = {} /\ overtaken = {}

-----------------------------------------------------------------------------
\* Mutant: the limit is read without the use about to be written.
withinTotalOffByOne == usedCount <= MaxUsesTotal

withinTotal == usedCount < MaxUsesTotal

\* Mutant: only the account is looked at, so a guest may come again.
withinCustomerByAccount(o) ==
    MaxUsesPerCustomer > 0 /\ AccountOf[o] # Unknown =>
        Cardinality({x \in LiveUses : AccountOf[x] = AccountOf[o]}) < MaxUsesPerCustomer

withinCustomer(o) ==
    MaxUsesPerCustomer > 0 /\ (AccountOf[o] # Unknown \/ PhoneOf[o] # Unknown) =>
        Cardinality(LiveUses \cap SameCustomer(o)) < MaxUsesPerCustomer

\* An order is created and spends a use, in one transaction.
redeemCoupon(o) ==
    /\ orderStatus[o] = "none"
    /\ withinTotal /\ withinCustomer(o)
    /\ orderStatus' = [orderStatus EXCEPT ![o] = "active"]
    /\ redemption' = [redemption EXCEPT ![o] = "live"]
    /\ usedCount' = usedCount + 1
    /\ UNCHANGED <<deletedAt, restore, givenBack, overtaken>>

\* Mutant: a use is given back as often as it is asked for.
releaseAgain(o) ==
    /\ redemption' = [redemption EXCEPT ![o] = "released"]
    /\ usedCount' = IF usedCount > 0 THEN usedCount - 1 ELSE usedCount
    /\ givenBack' = givenBack \cup {o}

\* Mutant: nobody asks whether there is a use to give back.
releaseUnguarded(o) ==
    /\ redemption' = [redemption EXCEPT ![o] = "released"]
    /\ usedCount' = usedCount - 1
    /\ givenBack' = givenBack \cup {o}

releaseOrderCoupons(o) ==
    \/ /\ redemption[o] = "live"
       /\ redemption' = [redemption EXCEPT ![o] = "released"]
       /\ usedCount' = IF usedCount > 0 THEN usedCount - 1 ELSE usedCount
       /\ givenBack' = givenBack \cup {o}
    \/ redemption[o] # "live" /\ UNCHANGED <<redemption, usedCount, givenBack>>

reclaimOrderCoupons(o) ==
    /\ \/ /\ redemption[o] = "released"
          /\ redemption' = [redemption EXCEPT ![o] = "live"]
          /\ usedCount' = usedCount + 1
       \/ redemption[o] # "released" /\ UNCHANGED <<redemption, usedCount>>
    /\ UNCHANGED givenBack

\* updateStatus to CANCELED, also of an order in the trash.
cancel(o) ==
    /\ orderStatus[o] = "active"
    /\ releaseOrderCoupons(o)
    /\ orderStatus' = [orderStatus EXCEPT ![o] = "CANCELED"]
    /\ Overtakes(o)
    /\ UNCHANGED <<deletedAt, restore>>

\* Mutant: reviving an order in the trash takes its use as well.
reviveDeleted(o) ==
    /\ orderStatus[o] = "CANCELED"
    /\ reclaimOrderCoupons(o)
    /\ orderStatus' = [orderStatus EXCEPT ![o] = "active"]
    /\ Overtakes(o)
    /\ UNCHANGED <<deletedAt, restore>>

\* updateStatus away from CANCELED.
revive(o) ==
    /\ orderStatus[o] = "CANCELED"
    /\ IF deletedAt[o] THEN UNCHANGED <<redemption, usedCount, givenBack>>
                     ELSE reclaimOrderCoupons(o)
    /\ orderStatus' = [orderStatus EXCEPT ![o] = "active"]
    /\ Overtakes(o)
    /\ UNCHANGED <<deletedAt, restore>>

\* Bulk delete in the Order Manager, and deleteSale at the till.
delete(o) ==
    /\ orderStatus[o] # "none"
    /\ deletedAt' = [deletedAt EXCEPT ![o] = TRUE]
    /\ releaseOrderCoupons(o)
    /\ UNCHANGED <<orderStatus, restore, overtaken>>

\* restore and restoreSale: what the order looked like is read first ...
ReadOrder(h, o) ==
    /\ restore[h] = NoRestore /\ deletedAt[o]
    /\ restore' = [restore EXCEPT ![h] = [o |-> o, canceled |-> orderStatus[o] = "CANCELED"]]
    /\ UNCHANGED <<redemption, usedCount, orderStatus, deletedAt, givenBack, overtaken>>

\* ... and decides in the transaction whether the use counts again.
restoreOrder(h) ==
    /\ restore[h] # NoRestore
    /\ LET o == restore[h].o IN
          /\ deletedAt' = [deletedAt EXCEPT ![o] = FALSE]
          /\ IF restore[h].canceled THEN UNCHANGED <<redemption, usedCount, givenBack>>
                                    ELSE reclaimOrderCoupons(o)
    /\ restore' = [restore EXCEPT ![h] = NoRestore]
    /\ UNCHANGED <<orderStatus, overtaken>>

\* A sale that its deletion undid is restored under a claim of its row.
restoreUndoneSale(o) ==
    /\ deletedAt[o] /\ orderStatus[o] = "active"
    /\ deletedAt' = [deletedAt EXCEPT ![o] = FALSE]
    /\ reclaimOrderCoupons(o)
    /\ UNCHANGED <<orderStatus, restore, overtaken>>

CouponsNext ==
    \/ \E o \in Orders : \/ redeemCoupon(o) \/ cancel(o) \/ revive(o)
                         \/ delete(o) \/ restoreUndoneSale(o)
    \/ \E h \in Staff, o \in Orders : ReadOrder(h, o)
    \/ \E h \in Staff : restoreOrder(h)

CouponsSpec == CouponsInit /\ [][CouponsNext]_couponVars

-----------------------------------------------------------------------------
\* The counter shown to the staff is the number of uses that count.
UsesCounted == usedCount = Cardinality(LiveUses)

\* Uses that were never given back stay within the limit: only reviving or
\* restoring an order, which takes its use back unchecked, can exceed it.
NeverGivenBack == LiveUses \ givenBack
TotalKept == Cardinality(NeverGivenBack) <= MaxUsesTotal

\* The same for every customer, known by the account or by the phone.
CustomerKept ==
    MaxUsesPerCustomer > 0 =>
        /\ \A a \in Accounts :
              Cardinality({o \in NeverGivenBack : AccountOf[o] = a}) <= MaxUsesPerCustomer
        /\ \A p \in Phones :
              Cardinality({o \in NeverGivenBack : PhoneOf[o] = p}) <= MaxUsesPerCustomer

\* An order in the books: neither cancelled nor in the trash.
InBooks(o) == orderStatus[o] = "active" /\ ~deletedAt[o]

\* An order's use counts exactly while the order is in the books, but for the
\* orders that were cancelled or revived between the read and the transaction
\* of a restore (the comments of redeemCoupon and of the Order Manager's restore).
CountsUnlessOvertaken ==
    \A o \in Orders \ overtaken : redemption[o] = "live" <=> InBooks(o)
=============================================================================
