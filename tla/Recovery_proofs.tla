---------------------------- MODULE Recovery_proofs ----------------------------
(***************************************************************************)
(* Proofs about Recovery for any number of rows, templates, orders, edits  *)
(* and requests, whatever overlaps and wherever requests stop.  They rest  *)
(* on what a request may still count on of the rows it has read.           *)
(***************************************************************************)
EXTENDS Recovery, FiniteSetTheorems, TLAPS

RowRecord == [state : {"unused", "kept", "gone"}, cart : BOOLEAN,
              recovered : BOOLEAN, canceled : BOOLEAN, deleted : BOOLEAN,
              snap : 0..MaxEdits, order : 0..MaxOrders]
Request == [at : {"idle", "read", "update", "create", "enqueue", "place",
                  "find", "mark", "skip"},
            snap : 0..MaxEdits,
            rows : SUBSET Rows, order : 0..MaxOrders, emits : BOOLEAN,
            shut : SUBSET Rows]

\* What the two unique keys and the columns allow.
OneAttached == \A r, s \in Attached : r = s

HistoryTyped == begun \in 0..MaxRequests /\ loose \subseteq Rows /\ slips \in [Rows -> Nat]

Typed ==
    /\ StepsTyped
    /\ content \in 0..MaxEdits /\ edits \in 0..MaxEdits
    /\ row \in [Rows -> RowRecord]
    /\ order \in [Orders -> [state : {"none", "live", "canceled"}, from : SUBSET Rows]]
    /\ req \in [Handlers -> Request]
    /\ OneAttached
    /\ HistoryTyped

-----------------------------------------------------------------------------
(* What a request may count on                                             *)

\* A request that emits works on one row.
Held ==
    \A h \in Handlers :
        /\ req[h].emits => /\ req[h].at \in {"place", "mark", "skip"}
                           /\ \A r, s \in req[h].rows : r = s
        /\ req[h].at = "place" => req[h].emits

\* Only rows that were written are held or known, or are the origin of an order.
RowsKnown ==
    /\ \A h \in Handlers : \A r \in req[h].rows \cup req[h].shut : row[r].state # "unused"
    /\ \A n \in Orders : \A r \in order[n].from : row[r].state # "unused"

\* A row that was closed when a visit began is closed, and the visit does not
\* write it.
VisitsLate ==
    \A h \in Handlers : \A r \in req[h].shut :
        Kept(r) => Closed(r) /\ ~(req[h].at = "update" /\ r \in req[h].rows)

LiveFrom(r) == {n \in OrdersIn({"live"}) : r \in order[n].from}

\* The live orders of a row that it is marked with, or is about to be.
Accounted(r) ==
    {n \in LiveFrom(r) :
        \/ row[r].recovered /\ row[r].order = n
        \/ \E h \in Handlers : /\ req[h].at = "mark" /\ req[h].emits
                               /\ r \in req[h].rows /\ req[h].order = n}

\* A row has at most one live order more than slips; none more while it is in the
\* list with no live order that it is marked with.
Counts(r) ==
    /\ Cardinality(LiveFrom(r)) <= slips[r] + 1
    /\ Kept(r) /\ Accounted(r) = {} => Cardinality(LiveFrom(r)) <= slips[r]

Understood == /\ Held /\ RowsKnown /\ VisitsLate /\ ClosedStepsStopped
              /\ \A r \in Rows : Counts(r)

IInv == Typed /\ Understood

-----------------------------------------------------------------------------
(* What each step of a request writes                                      *)

LEMMA IdleTyped ==
    /\ Idle \in Request
    /\ Idle.at = "idle" /\ Idle.rows = {} /\ ~Idle.emits /\ Idle.order = 0 /\ Idle.shut = {}
BY RecoveryAssumption DEF Idle, Request

LEMMA ReqWritten ==
    ASSUME Typed, NEW h \in Handlers, NEW q \in Request, req' = [req EXCEPT ![h] = q]
    PROVE  /\ req' \in [Handlers -> Request] /\ req'[h] = q
           /\ \A g \in Handlers \ {h} : req'[g] = req[g]
BY DEF Typed

\* The requests that start from nothing.
LEMMA IdleFields ==
    /\ \A r \in Rows :
         LET p == [Idle EXCEPT !.at = "enqueue", !.rows = {r}]
         IN  /\ p \in Request /\ p.at = "enqueue" /\ p.rows = {r} /\ ~p.emits /\ p.shut = {}
    /\ \A n \in 0..MaxOrders :
         LET p == [Idle EXCEPT !.at = "find", !.order = n]
         IN  /\ p \in Request /\ p.at = "find" /\ p.rows = {} /\ ~p.emits /\ p.order = n
             /\ p.shut = {}
<1>1. Idle \in Request /\ ~Idle.emits /\ Idle.rows = {} /\ Idle.shut = {}
  BY IdleTyped
<1>2. ASSUME NEW r \in Rows
      PROVE  LET p == [Idle EXCEPT !.at = "enqueue", !.rows = {r}]
             IN  /\ p \in Request /\ p.at = "enqueue" /\ p.rows = {r} /\ ~p.emits
                 /\ p.shut = {}
  BY <1>1 DEF Request
<1>3. ASSUME NEW n \in 0..MaxOrders
      PROVE  LET p == [Idle EXCEPT !.at = "find", !.order = n]
             IN  /\ p \in Request /\ p.at = "find" /\ p.rows = {} /\ ~p.emits /\ p.order = n
                 /\ p.shut = {}
  BY <1>1 DEF Request
<1> QED
  BY <1>2, <1>3

LEMMA NewRows ==
    /\ Unused \in RowRecord
    /\ LET y == [Unused EXCEPT !.state = "gone"]
       IN  y \in RowRecord /\ y.state = "gone"
    /\ \A v \in 0..MaxEdits :
       LET y == [Unused EXCEPT !.state = "kept", !.cart = TRUE, !.snap = v]
       IN  /\ y \in RowRecord /\ y.state = "kept" /\ y.cart /\ y.snap = v
           /\ ~y.recovered /\ ~y.canceled /\ ~y.deleted
<1>1. Unused \in RowRecord
  BY RecoveryAssumption DEF Unused, RowRecord
<1>2. ~Unused.recovered /\ ~Unused.canceled /\ ~Unused.deleted
  BY DEF Unused
<1>3. LET y == [Unused EXCEPT !.state = "gone"]
      IN  y \in RowRecord /\ y.state = "gone"
  BY <1>1 DEF RowRecord
<1>4. ASSUME NEW v \in 0..MaxEdits
      PROVE  LET y == [Unused EXCEPT !.state = "kept", !.cart = TRUE, !.snap = v]
             IN  /\ y \in RowRecord /\ y.state = "kept" /\ y.cart /\ y.snap = v
                 /\ ~y.recovered /\ ~y.canceled /\ ~y.deleted
  BY <1>1, <1>2 DEF RowRecord
<1> QED
  BY <1>1, <1>3, <1>4


-----------------------------------------------------------------------------
(* Types                                                                   *)

\* A step that gives no row a cart, changes none or one request, and keeps the
\* types of what it writes.
LEMMA StillTyped ==
    ASSUME Typed, StepsTyped', content' \in 0..MaxEdits, edits' \in 0..MaxEdits,
           row' \in [Rows -> RowRecord],
           \A r \in Rows : r \in Attached' => r \in Attached,
           order' \in [Orders -> [state : {"none", "live", "canceled"}, from : SUBSET Rows]],
           req' \in [Handlers -> Request], HistoryTyped'
    PROVE  Typed'
<1>1. OneAttached'
  BY DEF Typed, OneAttached, Attached
<1> QED
  BY <1>1 DEF Typed

\* The columns that say what became of a cart stay; the cart may be given up.
Same(r) ==
    /\ row'[r].state = row[r].state /\ row'[r].recovered = row[r].recovered
    /\ row'[r].canceled = row[r].canceled /\ row'[r].deleted = row[r].deleted
    /\ row'[r].order = row[r].order
    /\ row'[r].cart => row[r].cart

\* A capture's read takes the open row attached to the cart, or none.
LEMMA CaptureReadDoes ==
    ASSUME Typed, NEW h \in Handlers, captureRead(h)
    PROVE  /\ req[h].at = "read"
           /\ UNCHANGED <<step, content, edits, order, history>>
           /\ row' \in [Rows -> RowRecord] /\ \A r \in Rows : Same(r) /\ row'[r].snap = row[r].snap
           /\ \E q \in Request :
                /\ req' = [req EXCEPT ![h] = q] /\ (q.emits => req[h].emits)
                /\ q.shut \subseteq req[h].shut
                /\ \/ q.at \in {"idle", "create"} /\ q.rows = {}
                   \/ q.at = "update" /\ q.rows = {r \in Attached : ~Closed(r)}
<1>1. /\ req[h].at = "read"
      /\ UNCHANGED <<step, content, edits, order, history>>
  BY DEF captureRead
<1>2. req[h] \in Request
  BY DEF Typed
<1> DEFINE open == {r \in Attached : ~Closed(r)}
           to == IF open = {} THEN "create" ELSE "update"
           q == [req[h] EXCEPT !.snap = content, !.rows = open, !.at = to]
<1>3. open \in SUBSET Rows /\ to \in {"create", "update"} /\ content \in 0..MaxEdits
  BY DEF Attached, Typed
<1>4. q \in Request /\ q.at = to /\ q.rows = open /\ q.emits = req[h].emits
      /\ q.shut = req[h].shut
  <2> HIDE DEF open, to
  <2> QED
    BY <1>2, <1>3 DEF Request
<1>5. CASE content = 0
  <2>1. row' = row /\ req' = [req EXCEPT ![h] = Idle]
    BY <1>5 DEF captureRead, finish
  <2> QED
    BY <1>1, <2>1, IdleTyped DEF Typed, Same
<1>6. CASE content # 0
  <2>1. /\ row' = [r \in Rows |-> IF r \in Attached /\ Closed(r)
                                 THEN [row[r] EXCEPT !.cart = FALSE] ELSE row[r]]
        /\ req' = [req EXCEPT ![h].snap = content, ![h].rows = open, ![h].at = to]
    BY <1>6 DEF captureRead
  <2>2. req' = [req EXCEPT ![h] = q]
    BY <2>1 DEF Typed
  <2>3. ASSUME NEW r \in Rows
        PROVE  row'[r] \in RowRecord /\ Same(r) /\ row'[r].snap = row[r].snap
    <3>1. row[r] \in RowRecord
      BY DEF Typed
    <3> QED
      BY <2>1, <3>1 DEF Same, RowRecord
  <2>4. row' \in [Rows -> RowRecord]
    BY <2>1, <2>3
  <2>5. \/ q.at \in {"idle", "create"} /\ q.rows = {}
        \/ q.at = "update" /\ q.rows = open
    BY <1>4
  <2> HIDE DEF q
  <2> QED
    BY <1>1, <1>4, <2>2, <2>3, <2>4, <2>5
<1> QED
  BY <1>5, <1>6

\* A capture's update writes the version into the row it read, and ends.
LEMMA CaptureUpdateDoes ==
    ASSUME Typed, NEW h \in Handlers, captureUpdate(h)
    PROVE  /\ req[h].at = "update" /\ req' = [req EXCEPT ![h] = Idle]
           /\ UNCHANGED <<step, content, edits, order, history>>
           /\ row' \in [Rows -> RowRecord] /\ \A r \in Rows : Same(r)
           /\ \A r \in Rows \ req[h].rows : row'[r] = row[r]
           /\ \A r \in Rows : ~Kept(r) => row'[r] = row[r]
<1>1. /\ req[h].at = "update" /\ req' = [req EXCEPT ![h] = Idle]
      /\ UNCHANGED <<step, content, edits, order, history>>
      /\ row' = [r \in Rows |-> IF r \in req[h].rows /\ Kept(r)
                                THEN [row[r] EXCEPT !.snap = req[h].snap] ELSE row[r]]
  BY DEF captureUpdate, finish
<1>2. req[h].snap \in 0..MaxEdits
  BY DEF Typed, Request
<1>3. ASSUME NEW r \in Rows PROVE row'[r] \in RowRecord /\ Same(r)
  <2>1. row[r] \in RowRecord
    BY DEF Typed
  <2> QED
    BY <1>1, <1>2, <2>1 DEF Same, RowRecord
<1> QED
  BY <1>1, <1>3

\* A new row is written for the cart, or the unique key refuses a second one.
LEMMA CaptureCreateDoes ==
    ASSUME Typed, NEW h \in Handlers, captureCreate(h)
    PROVE  /\ req[h].at = "create" /\ UNCHANGED <<step, content, edits, order, history>>
           /\ \/ row' = row /\ req' = [req EXCEPT ![h] = Idle]
              \/ /\ Attached = {}
                 /\ \E r \in Rows, q \in Request :
                      /\ row[r].state = "unused" /\ row'[r] \in RowRecord
                      /\ row' = [row EXCEPT ![r] = row'[r]]
                      /\ row'[r].state = "kept" /\ ~Closed(r)' /\ ~row'[r].deleted
                      /\ req' = [req EXCEPT ![h] = q]
                      /\ q.at = "enqueue" /\ q.rows = {r} /\ ~q.emits /\ q.shut = {}
<1>1. req[h].at = "create" /\ UNCHANGED <<step, content, edits, order, history>>
  BY DEF captureCreate
<1>2. CASE row' = row /\ req' = [req EXCEPT ![h] = Idle]
  BY <1>1, <1>2
<1>3. CASE ~(row' = row /\ req' = [req EXCEPT ![h] = Idle])
  <2>1. Attached = {}
    BY <1>3 DEF captureCreate, finish
  <2>2. PICK r \in Rows :
          /\ row[r].state = "unused"
          /\ row' = [row EXCEPT ![r] =
               [Unused EXCEPT !.state = "kept", !.cart = TRUE, !.snap = req[h].snap]]
          /\ req' = [req EXCEPT ![h] = [Idle EXCEPT !.at = "enqueue", !.rows = {r}]]
    BY <1>3 DEF captureCreate, finish
  <2> DEFINE x == [Unused EXCEPT !.state = "kept", !.cart = TRUE, !.snap = req[h].snap]
             q == [Idle EXCEPT !.at = "enqueue", !.rows = {r}]
  <2>3. req[h].snap \in 0..MaxEdits
    BY DEF Typed, Request
  <2>4. /\ x \in RowRecord /\ x.state = "kept"
        /\ ~x.recovered /\ ~x.canceled /\ ~x.deleted
    BY <2>3, NewRows
  <2>5. q \in Request /\ q.at = "enqueue" /\ q.rows = {r} /\ ~q.emits /\ q.shut = {}
    BY IdleFields
  <2>6. row' = [row EXCEPT ![r] = x] /\ req' = [req EXCEPT ![h] = q]
    BY <2>2
  <2> HIDE DEF x, q
  <2>7. row'[r] = x
    BY <2>6 DEF Typed
  <2>8. ~Closed(r)'
    BY <2>4, <2>7 DEF Closed
  <2> QED
    BY <1>1, <2>1, <2>2, <2>4, <2>5, <2>6, <2>7, <2>8
<1> QED
  BY <1>2, <1>3

\* A new order is one that was not there, and the only one that changes.
LEMMA NewOrderDoes ==
    ASSUME Typed, NEW n \in Orders, NEW S \in SUBSET Rows, NewOrder(n, S)
    PROVE  /\ order[n].state = "none" /\ order'[n].state = "live" /\ order'[n].from = S
           /\ \A m \in Orders \ {n} : order'[m] = order[m]
           /\ order' \in [Orders -> [state : {"none", "live", "canceled"}, from : SUBSET Rows]]
BY DEF NewOrder, OrdersIn, Typed

LEMMA CheckoutDoes ==
    ASSUME Typed, NEW h \in Handlers, checkout(h)
    PROVE  /\ req[h].at = "idle" /\ content' = 0 /\ UNCHANGED <<step, edits, row, history>>
           /\ \E n \in Orders, q \in Request :
                /\ NewOrder(n, {}) /\ req' = [req EXCEPT ![h] = q]
                /\ q.at = "find" /\ q.rows = req[h].rows /\ q.emits = req[h].emits
                /\ q.shut = req[h].shut
<1>1. /\ req[h].at = "idle" /\ content' = 0 /\ UNCHANGED <<step, edits, row, history>>
  BY DEF checkout, begin
<1>2. PICK n \in Orders : /\ NewOrder(n, {})
                          /\ req' = [req EXCEPT ![h].at = "find", ![h].order = n]
  BY DEF checkout
<1> DEFINE q == [req[h] EXCEPT !.at = "find", !.order = n]
<1>3. req[h] \in Request /\ n \in 0..MaxOrders
  BY DEF Typed, Orders
<1>4. q \in Request /\ q.at = "find" /\ q.rows = req[h].rows /\ q.emits = req[h].emits
                /\ q.shut = req[h].shut
  BY <1>3 DEF Request
<1>5. req' = [req EXCEPT ![h] = q]
  BY <1>2 DEF Typed
<1> HIDE DEF q
<1> QED
  BY <1>1, <1>2, <1>4, <1>5

\* The listener takes the shopper's open rows, or none.
LEMMA OrderFindDoes ==
    ASSUME Typed, NEW h \in Handlers, orderFind(h)
    PROVE  /\ req[h].at = "find" /\ UNCHANGED <<step, content, edits, row, order, history>>
           /\ \E q \in Request :
                /\ req' = [req EXCEPT ![h] = q] /\ (q.emits => req[h].emits)
                /\ q.shut \subseteq req[h].shut
                /\ \/ q.at = "idle" /\ q.rows = {}
                   \/ q.at = "mark" /\ q.rows = {r \in Rows : Kept(r) /\ ~Closed(r)}
<1> DEFINE found == {r \in Rows : Kept(r) /\ ~Closed(r)}
           q == [req[h] EXCEPT !.at = "mark", !.rows = found]
<1>1. /\ req[h].at = "find" /\ UNCHANGED <<step, content, edits, row, order, history>>
      /\ \/ req' = [req EXCEPT ![h] = Idle]
         \/ req' = [req EXCEPT ![h].at = "mark", ![h].rows = found]
  BY DEF orderFind, finish, tableVars
<1>2. found \in SUBSET Rows /\ req[h] \in Request
  BY DEF Typed
<1> HIDE DEF found
<1>3. q \in Request /\ q.at = "mark" /\ q.rows = found /\ q.emits = req[h].emits
      /\ q.shut = req[h].shut
  BY <1>2 DEF Request
<1>4. req' = [req EXCEPT ![h].at = "mark", ![h].rows = found] => req' = [req EXCEPT ![h] = q]
  BY DEF Typed
<1> HIDE DEF q
<1>5. CASE req' = [req EXCEPT ![h] = Idle]
  BY <1>1, <1>5, IdleTyped DEF found
<1>6. CASE req' = [req EXCEPT ![h] = q]
  BY <1>1, <1>3, <1>6 DEF found
<1> QED
  BY <1>1, <1>4, <1>5, <1>6

LEMMA RecreatePlaceDoes ==
    ASSUME Typed, NEW h \in Handlers, recreatePlace(h)
    PROVE  /\ req[h].at = "place" /\ UNCHANGED <<step, content, edits, row, loose>>
           /\ \E n \in Orders, q \in Request :
                /\ NewOrder(n, req[h].rows) /\ req' = [req EXCEPT ![h] = q]
                /\ q.at = "mark" /\ q.rows = req[h].rows /\ q.emits = req[h].emits
                /\ q.order = n /\ q.shut = req[h].shut
<1>1. /\ req[h].at = "place" /\ UNCHANGED <<step, content, edits, row, loose>>
  BY DEF recreatePlace
<1>2. PICK n \in Orders : /\ NewOrder(n, req[h].rows)
                          /\ req' = [req EXCEPT ![h].at = "mark", ![h].order = n]
  BY DEF recreatePlace
<1> DEFINE q == [req[h] EXCEPT !.at = "mark", !.order = n]
<1>3. req[h] \in Request /\ n \in 0..MaxOrders
  BY DEF Typed, Orders
<1>4. /\ q \in Request /\ q.at = "mark" /\ q.rows = req[h].rows
      /\ q.emits = req[h].emits /\ q.order = n /\ q.shut = req[h].shut
  BY <1>3 DEF Request
<1>5. req' = [req EXCEPT ![h] = q]
  BY <1>2 DEF Typed
<1> HIDE DEF q
<1> QED
  BY <1>1, <1>2, <1>4, <1>5

\* Marking writes the order into the rows held, and ends only when a recreated
\* order's row is gone.
LEMMA OrderMarkDoes ==
    ASSUME Typed, NEW h \in Handlers, orderMark(h)
    PROVE  /\ req[h].at = "mark" /\ UNCHANGED <<step, content, edits, order, loose>>
           /\ Slipped({r \in req[h].rows : Kept(r) /\ row[r].recovered
                                          /\ row[r].order # req[h].order})
           /\ row' \in [Rows -> RowRecord]
           /\ \A r \in Rows :
                /\ row'[r].state = row[r].state /\ row'[r].cart = row[r].cart
                /\ row'[r].snap = row[r].snap
                /\ row'[r].canceled = row[r].canceled /\ row'[r].deleted = row[r].deleted
                /\ ~(r \in req[h].rows /\ Kept(r)) => row'[r] = row[r]
                /\ r \in req[h].rows /\ Kept(r) =>
                     row'[r].recovered /\ row'[r].order = req[h].order
           /\ \/ /\ req' = [req EXCEPT ![h] = Idle] /\ req[h].emits
                 /\ \E r \in req[h].rows : ~Kept(r)
              \/ \E q \in Request :
                   /\ req' = [req EXCEPT ![h] = q] /\ q.at = "skip"
                   /\ q.rows = req[h].rows /\ q.emits = req[h].emits
                   /\ q.shut = req[h].shut
<1> DEFINE marked == {r \in req[h].rows : Kept(r)}
<1>1. /\ req[h].at = "mark" /\ UNCHANGED <<step, content, edits, order, loose>>
      /\ row' = [r \in Rows |-> IF r \in marked
                                THEN [row[r] EXCEPT !.recovered = TRUE, !.order = req[h].order]
                                ELSE row[r]]
      /\ Slipped({r \in marked : row[r].recovered /\ row[r].order # req[h].order})
      /\ \/ req' = [req EXCEPT ![h] = Idle] /\ req[h].emits /\ marked # req[h].rows
         \/ req' = [req EXCEPT ![h].at = "skip"]
  BY DEF orderMark, finish
<1>2. req[h] \in Request /\ req[h].order \in 0..MaxOrders
  BY DEF Typed, Request
<1>3. ASSUME NEW r \in Rows
      PROVE  /\ row'[r] \in RowRecord
             /\ row'[r].state = row[r].state /\ row'[r].cart = row[r].cart
             /\ row'[r].snap = row[r].snap
             /\ row'[r].canceled = row[r].canceled /\ row'[r].deleted = row[r].deleted
             /\ ~(r \in req[h].rows /\ Kept(r)) => row'[r] = row[r]
             /\ r \in req[h].rows /\ Kept(r) =>
                  row'[r].recovered /\ row'[r].order = req[h].order
  <2>1. row[r] \in RowRecord
    BY DEF Typed
  <2>2. CASE r \in req[h].rows /\ Kept(r)
    <3>1. row'[r] = [row[r] EXCEPT !.recovered = TRUE, !.order = req[h].order]
      BY <1>1, <2>2
    <3> QED
      BY <1>2, <2>1, <2>2, <3>1 DEF RowRecord
  <2>3. CASE ~(r \in req[h].rows /\ Kept(r))
    BY <1>1, <2>1, <2>3
  <2> QED
    BY <2>2, <2>3
<1> DEFINE q == [req[h] EXCEPT !.at = "skip"]
<1>4. /\ q \in Request /\ q.at = "skip" /\ q.rows = req[h].rows /\ q.emits = req[h].emits
      /\ q.shut = req[h].shut
  BY <1>2 DEF Request
<1>5. req' = [req EXCEPT ![h].at = "skip"] => req' = [req EXCEPT ![h] = q]
  BY DEF Typed
<1>6. row' \in [Rows -> RowRecord]
  BY <1>1, <1>3
<1>7. {r \in marked : row[r].recovered /\ row[r].order # req[h].order}
      = {r \in req[h].rows : Kept(r) /\ row[r].recovered /\ row[r].order # req[h].order}
  OBVIOUS
<1>8. marked # req[h].rows => \E r \in req[h].rows : ~Kept(r)
  OBVIOUS
<1> HIDE DEF q
<1> QED
  BY <1>1, <1>3, <1>4, <1>5, <1>6, <1>7, <1>8


\* One row's messages are skipped; the request goes on with the others.
LEMMA SkipRemainingDoes ==
    ASSUME Typed, NEW h \in Handlers, skipRemaining(h)
    PROVE  /\ req[h].at = "skip" /\ UNCHANGED <<content, edits, row, order, slips>>
           /\ \E r \in req[h].rows, q \in Request :
                /\ step' = Skipped(r) /\ loose' = loose \ {r}
                /\ req' = [req EXCEPT ![h] = q] /\ q.shut \subseteq req[h].shut
                /\ \/ q.at \in {"idle", "find"} /\ ~q.emits /\ q.rows = {} /\ req[h].rows = {r}
                   \/ q.at = "skip" /\ q.rows = req[h].rows \ {r} /\ q.emits = req[h].emits
<1>1. req[h].at = "skip" /\ UNCHANGED <<content, edits, row, order, slips>>
  BY DEF skipRemaining, tableVars
<1>2. PICK r \in req[h].rows :
        /\ step' = Skipped(r) /\ loose' = loose \ {r}
        /\ \/ req' = [req EXCEPT ![h].rows = @ \ {r}]
           \/ /\ req[h].rows = {r}
              /\ \/ req' = [req EXCEPT ![h] = [Idle EXCEPT !.at = "find", !.order = req[h].order]]
                 \/ req' = [req EXCEPT ![h] = Idle]
  BY DEF skipRemaining, finish
<1>3. req[h] \in Request /\ req[h].order \in 0..MaxOrders /\ r \in Rows
      /\ req[h].rows \ {r} \in SUBSET Rows
  BY DEF Typed, Request
<1>4. CASE req' = [req EXCEPT ![h].rows = @ \ {r}]
  <2> DEFINE q == [req[h] EXCEPT !.rows = req[h].rows \ {r}]
  <2>1. /\ q \in Request /\ q.at = req[h].at /\ q.rows = req[h].rows \ {r}
        /\ q.emits = req[h].emits /\ q.shut = req[h].shut
    BY <1>3 DEF Request
  <2>2. req' = [req EXCEPT ![h] = q]
    BY <1>4 DEF Typed
  <2> HIDE DEF q
  <2> QED
    BY <1>1, <1>2, <2>1, <2>2
<1>5. CASE /\ req[h].rows = {r}
           /\ req' = [req EXCEPT ![h] = [Idle EXCEPT !.at = "find", !.order = req[h].order]]
  <2> DEFINE q == [Idle EXCEPT !.at = "find", !.order = req[h].order]
  <2>1. q \in Request /\ q.at = "find" /\ q.rows = {} /\ ~q.emits /\ q.shut = {}
    BY <1>3, IdleFields
  <2>2. req' = [req EXCEPT ![h] = q]
    BY <1>5
  <2> HIDE DEF q
  <2> QED
    BY <1>1, <1>2, <1>5, <2>1, <2>2
<1>6. CASE req[h].rows = {r} /\ req' = [req EXCEPT ![h] = Idle]
  BY <1>1, <1>2, <1>6, IdleTyped
<1> QED
  BY <1>2, <1>4, <1>5, <1>6


\* The shopper's own activity is read first.
LEMMA VisitDoes ==
    ASSUME Typed, NEW h \in Handlers, editCart(h) \/ visitCheckout(h)
    PROVE  /\ req[h].at = "idle" /\ UNCHANGED <<step, row, order, history>>
           /\ content' \in 0..MaxEdits /\ edits' \in 0..MaxEdits
           /\ \E q \in Request :
                /\ req' = [req EXCEPT ![h] = q]
                /\ q.at = "read" /\ q.rows = req[h].rows /\ q.emits = req[h].emits
                /\ q.shut = {r \in Rows : Kept(r) /\ Closed(r)}
<1> DEFINE shut == {r \in Rows : Kept(r) /\ Closed(r)}
<1>1. /\ req[h].at = "idle" /\ UNCHANGED <<step, row, order, history>>
      /\ req' = [req EXCEPT ![h].at = "read", ![h].shut = shut]
  BY DEF editCart, visitCheckout, begin, visit, tableVars
<1>2. content' \in 0..MaxEdits /\ edits' \in 0..MaxEdits
  BY RecoveryAssumption DEF editCart, visitCheckout, Typed, tableVars
<1>3. shut \in SUBSET Rows /\ req[h] \in Request
  BY DEF Typed
<1> DEFINE q == [req[h] EXCEPT !.at = "read", !.shut = shut]
<1>4. /\ q \in Request /\ q.at = "read" /\ q.rows = req[h].rows /\ q.emits = req[h].emits
      /\ q.shut = shut
  <2> HIDE DEF shut
  <2> QED
    BY <1>3 DEF Request
<1>5. req' = [req EXCEPT ![h] = q]
  BY <1>1 DEF Typed
<1> HIDE DEF q
<1> QED
  BY <1>1, <1>2, <1>4, <1>5


LEMMA RecreateDoes ==
    ASSUME Typed, NEW h \in Handlers, NEW r \in Rows, recreate(h, r)
    PROVE  /\ req[h].at = "idle" /\ UNCHANGED <<step, content, edits, row, order, history>>
           /\ Kept(r) /\ ~row[r].recovered
           /\ \E q \in Request :
                /\ req' = [req EXCEPT ![h] = q]
                /\ q.at = "place" /\ q.rows = {r} /\ q.emits /\ q.shut = req[h].shut
<1>1. /\ req[h].at = "idle" /\ UNCHANGED <<step, content, edits, row, order, history>>
      /\ Kept(r) /\ ~row[r].recovered
      /\ req' = [req EXCEPT ![h].at = "place", ![h].rows = {r}, ![h].emits = TRUE]
  BY DEF recreate, begin, tableVars
<1> DEFINE q == [req[h] EXCEPT !.at = "place", !.rows = {r}, !.emits = TRUE]
<1>2. q \in Request /\ q.at = "place" /\ q.rows = {r} /\ q.emits /\ q.shut = req[h].shut
  BY DEF Typed, Request
<1>3. req' = [req EXCEPT ![h] = q]
  BY <1>1 DEF Typed
<1> HIDE DEF q
<1> QED
  BY <1>1, <1>2, <1>3

\* Staff close or bin one row, and go on to skip its messages.
LEMMA StaffCloseDoes ==
    ASSUME Typed, NEW h \in Handlers, NEW r \in Rows, cancel(h, r) \/ softDelete(h, r)
    PROVE  /\ req[h].at = "idle" /\ UNCHANGED <<step, content, edits, order, history>>
           /\ Kept(r)
           /\ row' \in [Rows -> RowRecord]
           /\ \A s \in Rows \ {r} : row'[s] = row[s]
           /\ row'[r].state = row[r].state /\ row'[r].cart = row[r].cart
           /\ row'[r].snap = row[r].snap
           /\ row'[r].recovered = row[r].recovered /\ row'[r].order = row[r].order
           /\ (row[r].canceled => row'[r].canceled) /\ (row[r].deleted => row'[r].deleted)
           /\ \E q \in Request :
                /\ req' = [req EXCEPT ![h] = q]
                /\ q.at = "skip" /\ q.rows = {r} /\ q.emits = req[h].emits
                /\ q.shut = req[h].shut
<1>1. /\ req[h].at = "idle" /\ UNCHANGED <<step, content, edits, order, history>>
      /\ Kept(r)
      /\ req' = [req EXCEPT ![h].at = "skip", ![h].rows = {r}]
  BY DEF cancel, softDelete, begin
<1> DEFINE q == [req[h] EXCEPT !.at = "skip", !.rows = {r}]
<1>2. q \in Request /\ q.at = "skip" /\ q.rows = {r} /\ q.emits = req[h].emits
                /\ q.shut = req[h].shut
  BY DEF Typed, Request
<1>3. req' = [req EXCEPT ![h] = q]
  BY <1>1 DEF Typed
<1> HIDE DEF q
<1> DEFINE c == [row[r] EXCEPT !.canceled = TRUE]
           d == [row[r] EXCEPT !.deleted = TRUE]
<1>4. row' = [row EXCEPT ![r] = c] \/ row' = [row EXCEPT ![r] = d]
  BY DEF cancel, softDelete, Typed
<1>5. row[r] \in RowRecord
  BY DEF Typed
<1>6. ASSUME NEW x \in {c, d}
      PROVE  /\ x \in RowRecord
             /\ x.state = row[r].state /\ x.cart = row[r].cart /\ x.snap = row[r].snap
             /\ x.recovered = row[r].recovered /\ x.order = row[r].order
             /\ (row[r].canceled => x.canceled) /\ (row[r].deleted => x.deleted)
  BY <1>5 DEF RowRecord
<1> HIDE DEF c, d
<1>7. PICK x \in {c, d} : row' = [row EXCEPT ![r] = x]
  BY <1>4
<1>8. row' \in [Rows -> RowRecord] /\ row'[r] = x /\ \A s \in Rows \ {r} : row'[s] = row[s]
  BY <1>6, <1>7 DEF Typed
<1> QED
  BY <1>1, <1>2, <1>3, <1>6, <1>8

\* Taking a row back opens it or leaves it as it is.
LEMMA RestoreDoes ==
    ASSUME Typed, NEW r \in Rows, restore(r)
    PROVE  /\ UNCHANGED <<step, content, edits, order, req, history>>
           /\ row' \in [Rows -> RowRecord]
           /\ \A s \in Rows \ {r} : row'[s] = row[s]
           /\ row'[r].state = row[r].state /\ row'[r].cart = row[r].cart
           /\ row'[r].snap = row[r].snap
           /\ row'[r].recovered = row[r].recovered /\ row'[r].order = row[r].order
           /\ row'[r].canceled = row[r].canceled /\ ~row'[r].deleted
<1>1. UNCHANGED <<step, content, edits, order, req, history>>
  BY DEF restore
<1> DEFINE x == [row[r] EXCEPT !.deleted = FALSE]
<1>2. row[r] \in RowRecord
  BY DEF Typed
<1>3. /\ x \in RowRecord
      /\ x.state = row[r].state /\ x.cart = row[r].cart /\ x.snap = row[r].snap
      /\ x.recovered = row[r].recovered /\ x.order = row[r].order
      /\ x.canceled = row[r].canceled /\ ~x.deleted
  BY <1>2 DEF RowRecord
<1>4. row' = [row EXCEPT ![r] = x]
  BY DEF restore, Typed
<1> HIDE DEF x
<1>5. row' \in [Rows -> RowRecord] /\ row'[r] = x /\ \A s \in Rows \ {r} : row'[s] = row[s]
  BY <1>3, <1>4 DEF Typed
<1> QED
  BY <1>1, <1>3, <1>5

LEMMA ReopenDoes ==
    ASSUME Typed, NEW n \in Orders, reopenFromOrder(n)
    PROVE  /\ UNCHANGED <<step, content, edits, order, history>>
           /\ order[n].state = "canceled"
           /\ row' \in [Rows -> RowRecord]
           /\ \A r \in Rows :
                /\ row'[r].state = row[r].state /\ row'[r].cart = row[r].cart
                /\ row'[r].snap = row[r].snap
                /\ row'[r].canceled = row[r].canceled /\ row'[r].deleted = row[r].deleted
                /\ row[r].order # n => row'[r] = row[r]
                /\ row'[r].recovered => row[r].recovered
           /\ req' \in [Handlers -> Request]
           /\ \A h \in Handlers :
                /\ req'[h].at = req[h].at /\ req'[h].rows = req[h].rows
                /\ req'[h].emits = req[h].emits /\ req'[h].order = req[h].order
                /\ req'[h].shut = req[h].shut \ {r \in Rows : row[r].order = n}
<1>1. /\ UNCHANGED <<step, content, edits, order, history>> /\ order[n].state = "canceled"
      /\ row' = [r \in Rows |-> IF r \in {q \in Rows : row[q].order = n}
                                THEN [row[r] EXCEPT !.recovered = FALSE, !.order = 0]
                                ELSE row[r]]
      /\ req' = [h \in Handlers |->
                   [req[h] EXCEPT !.shut = req[h].shut \ {r \in Rows : row[r].order = n}]]
  BY DEF reopenFromOrder, Reopened
<1>2. 0 \in 0..MaxOrders
  BY RecoveryAssumption
<1>3. ASSUME NEW r \in Rows
      PROVE  /\ row'[r] \in RowRecord
             /\ row'[r].state = row[r].state /\ row'[r].cart = row[r].cart
             /\ row'[r].snap = row[r].snap
             /\ row'[r].canceled = row[r].canceled /\ row'[r].deleted = row[r].deleted
             /\ row[r].order # n => row'[r] = row[r]
             /\ row'[r].recovered => row[r].recovered
  <2>1. row[r] \in RowRecord
    BY DEF Typed
  <2>2. CASE row[r].order = n
    <3>1. row'[r] = [row[r] EXCEPT !.recovered = FALSE, !.order = 0]
      BY <1>1, <2>2
    <3> QED
      BY <1>2, <2>1, <2>2, <3>1 DEF RowRecord
  <2>3. CASE row[r].order # n
    BY <1>1, <2>1, <2>3
  <2> QED
    BY <2>2, <2>3
<1>4. row' \in [Rows -> RowRecord]
  BY <1>1, <1>3
<1>5. ASSUME NEW h \in Handlers, NEW gone, gone = {r \in Rows : row[r].order = n}
      PROVE  /\ req'[h] \in Request
             /\ req'[h].at = req[h].at /\ req'[h].rows = req[h].rows
             /\ req'[h].emits = req[h].emits /\ req'[h].order = req[h].order
             /\ req'[h].shut = req[h].shut \ gone
  <2>1. req[h] \in Request /\ req'[h] = [req[h] EXCEPT !.shut = req[h].shut \ gone]
    BY <1>1, <1>5 DEF Typed
  <2> QED
    BY <2>1 DEF Request
<1>6. req' \in [Handlers -> Request]
  BY <1>1, <1>5
<1> QED
  BY <1>1, <1>3, <1>4, <1>5, <1>6

LEMMA RemoveDoes ==
    ASSUME Typed, NEW r \in Rows, removeRow(r)
    PROVE  /\ UNCHANGED <<content, edits, order, req, history>> /\ step' = Deleted(r)
           /\ row' \in [Rows -> RowRecord]
           /\ row'[r].state = "gone" /\ \A s \in Rows \ {r} : row'[s] = row[s]
<1>1. /\ UNCHANGED <<content, edits, order, req, history>> /\ step' = Deleted(r)
      /\ row' = [row EXCEPT ![r] = [Unused EXCEPT !.state = "gone"]]
  BY DEF removeRow
<1> DEFINE x == [Unused EXCEPT !.state = "gone"]
<1>2. x \in RowRecord /\ x.state = "gone"
  BY NewRows
<1> HIDE DEF x
<1>3. row' = [row EXCEPT ![r] = x]
  BY <1>1 DEF x
<1> QED
  BY <1>1, <1>2, <1>3 DEF Typed

\* What the steps of the messages may become.
LEMMA StepsWritten ==
    ASSUME StepsTyped
    PROVE  /\ \A r \in Rows, T \in SUBSET Templates :
                Enqueued(r, T) \in [Steps -> {"none", "waiting", "again", "settled", "deleted"}]
           /\ \A r \in Rows :
                Skipped(r) \in [Steps -> {"none", "waiting", "again", "settled", "deleted"}]
           /\ \A r \in Rows :
                Deleted(r) \in [Steps -> {"none", "waiting", "again", "settled", "deleted"}]
           /\ QueueStep => StepsTyped'
BY DEF StepsTyped, Enqueued, Skipped, Deleted, QueueStep, settleStep, retryStep

LEMMA EnqueueDoes ==
    ASSUME Typed, NEW h \in Handlers, captureEnqueue(h)
    PROVE  /\ req[h].at = "enqueue" /\ req' = [req EXCEPT ![h] = Idle]
           /\ UNCHANGED <<content, edits, row, order, slips>>
           /\ \E r \in req[h].rows :
                /\ \/ step' = step
                   \/ \E T \in SUBSET Templates : step' = Enqueued(r, T)
                /\ loose' = IF Closed(r) \/ row[r].deleted THEN loose \cup {r} ELSE loose
BY DEF captureEnqueue, finish, tableVars


LEMMA RowsHeld == ASSUME Typed, NEW h \in Handlers PROVE req[h].rows \subseteq Rows
BY DEF Typed, Request


\* A request that stops leaves the tables as they are.
LEMMA StopDoes ==
    ASSUME Typed, NEW h \in Handlers, stop(h)
    PROVE  /\ req' = [req EXCEPT ![h] = Idle]
           /\ UNCHANGED <<step, content, edits, row, order>>
           /\ loose' = IF req[h].at = "skip" THEN loose \cup req[h].rows ELSE loose
           /\ Slipped(IF req[h].at = "mark" /\ req[h].emits THEN req[h].rows ELSE {})
BY DEF stop, finish, tableVars

LEMMA SlippedIs ==
    ASSUME Typed, NEW S, Slipped(S)
    PROVE  /\ slips' \in [Rows -> Nat]
           /\ \A r \in Rows : slips'[r] = IF r \in S THEN slips[r] + 1 ELSE slips[r]
BY DEF Slipped, Typed, HistoryTyped

LEMMA HistoryStays == ASSUME Typed, [Next]_vars PROVE HistoryTyped'
<1> USE DEF Typed, HistoryTyped
<1>1. begun' \in 0..MaxRequests
  <2>1. CASE begun' = begun
    BY <2>1
  <2>2. CASE \E h \in Handlers : begin(h)
    BY <2>2, RecoveryAssumption DEF begin
  <2>3. CASE Next
    <3>1. ASSUME NEW h \in Handlers, Capture(h) PROVE begun' = begun \/ begin(h)
      BY <3>1 DEF Capture, editCart, visitCheckout, captureRead, captureUpdate, captureCreate,
                  captureEnqueue
    <3>2. ASSUME NEW h \in Handlers, Buy(h) PROVE begun' = begun \/ begin(h)
      BY <3>2 DEF Buy, checkout, orderFind, orderMark, skipRemaining
    <3>3. ASSUME NEW h \in Handlers, StaffOf(h) PROVE begun' = begun \/ begin(h)
      BY <3>3 DEF StaffOf, recreatePlace, recreate, cancel, softDelete
    <3>4. ASSUME NEW h \in Handlers, stop(h) PROVE begun' = begun
      BY <3>4 DEF stop
    <3>5. ASSUME NEW n \in Orders, cancelOrder(n) \/ reopenFromOrder(n) PROVE begun' = begun
      BY <3>5 DEF cancelOrder, reopenFromOrder, Reopened
    <3>6. ASSUME NEW r \in Rows, restore(r) \/ removeRow(r) PROVE begun' = begun
      BY <3>6 DEF restore, removeRow
    <3>7. campaigns => begun' = begun
      BY DEF campaigns, recoveryVars
    <3> QED
      BY <2>1, <2>2, <2>3, <3>1, <3>2, <3>3, <3>4, <3>5, <3>6, <3>7 DEF Next
  <2>4. CASE UNCHANGED vars
    BY <2>4 DEF vars, recoveryVars
  <2> QED
    BY <2>3, <2>4
<1>2. loose' \subseteq Rows /\ slips' \in [Rows -> Nat]
  <2>0. history' = history => loose' \subseteq Rows /\ slips' \in [Rows -> Nat]
    BY DEF history
  <2>1. ASSUME NEW h \in Handlers, Capture(h)
        PROVE  loose' \subseteq Rows /\ slips' \in [Rows -> Nat]
    <3>1. CASE captureEnqueue(h)
      BY <3>1, EnqueueDoes, RowsHeld
    <3>2. CASE ~captureEnqueue(h)
      BY <2>0, <2>1, <3>2, VisitDoes, CaptureReadDoes, CaptureUpdateDoes, CaptureCreateDoes
         DEF Capture
    <3> QED
      BY <3>1, <3>2
  <2>2. ASSUME NEW h \in Handlers, Buy(h) PROVE loose' \subseteq Rows /\ slips' \in [Rows -> Nat]
    <3>1. CASE orderMark(h)
      BY <3>1, OrderMarkDoes, SlippedIs
    <3>2. CASE skipRemaining(h)
      BY <3>2, SkipRemainingDoes
    <3>3. CASE checkout(h) \/ orderFind(h)
      BY <2>0, <3>3, CheckoutDoes, OrderFindDoes
    <3> QED
      BY <2>2, <3>1, <3>2, <3>3 DEF Buy
  <2>3. ASSUME NEW h \in Handlers, StaffOf(h)
        PROVE  loose' \subseteq Rows /\ slips' \in [Rows -> Nat]
    <3>1. CASE recreatePlace(h)
      <4>1. loose' = loose /\ \E S : Slipped(S)
        BY <3>1 DEF recreatePlace
      <4> QED
        BY <4>1, SlippedIs
    <3>2. CASE \E r \in Rows : recreate(h, r) \/ cancel(h, r) \/ softDelete(h, r)
      BY <2>0, <3>2, RecreateDoes, StaffCloseDoes
    <3> QED
      BY <2>3, <3>1, <3>2 DEF StaffOf
  <2>4. ASSUME NEW h \in Handlers, stop(h) PROVE loose' \subseteq Rows /\ slips' \in [Rows -> Nat]
    BY <2>4, StopDoes, SlippedIs, RowsHeld
  <2>5. ASSUME NEW n \in Orders, cancelOrder(n) \/ reopenFromOrder(n)
        PROVE  loose' \subseteq Rows /\ slips' \in [Rows -> Nat]
    BY <2>0, <2>5, ReopenDoes DEF cancelOrder
  <2>6. ASSUME NEW r \in Rows, restore(r) \/ removeRow(r)
        PROVE  loose' \subseteq Rows /\ slips' \in [Rows -> Nat]
    BY <2>0, <2>6, RestoreDoes, RemoveDoes
  <2>7. CASE campaigns \/ UNCHANGED vars
    BY <2>0, <2>7 DEF campaigns, vars, recoveryVars
  <2> QED
    BY <2>1, <2>2, <2>3, <2>4, <2>5, <2>6, <2>7 DEF Next
<1> QED
  BY <1>1, <1>2

LEMMA TypedInductive == Typed /\ [Next]_vars => Typed'
<1> SUFFICES ASSUME Typed, [Next]_vars PROVE Typed'
  OBVIOUS
<1>0. HistoryTyped'
  BY HistoryStays
<1>1. ASSUME NEW h \in Handlers, Capture(h) PROVE Typed'
  <2>1. CASE editCart(h) \/ visitCheckout(h)
    <3>1. StepsTyped' /\ Attached' = Attached
      BY <2>1, VisitDoes DEF Typed, StepsTyped, Attached, Kept
    <3> QED
      BY <2>1, <3>1, VisitDoes, ReqWritten, StillTyped, <1>0 DEF Typed
  <2>2. CASE captureRead(h)
    <3>1. StepsTyped' /\ \A r \in Rows : r \in Attached' => r \in Attached
      BY <2>2, CaptureReadDoes DEF Typed, StepsTyped, Attached, Kept, Same
    <3>2. \E q \in Request : req' = [req EXCEPT ![h] = q]
      BY <2>2, CaptureReadDoes
    <3>3. req' \in [Handlers -> Request]
      BY <3>2, ReqWritten
    <3> QED
      BY <2>2, <3>1, <3>3, CaptureReadDoes, StillTyped, <1>0 DEF Typed
  <2>3. CASE captureUpdate(h)
    <3>1. StepsTyped' /\ \A r \in Rows : r \in Attached' => r \in Attached
      BY <2>3, CaptureUpdateDoes DEF Typed, StepsTyped, Attached, Kept, Same
    <3> QED
      BY <2>3, <3>1, CaptureUpdateDoes, ReqWritten, IdleTyped, StillTyped, <1>0 DEF Typed
  <2>4. CASE captureCreate(h)
    <3>1. UNCHANGED <<step, content, edits, order>>
      BY <2>4, CaptureCreateDoes
    <3>2. CASE row' = row /\ req' = [req EXCEPT ![h] = Idle]
      <4>1. StepsTyped' /\ Attached' = Attached
        BY <3>1, <3>2 DEF Typed, StepsTyped, Attached, Kept
      <4> QED
        BY <3>1, <3>2, <4>1, ReqWritten, IdleTyped, StillTyped, <1>0 DEF Typed
    <3>3. CASE ~(row' = row /\ req' = [req EXCEPT ![h] = Idle])
      <4>1. PICK r \in Rows, q \in Request :
              /\ Attached = {} /\ row'[r] \in RowRecord
              /\ row' = [row EXCEPT ![r] = row'[r]] /\ req' = [req EXCEPT ![h] = q]
        BY <2>4, <3>3, CaptureCreateDoes
      <4>2. row' \in [Rows -> RowRecord] /\ \A s \in Rows \ {r} : row'[s] = row[s]
        BY <4>1 DEF Typed
      <4>3. Attached' \subseteq {r}
        BY <4>1, <4>2 DEF Attached, Kept
      <4>4. OneAttached'
        BY <4>3 DEF OneAttached
      <4>5. req' \in [Handlers -> Request]
        BY <4>1, ReqWritten
      <4>6. StepsTyped'
        BY <3>1 DEF Typed, StepsTyped
      <4> QED
        BY <1>0, <3>1, <4>2, <4>4, <4>5, <4>6 DEF Typed
    <3> QED
      BY <3>2, <3>3
  <2>5. CASE captureEnqueue(h)
    <3>1. StepsTyped'
      BY <2>5, EnqueueDoes, StepsWritten, RowsHeld DEF Typed, StepsTyped
    <3>2. Attached' = Attached
      BY <2>5, EnqueueDoes DEF Attached, Kept
    <3> QED
      BY <2>5, <3>1, <3>2, EnqueueDoes, ReqWritten, IdleTyped, StillTyped, <1>0 DEF Typed
  <2> QED
    BY <1>1, <2>1, <2>2, <2>3, <2>4, <2>5 DEF Capture
<1>2. ASSUME NEW h \in Handlers, Buy(h) PROVE Typed'
  <2>1. CASE checkout(h)
    <3>1. StepsTyped' /\ Attached' = Attached
      BY <2>1, CheckoutDoes DEF Typed, StepsTyped, Attached, Kept
    <3>2. order' \in [Orders -> [state : {"none", "live", "canceled"}, from : SUBSET Rows]]
      BY <2>1, CheckoutDoes, NewOrderDoes
    <3>3. req' \in [Handlers -> Request] /\ content' \in 0..MaxEdits
      BY <2>1, CheckoutDoes, ReqWritten, RecoveryAssumption
    <3> QED
      BY <2>1, <3>1, <3>2, <3>3, CheckoutDoes, StillTyped, <1>0 DEF Typed
  <2>2. CASE orderFind(h)
    <3>1. StepsTyped' /\ Attached' = Attached
      BY <2>2, OrderFindDoes DEF Typed, StepsTyped, Attached, Kept
    <3>2. \E q \in Request : req' = [req EXCEPT ![h] = q]
      BY <2>2, OrderFindDoes
    <3>3. req' \in [Handlers -> Request]
      BY <3>2, ReqWritten
    <3> QED
      BY <2>2, <3>1, <3>3, OrderFindDoes, StillTyped, <1>0 DEF Typed
  <2>3. CASE orderMark(h)
    <3>1. /\ UNCHANGED <<step, content, edits, order>> /\ row' \in [Rows -> RowRecord]
          /\ \A r \in Rows : row'[r].state = row[r].state /\ row'[r].cart = row[r].cart
      BY <2>3, OrderMarkDoes
    <3>2. StepsTyped' /\ Attached' = Attached
      BY <3>1 DEF Typed, StepsTyped, Attached, Kept
    <3>3. \E q \in Request : req' = [req EXCEPT ![h] = q]
      BY <2>3, OrderMarkDoes, IdleTyped
    <3>4. req' \in [Handlers -> Request]
      BY <3>3, ReqWritten
    <3> QED
      BY <3>1, <3>2, <3>4, StillTyped, <1>0 DEF Typed
  <2>4. CASE skipRemaining(h)
    <3>1. StepsTyped'
      BY <2>4, SkipRemainingDoes, StepsWritten, RowsHeld DEF Typed, StepsTyped
    <3>2. Attached' = Attached
      BY <2>4, SkipRemainingDoes DEF Attached, Kept
    <3> QED
      BY <2>4, <3>1, <3>2, SkipRemainingDoes, ReqWritten, StillTyped, <1>0 DEF Typed
  <2> QED
    BY <1>2, <2>1, <2>2, <2>3, <2>4 DEF Buy
<1>3. ASSUME NEW h \in Handlers, StaffOf(h) PROVE Typed'
  <2>1. CASE recreatePlace(h)
    <3>1. StepsTyped' /\ Attached' = Attached
      BY <2>1, RecreatePlaceDoes DEF Typed, StepsTyped, Attached, Kept
    <3>2. order' \in [Orders -> [state : {"none", "live", "canceled"}, from : SUBSET Rows]]
      BY <2>1, RecreatePlaceDoes, NewOrderDoes, RowsHeld
    <3> QED
      BY <2>1, <3>1, <3>2, RecreatePlaceDoes, ReqWritten, StillTyped, <1>0 DEF Typed
  <2>2. ASSUME NEW r \in Rows, recreate(h, r) PROVE Typed'
    <3>1. UNCHANGED <<step, content, edits, row, order>>
      BY <2>2, RecreateDoes
    <3>2. StepsTyped' /\ Attached' = Attached
      BY <3>1 DEF Typed, StepsTyped, Attached, Kept
    <3>3. req' \in [Handlers -> Request]
      BY <2>2, RecreateDoes, ReqWritten
    <3> QED
      BY <3>1, <3>2, <3>3, StillTyped, <1>0 DEF Typed
  <2>3. ASSUME NEW r \in Rows, cancel(h, r) \/ softDelete(h, r) PROVE Typed'
    <3>0. /\ UNCHANGED <<step, content, edits, order>>
          /\ \A s \in Rows : row'[s].state = row[s].state /\ row'[s].cart = row[s].cart
      BY <2>3, StaffCloseDoes
    <3>1. StepsTyped' /\ Attached' = Attached
      BY <3>0 DEF Typed, StepsTyped, Attached, Kept
    <3>2. \E q \in Request : req' = [req EXCEPT ![h] = q]
      BY <2>3, StaffCloseDoes
    <3>3. req' \in [Handlers -> Request]
      BY <3>2, ReqWritten
    <3> QED
      BY <2>3, <3>1, <3>3, StaffCloseDoes, StillTyped, <1>0 DEF Typed
  <2> QED
    BY <1>3, <2>1, <2>2, <2>3 DEF StaffOf
<1>9. ASSUME NEW h \in Handlers, stop(h) PROVE Typed'
  <2>1. StepsTyped' /\ Attached' = Attached
    BY <1>9, StopDoes DEF Typed, StepsTyped, Attached, Kept
  <2> QED
    BY <1>9, <2>1, StopDoes, ReqWritten, IdleTyped, StillTyped, <1>0 DEF Typed
<1>4. ASSUME NEW n \in Orders, cancelOrder(n) PROVE Typed'
  <2>1. UNCHANGED <<step, content, edits, row, req>>
    BY <1>4 DEF cancelOrder
  <2>2. order' \in [Orders -> [state : {"none", "live", "canceled"}, from : SUBSET Rows]]
    BY <1>4 DEF cancelOrder, Typed
  <2>3. StepsTyped' /\ Attached' = Attached
    BY <2>1 DEF Typed, StepsTyped, Attached, Kept
  <2> QED
    BY <2>1, <2>2, <2>3, StillTyped, <1>0 DEF Typed
<1>5. ASSUME NEW n \in Orders, reopenFromOrder(n) PROVE Typed'
  <2>1. StepsTyped' /\ Attached' = Attached
    BY <1>5, ReopenDoes DEF Typed, StepsTyped, Attached, Kept
  <2> QED
    BY <1>5, <2>1, ReopenDoes, StillTyped, <1>0 DEF Typed
<1>6. ASSUME NEW r \in Rows, restore(r) PROVE Typed'
  <2>1. StepsTyped' /\ Attached' = Attached
    BY <1>6, RestoreDoes DEF Typed, StepsTyped, Attached, Kept
  <2> QED
    BY <1>6, <2>1, RestoreDoes, StillTyped, <1>0 DEF Typed
<1>7. ASSUME NEW r \in Rows, removeRow(r) PROVE Typed'
  <2>1. StepsTyped'
    BY <1>7, RemoveDoes, StepsWritten DEF Typed, StepsTyped
  <2>2. \A s \in Rows : s \in Attached' => s \in Attached
    BY <1>7, RemoveDoes DEF Attached, Kept
  <2> QED
    BY <1>7, <2>1, <2>2, RemoveDoes, StillTyped, <1>0 DEF Typed
<1>8. ASSUME campaigns \/ UNCHANGED vars PROVE Typed'
  <2>1. UNCHANGED <<content, edits, row, order, req>>
    BY <1>8 DEF campaigns, vars, recoveryVars, tableVars
  <2>2. StepsTyped'
    BY <1>8, StepsWritten DEF campaigns, vars, Typed, StepsTyped
  <2>3. Attached' = Attached
    BY <2>1 DEF Attached, Kept
  <2> QED
    BY <2>1, <2>2, <2>3, StillTyped, <1>0 DEF Typed
<1> QED
  BY <1>1, <1>2, <1>3, <1>4, <1>5, <1>6, <1>7, <1>8, <1>9 DEF Next

-----------------------------------------------------------------------------
(* What a request's step keeps of what the requests count on               *)

\* A request that may be written: one that emits works on one row.
Fits(q) ==
    /\ q.emits => q.at \in {"place", "mark", "skip"} /\ \A r, s \in q.rows : r = s
    /\ q.at = "place" => q.emits

\* A row that is not closed, binned or written for the first time by the step.
Calm(r) ==
    /\ Kept(r)' => Kept(r)
    /\ Closed(r)' => Closed(r)
    /\ row'[r].deleted => row[r].deleted

\* A row that was written is not opened by the step.
StaysShut(r) == row[r].state # "unused" /\ Kept(r)' => Kept(r) /\ (Closed(r) => Closed(r)')

\* No row is unwritten, and orders come from written ones.
WrittenStay ==
    /\ \A r \in Rows : row[r].state # "unused" => row'[r].state # "unused"
    /\ \A n \in Orders : \A r \in order'[n].from : row'[r].state # "unused"

\* The steps of r wait no more than they did.
NoNewStep(r) == \A t \in Templates : step'[<<r, t>>] = "waiting" => step[<<r, t>>] = "waiting"
NoStepLeft(r) == \A t \in Templates : step'[<<r, t>>] # "waiting"

LEMMA RowsSeen == ASSUME Typed, NEW h \in Handlers PROVE req[h].rows \cup req[h].shut \subseteq Rows
BY DEF Typed, Request

LEMMA HeldWritten ==
    ASSUME IInv, NEW h \in Handlers, NEW q \in Request, req' = [req EXCEPT ![h] = q],
           Fits(q), WrittenStay, \A r \in q.rows \cup q.shut : row'[r].state # "unused"
    PROVE  Held' /\ RowsKnown'
<1>1. req'[h] = q /\ \A g \in Handlers \ {h} : req'[g] = req[g]
  BY ReqWritten DEF IInv
<1>2. ASSUME NEW g \in Handlers
      PROVE  /\ req'[g].emits => /\ req'[g].at \in {"place", "mark", "skip"}
                                 /\ \A r, s \in req'[g].rows : r = s
             /\ req'[g].at = "place" => req'[g].emits
             /\ \A r \in req'[g].rows \cup req'[g].shut : row'[r].state # "unused"
  <2>1. CASE g = h
    BY <1>1, <2>1 DEF Fits
  <2>2. CASE g # h
    <3>1. req'[g] = req[g] /\ req[g].rows \cup req[g].shut \subseteq Rows
      BY <1>1, <2>2, RowsSeen DEF IInv
    <3>2. /\ req[g].emits => /\ req[g].at \in {"place", "mark", "skip"}
                             /\ \A r, s \in req[g].rows : r = s
          /\ req[g].at = "place" => req[g].emits
          /\ \A r \in req[g].rows \cup req[g].shut : row[r].state # "unused"
      BY DEF IInv, Understood, Held, RowsKnown
    <3> QED
      BY <3>1, <3>2 DEF WrittenStay
  <2> QED
    BY <2>1, <2>2
<1> QED
  BY <1>2 DEF Held, RowsKnown, WrittenStay

LEMMA VisitsWritten ==
    ASSUME IInv, NEW h \in Handlers, NEW q \in Request, req' = [req EXCEPT ![h] = q],
           \A r \in Rows : StaysShut(r),
           \A r \in q.shut : Kept(r)' => Closed(r)' /\ ~(q.at = "update" /\ r \in q.rows)
    PROVE  VisitsLate'
<1>1. req'[h] = q /\ \A g \in Handlers \ {h} : req'[g] = req[g]
  BY ReqWritten DEF IInv
<1> SUFFICES ASSUME NEW g \in Handlers, NEW r \in req'[g].shut, Kept(r)'
             PROVE  Closed(r)' /\ ~(req'[g].at = "update" /\ r \in req'[g].rows)
  BY DEF VisitsLate
<1>2. CASE g = h
  BY <1>1, <1>2
<1>3. CASE g # h
  <2>1. req'[g] = req[g] /\ r \in Rows
    BY <1>1, <1>3, RowsSeen DEF IInv
  <2>2. row[r].state # "unused"
    BY <2>1 DEF IInv, Understood, RowsKnown
  <2>3. Kept(r) /\ (Closed(r) => Closed(r)')
    BY <2>1, <2>2 DEF StaysShut
  <2>4. Closed(r) /\ ~(req[g].at = "update" /\ r \in req[g].rows)
    BY <2>1, <2>3 DEF IInv, Understood, VisitsLate
  <2> QED
    BY <2>1, <2>3, <2>4
<1> QED
  BY <1>2, <1>3

LEMMA SkipsWritten ==
    ASSUME IInv, NEW h \in Handlers, NEW q \in Request, req' = [req EXCEPT ![h] = q],
           \A r \in Rows :
              \/ /\ Calm(r) /\ NoNewStep(r) /\ (r \in loose => r \in loose')
                 /\ req[h].at = "skip" /\ r \in req[h].rows => q.at = "skip" /\ r \in q.rows
              \/ q.at = "skip" /\ r \in q.rows
              \/ NoStepLeft(r)
              \/ r \in loose'
              \/ ~Kept(r)' \/ (~Closed(r)' /\ ~row'[r].deleted)
    PROVE  ClosedStepsStopped'
<1>1. req'[h] = q /\ \A g \in Handlers \ {h} : req'[g] = req[g]
  BY ReqWritten DEF IInv
<1> SUFFICES ASSUME NEW r \in Rows, Kept(r)', (Closed(r) \/ row[r].deleted)', r \notin loose',
                    \A g \in Handlers : r \in req'[g].rows => req'[g].at # "skip"
             PROVE  NoStepLeft(r)
  BY DEF ClosedStepsStopped, NoStepLeft
<1>2. ~(q.at = "skip" /\ r \in q.rows)
  BY <1>1
<1>3. CASE NoStepLeft(r)
  BY <1>3
<1>4. CASE /\ Calm(r) /\ NoNewStep(r) /\ (r \in loose => r \in loose')
           /\ req[h].at = "skip" /\ r \in req[h].rows => q.at = "skip" /\ r \in q.rows
  <2>1. Kept(r) /\ (Closed(r) \/ row[r].deleted) /\ r \notin loose
    BY <1>4 DEF Calm
  <2>2. \A g \in Handlers : r \in req[g].rows => req[g].at # "skip"
    BY <1>1, <1>2, <1>4
  <2>3. \A t \in Templates : step[<<r, t>>] # "waiting"
    BY <2>1, <2>2 DEF IInv, Understood, ClosedStepsStopped
  <2> QED
    BY <1>4, <2>3 DEF NoNewStep, NoStepLeft
<1> QED
  BY <1>2, <1>3, <1>4

-----------------------------------------------------------------------------
(* Counting a row's live orders                                            *)

LEMMA LiveFinite ==
    ASSUME NEW r
    PROVE  IsFiniteSet(LiveFrom(r)) /\ Cardinality(LiveFrom(r)) \in Nat
<1>1. IsFiniteSet(Orders)
  BY RecoveryAssumption, FS_Interval DEF Orders
<1>2. LiveFrom(r) \subseteq Orders
  BY DEF LiveFrom, OrdersIn
<1>3. IsFiniteSet(LiveFrom(r))
  BY <1>1, <1>2, FS_Subset
<1> QED
  BY <1>3, FS_CardinalityType

LEMMA LiveStays == ASSUME NEW r, order' = order PROVE LiveFrom(r)' = LiveFrom(r)
BY DEF LiveFrom, OrdersIn

LEMMA SlipsNat == ASSUME Typed, NEW r \in Rows PROVE slips[r] \in Nat
BY DEF Typed, HistoryTyped

\* No order is placed, and slips make up for an order that is no longer marked.
LEMMA CountsStay ==
    ASSUME IInv, NEW r \in Rows, order' = order, Kept(r)' => Kept(r),
           slips'[r] = slips[r] \/ slips'[r] = slips[r] + 1,
           Kept(r)' /\ Accounted(r)' = {} => Accounted(r) = {} \/ slips'[r] = slips[r] + 1
    PROVE  Counts(r)'
<1> DEFINE c == Cardinality(LiveFrom(r))
<1>1. c \in Nat /\ slips[r] \in Nat
  BY LiveFinite, SlipsNat DEF IInv
<1>2. c <= slips[r] + 1 /\ (Kept(r) /\ Accounted(r) = {} => c <= slips[r])
  BY DEF IInv, Understood, Counts
<1>3. Cardinality(LiveFrom(r))' = c
  BY LiveStays
<1> HIDE DEF c
<1>4. c <= slips'[r] + 1 /\ (Kept(r)' /\ Accounted(r)' = {} => c <= slips'[r])
  BY <1>1, <1>2
<1> QED
  BY <1>3, <1>4 DEF Counts

\* What a row is marked with stays, and no request that is about to mark it moves.
LEMMA AccountedStays ==
    ASSUME IInv, NEW h \in Handlers, NEW q \in Request, req' = [req EXCEPT ![h] = q],
           order' = order, NEW r \in Rows,
           row'[r].recovered = row[r].recovered, row'[r].order = row[r].order,
           ~(req[h].at = "mark" /\ req[h].emits /\ r \in req[h].rows)
    PROVE  Accounted(r) \subseteq Accounted(r)'
<1>1. \A g \in Handlers \ {h} : req'[g] = req[g]
  BY ReqWritten DEF IInv
<1>2. LiveFrom(r)' = LiveFrom(r)
  BY LiveStays
<1> SUFFICES ASSUME NEW n \in LiveFrom(r),
                    \/ row[r].recovered /\ row[r].order = n
                    \/ \E g \in Handlers : /\ req[g].at = "mark" /\ req[g].emits
                                           /\ r \in req[g].rows /\ req[g].order = n
             PROVE  \/ row'[r].recovered /\ row'[r].order = n
                    \/ \E g \in Handlers : /\ req'[g].at = "mark" /\ req'[g].emits
                                           /\ r \in req'[g].rows /\ req'[g].order = n
  BY <1>2 DEF Accounted
<1>3. CASE row[r].recovered /\ row[r].order = n
  BY <1>3
<1>4. ASSUME NEW g \in Handlers, req[g].at = "mark", req[g].emits, r \in req[g].rows,
             req[g].order = n
      PROVE  \E k \in Handlers : /\ req'[k].at = "mark" /\ req'[k].emits
                                 /\ r \in req'[k].rows /\ req'[k].order = n
  BY <1>1, <1>4
<1> QED
  BY <1>3, <1>4

-----------------------------------------------------------------------------
(* The steps of requests                                                   *)

LEMMA IdleFits == Fits(Idle)
BY IdleTyped DEF Fits

\* A request neither marks nor skips, and the rows keep what became of them.
LEMMA RequestMoves ==
    ASSUME IInv, NEW h \in Handlers, NEW q \in Request, req' = [req EXCEPT ![h] = q],
           UNCHANGED <<step, order, history>>, \A r \in Rows : Same(r), Fits(q),
           \A r \in q.rows \cup q.shut : row[r].state # "unused",
           \A r \in q.shut : Kept(r) => Closed(r) /\ ~(q.at = "update" /\ r \in q.rows),
           req[h].at \notin {"mark", "skip"}
    PROVE  Understood'
<1>1. q.rows \cup q.shut \subseteq Rows /\ slips' = slips /\ loose' = loose
  BY DEF Request, history
<1>2. \A r \in Rows : /\ row'[r].state = row[r].state /\ row'[r].recovered = row[r].recovered
                      /\ row'[r].order = row[r].order
                      /\ Calm(r) /\ NoNewStep(r) /\ StaysShut(r)
                      /\ (Kept(r)' <=> Kept(r)) /\ (Closed(r)' <=> Closed(r))
  BY DEF Same, Calm, Kept, Closed, NoNewStep, StaysShut
<1>3. WrittenStay /\ \A r \in q.rows \cup q.shut : row'[r].state # "unused"
  BY <1>1, <1>2 DEF WrittenStay, IInv, Understood, RowsKnown, Typed
<1>4. Held' /\ RowsKnown'
  BY <1>3, HeldWritten
<1>5. VisitsLate'
  BY <1>1, <1>2, VisitsWritten
<1>6. ClosedStepsStopped'
  BY <1>1, <1>2, SkipsWritten
<1>7. ASSUME NEW r \in Rows PROVE Counts(r)'
  <2>1. Accounted(r) \subseteq Accounted(r)'
    BY <1>2, AccountedStays
  <2> QED
    BY <1>1, <1>2, <2>1, CountsStay
<1> QED
  BY <1>4, <1>5, <1>6, <1>7 DEF Understood

\* What is known of request h before its step.
LEMMA Before ==
    ASSUME IInv, NEW h \in Handlers
    PROVE  /\ Typed /\ req[h].rows \cup req[h].shut \subseteq Rows
           /\ \A r \in req[h].rows \cup req[h].shut : row[r].state # "unused"
           /\ \A r \in req[h].shut : Kept(r) => Closed(r)
           /\ req[h].emits => /\ req[h].at \in {"place", "mark", "skip"}
                              /\ \A r, s \in req[h].rows : r = s
           /\ req[h].at = "place" => req[h].emits
<1>1. Typed /\ Held /\ RowsKnown /\ VisitsLate
  BY DEF IInv, Understood
<1> QED
  BY <1>1, RowsSeen DEF Held, RowsKnown, VisitsLate

LEMMA VisitSteps ==
    ASSUME IInv, NEW h \in Handlers, editCart(h) \/ visitCheckout(h)
    PROVE  Understood'
<1>1. PICK q \in Request :
        /\ req' = [req EXCEPT ![h] = q]
        /\ q.at = "read" /\ q.rows = req[h].rows /\ q.emits = req[h].emits
        /\ q.shut = {r \in Rows : Kept(r) /\ Closed(r)}
  BY Before, VisitDoes
<1>2. req[h].at = "idle" /\ UNCHANGED <<step, row, order, history>>
  BY Before, VisitDoes
<1>3. ~req[h].emits /\ Fits(q)
  BY <1>1, <1>2, Before DEF Fits
<1>4. \A r \in q.rows \cup q.shut : row[r].state # "unused"
  BY <1>1, Before DEF Kept
<1>5. \A r \in Rows : Same(r)
  BY <1>2 DEF Same
<1> QED
  BY <1>1, <1>2, <1>3, <1>4, <1>5, RequestMoves

LEMMA CaptureReadSteps ==
    ASSUME IInv, NEW h \in Handlers, captureRead(h)
    PROVE  Understood'
<1>1. PICK q \in Request :
        /\ req' = [req EXCEPT ![h] = q] /\ (q.emits => req[h].emits)
        /\ q.shut \subseteq req[h].shut
        /\ \/ q.at \in {"idle", "create"} /\ q.rows = {}
           \/ q.at = "update" /\ q.rows = {r \in Attached : ~Closed(r)}
  BY Before, CaptureReadDoes
<1>2. /\ req[h].at = "read" /\ UNCHANGED <<step, order, history>>
      /\ \A r \in Rows : Same(r)
  BY Before, CaptureReadDoes
<1>3. ~req[h].emits /\ Fits(q)
  BY <1>1, <1>2, Before DEF Fits
<1>4. \A r \in q.rows : row[r].state # "unused" /\ ~Closed(r)
  BY <1>1 DEF Attached, Kept
<1>5. \A r \in q.shut : row[r].state # "unused" /\ (Kept(r) => Closed(r))
  BY <1>1, Before
<1> QED
  BY <1>1, <1>2, <1>3, <1>4, <1>5, RequestMoves

LEMMA CaptureUpdateSteps ==
    ASSUME IInv, NEW h \in Handlers, captureUpdate(h)
    PROVE  Understood'
<1>1. /\ req[h].at = "update" /\ req' = [req EXCEPT ![h] = Idle]
      /\ UNCHANGED <<step, order, history>> /\ \A r \in Rows : Same(r)
  BY Before, CaptureUpdateDoes
<1> QED
  BY <1>1, IdleTyped, IdleFits, RequestMoves

LEMMA OrderFindSteps ==
    ASSUME IInv, NEW h \in Handlers, orderFind(h)
    PROVE  Understood'
<1>1. PICK q \in Request :
        /\ req' = [req EXCEPT ![h] = q] /\ (q.emits => req[h].emits)
        /\ q.shut \subseteq req[h].shut
        /\ \/ q.at = "idle" /\ q.rows = {}
           \/ q.at = "mark" /\ q.rows = {r \in Rows : Kept(r) /\ ~Closed(r)}
  BY Before, OrderFindDoes
<1>2. req[h].at = "find" /\ UNCHANGED <<step, row, order, history>>
  BY Before, OrderFindDoes
<1>3. ~req[h].emits /\ Fits(q)
  BY <1>1, <1>2, Before DEF Fits
<1>4. \A r \in q.rows : row[r].state # "unused"
  BY <1>1 DEF Kept
<1>5. \A r \in q.shut : row[r].state # "unused" /\ (Kept(r) => Closed(r))
  BY <1>1, Before
<1>6. \A r \in Rows : Same(r)
  BY <1>2 DEF Same
<1> QED
  BY <1>1, <1>2, <1>3, <1>4, <1>5, <1>6, RequestMoves

LEMMA RecreateSteps ==
    ASSUME IInv, NEW h \in Handlers, NEW r \in Rows, recreate(h, r)
    PROVE  Understood'
<1>1. PICK q \in Request :
        /\ req' = [req EXCEPT ![h] = q]
        /\ q.at = "place" /\ q.rows = {r} /\ q.emits /\ q.shut = req[h].shut
  BY Before, RecreateDoes
<1>2. req[h].at = "idle" /\ UNCHANGED <<step, row, order, history>> /\ Kept(r)
  BY Before, RecreateDoes
<1>3. Fits(q)
  BY <1>1 DEF Fits
<1>4. \A s \in q.rows \cup q.shut : row[s].state # "unused"
  BY <1>1, <1>2, Before DEF Kept
<1>5. \A s \in q.shut : Kept(s) => Closed(s)
  BY <1>1, Before
<1>6. \A s \in Rows : Same(s)
  BY <1>2 DEF Same
<1> QED
  BY <1>1, <1>2, <1>3, <1>4, <1>5, <1>6, RequestMoves

\* A row that was not there has no order, and is open.
LEMMA CaptureCreateSteps ==
    ASSUME IInv, NEW h \in Handlers, captureCreate(h)
    PROVE  Understood'
<1>1. req[h].at = "create" /\ UNCHANGED <<step, order, history>>
  BY Before, CaptureCreateDoes
<1>2. CASE row' = row /\ req' = [req EXCEPT ![h] = Idle]
  <2>1. \A r \in Rows : Same(r)
    BY <1>2 DEF Same
  <2> QED
    BY <1>1, <1>2, <2>1, IdleTyped, IdleFits, RequestMoves
<1>3. CASE ~(row' = row /\ req' = [req EXCEPT ![h] = Idle])
  <2>1. PICK r \in Rows, q \in Request :
          /\ row[r].state = "unused"
          /\ row' = [row EXCEPT ![r] = row'[r]]
          /\ row'[r].state = "kept" /\ ~Closed(r)' /\ ~row'[r].deleted
          /\ req' = [req EXCEPT ![h] = q]
          /\ q.at = "enqueue" /\ q.rows = {r} /\ ~q.emits /\ q.shut = {}
    BY <1>3, Before, CaptureCreateDoes
  <2>2. \A s \in Rows \ {r} : row'[s] = row[s]
    BY <2>1, Before DEF Typed
  <2>3. WrittenStay /\ \A s \in q.rows \cup q.shut : row'[s].state # "unused"
    BY <1>1, <2>1, <2>2, Before DEF WrittenStay, IInv, Understood, RowsKnown, Typed
  <2>4. Fits(q)
    BY <2>1 DEF Fits
  <2>5. Held' /\ RowsKnown'
    BY <2>1, <2>3, <2>4, HeldWritten
  <2>6. \A s \in Rows : StaysShut(s)
    BY <2>1, <2>2 DEF StaysShut, Kept, Closed
  <2>7. VisitsLate'
    BY <2>1, <2>6, VisitsWritten
  <2>8. ASSUME NEW s \in Rows \ {r} PROVE Calm(s) /\ NoNewStep(s) /\ (s \in loose => s \in loose')
    BY <1>1, <2>2 DEF Calm, Kept, Closed, NoNewStep, history
  <2>9. ClosedStepsStopped'
    <3>1. \A s \in Rows :
            \/ /\ Calm(s) /\ NoNewStep(s) /\ (s \in loose => s \in loose')
               /\ req[h].at = "skip" /\ s \in req[h].rows => q.at = "skip" /\ s \in q.rows
            \/ ~Kept(s)' \/ (~Closed(s)' /\ ~row'[s].deleted)
      BY <1>1, <2>1, <2>8
    <3> QED
      BY <2>1, <3>1, SkipsWritten
  <2>10. Counts(r)'
    <3>1. LiveFrom(r) = {}
      <4>1. \A n \in Orders : r \notin order[n].from
        BY <2>1 DEF IInv, Understood, RowsKnown
      <4> QED
        BY <4>1 DEF LiveFrom, OrdersIn
    <3>2. Cardinality(LiveFrom(r)') = 0
      BY <1>1, <3>1, LiveStays, FS_EmptySet
    <3>3. slips'[r] \in Nat
      BY <1>1, Before, SlipsNat DEF history
    <3>4. Cardinality(LiveFrom(r)') <= slips'[r] /\ Cardinality(LiveFrom(r)') <= slips'[r] + 1
      BY <3>2, <3>3
    <3> QED
      BY <3>4 DEF Counts
  <2>11. ASSUME NEW s \in Rows \ {r} PROVE Counts(s)'
    <3>1. Accounted(s) \subseteq Accounted(s)'
      BY <1>1, <2>1, <2>2, <2>11, AccountedStays
    <3>2. slips'[s] = slips[s] /\ (Kept(s)' => Kept(s))
      BY <1>1, <2>8 DEF Calm, history
    <3> QED
      BY <1>1, <3>1, <3>2, CountsStay
  <2> QED
    BY <2>5, <2>7, <2>9, <2>10, <2>11 DEF Understood
<1> QED
  BY <1>2, <1>3

LEMMA CaptureEnqueueSteps ==
    ASSUME IInv, NEW h \in Handlers, captureEnqueue(h)
    PROVE  Understood'
<1>1. /\ req[h].at = "enqueue" /\ req' = [req EXCEPT ![h] = Idle]
      /\ UNCHANGED <<row, order, slips>>
  BY Before, EnqueueDoes
<1>2. PICK r \in req[h].rows :
        /\ \/ step' = step
           \/ \E T \in SUBSET Templates : step' = Enqueued(r, T)
        /\ loose' = IF Closed(r) \/ row[r].deleted THEN loose \cup {r} ELSE loose
  BY Before, EnqueueDoes
<1>3. \A s \in Rows : /\ Calm(s) /\ StaysShut(s)
                      /\ (Kept(s)' <=> Kept(s)) /\ (Closed(s)' <=> Closed(s))
  BY <1>1 DEF Calm, Kept, Closed, StaysShut
<1>4. WrittenStay
  BY <1>1, Before DEF WrittenStay, IInv, Understood, RowsKnown, Typed
<1>5. Held' /\ RowsKnown'
  BY <1>1, <1>4, IdleTyped, IdleFits, HeldWritten
<1>6. VisitsLate'
  BY <1>1, <1>3, IdleTyped, VisitsWritten
<1>7. ASSUME NEW s \in Rows, s # r PROVE NoNewStep(s)
  <2>1. ASSUME NEW T \in SUBSET Templates, step' = Enqueued(r, T), NEW t \in Templates
        PROVE  step'[<<s, t>>] = step[<<s, t>>]
    BY <1>7, <2>1 DEF Enqueued, Steps
  <2> QED
    BY <1>2, <2>1 DEF NoNewStep
<1>8. \A s \in Rows :
        \/ Calm(s) /\ NoNewStep(s) /\ (s \in loose => s \in loose')
        \/ s \in loose'
        \/ ~Closed(s)' /\ ~row'[s].deleted
  BY <1>1, <1>2, <1>3, <1>7
<1>9. ClosedStepsStopped'
  BY <1>1, <1>8, IdleTyped, SkipsWritten
<1>10. ASSUME NEW s \in Rows PROVE Counts(s)'
  <2>1. Accounted(s) \subseteq Accounted(s)'
    BY <1>1, IdleTyped, AccountedStays
  <2> QED
    BY <1>1, <1>3, <2>1, CountsStay
<1> QED
  BY <1>5, <1>6, <1>9, <1>10 DEF Understood

\* The orders a row has when another one is placed.
LEMMA OrderPlaced ==
    ASSUME Typed, NEW n \in Orders, NEW S \in SUBSET Rows, NewOrder(n, S), NEW r \in Rows
    PROVE  /\ n \notin LiveFrom(r)
           /\ LiveFrom(r)' = IF r \in S THEN LiveFrom(r) \cup {n} ELSE LiveFrom(r)
<1>1. /\ order[n].state = "none" /\ order'[n].state = "live" /\ order'[n].from = S
      /\ \A m \in Orders \ {n} : order'[m] = order[m]
  BY NewOrderDoes
<1> QED
  BY <1>1 DEF LiveFrom, OrdersIn

LEMMA CheckoutSteps ==
    ASSUME IInv, NEW h \in Handlers, checkout(h)
    PROVE  Understood'
<1>1. PICK n \in Orders, q \in Request :
        /\ NewOrder(n, {}) /\ req' = [req EXCEPT ![h] = q]
        /\ q.at = "find" /\ q.rows = req[h].rows /\ q.emits = req[h].emits
        /\ q.shut = req[h].shut
  BY Before, CheckoutDoes
<1>2. req[h].at = "idle" /\ UNCHANGED <<step, row, history>>
  BY Before, CheckoutDoes
<1>3. /\ order'[n].from = {} /\ \A m \in Orders \ {n} : order'[m] = order[m]
  BY <1>1, Before, NewOrderDoes
<1>4. ~req[h].emits /\ Fits(q)
  BY <1>1, <1>2, Before DEF Fits
<1>5. /\ slips' = slips /\ loose' = loose
      /\ \A r \in Rows : /\ Calm(r) /\ NoNewStep(r) /\ StaysShut(r)
                         /\ (Kept(r)' <=> Kept(r)) /\ (Closed(r)' <=> Closed(r))
  BY <1>2 DEF Calm, Kept, Closed, NoNewStep, StaysShut, history
<1>6. WrittenStay /\ \A r \in q.rows \cup q.shut : row'[r].state # "unused"
  BY <1>1, <1>2, <1>3, Before DEF WrittenStay, IInv, Understood, RowsKnown, Typed
<1>7. Held' /\ RowsKnown'
  BY <1>1, <1>4, <1>6, HeldWritten
<1>8. \A r \in q.shut : Kept(r)' => Closed(r)'
  BY <1>1, <1>5, Before
<1>9. VisitsLate'
  BY <1>1, <1>5, <1>8, VisitsWritten
<1>10. ClosedStepsStopped'
  BY <1>1, <1>2, <1>5, SkipsWritten
<1>11. ASSUME NEW r \in Rows PROVE Counts(r)'
  <2>1. LiveFrom(r)' = LiveFrom(r)
    BY <1>1, Before, OrderPlaced
  <2>2. \A g \in Handlers \ {h} : req'[g] = req[g]
    BY <1>1, Before, ReqWritten
  <2>3. Accounted(r) \subseteq Accounted(r)'
    BY <1>2, <2>1, <2>2 DEF Accounted
  <2>4. Counts(r)
    BY DEF IInv, Understood
  <2>5. Kept(r)' /\ Accounted(r)' = {} => Kept(r) /\ Accounted(r) = {}
    BY <1>5, <2>3
  <2>6. Cardinality(LiveFrom(r)') = Cardinality(LiveFrom(r)) /\ slips'[r] = slips[r]
    BY <1>5, <2>1
  <2> QED
    BY <2>4, <2>5, <2>6 DEF Counts
<1> QED
  BY <1>7, <1>9, <1>10, <1>11 DEF Understood

\* The order is placed for a row with no live order that counts, or it is a slip.
LEMMA RecreatePlaceSteps ==
    ASSUME IInv, NEW h \in Handlers, recreatePlace(h)
    PROVE  Understood'
<1>1. PICK n \in Orders, q \in Request :
        /\ NewOrder(n, req[h].rows) /\ req' = [req EXCEPT ![h] = q]
        /\ q.at = "mark" /\ q.rows = req[h].rows /\ q.emits = req[h].emits
        /\ q.order = n /\ q.shut = req[h].shut
  BY Before, RecreatePlaceDoes
<1>2. /\ req[h].at = "place" /\ UNCHANGED <<step, row, loose>> /\ req[h].emits
      /\ Slipped({r \in req[h].rows : ~Kept(r) \/ row[r].recovered \/ Placed(r)})
  BY Before, RecreatePlaceDoes DEF recreatePlace
<1>3. req[h].rows \in SUBSET Rows
  BY Before
<1>4. /\ order'[n].from = req[h].rows /\ \A m \in Orders \ {n} : order'[m] = order[m]
  BY <1>1, <1>3, Before, NewOrderDoes
<1>5. Fits(q)
  BY <1>1, <1>2, Before DEF Fits
<1>6. \A r \in Rows : /\ Calm(r) /\ NoNewStep(r) /\ StaysShut(r)
                      /\ (Kept(r)' <=> Kept(r)) /\ (Closed(r)' <=> Closed(r))
  BY <1>2 DEF Calm, Kept, Closed, NoNewStep, StaysShut
<1>7. WrittenStay /\ \A r \in q.rows \cup q.shut : row'[r].state # "unused"
  BY <1>1, <1>2, <1>4, Before DEF WrittenStay, IInv, Understood, RowsKnown, Typed
<1>8. Held' /\ RowsKnown'
  BY <1>1, <1>5, <1>7, HeldWritten
<1>9. \A r \in q.shut : Kept(r)' => Closed(r)'
  BY <1>1, <1>6, Before
<1>10. VisitsLate'
  BY <1>1, <1>6, <1>9, VisitsWritten
<1>11. ClosedStepsStopped'
  BY <1>1, <1>2, <1>6, SkipsWritten
<1>12. req'[h] = q /\ \A g \in Handlers \ {h} : req'[g] = req[g]
  BY <1>1, Before, ReqWritten
<1>13. ASSUME NEW r \in Rows PROVE Counts(r)'
  <2> DEFINE c == Cardinality(LiveFrom(r))
  <2>1. c \in Nat /\ slips[r] \in Nat
    BY LiveFinite, SlipsNat, Before
  <2>2. c <= slips[r] + 1 /\ (Kept(r) /\ Accounted(r) = {} => c <= slips[r])
    BY DEF IInv, Understood, Counts
  <2>3. CASE r \notin req[h].rows
    <3>1. LiveFrom(r)' = LiveFrom(r) /\ slips'[r] = slips[r]
      BY <1>1, <1>2, <1>3, <2>3, Before, OrderPlaced, SlippedIs
    <3>2. Accounted(r) \subseteq Accounted(r)'
      BY <1>2, <1>12, <2>3, <3>1 DEF Accounted
    <3>3. Kept(r)' /\ Accounted(r)' = {} => Kept(r) /\ Accounted(r) = {}
      BY <1>6, <3>2
    <3>4. Cardinality(LiveFrom(r)') = c
      BY <3>1
    <3> HIDE DEF c
    <3> QED
      BY <2>2, <3>1, <3>3, <3>4 DEF Counts
  <2>4. CASE r \in req[h].rows
    <3>1. n \notin LiveFrom(r) /\ LiveFrom(r)' = LiveFrom(r) \cup {n}
      BY <1>1, <1>3, <2>4, Before, OrderPlaced
    <3>2. Cardinality(LiveFrom(r)') = c + 1
      BY <3>1, LiveFinite, FS_AddElement
    <3>3. n \in Accounted(r)'
      BY <1>1, <1>2, <1>12, <2>4, <3>1 DEF Accounted
    <3>4. slips'[r] = IF ~Kept(r) \/ row[r].recovered \/ Placed(r) THEN slips[r] + 1 ELSE slips[r]
      BY <1>2, <2>4, Before, SlippedIs
    <3>5. ~(~Kept(r) \/ row[r].recovered \/ Placed(r)) => Accounted(r) = {}
      BY DEF Accounted, Placed
    <3> HIDE DEF c
    <3>6. c + 1 <= slips'[r] + 1
      BY <2>1, <2>2, <3>4, <3>5
    <3> QED
      BY <3>2, <3>3, <3>6 DEF Counts
  <2> QED
    BY <2>3, <2>4
<1> QED
  BY <1>8, <1>10, <1>11, <1>13 DEF Understood

\* An order is marked in the rows held for it; a mark that replaces another's is a slip.
LEMMA OrderMarkSteps ==
    ASSUME IInv, NEW h \in Handlers, orderMark(h)
    PROVE  Understood'
<1>1. req[h].at = "mark" /\ UNCHANGED <<step, order, loose>>
  BY Before, OrderMarkDoes
<1>2. Slipped({r \in req[h].rows : Kept(r) /\ row[r].recovered /\ row[r].order # req[h].order})
  BY Before, OrderMarkDoes
<1>3. \A r \in Rows :
        /\ row'[r].state = row[r].state
        /\ row'[r].canceled = row[r].canceled /\ row'[r].deleted = row[r].deleted
        /\ ~(r \in req[h].rows /\ Kept(r)) => row'[r] = row[r]
        /\ r \in req[h].rows /\ Kept(r) =>
             row'[r].recovered /\ row'[r].order = req[h].order
  <2>1. Typed
    BY Before
  <2> HIDE DEF Typed, Kept
  <2> QED
    BY <2>1, OrderMarkDoes
<1>4. PICK q \in Request :
        /\ req' = [req EXCEPT ![h] = q] /\ q.shut \subseteq req[h].shut
        /\ \/ /\ q.at = "idle" /\ q.rows = {} /\ ~q.emits /\ \A r \in req[h].rows : ~Kept(r)
           \/ q.at = "skip" /\ q.rows = req[h].rows /\ q.emits = req[h].emits
  <2>1. CASE /\ req' = [req EXCEPT ![h] = Idle] /\ req[h].emits
             /\ \E r \in req[h].rows : ~Kept(r)
    <3>1. \A r \in req[h].rows : ~Kept(r)
      BY <2>1, Before
    <3> QED
      BY <2>1, <3>1, IdleTyped
  <2>2. CASE \E q \in Request :
               /\ req' = [req EXCEPT ![h] = q] /\ q.at = "skip"
               /\ q.rows = req[h].rows /\ q.emits = req[h].emits /\ q.shut = req[h].shut
    BY <2>2
  <2> QED
    BY <2>1, <2>2, Before, OrderMarkDoes
<1>5. \A r \in Rows : /\ Kept(r)' <=> Kept(r)
                      /\ Closed(r) => Closed(r)'
                      /\ StaysShut(r) /\ NoNewStep(r)
                      /\ r \notin req[h].rows => Calm(r)
  BY <1>1, <1>3 DEF Calm, NoNewStep, StaysShut, Kept, Closed
<1>6. WrittenStay
  BY <1>1, <1>3, Before DEF WrittenStay, IInv, Understood, RowsKnown, Typed
<1>7. Fits(q)
  BY <1>4, Before DEF Fits
<1>8. \A r \in q.rows \cup q.shut : row'[r].state # "unused"
  BY <1>3, <1>4, Before
<1>9. Held' /\ RowsKnown'
  BY <1>4, <1>6, <1>7, <1>8, HeldWritten
<1>10. \A r \in q.shut : Kept(r)' => Closed(r)'
  BY <1>4, <1>5, Before
<1>11. VisitsLate'
  BY <1>4, <1>5, <1>10, VisitsWritten
<1>12. ClosedStepsStopped'
  <2>1. \A r \in Rows :
          \/ /\ Calm(r) /\ NoNewStep(r) /\ (r \in loose => r \in loose')
             /\ req[h].at = "skip" /\ r \in req[h].rows => q.at = "skip" /\ r \in q.rows
          \/ q.at = "skip" /\ r \in q.rows
          \/ ~Kept(r)'
    BY <1>1, <1>4, <1>5
  <2> QED
    BY <1>4, <2>1, SkipsWritten
<1>13. ASSUME NEW r \in Rows PROVE Counts(r)'
  <2>1. slips'[r] = slips[r] \/ slips'[r] = slips[r] + 1
    BY <1>2, Before, SlippedIs
  <2>2. CASE ~Kept(r)
    BY <1>1, <1>5, <2>1, <2>2, CountsStay
  <2>3. CASE r \notin req[h].rows
    <3>1. Accounted(r) \subseteq Accounted(r)'
      BY <1>1, <1>3, <1>4, <2>3, AccountedStays
    <3> QED
      BY <1>1, <1>5, <2>1, <3>1, CountsStay
  <2>4. CASE Kept(r) /\ r \in req[h].rows
    <3>1. row'[r].recovered /\ row'[r].order = req[h].order
      BY <1>3, <2>4
    <3>2. LiveFrom(r)' = LiveFrom(r)
      BY <1>1, LiveStays
    <3>3. \A g \in Handlers \ {h} : req'[g] = req[g]
      BY <1>4, Before, ReqWritten
    <3>4. ASSUME NEW n \in Accounted(r), Accounted(r)' = {}
          PROVE  row[r].recovered /\ row[r].order # req[h].order
      <4>1. n \in LiveFrom(r) /\ n # req[h].order
        BY <3>1, <3>2, <3>4 DEF Accounted
      <4>2. ASSUME NEW g \in Handlers, req[g].at = "mark", req[g].emits, r \in req[g].rows,
                   req[g].order = n
            PROVE  FALSE
        <5>1. req'[g] = req[g]
          BY <3>3, <4>1, <4>2
        <5>2. n \in Accounted(r)'
          BY <3>2, <4>1, <4>2, <5>1 DEF Accounted
        <5> QED
          BY <3>4, <5>2
      <4> QED
        BY <4>1, <4>2 DEF Accounted
    <3>5. row[r].recovered /\ row[r].order # req[h].order => slips'[r] = slips[r] + 1
      BY <1>2, <2>4, Before, SlippedIs
    <3>6. Kept(r)' /\ Accounted(r)' = {} => Accounted(r) = {} \/ slips'[r] = slips[r] + 1
      BY <3>4, <3>5
    <3> QED
      BY <1>1, <1>5, <2>1, <3>6, CountsStay
  <2> QED
    BY <2>2, <2>3, <2>4
<1> QED
  BY <1>9, <1>11, <1>12, <1>13 DEF Understood

LEMMA SkipRemainingSteps ==
    ASSUME IInv, NEW h \in Handlers, skipRemaining(h)
    PROVE  Understood'
<1>1. req[h].at = "skip" /\ UNCHANGED <<row, order, slips>>
  BY Before, SkipRemainingDoes
<1>2. PICK r \in req[h].rows, q \in Request :
        /\ step' = Skipped(r) /\ loose' = loose \ {r}
        /\ req' = [req EXCEPT ![h] = q] /\ q.shut \subseteq req[h].shut
        /\ \/ q.at \in {"idle", "find"} /\ ~q.emits /\ q.rows = {} /\ req[h].rows = {r}
           \/ q.at = "skip" /\ q.rows = req[h].rows \ {r} /\ q.emits = req[h].emits
  BY Before, SkipRemainingDoes
<1>3. \A s \in Rows : /\ Calm(s) /\ StaysShut(s)
                      /\ (Kept(s)' <=> Kept(s)) /\ (Closed(s)' <=> Closed(s))
  BY <1>1 DEF Calm, Kept, Closed, StaysShut
<1>4. NoStepLeft(r) /\ \A s \in Rows \ {r} : NoNewStep(s)
  <2>1. step \in [Steps -> {"none", "waiting", "again", "settled", "deleted"}] /\ r \in Rows
    BY Before DEF Typed, StepsTyped
  <2>2. \A t \in Templates : step'[<<r, t>>] # "waiting"
    BY <1>2, <2>1 DEF Skipped, Steps
  <2>3. \A s \in Rows \ {r} : \A t \in Templates : step'[<<s, t>>] = step[<<s, t>>]
    BY <1>2, <2>1 DEF Skipped, Steps
  <2> QED
    BY <2>2, <2>3 DEF NoStepLeft, NoNewStep
<1>5. WrittenStay
  BY <1>1, Before DEF WrittenStay, IInv, Understood, RowsKnown, Typed
<1>6. Fits(q)
  BY <1>2, Before DEF Fits
<1>7. \A s \in q.rows \cup q.shut : row'[s].state # "unused"
  BY <1>1, <1>2, Before
<1>8. Held' /\ RowsKnown'
  BY <1>2, <1>5, <1>6, <1>7, HeldWritten
<1>9. \A s \in q.shut : (Kept(s)' => Closed(s)') /\ q.at # "update"
  BY <1>2, <1>3, Before
<1>10. VisitsLate'
  BY <1>2, <1>3, <1>9, VisitsWritten
<1>11. ClosedStepsStopped'
  <2>1. \A s \in Rows :
          \/ /\ Calm(s) /\ NoNewStep(s) /\ (s \in loose => s \in loose')
             /\ req[h].at = "skip" /\ s \in req[h].rows => q.at = "skip" /\ s \in q.rows
          \/ NoStepLeft(s)
    BY <1>2, <1>3, <1>4
  <2> QED
    BY <1>2, <2>1, SkipsWritten
<1>12. ASSUME NEW s \in Rows PROVE Counts(s)'
  <2>1. Accounted(s) \subseteq Accounted(s)'
    BY <1>1, <1>2, AccountedStays
  <2> QED
    BY <1>1, <1>3, <2>1, CountsStay
<1> QED
  BY <1>8, <1>10, <1>11, <1>12 DEF Understood

LEMMA StaffCloseSteps ==
    ASSUME IInv, NEW h \in Handlers, NEW r \in Rows, cancel(h, r) \/ softDelete(h, r)
    PROVE  Understood'
<1>1. req[h].at = "idle" /\ UNCHANGED <<step, order, history>> /\ Kept(r)
  BY Before, StaffCloseDoes
<1>2. /\ \A s \in Rows \ {r} : row'[s] = row[s]
      /\ row'[r].state = row[r].state
      /\ row'[r].recovered = row[r].recovered /\ row'[r].order = row[r].order
      /\ (row[r].canceled => row'[r].canceled)
  BY Before, StaffCloseDoes
<1>3. PICK q \in Request : /\ req' = [req EXCEPT ![h] = q]
                           /\ q.at = "skip" /\ q.rows = {r} /\ q.emits = req[h].emits
                           /\ q.shut = req[h].shut
  BY Before, StaffCloseDoes
<1>4. slips' = slips /\ loose' = loose
  BY <1>1 DEF history
<1>5. \A s \in Rows : /\ Kept(s)' <=> Kept(s)
                      /\ Closed(s) => Closed(s)'
                      /\ StaysShut(s) /\ NoNewStep(s)
                      /\ s # r => Calm(s)
                      /\ row'[s].recovered = row[s].recovered /\ row'[s].order = row[s].order
  BY <1>1, <1>2 DEF Calm, Kept, Closed, NoNewStep, StaysShut
<1>6. \A s \in Rows : row'[s].state = row[s].state
  BY <1>2
<1>7. WrittenStay
  BY <1>1, <1>6, Before DEF WrittenStay, IInv, Understood, RowsKnown, Typed
<1>8. Fits(q)
  BY <1>1, <1>3, Before DEF Fits
<1>9. \A s \in q.rows \cup q.shut : row'[s].state # "unused"
  BY <1>1, <1>3, <1>6, Before DEF Kept
<1>10. Held' /\ RowsKnown'
  BY <1>3, <1>7, <1>8, <1>9, HeldWritten
<1>11. \A s \in q.shut : Kept(s)' => Closed(s)'
  BY <1>3, <1>5, Before
<1>12. VisitsLate'
  BY <1>3, <1>5, <1>11, VisitsWritten
<1>13. ClosedStepsStopped'
  BY <1>1, <1>3, <1>4, <1>5, SkipsWritten
<1>14. ASSUME NEW s \in Rows PROVE Counts(s)'
  <2>1. Accounted(s) \subseteq Accounted(s)'
    BY <1>1, <1>3, <1>5, AccountedStays
  <2> QED
    BY <1>1, <1>4, <1>5, <2>1, CountsStay
<1> QED
  BY <1>10, <1>12, <1>13, <1>14 DEF Understood

\* What a request that stops leaves undone is counted.
LEMMA StopSteps ==
    ASSUME IInv, NEW h \in Handlers, stop(h)
    PROVE  Understood'
<1>1. /\ req' = [req EXCEPT ![h] = Idle] /\ UNCHANGED <<step, row, order>>
      /\ loose' = IF req[h].at = "skip" THEN loose \cup req[h].rows ELSE loose
      /\ Slipped(IF req[h].at = "mark" /\ req[h].emits THEN req[h].rows ELSE {})
  BY Before, StopDoes
<1>2. \A s \in Rows : /\ Calm(s) /\ StaysShut(s) /\ NoNewStep(s)
                      /\ (Kept(s)' <=> Kept(s))
  BY <1>1 DEF Calm, Kept, Closed, StaysShut, NoNewStep
<1>3. WrittenStay
  BY <1>1, Before DEF WrittenStay, IInv, Understood, RowsKnown, Typed
<1>4. Held' /\ RowsKnown'
  BY <1>1, <1>3, IdleTyped, IdleFits, HeldWritten
<1>5. VisitsLate'
  BY <1>1, <1>2, IdleTyped, VisitsWritten
<1>6. \A s \in Rows :
        \/ /\ Calm(s) /\ NoNewStep(s) /\ (s \in loose => s \in loose')
           /\ ~(req[h].at = "skip" /\ s \in req[h].rows)
        \/ s \in loose'
  BY <1>1, <1>2
<1>7. ClosedStepsStopped'
  BY <1>1, <1>6, IdleTyped, SkipsWritten
<1>8. ASSUME NEW s \in Rows PROVE Counts(s)'
  <2>1. CASE req[h].at = "mark" /\ req[h].emits /\ s \in req[h].rows
    <3>1. slips'[s] = slips[s] + 1
      BY <1>1, <2>1, Before, SlippedIs
    <3> QED
      BY <1>1, <1>2, <3>1, CountsStay
  <2>2. CASE ~(req[h].at = "mark" /\ req[h].emits /\ s \in req[h].rows)
    <3>1. slips'[s] = slips[s]
      BY <1>1, <2>2, Before, SlippedIs
    <3>2. Accounted(s) \subseteq Accounted(s)'
      BY <1>1, <2>2, IdleTyped, AccountedStays
    <3> QED
      BY <1>1, <1>2, <3>1, <3>2, CountsStay
  <2> QED
    BY <2>1, <2>2
<1> QED
  BY <1>4, <1>5, <1>7, <1>8 DEF Understood

-----------------------------------------------------------------------------
(* The steps that are no request's                                         *)

\* The requests stay, but for rows that are no longer closed.
SameRequests ==
    \A h \in Handlers :
        /\ req'[h].at = req[h].at /\ req'[h].rows = req[h].rows
        /\ req'[h].emits = req[h].emits /\ req'[h].order = req[h].order
        /\ req'[h].shut \subseteq req[h].shut

\* No row is closed, and no request moves.
LEMMA Elsewhere ==
    ASSUME IInv, SameRequests, UNCHANGED history, WrittenStay,
           \A r \in Rows : Calm(r) /\ NoNewStep(r) /\ Counts(r)',
           \A h \in Handlers : \A r \in req'[h].shut : Kept(r)' /\ Closed(r) => Closed(r)'
    PROVE  Understood'
<1>1. \A h \in Handlers : req[h].rows \cup req[h].shut \subseteq Rows
  BY Before
<1>2. Held'
  BY DEF IInv, Understood, Held, SameRequests
<1>3. RowsKnown'
  BY <1>1 DEF IInv, Understood, RowsKnown, WrittenStay, SameRequests
<1>4. VisitsLate'
  <2> SUFFICES ASSUME NEW h \in Handlers, NEW r \in req'[h].shut, Kept(r)'
               PROVE  Closed(r)' /\ ~(req'[h].at = "update" /\ r \in req'[h].rows)
    BY DEF VisitsLate
  <2>1. r \in req[h].shut /\ r \in Rows
    BY <1>1 DEF SameRequests
  <2>2. Kept(r)
    BY <2>1 DEF Calm
  <2>3. Closed(r) /\ ~(req[h].at = "update" /\ r \in req[h].rows)
    BY <2>1, <2>2 DEF IInv, Understood, VisitsLate
  <2> QED
    BY <2>3 DEF SameRequests
<1>5. ClosedStepsStopped'
  <2> SUFFICES ASSUME NEW r \in Rows, Kept(r)', (Closed(r) \/ row[r].deleted)', r \notin loose',
                      \A g \in Handlers : r \in req'[g].rows => req'[g].at # "skip"
               PROVE  NoStepLeft(r)
    BY DEF ClosedStepsStopped, NoStepLeft
  <2>1. Kept(r) /\ (Closed(r) \/ row[r].deleted) /\ r \notin loose
    BY DEF Calm, history
  <2>2. \A g \in Handlers : r \in req[g].rows => req[g].at # "skip"
    BY DEF SameRequests
  <2>3. \A t \in Templates : step[<<r, t>>] # "waiting"
    BY <2>1, <2>2 DEF IInv, Understood, ClosedStepsStopped
  <2> QED
    BY <2>3 DEF NoNewStep, NoStepLeft
<1> QED
  BY <1>2, <1>3, <1>4, <1>5 DEF Understood

\* The marks of live orders stay, or the row goes.
LEMMA MarksKept ==
    ASSUME IInv, SameRequests, order' = order, UNCHANGED history, NEW r \in Rows,
           Kept(r)' => Kept(r),
           \A n \in LiveFrom(r) : Kept(r)' /\ row[r].recovered /\ row[r].order = n
                                  => row'[r].recovered /\ row'[r].order = n
    PROVE  Counts(r)'
<1>1. LiveFrom(r)' = LiveFrom(r) /\ slips'[r] = slips[r]
  BY LiveStays DEF history
<1>2. Kept(r)' => Accounted(r) \subseteq Accounted(r)'
  BY <1>1 DEF Accounted, SameRequests
<1> QED
  BY <1>1, <1>2, CountsStay

LEMMA CancelSteps == ASSUME IInv, NEW n \in Orders, cancelOrder(n) PROVE Understood'
<1>1. /\ UNCHANGED <<step, row, req, history>>
      /\ order'[n].state = "canceled" /\ order'[n].from = {}
      /\ \A m \in Orders \ {n} : order'[m] = order[m]
  BY Before DEF cancelOrder, IInv, Typed
<1>2. SameRequests /\ WrittenStay
  BY <1>1 DEF SameRequests, WrittenStay, IInv, Understood, RowsKnown
<1>3. \A r \in Rows : /\ Calm(r) /\ NoNewStep(r) /\ (Closed(r)' <=> Closed(r))
                      /\ (Kept(r)' <=> Kept(r))
  BY <1>1 DEF Calm, Kept, Closed, NoNewStep
<1>4. ASSUME NEW r \in Rows PROVE Counts(r)'
  <2> DEFINE c == Cardinality(LiveFrom(r))
  <2>1. c \in Nat /\ slips[r] \in Nat
    BY LiveFinite, SlipsNat DEF IInv
  <2>2. c <= slips[r] + 1 /\ (Kept(r) /\ Accounted(r) = {} => c <= slips[r])
    BY DEF IInv, Understood, Counts
  <2>3. LiveFrom(r)' = LiveFrom(r) \ {n} /\ slips'[r] = slips[r]
    BY <1>1 DEF LiveFrom, OrdersIn, history
  <2>4. CASE n \in LiveFrom(r)
    <3>1. Cardinality(LiveFrom(r)') = c - 1
      BY <2>3, <2>4, LiveFinite, FS_RemoveElement
    <3> HIDE DEF c
    <3>2. c - 1 <= slips[r] + 1 /\ c - 1 <= slips[r]
      BY <2>1, <2>2
    <3> QED
      BY <2>3, <3>1, <3>2 DEF Counts
  <2>5. CASE n \notin LiveFrom(r)
    <3>1. LiveFrom(r)' = LiveFrom(r)
      BY <2>3, <2>5
    <3>2. Accounted(r)' = Accounted(r)
      BY <1>1, <3>1 DEF Accounted
    <3>3. Cardinality(LiveFrom(r)') = c
      BY <3>1
    <3> HIDE DEF c
    <3> QED
      BY <1>3, <2>2, <2>3, <3>2, <3>3 DEF Counts
  <2> QED
    BY <2>4, <2>5
<1> QED
  BY <1>1, <1>2, <1>3, <1>4, Before, Elsewhere

LEMMA ReopenSteps == ASSUME IInv, NEW n \in Orders, reopenFromOrder(n) PROVE Understood'
<1>1. UNCHANGED <<step, order, history>> /\ order[n].state = "canceled"
  BY ReopenDoes DEF IInv
<1>2. \A r \in Rows :
        /\ row'[r].state = row[r].state
        /\ row'[r].canceled = row[r].canceled /\ row'[r].deleted = row[r].deleted
        /\ row[r].order # n => row'[r] = row[r]
        /\ row'[r].recovered => row[r].recovered
  BY ReopenDoes DEF IInv
<1>3. \A h \in Handlers :
        /\ req'[h].at = req[h].at /\ req'[h].rows = req[h].rows
        /\ req'[h].emits = req[h].emits /\ req'[h].order = req[h].order
        /\ req'[h].shut = req[h].shut \ {r \in Rows : row[r].order = n}
  BY Before, ReopenDoes
<1>4. SameRequests
  BY <1>3 DEF SameRequests
<1>5. WrittenStay
  BY <1>1, <1>2, Before DEF WrittenStay, IInv, Understood, RowsKnown, Typed
<1>6. \A r \in Rows : Calm(r) /\ NoNewStep(r)
  BY <1>1, <1>2 DEF Calm, Kept, Closed, NoNewStep
<1>7. \A h \in Handlers : \A r \in req'[h].shut : Kept(r)' /\ Closed(r) => Closed(r)'
  <2> SUFFICES ASSUME NEW h \in Handlers, NEW r \in req'[h].shut, Closed(r) PROVE Closed(r)'
    OBVIOUS
  <2>1. r \in Rows /\ row[r].order # n
    BY <1>3, Before
  <2>2. row'[r] = row[r]
    BY <1>2, <2>1
  <2> QED
    BY <2>2 DEF Closed
<1>8. ASSUME NEW r \in Rows PROVE Counts(r)'
  <2>1. n \notin LiveFrom(r)
    BY <1>1 DEF LiveFrom, OrdersIn
  <2>2. \A m \in LiveFrom(r) : row[r].recovered /\ row[r].order = m
                               => row'[r].recovered /\ row'[r].order = m
    BY <1>2, <2>1
  <2>3. Kept(r)' => Kept(r)
    BY <1>6 DEF Calm
  <2> QED
    BY <1>1, <1>4, <2>2, <2>3, MarksKept
<1> QED
  BY <1>1, <1>4, <1>5, <1>6, <1>7, <1>8, Elsewhere

LEMMA ElsewhereSteps ==
    ASSUME IInv,
           \/ \E n \in Orders : cancelOrder(n) \/ reopenFromOrder(n)
           \/ \E r \in Rows : restore(r) \/ removeRow(r)
           \/ campaigns \/ UNCHANGED vars
    PROVE  Understood'
<1>1. CASE \E n \in Orders : cancelOrder(n) \/ reopenFromOrder(n)
  BY <1>1, CancelSteps, ReopenSteps
<1>2. CASE \E r \in Rows : restore(r)
  <2>1. PICK r \in Rows : restore(r)
    BY <1>2
  <2>2. UNCHANGED <<step, order, req, history>>
    BY <2>1, RestoreDoes DEF IInv
  <2>3. \A s \in Rows :
          /\ row'[s].state = row[s].state
          /\ row'[s].recovered = row[s].recovered /\ row'[s].order = row[s].order
          /\ row'[s].canceled = row[s].canceled /\ (row'[s].deleted => row[s].deleted)
    BY <2>1, RestoreDoes DEF IInv
  <2>4. SameRequests /\ WrittenStay
    BY <2>2, <2>3 DEF SameRequests, WrittenStay, IInv, Understood, RowsKnown, Typed
  <2>5. \A s \in Rows : /\ Calm(s) /\ NoNewStep(s) /\ (Closed(s)' <=> Closed(s))
                        /\ (Kept(s)' => Kept(s))
    BY <2>2, <2>3 DEF Calm, Kept, Closed, NoNewStep
  <2>6. \A s \in Rows : Counts(s)'
    BY <2>2, <2>3, <2>4, <2>5, MarksKept
  <2>7. \A h \in Handlers : \A s \in req'[h].shut : Closed(s) => Closed(s)'
    BY <2>2, <2>5, Before
  <2> QED
    BY <2>2, <2>4, <2>5, <2>6, <2>7, Elsewhere
<1>3. CASE \E r \in Rows : removeRow(r)
  <2>1. PICK r \in Rows : removeRow(r)
    BY <1>3
  <2>2. /\ UNCHANGED <<order, req, history>> /\ step' = Deleted(r)
        /\ row'[r].state = "gone" /\ \A s \in Rows \ {r} : row'[s] = row[s]
    BY <2>1, RemoveDoes DEF IInv
  <2>3. SameRequests /\ WrittenStay
    BY <2>2 DEF SameRequests, WrittenStay, IInv, Understood, RowsKnown, Typed
  <2>4. \A s \in Rows : NoNewStep(s)
    BY <2>2 DEF NoNewStep, Deleted, Steps, IInv, Typed, StepsTyped
  <2>5. /\ ~Kept(r)' /\ row'[r].recovered = FALSE /\ row'[r].canceled = FALSE
        /\ row'[r].deleted = FALSE
    BY <2>1, <2>2 DEF removeRow, Kept, IInv, Typed, Unused
  <2>6. \A s \in Rows : Calm(s)
    BY <2>2, <2>5 DEF Calm, Kept, Closed
  <2>7. ASSUME NEW s \in Rows PROVE Counts(s)'
    <3>1. \A n \in LiveFrom(s) : Kept(s)' /\ row[s].recovered /\ row[s].order = n
                                 => row'[s].recovered /\ row'[s].order = n
      BY <2>2, <2>5
    <3>2. Kept(s)' => Kept(s)
      BY <2>6 DEF Calm
    <3> QED
      BY <2>2, <2>3, <3>1, <3>2, MarksKept
  <2>8. \A h \in Handlers : \A s \in req'[h].shut : Kept(s)' /\ Closed(s) => Closed(s)'
    <3> SUFFICES ASSUME NEW h \in Handlers, NEW s \in req[h].shut, Kept(s)', Closed(s)
                 PROVE  Closed(s)'
      BY <2>2
    <3>1. s \in Rows /\ s # r
      BY <2>5, Before
    <3> QED
      BY <2>2, <3>1 DEF Closed
  <2> QED
    BY <2>2, <2>3, <2>4, <2>6, <2>7, <2>8, Elsewhere
<1>4. CASE campaigns \/ UNCHANGED vars
  <2>1. UNCHANGED <<row, order, req, history>>
    BY <1>4 DEF campaigns, vars, recoveryVars, tableVars
  <2>2. \A r \in Rows : NoNewStep(r)
    <3>1. step \in [Steps -> {"none", "waiting", "again", "settled", "deleted"}]
      BY DEF IInv, Typed, StepsTyped
    <3>2. CASE step' = step
      BY <3>2 DEF NoNewStep
    <3>3. ASSUME NEW s \in Steps, settleStep(s) \/ retryStep(s)
          PROVE  \A r \in Rows : NoNewStep(r)
      BY <3>1, <3>3 DEF settleStep, retryStep, NoNewStep, Steps
    <3> QED
      BY <1>4, <3>2, <3>3 DEF campaigns, vars, QueueStep
  <2>3. SameRequests /\ WrittenStay
    BY <2>1 DEF SameRequests, WrittenStay, IInv, Understood, RowsKnown, Typed
  <2>4. \A r \in Rows : Calm(r) /\ (Kept(r)' => Kept(r)) /\ (Closed(r)' <=> Closed(r))
    BY <2>1 DEF Calm, Kept, Closed
  <2>5. \A r \in Rows : Counts(r)'
    BY <2>1, <2>3, <2>4, MarksKept
  <2>6. \A h \in Handlers : \A r \in req'[h].shut : Closed(r) => Closed(r)'
    BY <2>1 DEF Closed
  <2> QED
    BY <2>1, <2>2, <2>3, <2>4, <2>5, <2>6, Elsewhere
<1> QED
  BY <1>1, <1>2, <1>3, <1>4

-----------------------------------------------------------------------------
(* Theorems                                                                *)

LEMMA InitHolds == Init => IInv
<1> SUFFICES ASSUME Init PROVE IInv
  OBVIOUS
<1>1. /\ step = [s \in Steps |-> "none"] /\ content = 0 /\ edits = 0
      /\ row = [r \in Rows |-> Unused] /\ req = [h \in Handlers |-> Idle]
      /\ order = [n \in Orders |-> [state |-> "none", from |-> {}]]
  BY DEF Init, StepsInit
<1>2. StepsTyped
  BY <1>1 DEF StepsTyped
<1>3. content \in 0..MaxEdits /\ edits \in 0..MaxEdits
  BY <1>1, RecoveryAssumption
<1>4. row \in [Rows -> RowRecord] /\ req \in [Handlers -> Request]
  <2>1. Unused \in RowRecord /\ Idle \in Request
    BY Zenon, NewRows, IdleTyped
  <2> QED
    BY Zenon, <1>1, <2>1
<1>5. order \in [Orders -> [state : {"none", "live", "canceled"}, from : SUBSET Rows]]
  BY <1>1
<1>6. \A r \in Rows : row[r].state = "unused"
  <2>1. Unused.state = "unused"
    BY DEF Unused
  <2> QED
    BY Zenon, <1>1, <2>1
<1>7. \A h \in Handlers : /\ req[h].at = "idle" /\ req[h].rows = {} /\ ~req[h].emits
                          /\ req[h].shut = {}
  BY <1>1, IdleTyped
<1>8. \A n \in Orders : order[n].from = {}
  BY <1>1
<1>9. Attached = {} /\ \A r \in Rows : ~Kept(r) /\ LiveFrom(r) = {}
  BY <1>6, <1>8 DEF Attached, Kept, LiveFrom, OrdersIn
<1>10. HistoryTyped /\ \A r \in Rows : slips[r] = 0
  BY RecoveryAssumption DEF Init, HistoryTyped
<1>11. Typed
  BY <1>2, <1>3, <1>4, <1>5, <1>9, <1>10 DEF Typed, OneAttached
<1>12. Held /\ RowsKnown /\ VisitsLate /\ ClosedStepsStopped
  BY <1>7, <1>8, <1>9 DEF Held, RowsKnown, VisitsLate, ClosedStepsStopped
<1>13. ASSUME NEW r \in Rows PROVE Counts(r)
  <2>1. Cardinality(LiveFrom(r)) = 0 /\ slips[r] = 0
    BY <1>9, <1>10, FS_EmptySet
  <2> QED
    BY <2>1 DEF Counts
<1> QED
  BY <1>11, <1>12, <1>13 DEF IInv, Understood

LEMMA Inductive == IInv /\ [Next]_vars => IInv'
<1> SUFFICES ASSUME IInv, [Next]_vars PROVE IInv'
  OBVIOUS
<1>1. Typed'
  BY TypedInductive DEF IInv
<1>2. ASSUME NEW h \in Handlers, Capture(h) PROVE Understood'
  BY <1>2, VisitSteps, CaptureReadSteps, CaptureUpdateSteps, CaptureCreateSteps,
     CaptureEnqueueSteps DEF Capture
<1>3. ASSUME NEW h \in Handlers, Buy(h) PROVE Understood'
  BY <1>3, CheckoutSteps, OrderFindSteps, OrderMarkSteps, SkipRemainingSteps DEF Buy
<1>4. ASSUME NEW h \in Handlers, StaffOf(h) PROVE Understood'
  BY <1>4, RecreatePlaceSteps, RecreateSteps, StaffCloseSteps DEF StaffOf
<1> QED
  BY <1>1, <1>2, <1>3, <1>4, StopSteps, ElsewhereSteps DEF Next, IInv

LEMMA Reachable == Spec => []IInv
<1>1. Init => IInv
  BY InitHolds
<1>2. IInv /\ [Next]_vars => IInv'
  BY Inductive
<1> QED
  BY <1>1, <1>2, PTL DEF Spec

LEMMA AtMostOne ==
    ASSUME NEW S, \A x, y \in S : x = y
    PROVE  Cardinality(S) <= 1
<1>1. CASE S = {}
  BY <1>1, FS_EmptySet
<1>2. CASE S # {}
  <2>1. PICK x \in S : TRUE
    BY <1>2
  <2>2. S = {x}
    BY <2>1
  <2>3. Cardinality(S) = 1
    BY <2>2, FS_Singleton
  <2> QED
    BY <2>3
<1> QED
  BY <1>1, <1>2

\* The columns, the messages and the requests keep their types and the unique
\* key on the cart holds, whatever requests overlap or stop (incomplete_orders of
\* the schema and RecoveryService.openRowForCart).
THEOREM RecoveryTyped == Spec => []TypeOK
<1>1. IInv => TypeOK
  BY AtMostOne DEF IInv, Typed, TypeOK, OneAttached, RowRecord, Request, HistoryTyped
<1> QED
  BY <1>1, Reachable, PTL

\* A cart that was bought, canceled or binned has no message left to send but
\* those scheduled after it was closed, or that a closing which stopped before
\* its skip has left (RecoveryService.skipRemaining after each closing), however
\* captures, closings, staff and the queue's runs overlap.
THEOREM ClosedCartsStop == Spec => []ClosedStepsStopped
<1>1. IInv => ClosedStepsStopped
  BY DEF IInv, Understood
<1> QED
  BY <1>1, Reachable, PTL

\* An abandoned cart has no more live orders recreated from it than one, and one
\* for each time that an order and its mark came apart, however recreations,
\* checkouts, reopenings and stops interleave (createOrderFromIncomplete and the
\* row's recovered_order_id).
THEOREM RecreatedOnce == Spec => []OneLiveOrder
<1>1. IInv => OneLiveOrder
  <2> SUFFICES ASSUME IInv
               PROVE  \A r \in Rows : Cardinality(LiveFrom(r)) <= 1 + slips[r]
    BY Zenon DEF OneLiveOrder, LiveFrom
  <2> SUFFICES ASSUME NEW r \in Rows
               PROVE  Cardinality(LiveFrom(r)) <= 1 + slips[r]
    BY Zenon
  <2>1. Cardinality(LiveFrom(r)) \in Nat /\ slips[r] \in Nat
    BY LiveFinite, SlipsNat DEF IInv
  <2>2. Cardinality(LiveFrom(r)) <= slips[r] + 1
    BY DEF IInv, Understood, Counts
  <2> QED
    BY <2>1, <2>2
<1> QED
  BY <1>1, Reachable, PTL

\* A row that was closed when a visit began is not written by that visit's
\* capture, whatever happened to the row and its cart in between
\* (RecoveryService.capture and openRowForCart).
THEOREM ClosedRowsKeep == Spec => ClosedRowsKeepHistory
<1> DEFINE Keeps == \A h \in Handlers : captureUpdate(h) =>
                      \A r \in req[h].shut : Kept(r) => row'[r].snap = row[r].snap
<1>1. IInv => Keeps
  <2> SUFFICES ASSUME IInv, NEW h \in Handlers, captureUpdate(h), NEW r \in req[h].shut, Kept(r)
               PROVE  row'[r].snap = row[r].snap
    OBVIOUS
  <2>1. req[h].at = "update" /\ \A s \in Rows \ req[h].rows : row'[s] = row[s]
    BY CaptureUpdateDoes, Before
  <2>2. r \in Rows /\ r \notin req[h].rows
    BY <2>1, Before DEF IInv, Understood, VisitsLate
  <2> QED
    BY <2>1, <2>2
<1> HIDE DEF Keeps
<1>2. Spec => [][Keeps]_vars
  BY <1>1, Reachable, PTL DEF Spec
<1>3. ClosedRowsKeepHistory <=> [][Keeps]_vars
  BY PTL DEF ClosedRowsKeepHistory, Keeps
<1> QED
  BY <1>2, <1>3
=============================================================================
