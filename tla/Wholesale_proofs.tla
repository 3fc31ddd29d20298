--------------------------- MODULE Wholesale_proofs ---------------------------
(***************************************************************************)
(* What holds of Wholesale for any number of orders, products and staff,   *)
(* as long as only requests overlap that leave each other's reads true     *)
(* (SafeOverlaps) and no practice of Wholesale is followed.                *)
(*                                                                         *)
(* None of the properties is inductive: each request writes what it read   *)
(* a while ago, so the invariant says, kind by kind, how much of that is   *)
(* still true when it writes.                                              *)
(***************************************************************************)
EXTENDS Wholesale, SumTheorems, TLAPS

Request == [kind : Kinds \cup {"none"}, at : {"none", "write", "due", "void", "book", "forward"},
            o : Orders \cup {"none"}, line : Lines, before : Lines, total : Nat, amount : Nat,
            status : {"none", "live", "void", "PENDING", "PROCESSING", "DELIVERED"},
            entries : SUBSET (1..MaxReceipts)]

Typed ==
    /\ stock \in [SKUs -> Int]
    /\ order \in [Orders -> [status : Live \cup {"none", "CANCELLED"}, line : Lines, total : Nat]]
    /\ due \in [Orders -> [state : {"none", "live", "void"}, amount : Nat]]
    /\ receipt \in [Orders -> [1..MaxReceipts -> [amount : Nat, reversals : {0, 1}]]]
    /\ req \in [Staff -> Request]

\* A request in progress is about an order.
Busy(h) == req[h].kind # "none"
Aimed == \A h \in Staff : Busy(h) => req[h].o \in Orders
Resting == \A h \in Staff : ~Busy(h) => req[h] = Idle

\* Requests that overlap on an order.
Compatible ==
    \A g, h \in Staff :
        g # h /\ Busy(g) /\ Busy(h) /\ req[g].o = req[h].o
        => {req[g].kind, req[h].kind} \in Overlaps

\* The books of one order.
BooksKnown(o) ==
    /\ order[o].status = "none" <=> due[o].state = "none"
    /\ due[o].state = "none" => due[o].amount = 0 /\ Made(o) = {}
    /\ order[o].status # "none" => order[o].total > 0
    /\ due[o].state # "none" => due[o].amount = order[o].total
    /\ 0 <= Paid(o) /\ Paid(o) <= due[o].amount
    /\ due[o].state = "void" => Paid(o) = 0

\* What is still true of what request h has read.
Fresh(h) ==
    LET k == req[h].kind  at == req[h].at  o == req[h].o IN
    /\ k = "create" => /\ at = "write" /\ order[o].status = "none"
                       /\ req[h].total > 0 /\ req[h].amount \in {0, req[h].total}
    /\ k = "edit" => /\ at = "write" /\ order[o].status \in Live
                     /\ req[h].before = order[o].line
                     /\ req[h].total > 0 /\ Paid(o) <= req[h].total
    /\ k = "light" => at = "write" /\ order[o].status \in Live /\ req[h].status \in Live
    /\ k = "cancel" =>
          /\ at \in {"write", "due", "void"}
          /\ at = "write" => /\ order[o].status \in Live /\ req[h].before = order[o].line
                             /\ req[h].status = "live" => Paid(o) = 0
                             /\ req[h].status # "live" => due[o].state # "live"
          /\ at # "write" => order[o].status = "CANCELLED" /\ Paid(o) = 0
    /\ k = "void" => at \in {"due", "void"} /\ due[o].state # "none"
    /\ k = "restore" => /\ at = "write" /\ order[o].status = "CANCELLED" /\ due[o].state = "void"
                        /\ req[h].before = order[o].line
    /\ k = "pay" => /\ at = "write" /\ due[o].state = "live" /\ req[h].amount > 0
                    /\ req[h].amount + Paid(o) <= due[o].amount
    /\ k = "dispatch" => at \in {"book", "forward"} /\ order[o].status \in Live

\* A request about to void an invoice has read its receipts, none reversed.
Voiding(h) ==
    /\ req[h].at \in {"due", "void"} => req[h].kind \in {"cancel", "void"}
    /\ req[h].at = "void" =>
          /\ req[h].entries = Made(req[h].o)
          /\ \A r \in Made(req[h].o) : receipt[req[h].o][r].reversals = 0

IInv == /\ Typed /\ Aimed /\ Resting /\ Compatible /\ StockBalanced
        /\ \A o \in Orders : BooksKnown(o)
        /\ \A h \in Staff : Fresh(h) /\ Voiding(h)

-----------------------------------------------------------------------------
(***************************************************************************)
(* Which requests may run beside which.                                    *)
(***************************************************************************)
LEMMA PairEqual ==
    ASSUME NEW a, NEW b, NEW c, NEW d, {a, b} = {c, d}
    PROVE  (a = c /\ b = d) \/ (a = d /\ b = c)
OBVIOUS

LEMMA SafePairs ==
    ASSUME NEW j, NEW k, {j, k} \in SafeOverlaps
    PROVE  /\ k # "create" /\ k # "restore"
           /\ k = "edit" => j \in {"light", "dispatch", "void"}
           /\ k = "light" => j \in {"light", "pay", "edit", "void", "dispatch"}
           /\ k = "cancel" => j = "void"
           /\ k = "void" => j \in {"light", "dispatch", "edit", "cancel"}
           /\ k = "pay" => j \in {"light", "dispatch"}
           /\ k = "dispatch" => j \in {"light", "pay", "edit", "void"}
<1>1. \/ {j, k} = {"light", "light"}
      \/ \E i \in {"pay", "edit", "void", "dispatch"} : {j, k} = {i, "light"}
      \/ \E i \in {"pay", "edit", "void"} : {j, k} = {i, "dispatch"}
      \/ {j, k} = {"edit", "void"} \/ {j, k} = {"cancel", "void"}
  BY DEF SafeOverlaps
<1> DEFINE Pair(a, b) == (j = a /\ k = b) \/ (j = b /\ k = a)
<1>2. \/ Pair("light", "light")
      \/ \E i \in {"pay", "edit", "void", "dispatch"} : Pair(i, "light")
      \/ \E i \in {"pay", "edit", "void"} : Pair(i, "dispatch")
      \/ Pair("edit", "void") \/ Pair("cancel", "void")
  BY <1>1, PairEqual
<1> QED
  BY <1>2

-----------------------------------------------------------------------------
(***************************************************************************)
(* What was paid.                                                          *)
(***************************************************************************)
Slots == 1..MaxReceipts

LEMMA SlotsFinite == IsFiniteSet(Slots) /\ Slots \subseteq Nat
BY FS_Interval, WholesaleAssumption DEF Slots

LEMMA WorthIs ==
    ASSUME Typed, NEW o \in Orders, NEW r \in Slots
    PROVE  /\ receipt[o][r].amount \in Nat /\ receipt[o][r].reversals \in {0, 1}
           /\ Worth(o)[r] \in Nat
           /\ receipt[o][r].reversals = 0 => Worth(o)[r] = receipt[o][r].amount
           /\ receipt[o][r].reversals = 1 => Worth(o)[r] = 0
           /\ receipt[o][r].amount = 0 => Worth(o)[r] = 0
           /\ r \in Made(o) <=> receipt[o][r].amount > 0
<1>1. receipt[o][r].amount \in Nat /\ receipt[o][r].reversals \in {0, 1}
  BY DEF Typed, Slots
<1>2. Worth(o)[r] = receipt[o][r].amount * (1 - receipt[o][r].reversals)
  BY DEF Worth, Slots
<1>3. CASE receipt[o][r].reversals = 0
  BY <1>1, <1>2, <1>3 DEF Made, Slots
<1>4. CASE receipt[o][r].reversals = 1
  BY <1>1, <1>2, <1>4 DEF Made, Slots
<1> QED
  BY <1>1, <1>3, <1>4

LEMMA PaidIs ==
    ASSUME Typed, NEW o \in Orders
    PROVE  /\ Paid(o) \in Nat
           /\ \A r \in Slots : Worth(o)[r] <= Paid(o)
           /\ Made(o) = {} => Paid(o) = 0
<1>1. \A r \in Slots : Worth(o)[r] \in Nat
  BY WorthIs
<1>2. Paid(o) = SumFunctionOnSet(Worth(o), Slots)
  BY DEF Paid, Slots
<1>3. Paid(o) \in Nat /\ \A r \in Slots : Worth(o)[r] <= Paid(o)
  BY <1>1, <1>2, SlotsFinite, SumNat
<1>4. ASSUME Made(o) = {} PROVE Paid(o) = 0
  <2>1. \A r \in Slots : Worth(o)[r] = 0
    BY <1>4, WorthIs
  <2> QED
    BY <1>2, <2>1, SlotsFinite, SumZero
<1> QED
  BY <1>3, <1>4

\* Receipts that were never reversed add up to nothing only if there are none.
LEMMA NothingPaid ==
    ASSUME Typed, NEW o \in Orders, Paid(o) = 0,
           \A r \in Made(o) : receipt[o][r].reversals = 0
    PROVE  Made(o) = {}
<1> SUFFICES ASSUME NEW r \in Made(o) PROVE FALSE
  OBVIOUS
<1>1. r \in Slots
  BY DEF Made, Slots
<1>2. Worth(o)[r] = receipt[o][r].amount /\ receipt[o][r].amount > 0
  BY <1>1, WorthIs
<1>3. Worth(o)[r] <= 0 /\ Worth(o)[r] \in Nat
  BY <1>1, PaidIs, WorthIs
<1> QED
  BY <1>2, <1>3

\* Of the next state, in the terms of the lemmas above.
LEMMA ReceiptsKept ==
    ASSUME NEW o \in Orders, receipt'[o] = receipt[o]
    PROVE  Paid(o)' = Paid(o) /\ Made(o)' = Made(o)
<1>1. Worth(o)' = Worth(o)
  BY DEF Worth
<1> QED
  BY <1>1 DEF Paid, Made

\* Posting adds one receipt.
LEMMA Posted ==
    ASSUME Typed, NEW o \in Orders, NEW a \in Nat, Post(o, a)
    PROVE  /\ receipt' \in [Orders -> [Slots -> [amount : Nat, reversals : {0, 1}]]]
           /\ \A x \in Orders \ {o} : receipt'[x] = receipt[x]
           /\ Paid(o)' = Paid(o) + a
<1>1. PICK r \in Slots :
         /\ Made(o) = 1..(r - 1)
         /\ receipt' = [receipt EXCEPT ![o][r] = [amount |-> a, reversals |-> 0]]
  BY DEF Post, Slots
<1>2. receipt \in [Orders -> [Slots -> [amount : Nat, reversals : {0, 1}]]]
  BY DEF Typed, Slots
<1>3. receipt' \in [Orders -> [Slots -> [amount : Nat, reversals : {0, 1}]]]
  BY <1>1, <1>2
<1>4. \A x \in Orders \ {o} : receipt'[x] = receipt[x]
  BY <1>1, <1>2
<1>5. /\ receipt'[o][r].amount = a /\ receipt'[o][r].reversals = 0
      /\ \A s \in Slots \ {r} : receipt'[o][s] = receipt[o][s]
  BY <1>1, <1>2
<1>6. r \notin Made(o)
  BY <1>1, SlotsFinite
<1>7. Worth(o)[r] = 0
  BY <1>6, WorthIs
<1>8. Worth(o)'[r] = a * (1 - 0)
  BY <1>5 DEF Worth, Slots
<1>9. \A s \in Slots \ {r} : Worth(o)'[s] = Worth(o)[s]
  BY <1>5 DEF Worth, Slots
<1>10. \A s \in Slots : Worth(o)[s] \in Int /\ Worth(o)'[s] \in Int
  BY <1>8, <1>9, WorthIs
<1>11. SumFunctionOnSet(Worth(o)', Slots)
          = SumFunctionOnSet(Worth(o), Slots) + (Worth(o)'[r] - Worth(o)[r])
  BY <1>9, <1>10, SlotsFinite, SumChange
<1>12. Paid(o) = SumFunctionOnSet(Worth(o), Slots) /\ Paid(o) \in Nat
  BY PaidIs DEF Paid, Slots
<1>13. Paid(o)' = SumFunctionOnSet(Worth(o)', Slots)
  BY DEF Paid, Slots
<1> QED
  BY <1>3, <1>4, <1>7, <1>8, <1>11, <1>12, <1>13

\* Voiding reverses every receipt.
LEMMA Reversed ==
    ASSUME Typed, NEW o \in Orders, \A r \in Made(o) : receipt[o][r].reversals = 0,
           receipt' = [receipt EXCEPT ![o] = [r \in 1..MaxReceipts |->
                IF r \in Made(o) THEN Reversal(receipt[o][r]) ELSE receipt[o][r]]]
    PROVE  /\ receipt' \in [Orders -> [Slots -> [amount : Nat, reversals : {0, 1}]]]
           /\ \A x \in Orders \ {o} : receipt'[x] = receipt[x]
           /\ Paid(o)' = 0 /\ Made(o)' = Made(o)
           /\ \A r \in Slots : receipt'[o][r].amount = receipt[o][r].amount
<1> DEFINE new(r) == IF r \in Made(o) THEN Reversal(receipt[o][r]) ELSE receipt[o][r]
           row == [r \in Slots |-> new(r)]
<1>1. receipt \in [Orders -> [Slots -> [amount : Nat, reversals : {0, 1}]]]
  BY DEF Typed, Slots
<1>2. receipt' = [receipt EXCEPT ![o] = row]
  BY DEF Slots
<1>3. ASSUME NEW r \in Slots
      PROVE  /\ new(r) \in [amount : Nat, reversals : {0, 1}]
             /\ new(r).amount = receipt[o][r].amount
             /\ r \in Made(o) => new(r).reversals = 1
  <2>1. receipt[o][r] \in [amount : Nat, reversals : {0, 1}]
    BY <1>1
  <2>2. r \in Made(o) => receipt[o][r].reversals = 0
    OBVIOUS
  <2> QED
    BY <2>1, <2>2 DEF Reversal
<1> HIDE DEF new
<1>10. /\ row \in [Slots -> [amount : Nat, reversals : {0, 1}]]
      /\ \A r \in Slots : row[r] = new(r)
  BY <1>3
<1> HIDE DEF row
<1>4. receipt' \in [Orders -> [Slots -> [amount : Nat, reversals : {0, 1}]]]
  BY <1>1, <1>2, <1>10
<1>5. \A x \in Orders \ {o} : receipt'[x] = receipt[x]
  BY <1>1, <1>2
<1>6. \A r \in Slots : receipt'[o][r] = new(r)
  BY <1>1, <1>2, <1>10
<1>7. Made(o)' = Made(o)
  BY <1>3, <1>6 DEF Made, Slots
<1>8. ASSUME NEW r \in Slots PROVE Worth(o)'[r] = 0
  <2>1. Worth(o)'[r] = new(r).amount * (1 - new(r).reversals)
    BY <1>6 DEF Worth, Slots
  <2>2. new(r).amount \in Nat /\ new(r).reversals \in {0, 1}
    BY <1>3
  <2>3. CASE r \in Made(o)
    <3>1. new(r).reversals = 1
      BY <1>3, <2>3
    <3> QED
      BY <2>1, <2>2, <3>1
  <2>4. CASE r \notin Made(o)
    <3>1. new(r).amount = 0
      BY <1>3, <2>2, <2>4, WorthIs
    <3> QED
      BY <2>1, <2>2, <3>1
  <2> QED
    BY <2>3, <2>4
<1>9. Paid(o)' = 0
  <2>1. SumFunctionOnSet(Worth(o)', Slots) = 0
    BY <1>8, SlotsFinite, SumZero
  <2> QED
    BY <2>1 DEF Paid, Slots
<1> QED
  BY <1>3, <1>4, <1>5, <1>6, <1>7, <1>9

-----------------------------------------------------------------------------
(***************************************************************************)
(* The shelf.                                                              *)
(***************************************************************************)
SoldBy(p) == [o \in Orders |-> Sold(o, p)]

LEMMA LineIs ==
    ASSUME Typed, NEW o \in Orders, NEW p \in SKUs
    PROVE  order[o].line[p] \in Nat
<1>1. order[o].line \in [SKUs -> 0..MaxQty]
  BY DEF Typed, Lines
<1> QED
  BY <1>1, WholesaleAssumption

LEMMA SoldStays ==
    ASSUME StockBalanced, UNCHANGED stock,
           \A x \in Orders, p \in SKUs : Sold(x, p)' = Sold(x, p)
    PROVE  StockBalanced'
<1>1. \A p \in SKUs : SoldBy(p)' = SoldBy(p)
  BY DEF SoldBy
<1>2. \A p \in SKUs \ Digital : stock[p] = -SumFunctionOnSet(SoldBy(p), Orders)
  BY DEF StockBalanced, SoldBy
<1>3. \A p \in SKUs \ Digital : stock'[p] = -SumFunctionOnSet(SoldBy(p)', Orders)
  BY <1>1, <1>2
<1> QED
  BY <1>3 DEF StockBalanced, SoldBy

\* The shelf gives up what one order takes.
LEMMA SoldMoves ==
    ASSUME Typed, StockBalanced, NEW o \in Orders, NEW n, moveStock(n),
           \A x \in Orders \ {o}, p \in SKUs : Sold(x, p)' = Sold(x, p),
           \A p \in SKUs : Sold(o, p)' \in Int /\ n[p] = Sold(o, p) - Sold(o, p)'
    PROVE  StockBalanced' /\ stock' \in [SKUs -> Int]
<1>1. \A x \in Orders, p \in SKUs : Sold(x, p) \in Int
  BY LineIs DEF Sold
<1>2. \A x \in Orders, p \in SKUs : Sold(x, p)' \in Int
  BY <1>1
<1>3. \A p \in SKUs : n[p] \in Int
  BY <1>1, <1>2
<1>4. stock' \in [SKUs -> Int]
  BY <1>3 DEF moveStock, Typed
<1>5. ASSUME NEW p \in SKUs \ Digital
      PROVE  stock'[p] = -SumFunctionOnSet(SoldBy(p)', Orders)
  <2>1. stock[p] = -SumFunctionOnSet(SoldBy(p), Orders)
    BY DEF StockBalanced, SoldBy
  <2>2. stock'[p] = stock[p] + (Sold(o, p) - Sold(o, p)')
    BY DEF moveStock
  <2>3. /\ \A x \in Orders : SoldBy(p)[x] = Sold(x, p)
        /\ \A x \in Orders : SoldBy(p)'[x] = Sold(x, p)'
    BY DEF SoldBy
  <2>4. \A x \in Orders : SoldBy(p)[x] \in Int /\ SoldBy(p)'[x] \in Int
    BY <1>1, <1>2, <2>3
  <2>5. \A x \in Orders \ {o} : SoldBy(p)'[x] = SoldBy(p)[x]
    BY <2>3
  <2>6. SumFunctionOnSet(SoldBy(p)', Orders)
           = SumFunctionOnSet(SoldBy(p), Orders) + (SoldBy(p)'[o] - SoldBy(p)[o])
    BY <2>4, <2>5, SumChange, WholesaleAssumption
  <2>7. SumFunctionOnSet(SoldBy(p), Orders) \in Int
    BY <2>4, SumInt, WholesaleAssumption
  <2>8. Sold(o, p) \in Int /\ Sold(o, p)' \in Int
    BY <1>1, <1>2
  <2> QED
    BY <2>1, <2>2, <2>3, <2>6, <2>7, <2>8
<1>6. StockBalanced'
  BY <1>5 DEF StockBalanced, SoldBy
<1> QED
  BY <1>4, <1>6

-----------------------------------------------------------------------------
(***************************************************************************)
(* Requests beside each other.                                             *)
(***************************************************************************)
Safe == Overlaps \subseteq SafeOverlaps /\ Practices = {}

\* g's order looks to it as it did.
SameFor(g) ==
    LET x == req[g].o IN
    /\ UNCHANGED <<order[x].line, due[x], receipt[x]>>
    /\ order'[x].status \in Live <=> order[x].status \in Live
    /\ order'[x].status = "none" <=> order[x].status = "none"
    /\ order'[x].status = "CANCELLED" <=> order[x].status = "CANCELLED"

LEMMA FreshSame ==
    ASSUME IInv, NEW g \in Staff, req'[g] = req[g], Busy(g), SameFor(g)
    PROVE  Fresh(g)' /\ Voiding(g)'
<1>1. PICK x \in Orders : x = req[g].o
  BY DEF IInv, Aimed
<1>2. Paid(x)' = Paid(x) /\ Made(x)' = Made(x)
  BY <1>1, ReceiptsKept DEF SameFor
<1>3. Fresh(g) /\ Voiding(g)
  BY DEF IInv
<1>4. /\ UNCHANGED <<order[x].line, due[x], receipt[x]>>
      /\ order'[x].status \in Live <=> order[x].status \in Live
      /\ order'[x].status = "none" <=> order[x].status = "none"
      /\ order'[x].status = "CANCELLED" <=> order[x].status = "CANCELLED"
  BY <1>1 DEF SameFor
<1>5. req'[g].o = x /\ req[g].o = x
  BY <1>1
<1>6. Voiding(g)'
  BY <1>2, <1>3, <1>4, <1>5 DEF Voiding
<1>7. Fresh(g)'
  BY <1>2, <1>3, <1>4, <1>5 DEF Fresh
<1> QED
  BY <1>6, <1>7

\* Nobody runs beside h unless the kinds allow it.
LEMMA Beside ==
    ASSUME IInv, Safe, NEW g \in Staff, NEW h \in Staff, g # h, Busy(g), Busy(h),
           req[g].o = req[h].o
    PROVE  {req[g].kind, req[h].kind} \in SafeOverlaps
BY DEF IInv, Safe, Compatible

\* Request h changes what it knows, or ends.
Goes(h, q) ==
    /\ req' = [req EXCEPT ![h] = q]
    /\ q = Idle \/ (q \in Request /\ q.kind = req[h].kind /\ q.o = req[h].o)

LEMMA RequestsKept ==
    ASSUME IInv, NEW h \in Staff, Busy(h), NEW q, Goes(h, q)
    PROVE  /\ req' \in [Staff -> Request] /\ req'[h] = q
           /\ \A g \in Staff \ {h} : req'[g] = req[g]
           /\ Aimed' /\ Resting' /\ Compatible'
<1>1. Idle \in Request /\ Idle.kind = "none"
  <2>1. NoLines \in Lines
    BY WholesaleAssumption DEF NoLines, Lines
  <2> QED
    BY <2>1 DEF Idle, Request
<1>2. req \in [Staff -> Request] /\ Compatible /\ Aimed /\ Resting
  BY DEF IInv, Typed
<1>3. /\ req' \in [Staff -> Request] /\ req'[h] = q
      /\ \A g \in Staff \ {h} : req'[g] = req[g]
  BY <1>1, <1>2 DEF Goes
<1>4. q.kind = "none" \/ (q.kind = req[h].kind /\ q.o = req[h].o)
  BY <1>1 DEF Goes
<1>5. \A g \in Staff : Busy(g)' => /\ Busy(g)
                                   /\ req'[g].kind = req[g].kind /\ req'[g].o = req[g].o
  BY <1>3, <1>4 DEF Busy
<1>6. Aimed'
  BY <1>2, <1>5 DEF Aimed
<1>7. Compatible'
  BY <1>2, <1>5 DEF Compatible
<1>8. Resting'
  <2>1. q.kind = "none" => q = Idle
    BY DEF Goes, Busy
  <2> QED
    BY <1>2, <1>3, <2>1 DEF Resting, Busy
<1> QED
  BY <1>3, <1>6, <1>7, <1>8

LEMMA IdleIsFine ==
    ASSUME NEW h \in Staff, req'[h] = Idle
    PROVE  Fresh(h)' /\ Voiding(h)'
BY DEF Fresh, Voiding, Idle

LEMMA OnlyBusyCounts ==
    ASSUME IInv, NEW g \in Staff, req'[g] = req[g], Busy(g) => Fresh(g)' /\ Voiding(g)'
    PROVE  Fresh(g)' /\ Voiding(g)'
<1>1. CASE ~Busy(g)
  <2>1. req'[g] = Idle
    BY <1>1 DEF IInv, Resting
  <2> QED
    BY <2>1, IdleIsFine
<1> QED
  BY <1>1

LEMMA BooksKept ==
    ASSUME IInv, NEW o \in Orders, UNCHANGED <<due[o], receipt[o], order[o].total>>,
           order'[o].status = "none" <=> order[o].status = "none"
    PROVE  BooksKnown(o)'
<1>1. Paid(o)' = Paid(o) /\ Made(o)' = Made(o)
  BY ReceiptsKept
<1>2. BooksKnown(o)
  BY DEF IInv
<1> QED
  BY <1>1, <1>2 DEF BooksKnown

LEMMA SoldKept ==
    ASSUME NEW o \in Orders, order'[o].line = order[o].line,
           order'[o].status \in Live <=> order[o].status \in Live
    PROVE  \A p \in SKUs : Sold(o, p)' = Sold(o, p)
BY DEF Sold

-----------------------------------------------------------------------------
(***************************************************************************)
(* A request begins.                                                       *)
(***************************************************************************)
State == <<stock, order, due, receipt>>

LEMMA BeginKeeps ==
    ASSUME IInv, NEW h \in Staff, NEW k \in Kinds, NEW x, NEW q \in Request,
           q.kind = k, q.o = x, req[h] = Idle, MayStart(k, x), x \in Orders,
           req' = [req EXCEPT ![h] = q], UNCHANGED State, Fresh(h)', Voiding(h)'
    PROVE  IInv'
<1>1. /\ req \in [Staff -> Request] /\ Compatible /\ Aimed /\ Resting
  BY DEF IInv, Typed
<1>2. /\ req' \in [Staff -> Request] /\ req'[h] = q
      /\ \A g \in Staff \ {h} : req'[g] = req[g]
  BY <1>1
<1>3. Aimed' /\ Resting'
  <2>1. k # "none"
    BY DEF Kinds
  <2> QED
    BY <1>1, <1>2, <2>1 DEF Aimed, Resting, Busy
<1>4. Compatible'
  <2> SUFFICES ASSUME NEW f \in Staff, NEW g \in Staff, f # g, Busy(f)', Busy(g)',
                      req'[f].o = req'[g].o
               PROVE  {req'[f].kind, req'[g].kind} \in Overlaps
    BY DEF Compatible
  <2>1. ASSUME NEW e \in Staff \ {h}, Busy(e)', req'[e].o = x
        PROVE  {k, req'[e].kind} \in Overlaps
    <3>1. req[e] # Idle
      BY <1>2, <2>1 DEF Busy, Idle
    <3> QED
      BY <1>2, <2>1, <3>1 DEF MayStart
  <2>2. CASE f = h
    BY <1>2, <2>1, <2>2
  <2>3. CASE g = h
    <3>1. {k, req'[f].kind} \in Overlaps
      BY <1>2, <2>1, <2>3
    <3>2. {k, req'[f].kind} = {req'[f].kind, k}
      OBVIOUS
    <3> QED
      BY <1>2, <2>3, <3>1, <3>2
  <2>4. CASE f # h /\ g # h
    BY <1>1, <1>2, <2>4 DEF Compatible, Busy
  <2> QED
    BY <2>2, <2>3, <2>4
<1>5. \A g \in Staff : Fresh(g)' /\ Voiding(g)'
  <2> SUFFICES ASSUME NEW g \in Staff, g # h PROVE Fresh(g)' /\ Voiding(g)'
    OBVIOUS
  <2>1. req'[g] = req[g]
    BY <1>2
  <2>2. CASE Busy(g)
    <3>1. SameFor(g)
      BY DEF State, SameFor
    <3> QED
      BY <2>1, <2>2, <3>1, FreshSame
  <2> QED
    BY <2>1, <2>2, OnlyBusyCounts
<1>6. StockBalanced'
  <2>1. \A o \in Orders, p \in SKUs : Sold(o, p)' = Sold(o, p)
    BY DEF Sold, State
  <2> QED
    BY <2>1, SoldStays DEF IInv, State
<1>7. \A o \in Orders : BooksKnown(o)'
  BY BooksKept DEF State
<1>8. Typed'
  BY <1>2 DEF IInv, Typed, State
<1> QED
  BY <1>3, <1>4, <1>5, <1>6, <1>7, <1>8 DEF IInv

LEMMA IdleIsRequest ==
    /\ Idle \in Request /\ NoLines \in Lines
    /\ Idle.kind = "none" /\ Idle.at = "none" /\ Idle.o = "none"
<1>1. NoLines \in Lines
  BY WholesaleAssumption DEF NoLines, Lines
<1> QED
  BY <1>1 DEF Idle, Request

LEMMA Begun ==
    ASSUME IInv, NEW h \in Staff, NEW k \in Kinds, NEW x \in Orders,
           NEW copy \in Request, Begin(h, k, x, copy), UNCHANGED State
    PROVE  /\ req'[h] \in Request /\ req'[h].kind = k /\ req'[h].o = x
           /\ req'[h].at = copy.at /\ req'[h].line = copy.line /\ req'[h].before = copy.before
           /\ req'[h].total = copy.total /\ req'[h].amount = copy.amount
           /\ req'[h].status = copy.status /\ req'[h].entries = copy.entries
           /\ (Fresh(h)' /\ Voiding(h)') => IInv'
<1> DEFINE q == [copy EXCEPT !.kind = k, !.o = x]
<1>1. /\ q \in Request /\ q.kind = k /\ q.o = x
      /\ q.at = copy.at /\ q.line = copy.line /\ q.before = copy.before
      /\ q.total = copy.total /\ q.amount = copy.amount
      /\ q.status = copy.status /\ q.entries = copy.entries
  BY DEF Request
<1>2. req[h] = Idle /\ MayStart(k, x) /\ req' = [req EXCEPT ![h] = q]
  BY DEF Begin
<1> HIDE DEF q
<1>3. req'[h] = q
  BY <1>2 DEF IInv, Typed
<1>4. ASSUME Fresh(h)', Voiding(h)' PROVE IInv'
  BY <1>1, <1>2, <1>4, BeginKeeps
<1> QED
  BY <1>1, <1>3, <1>4

LEMMA TotalIs ==
    ASSUME NEW line \in Lines, NEW charge \in {0, 1}
    PROVE  /\ Total(line, charge) \in Nat
           /\ line # NoLines => Total(line, charge) > 0
<1>1. \A p \in SKUs : line[p] \in Nat
  BY WholesaleAssumption DEF Lines
<1>2. /\ SumFunctionOnSet(line, SKUs) \in Nat
      /\ \A p \in SKUs : line[p] <= SumFunctionOnSet(line, SKUs)
  BY <1>1, SumNat, WholesaleAssumption
<1>3. Total(line, charge) = SumFunctionOnSet(line, SKUs) + charge
  BY DEF Total
<1>4. Total(line, charge) \in Nat
  BY <1>2, <1>3
<1>5. ASSUME line # NoLines PROVE Total(line, charge) > 0
  <2>1. PICK p \in SKUs : line[p] # 0
    BY <1>5 DEF Lines, NoLines
  <2> QED
    BY <1>1, <1>2, <1>3, <2>1
<1> QED
  BY <1>4, <1>5

LEMMA CreateReads ==
    ASSUME IInv, NEW h \in Staff, NEW o \in Orders, ReadForCreate(h, o)
    PROVE  IInv'
<1>1. PICK line \in Lines \ {NoLines}, charge \in {0, 1} : \E paid \in {0, Total(line, charge)} :
         Begin(h, "create", o, [Idle EXCEPT !.at = "write", !.line = line,
                                            !.total = Total(line, charge), !.amount = paid])
  BY DEF ReadForCreate
<1> DEFINE t == Total(line, charge)
<1>2. PICK paid \in {0, t} :
         Begin(h, "create", o, [Idle EXCEPT !.at = "write", !.line = line,
                                            !.total = t, !.amount = paid])
  BY <1>1
<1> DEFINE copy == [Idle EXCEPT !.at = "write", !.line = line, !.total = t, !.amount = paid]
<1>3. t \in Nat /\ t > 0 /\ paid \in {0, t} /\ Begin(h, "create", o, copy)
  BY <1>2, TotalIs
<1> HIDE DEF t
<1>4. line \in Lines /\ t \in Nat /\ paid \in Nat
  BY <1>3
<1>5. copy \in Request /\ copy.at = "write" /\ copy.total = t /\ copy.amount = paid
  BY <1>4, IdleIsRequest DEF Request
<1> HIDE DEF copy
<1>6. UNCHANGED State /\ order[o].status = "none"
  BY DEF ReadForCreate, State
<1>7. /\ req'[h].kind = "create" /\ req'[h].o = o /\ req'[h].at = "write"
      /\ req'[h].total = t /\ req'[h].amount = paid
      /\ (Fresh(h)' /\ Voiding(h)') => IInv'
  BY <1>3, <1>5, <1>6, Begun DEF Kinds
<1>8. Fresh(h)'
  BY <1>3, <1>6, <1>7 DEF Fresh, State
<1>9. Voiding(h)'
  BY <1>7 DEF Voiding
<1> QED
  BY <1>7, <1>8, <1>9

LEMMA EditReads ==
    ASSUME IInv, NEW h \in Staff, NEW o \in Orders, ReadForEdit(h, o)
    PROVE  IInv'
<1>1. PICK line \in Lines \ {NoLines}, charge \in {0, 1} :
         /\ Total(line, charge) >= Paid(o)
         /\ Begin(h, "edit", o, [Idle EXCEPT !.at = "write", !.line = line,
                                             !.before = order[o].line,
                                             !.total = Total(line, charge)])
  BY DEF ReadForEdit
<1>2. Total(line, charge) \in Nat /\ Total(line, charge) > 0
  BY TotalIs
<1> DEFINE t == Total(line, charge)
           before == order[o].line
           copy == [Idle EXCEPT !.at = "write", !.line = line, !.before = before, !.total = t]
<1>3. t \in Nat /\ t > 0 /\ t >= Paid(o) /\ Begin(h, "edit", o, copy)
  BY <1>1, <1>2
<1>4. before \in Lines /\ before = order[o].line
  BY DEF IInv, Typed
<1> HIDE DEF t, before
<1>5. copy \in Request /\ copy.at = "write" /\ copy.total = t /\ copy.before = before
  BY <1>3, <1>4, IdleIsRequest DEF Request
<1> HIDE DEF copy
<1>6. UNCHANGED State /\ order[o].status \in Live
  BY DEF ReadForEdit, State
<1>7. /\ req'[h].kind = "edit" /\ req'[h].o = o /\ req'[h].at = "write"
      /\ req'[h].total = t /\ req'[h].before = before
      /\ (Fresh(h)' /\ Voiding(h)') => IInv'
  BY <1>3, <1>5, <1>6, Begun DEF Kinds
<1>8. Paid(o)' = Paid(o) /\ Paid(o) \in Nat
  BY <1>6, ReceiptsKept, PaidIs DEF State, IInv
<1>9. order'[o].line = before /\ order'[o].status \in Live
  BY <1>4, <1>6 DEF State
<1>10. Paid(o)' <= t
  BY <1>3, <1>8
<1>11. Fresh(h)'
  BY <1>3, <1>7, <1>9, <1>10 DEF Fresh
<1>12. Voiding(h)'
  BY <1>7 DEF Voiding
<1> QED
  BY <1>7, <1>11, <1>12

LEMMA LightReads ==
    ASSUME IInv, NEW h \in Staff, NEW o \in Orders, ReadForLight(h, o)
    PROVE  IInv'
<1>1. PICK status \in Live \ {order[o].status} :
         Begin(h, "light", o, [Idle EXCEPT !.at = "write", !.status = status])
  BY DEF ReadForLight
<1> DEFINE copy == [Idle EXCEPT !.at = "write", !.status = status]
<1>2. copy \in Request /\ copy.at = "write" /\ copy.status = status
  BY <1>1, IdleIsRequest DEF Request, Live
<1>3. Begin(h, "light", o, copy)
  BY <1>1
<1> HIDE DEF copy
<1>4. UNCHANGED State /\ order[o].status \in Live
  BY DEF ReadForLight, State
<1>5. /\ req'[h].kind = "light" /\ req'[h].o = o /\ req'[h].at = "write"
      /\ req'[h].status = status
      /\ (Fresh(h)' /\ Voiding(h)') => IInv'
  BY <1>2, <1>3, <1>4, Begun DEF Kinds
<1>6. Fresh(h)' /\ Voiding(h)'
  BY <1>1, <1>4, <1>5 DEF Fresh, Voiding, State
<1> QED
  BY <1>5, <1>6

LEMMA DispatchReads ==
    ASSUME IInv, NEW h \in Staff, NEW o \in Orders, ReadForDispatch(h, o)
    PROVE  IInv'
<1> DEFINE status == order[o].status
           copy == [Idle EXCEPT !.at = "book", !.status = status]
<1>1. status \in Live /\ Begin(h, "dispatch", o, copy) /\ UNCHANGED State
  BY DEF ReadForDispatch, State
<1>2. copy \in Request /\ copy.at = "book"
  BY <1>1, IdleIsRequest DEF Request, Live
<1> HIDE DEF copy
<1>3. /\ req'[h].kind = "dispatch" /\ req'[h].o = o /\ req'[h].at = "book"
      /\ (Fresh(h)' /\ Voiding(h)') => IInv'
  BY <1>1, <1>2, Begun DEF Kinds
<1>4. Fresh(h)' /\ Voiding(h)'
  BY <1>1, <1>3 DEF Fresh, Voiding, State
<1> QED
  BY <1>3, <1>4

LEMMA PaymentReads ==
    ASSUME IInv, NEW h \in Staff, NEW o \in Orders, ReadForPayment(h, o)
    PROVE  IInv'
<1>1. PICK amount \in 1..(due[o].amount - Paid(o)) :
         Begin(h, "pay", o, [Idle EXCEPT !.at = "write", !.amount = amount])
  BY DEF ReadForPayment
<1> DEFINE copy == [Idle EXCEPT !.at = "write", !.amount = amount]
<1>2. Paid(o) \in Nat /\ due[o].amount \in Nat
  BY PaidIs DEF IInv, Typed
<1>3. amount \in Nat /\ amount > 0 /\ amount + Paid(o) <= due[o].amount
  BY <1>2
<1>4. copy \in Request /\ copy.at = "write" /\ copy.amount = amount
  BY <1>3, IdleIsRequest DEF Request
<1>5. Begin(h, "pay", o, copy)
  BY <1>1
<1> HIDE DEF copy
<1>6. UNCHANGED State /\ due[o].state = "live"
  BY DEF ReadForPayment, State
<1>7. /\ req'[h].kind = "pay" /\ req'[h].o = o /\ req'[h].at = "write"
      /\ req'[h].amount = amount
      /\ (Fresh(h)' /\ Voiding(h)') => IInv'
  BY <1>4, <1>5, <1>6, Begun DEF Kinds
<1>8. Paid(o)' = Paid(o) /\ due'[o] = due[o]
  BY <1>6, ReceiptsKept DEF State
<1>9. amount + Paid(o)' <= due'[o].amount /\ due'[o].state = "live"
  BY <1>3, <1>6, <1>8
<1>10. Fresh(h)' /\ Voiding(h)'
  BY <1>3, <1>7, <1>9 DEF Fresh, Voiding
<1> QED
  BY <1>7, <1>10

LEMMA VoidReads ==
    ASSUME IInv, NEW h \in Staff, NEW o \in Orders, ReadForVoid(h, o)
    PROVE  IInv'
<1> DEFINE copy == [Idle EXCEPT !.at = "due"]
<1>1. copy \in Request /\ copy.at = "due"
  BY IdleIsRequest DEF Request
<1>2. /\ Begin(h, "void", o, copy) /\ UNCHANGED State /\ due[o].state = "live"
  BY DEF ReadForVoid, State
<1> HIDE DEF copy
<1>3. /\ req'[h].kind = "void" /\ req'[h].o = o /\ req'[h].at = "due"
      /\ (Fresh(h)' /\ Voiding(h)') => IInv'
  BY <1>1, <1>2, Begun DEF Kinds
<1>4. due'[o].state = "live"
  BY <1>2 DEF State
<1>5. Fresh(h)' /\ Voiding(h)'
  BY <1>3, <1>4 DEF Fresh, Voiding
<1> QED
  BY <1>3, <1>5

LEMMA RestoreReads ==
    ASSUME IInv, NEW h \in Staff, NEW o \in Orders, ReadForRestore(h, o)
    PROVE  IInv'
<1> DEFINE before == order[o].line
           copy == [Idle EXCEPT !.at = "write", !.before = before]
<1>1. /\ Begin(h, "restore", o, copy) /\ UNCHANGED State /\ order[o].status = "CANCELLED"
      /\ due[o].state = "void"
  BY DEF ReadForRestore, State
<1>2. before \in Lines /\ before = order[o].line
  BY DEF IInv, Typed
<1> HIDE DEF before
<1>3. copy \in Request /\ copy.at = "write" /\ copy.before = before
  BY <1>2, IdleIsRequest DEF Request
<1> HIDE DEF copy
<1>4. /\ req'[h].kind = "restore" /\ req'[h].o = o /\ req'[h].at = "write"
      /\ req'[h].before = before
      /\ (Fresh(h)' /\ Voiding(h)') => IInv'
  BY <1>1, <1>3, Begun DEF Kinds
<1>5. Fresh(h)' /\ Voiding(h)'
  BY <1>1, <1>2, <1>4 DEF Fresh, Voiding, State
<1> QED
  BY <1>4, <1>5

LEMMA CancelReads ==
    ASSUME IInv, NEW h \in Staff, NEW o \in Orders, ReadForCancel(h, o)
    PROVE  IInv'
<1> DEFINE before == order[o].line
           state == due[o].state
           copy == [Idle EXCEPT !.at = "write", !.before = before, !.status = state]
<1>1. /\ Begin(h, "cancel", o, copy) /\ UNCHANGED State /\ order[o].status \in Live
      /\ state = "live" => Paid(o) = 0
  BY DEF ReadForCancel, State
<1>2. before \in Lines /\ before = order[o].line
      /\ state \in {"none", "live", "void"} /\ state = due[o].state
  BY DEF IInv, Typed
<1> HIDE DEF before, state
<1>3. copy \in Request /\ copy.at = "write" /\ copy.before = before /\ copy.status = state
  BY <1>2, IdleIsRequest DEF Request
<1> HIDE DEF copy
<1>4. /\ req'[h].kind = "cancel" /\ req'[h].o = o /\ req'[h].at = "write"
      /\ req'[h].before = before /\ req'[h].status = state
      /\ (Fresh(h)' /\ Voiding(h)') => IInv'
  BY <1>1, <1>3, Begun DEF Kinds
<1>5. Paid(o)' = Paid(o)
  BY <1>1, ReceiptsKept DEF State
<1>6. Fresh(h)' /\ Voiding(h)'
  BY <1>1, <1>2, <1>4, <1>5 DEF Fresh, Voiding, State
<1> QED
  BY <1>4, <1>6

-----------------------------------------------------------------------------
(***************************************************************************)
(* A request writes.  Only its own order changes, so the requests about    *)
(* other orders are as they were, and the steps below look at the kinds    *)
(* that may run beside it.                                                 *)
(***************************************************************************)
LEMMA WriteKeeps ==
    ASSUME IInv, Safe, NEW h \in Staff, NEW o \in Orders, NEW q,
           Busy(h), req[h].o = o, Goes(h, q),
           \A x \in Orders \ {o} :
              order'[x] = order[x] /\ due'[x] = due[x] /\ receipt'[x] = receipt[x],
           order' \in [Orders -> [status : Live \cup {"none", "CANCELLED"},
                                  line : Lines, total : Nat]],
           due' \in [Orders -> [state : {"none", "live", "void"}, amount : Nat]],
           receipt' \in [Orders -> [Slots -> [amount : Nat, reversals : {0, 1}]]],
           stock' \in [SKUs -> Int], StockBalanced', BooksKnown(o)',
           Fresh(h)', Voiding(h)',
           \A g \in Staff \ {h} :
              /\ Busy(g) /\ req[g].o = o
              /\ {req[g].kind, req[h].kind} \in SafeOverlaps /\ req'[g] = req[g]
              => Fresh(g)' /\ Voiding(g)'
    PROVE  IInv'
<1>1. /\ req' \in [Staff -> Request] /\ req'[h] = q
      /\ \A g \in Staff \ {h} : req'[g] = req[g]
      /\ Aimed' /\ Resting' /\ Compatible'
  BY RequestsKept
<1>2. Typed'
  BY <1>1 DEF IInv, Typed, Slots
<1>3. \A x \in Orders : BooksKnown(x)'
  <2> SUFFICES ASSUME NEW x \in Orders, x # o PROVE BooksKnown(x)'
    OBVIOUS
  <2> QED
    BY BooksKept
<1>4. ASSUME NEW g \in Staff PROVE Fresh(g)' /\ Voiding(g)'
  <2> SUFFICES ASSUME g # h, Busy(g) PROVE Fresh(g)' /\ Voiding(g)'
    BY <1>1, OnlyBusyCounts
  <2>1. req'[g] = req[g]
    BY <1>1
  <2>2. CASE req[g].o = o
    <3>1. {req[g].kind, req[h].kind} \in SafeOverlaps
      BY <2>2, Beside
    <3> QED
      BY <2>1, <2>2, <3>1
  <2>3. CASE req[g].o # o
    <3>1. req[g].o \in Orders
      BY DEF IInv, Aimed
    <3>2. PICK x \in Orders \ {o} : x = req[g].o /\ x = req'[g].o
      BY <2>1, <2>3, <3>1
    <3>3. order'[x] = order[x] /\ due'[x] = due[x] /\ receipt'[x] = receipt[x]
      OBVIOUS
    <3>4. SameFor(g)
      BY <3>2, <3>3 DEF SameFor
    <3> QED
      BY <2>1, <3>4, FreshSame
  <2> QED
    BY <2>2, <2>3
<1> QED
  BY <1>1, <1>2, <1>3, <1>4 DEF IInv

\* Which order a request writes to, and its types.
LEMMA Target ==
    ASSUME IInv, NEW h \in Staff, Busy(h)
    PROVE  /\ req[h].o \in Orders /\ req[h] \in Request
           /\ order[req[h].o] \in [status : Live \cup {"none", "CANCELLED"},
                                   line : Lines, total : Nat]
           /\ due[req[h].o] \in [state : {"none", "live", "void"}, amount : Nat]
           /\ receipt \in [Orders -> [Slots -> [amount : Nat, reversals : {0, 1}]]]
           /\ BooksKnown(req[h].o) /\ Fresh(h) /\ Voiding(h)
           /\ Paid(req[h].o) \in Nat
<1>1. req[h].o \in Orders
  BY DEF IInv, Aimed
<1>2. Paid(req[h].o) \in Nat
  BY <1>1, PaidIs DEF IInv
<1> QED
  BY <1>1, <1>2 DEF IInv, Typed, Slots

\* Placing and restoring run alone on their order.
LEMMA Alone ==
    ASSUME NEW h \in Staff, req[h].kind \in {"create", "restore"}
    PROVE  \A g \in Staff \ {h} : {req[g].kind, req[h].kind} \notin SafeOverlaps
BY SafePairs

LEMMA GoodsOf ==
    ASSUME IInv, NEW o \in Orders, NEW p \in SKUs
    PROVE  /\ order[o].line[p] \in Int /\ NoLines[p] = 0
           /\ order[o].status \in Live => Sold(o, p) = order[o].line[p]
           /\ order[o].status \notin Live => Sold(o, p) = 0
BY LineIs DEF IInv, Sold, NoLines

LEMMA CreateWrites ==
    ASSUME IInv, Safe, NEW h \in Staff, createOrder(h)
    PROVE  IInv'
<1>1. req[h].kind = "create" /\ Busy(h)
  BY DEF createOrder, At, Busy
<1>2. PICK o \in Orders, line \in Lines, total \in Nat, amount \in Nat :
         /\ o = req[h].o /\ line = req[h].line /\ total = req[h].total /\ amount = req[h].amount
         /\ BooksKnown(o) /\ order[o].status = "none"
         /\ total > 0 /\ amount \in {0, total}
         /\ receipt \in [Orders -> [Slots -> [amount : Nat, reversals : {0, 1}]]]
  BY <1>1, Target DEF Request, Fresh
<1>3. PICK status \in Live :
         order' = [order EXCEPT ![o] = [status |-> status, line |-> line, total |-> total]]
  BY <1>2 DEF createOrder, Safe
<1>4. /\ moveStock(Minus(NoLines, line))
      /\ due' = [due EXCEPT ![o] = [state |-> "live", amount |-> total]]
      /\ (amount = 0 /\ UNCHANGED receipt) \/ (amount > 0 /\ Post(o, amount))
      /\ req' = [req EXCEPT ![h] = Idle]
  BY <1>2 DEF createOrder, End
<1>5. req[h].o = o /\ Goes(h, Idle)
  BY <1>2, <1>4 DEF Goes
<1>6. /\ order' \in [Orders -> [status : Live \cup {"none", "CANCELLED"},
                                line : Lines, total : Nat]]
      /\ order'[o] = [status |-> status, line |-> line, total |-> total]
      /\ \A x \in Orders \ {o} : order'[x] = order[x]
  BY <1>2, <1>3 DEF IInv, Typed
<1>7. /\ due' \in [Orders -> [state : {"none", "live", "void"}, amount : Nat]]
      /\ due'[o] = [state |-> "live", amount |-> total]
      /\ \A x \in Orders \ {o} : due'[x] = due[x]
  BY <1>2, <1>4 DEF IInv, Typed
<1>8. Paid(o) = 0
  BY <1>2, PaidIs DEF BooksKnown, IInv
<1>9. /\ receipt' \in [Orders -> [Slots -> [amount : Nat, reversals : {0, 1}]]]
      /\ \A x \in Orders \ {o} : receipt'[x] = receipt[x]
      /\ Paid(o)' = amount
  <2>1. CASE amount = 0 /\ UNCHANGED receipt
    <3>1. Paid(o)' = Paid(o)
      BY <1>2, <2>1, ReceiptsKept
    <3> QED
      BY <1>2, <1>8, <2>1, <3>1
  <2>2. CASE Post(o, amount)
    <3>1. Typed
      BY DEF IInv
    <3>2. /\ receipt' \in [Orders -> [Slots -> [amount : Nat, reversals : {0, 1}]]]
          /\ \A x \in Orders \ {o} : receipt'[x] = receipt[x]
          /\ Paid(o)' = Paid(o) + amount
      BY <1>2, <2>2, <3>1, Posted
    <3> QED
      BY <1>2, <1>8, <3>2
  <2> QED
    BY <1>4, <2>1, <2>2
<1>10. BooksKnown(o)'
  <2>1. 0 <= amount /\ amount <= total
    BY <1>2
  <2>2. status # "none"
    BY DEF Live
  <2> QED
    BY <1>2, <1>6, <1>7, <1>9, <2>1, <2>2 DEF BooksKnown
<1>11. StockBalanced' /\ stock' \in [SKUs -> Int]
  <2>1. \A x \in Orders \ {o}, p \in SKUs : Sold(x, p)' = Sold(x, p)
    BY <1>6 DEF Sold
  <2>2. ASSUME NEW p \in SKUs
        PROVE  Sold(o, p)' \in Int /\ Minus(NoLines, line)[p] = Sold(o, p) - Sold(o, p)'
    <3>1. line[p] \in Int
      BY <1>2, WholesaleAssumption DEF Lines
    <3>2. Sold(o, p)' = line[p] /\ Sold(o, p) = 0
      BY <1>2, <1>6 DEF Sold, Live
    <3>3. Minus(NoLines, line)[p] = 0 - line[p]
      BY DEF Minus, NoLines
    <3> QED
      BY <3>1, <3>2, <3>3
  <2>3. Typed /\ StockBalanced
    BY DEF IInv
  <2> QED
    BY <1>2, <1>4, <2>1, <2>2, <2>3, SoldMoves
<1>12. Fresh(h)' /\ Voiding(h)'
  <2>1. req'[h] = Idle
    BY <1>4 DEF IInv, Typed
  <2> QED
    BY <2>1, IdleIsFine
<1>13. \A g \in Staff \ {h} : {req[g].kind, req[h].kind} \notin SafeOverlaps
  BY <1>1, Alone
<1> QED
  BY <1>1, <1>2, <1>4, <1>5, <1>6, <1>7, <1>9, <1>10, <1>11, <1>12, <1>13, WriteKeeps

LEMMA RestoreWrites ==
    ASSUME IInv, Safe, NEW h \in Staff, restoreOrder(h)
    PROVE  IInv'
<1>1. req[h].kind = "restore" /\ Busy(h)
  BY DEF restoreOrder, At, Busy
<1>2. PICK o \in Orders, before \in Lines :
         /\ o = req[h].o /\ before = req[h].before /\ before = order[o].line
         /\ BooksKnown(o) /\ order[o].status = "CANCELLED" /\ due[o].state = "void"
  BY <1>1, Target DEF Request, Fresh
<1>3. /\ order' = [order EXCEPT ![o].status = "PENDING"]
      /\ due' = [due EXCEPT ![o].state = "live"]
      /\ moveStock(Minus(NoLines, before))
      /\ req' = [req EXCEPT ![h] = Idle]
      /\ UNCHANGED receipt
  BY <1>2 DEF restoreOrder, End
<1>4. req[h].o = o /\ Goes(h, Idle)
  BY <1>2, <1>3 DEF Goes
<1>5. /\ order' \in [Orders -> [status : Live \cup {"none", "CANCELLED"},
                                line : Lines, total : Nat]]
      /\ order'[o].status = "PENDING" /\ order'[o].line = before
      /\ order'[o].total = order[o].total
      /\ \A x \in Orders \ {o} : order'[x] = order[x]
  BY <1>2, <1>3 DEF IInv, Typed, Live
<1>6. /\ due' \in [Orders -> [state : {"none", "live", "void"}, amount : Nat]]
      /\ due'[o].state = "live" /\ due'[o].amount = due[o].amount
      /\ \A x \in Orders \ {o} : due'[x] = due[x]
  BY <1>2, <1>3 DEF IInv, Typed
<1>7. /\ receipt' \in [Orders -> [Slots -> [amount : Nat, reversals : {0, 1}]]]
      /\ \A x \in Orders \ {o} : receipt'[x] = receipt[x]
      /\ Paid(o)' = Paid(o)
  BY <1>3, ReceiptsKept DEF IInv, Typed, Slots
<1>8. BooksKnown(o)'
  BY <1>2, <1>5, <1>6, <1>7 DEF BooksKnown
<1>9. StockBalanced' /\ stock' \in [SKUs -> Int]
  <2>1. \A x \in Orders \ {o}, p \in SKUs : Sold(x, p)' = Sold(x, p)
    BY <1>5 DEF Sold
  <2>2. ASSUME NEW p \in SKUs
        PROVE  Sold(o, p)' \in Int /\ Minus(NoLines, before)[p] = Sold(o, p) - Sold(o, p)'
    <3>1. before[p] \in Int
      BY <1>2, WholesaleAssumption DEF Lines
    <3>2. Sold(o, p)' = before[p] /\ Sold(o, p) = 0
      BY <1>2, <1>5 DEF Sold, Live
    <3>3. Minus(NoLines, before)[p] = 0 - before[p]
      BY DEF Minus, NoLines
    <3> QED
      BY <3>1, <3>2, <3>3
  <2>3. Typed /\ StockBalanced
    BY DEF IInv
  <2> QED
    BY <1>2, <1>3, <2>1, <2>2, <2>3, SoldMoves
<1>10. Fresh(h)' /\ Voiding(h)'
  <2>1. req'[h] = Idle
    BY <1>3 DEF IInv, Typed
  <2> QED
    BY <2>1, IdleIsFine
<1>11. \A g \in Staff \ {h} : {req[g].kind, req[h].kind} \notin SafeOverlaps
  BY <1>1, Alone
<1> QED
  BY <1>1, <1>2, <1>3, <1>4, <1>5, <1>6, <1>7, <1>8, <1>9, <1>10, <1>11, WriteKeeps

LEMMA EditWrites ==
    ASSUME IInv, Safe, NEW h \in Staff, editOrder(h)
    PROVE  IInv'
<1>1. req[h].kind = "edit" /\ Busy(h)
  BY DEF editOrder, At, Busy
<1>2. PICK o \in Orders, before \in Lines, line \in Lines, total \in Nat :
         /\ o = req[h].o /\ before = req[h].before /\ before = order[o].line
         /\ line = req[h].line /\ total = req[h].total
         /\ BooksKnown(o) /\ order[o].status \in Live
         /\ total > 0 /\ Paid(o) <= total /\ Paid(o) \in Nat
  BY <1>1, Target DEF Request, Fresh
<1>3. PICK status \in Live :
         order' = [order EXCEPT ![o] = [status |-> status, line |-> line, total |-> total]]
  BY <1>2 DEF editOrder
<1>4. /\ due' = [due EXCEPT ![o].amount = total]
      /\ moveStock(Minus(before, line))
      /\ req' = [req EXCEPT ![h] = Idle]
      /\ UNCHANGED receipt
  BY <1>2 DEF editOrder, End
<1>5. req[h].o = o /\ Goes(h, Idle)
  BY <1>2, <1>4 DEF Goes
<1>6. /\ order' \in [Orders -> [status : Live \cup {"none", "CANCELLED"},
                                line : Lines, total : Nat]]
      /\ order'[o].status = status /\ order'[o].line = line
      /\ order'[o].total = total
      /\ \A x \in Orders \ {o} : order'[x] = order[x]
  BY <1>2, <1>3 DEF IInv, Typed
<1>7. /\ due' \in [Orders -> [state : {"none", "live", "void"}, amount : Nat]]
      /\ due'[o].state = due[o].state /\ due'[o].amount = total
      /\ \A x \in Orders \ {o} : due'[x] = due[x]
  BY <1>2, <1>4 DEF IInv, Typed
<1>8. /\ receipt' \in [Orders -> [Slots -> [amount : Nat, reversals : {0, 1}]]]
      /\ \A x \in Orders \ {o} : receipt'[x] = receipt[x]
      /\ Paid(o)' = Paid(o) /\ Made(o)' = Made(o)
  BY <1>4, ReceiptsKept DEF IInv, Typed, Slots
<1>9. BooksKnown(o)'
  <2>1. order[o].status # "none" /\ status # "none"
    BY <1>2 DEF Live
  <2>2. due[o].state # "none"
    BY <1>2, <2>1 DEF BooksKnown
  <2>3. 0 <= Paid(o)' /\ Paid(o)' <= total
    BY <1>2, <1>8
  <2>4. due[o].state = "void" => Paid(o)' = 0
    BY <1>2, <1>8 DEF BooksKnown
  <2> QED
    BY <1>2, <1>6, <1>7, <2>1, <2>2, <2>3, <2>4 DEF BooksKnown
<1>10. StockBalanced' /\ stock' \in [SKUs -> Int]
  <2>1. \A x \in Orders \ {o}, p \in SKUs : Sold(x, p)' = Sold(x, p)
    BY <1>6 DEF Sold
  <2>2. ASSUME NEW p \in SKUs
        PROVE  Sold(o, p)' \in Int /\ Minus(before, line)[p] = Sold(o, p) - Sold(o, p)'
    <3>1. line[p] \in Int /\ before[p] \in Int
      BY <1>2, WholesaleAssumption DEF Lines
    <3>2. Sold(o, p)' = line[p] /\ Sold(o, p) = before[p]
      BY <1>2, <1>6 DEF Sold
    <3>3. Minus(before, line)[p] = before[p] - line[p]
      BY DEF Minus
    <3> QED
      BY <3>1, <3>2, <3>3
  <2>3. Typed /\ StockBalanced
    BY DEF IInv
  <2> QED
    BY <1>2, <1>4, <2>1, <2>2, <2>3, SoldMoves
<1>11. Fresh(h)' /\ Voiding(h)'
  <2>1. req'[h] = Idle
    BY <1>4 DEF IInv, Typed
  <2> QED
    BY <2>1, IdleIsFine
<1>12. ASSUME NEW g \in Staff \ {h}, req[g].o = o, req'[g] = req[g],
              {req[g].kind, req[h].kind} \in SafeOverlaps
       PROVE  Fresh(g)' /\ Voiding(g)'
  <2>1. req[g].kind \in {"light", "dispatch", "void"}
    BY <1>1, <1>12, SafePairs
  <2>2. Fresh(g) /\ Voiding(g)
    BY DEF IInv
  <2>3. req'[g].o = o
    BY <1>12
  <2>4. Fresh(g)'
    BY <1>6, <1>7, <1>12, <2>1, <2>2, <2>3 DEF Fresh
  <2>5. Voiding(g)'
    BY <1>4, <1>8, <1>12, <2>2, <2>3 DEF Voiding
  <2> QED
    BY <2>4, <2>5
<1> QED
  BY <1>1, <1>2, <1>3, <1>5, <1>6, <1>7, <1>8, <1>9, <1>10, <1>11, <1>12, WriteKeeps

LEMMA CancelWrites ==
    ASSUME IInv, Safe, NEW h \in Staff, cancelOrder(h)
    PROVE  IInv'
<1>1. req[h].kind = "cancel" /\ req[h].at = "write" /\ Busy(h)
  BY DEF cancelOrder, At, Busy
<1>2. PICK o \in Orders, before \in Lines :
         /\ o = req[h].o /\ before = req[h].before /\ before = order[o].line
         /\ req[h] \in Request
         /\ BooksKnown(o) /\ order[o].status \in Live
         /\ req[h].status = "live" => Paid(o) = 0
         /\ req[h].status # "live" => due[o].state # "live"
  BY <1>1, Target DEF Request, Fresh
<1> DEFINE q == IF req[h].status = "live" THEN [req[h] EXCEPT !.at = "due"] ELSE Idle
<1>3. /\ order' = [order EXCEPT ![o].status = "CANCELLED"]
      /\ moveStock(before)
      /\ req' = [req EXCEPT ![h] = q]
      /\ UNCHANGED <<due, receipt>>
  BY <1>2 DEF cancelOrder, End, Onto
<1>4. /\ req[h].status = "live" =>
            /\ q \in Request /\ q.kind = "cancel" /\ q.o = o /\ q.at = "due"
      /\ req[h].status # "live" => q = Idle
  BY <1>1, <1>2 DEF Request
<1> HIDE DEF q
<1>5. req[h].o = o /\ Goes(h, q) /\ req'[h] = q
  BY <1>1, <1>2, <1>3, <1>4 DEF Goes, IInv, Typed
<1>6. /\ order' \in [Orders -> [status : Live \cup {"none", "CANCELLED"},
                                line : Lines, total : Nat]]
      /\ order'[o].status = "CANCELLED" /\ order'[o].line = before
      /\ order'[o].total = order[o].total
      /\ \A x \in Orders \ {o} : order'[x] = order[x]
  BY <1>2, <1>3 DEF IInv, Typed
<1>7. due' \in [Orders -> [state : {"none", "live", "void"}, amount : Nat]]
  BY <1>3 DEF IInv, Typed
<1>8. /\ receipt' \in [Orders -> [Slots -> [amount : Nat, reversals : {0, 1}]]]
      /\ Paid(o)' = Paid(o) /\ Made(o)' = Made(o)
  BY <1>3, ReceiptsKept DEF IInv, Typed, Slots
<1>9. BooksKnown(o)'
  <2>1. order[o].status # "none"
    BY <1>2 DEF Live
  <2> QED
    BY <1>2, <1>3, <1>6, <2>1, BooksKept
<1>10. StockBalanced' /\ stock' \in [SKUs -> Int]
  <2>1. \A x \in Orders \ {o}, s \in SKUs : Sold(x, s)' = Sold(x, s)
    BY <1>6 DEF Sold
  <2>2. ASSUME NEW s \in SKUs
        PROVE  Sold(o, s)' \in Int /\ before[s] = Sold(o, s) - Sold(o, s)'
    <3>1. before[s] \in Int
      BY <1>2, WholesaleAssumption DEF Lines
    <3>2. Sold(o, s)' = 0 /\ Sold(o, s) = before[s]
      BY <1>2, <1>6 DEF Sold, Live
    <3> QED
      BY <3>1, <3>2
  <2>3. Typed /\ StockBalanced
    BY DEF IInv
  <2> QED
    BY <1>2, <1>3, <2>1, <2>2, <2>3, SoldMoves
<1>11. Fresh(h)' /\ Voiding(h)'
  <2>1. CASE req[h].status = "live"
    <3>1. /\ req'[h].kind = "cancel" /\ req'[h].o = o /\ req'[h].at = "due"
          /\ Paid(o)' = 0
      BY <1>2, <1>4, <1>5, <1>8, <2>1
    <3> QED
      BY <1>2, <1>3, <1>6, <3>1 DEF Fresh, Voiding
  <2>2. CASE req[h].status # "live"
    BY <1>4, <1>5, <2>2, IdleIsFine
  <2> QED
    BY <2>1, <2>2
<1>12. ASSUME NEW g \in Staff \ {h}, req[g].o = o, req'[g] = req[g],
              {req[g].kind, req[h].kind} \in SafeOverlaps
       PROVE  Fresh(g)' /\ Voiding(g)'
  <2>1. req[g].kind = "void"
    BY <1>1, <1>12, SafePairs
  <2>2. Fresh(g) /\ Voiding(g)
    BY DEF IInv
  <2>3. req'[g].o = o
    BY <1>12
  <2>4. Fresh(g)'
    BY <1>3, <1>12, <2>1, <2>2, <2>3 DEF Fresh
  <2>5. Voiding(g)'
    BY <1>3, <1>8, <1>12, <2>2, <2>3 DEF Voiding
  <2> QED
    BY <2>4, <2>5
<1> QED
  BY <1>1, <1>2, <1>3, <1>5, <1>6, <1>7, <1>8, <1>9, <1>10, <1>11, <1>12,
     WriteKeeps

LEMMA VoidWrites ==
    ASSUME IInv, Safe, NEW h \in Staff, void(h)
    PROVE  IInv'
<1>1. req[h].at = "void" /\ req[h].kind \in {"cancel", "void"} /\ Busy(h)
  BY DEF void, IInv, Voiding, Busy
<1>2. PICK o \in Orders :
         /\ o = req[h].o /\ BooksKnown(o) /\ Fresh(h)
         /\ req[h].entries = Made(o)
         /\ \A r \in Made(o) : receipt[o][r].reversals = 0
  BY <1>1, Target DEF Voiding
<1>3. due[o].state # "none"
  BY <1>1, <1>2 DEF Fresh, BooksKnown
<1>4. req[h].kind = "cancel" => Made(o) = {}
  BY <1>1, <1>2, NothingPaid DEF Fresh, IInv
<1>5. /\ receipt' = [receipt EXCEPT ![o] = [r \in 1..MaxReceipts |->
            IF r \in Made(o) THEN Reversal(receipt[o][r]) ELSE receipt[o][r]]]
      /\ due' = [due EXCEPT ![o].state = "void"]
      /\ req' = [req EXCEPT ![h] = Idle]
      /\ UNCHANGED <<stock, order>>
  BY <1>2 DEF void, End
<1>6. req[h].o = o /\ Goes(h, Idle)
  BY <1>2, <1>5 DEF Goes
<1>7. /\ receipt' \in [Orders -> [Slots -> [amount : Nat, reversals : {0, 1}]]]
      /\ \A x \in Orders \ {o} : receipt'[x] = receipt[x]
      /\ Paid(o)' = 0 /\ Made(o)' = Made(o)
  BY <1>2, <1>5, Reversed DEF IInv
<1>8. /\ due' \in [Orders -> [state : {"none", "live", "void"}, amount : Nat]]
      /\ due'[o].state = "void" /\ due'[o].amount = due[o].amount
      /\ \A x \in Orders \ {o} : due'[x] = due[x]
  <2>1. due \in [Orders -> [state : {"none", "live", "void"}, amount : Nat]]
    BY DEF IInv, Typed
  <2> QED
    BY <1>5, <2>1
<1>9. order' \in [Orders -> [status : Live \cup {"none", "CANCELLED"},
                             line : Lines, total : Nat]]
  BY <1>5 DEF IInv, Typed
<1>10. BooksKnown(o)'
  <2>1. due[o].amount \in Nat
    BY <1>2 DEF IInv, Typed
  <2>2. 0 <= Paid(o)' /\ Paid(o)' <= due'[o].amount
    BY <1>7, <1>8, <2>1
  <2> QED
    BY <1>2, <1>3, <1>5, <1>7, <1>8, <2>2 DEF BooksKnown
<1>11. StockBalanced' /\ stock' \in [SKUs -> Int]
  <2>1. \A x \in Orders, p \in SKUs : Sold(x, p)' = Sold(x, p)
    BY <1>5 DEF Sold
  <2> QED
    BY <1>5, <2>1, SoldStays DEF IInv, Typed
<1>12. Fresh(h)' /\ Voiding(h)'
  <2>1. req'[h] = Idle
    BY <1>5 DEF IInv, Typed
  <2> QED
    BY <2>1, IdleIsFine
<1>13. ASSUME NEW g \in Staff \ {h}, req[g].o = o, req'[g] = req[g],
              {req[g].kind, req[h].kind} \in SafeOverlaps
       PROVE  Fresh(g)' /\ Voiding(g)'
  <2>1. Fresh(g) /\ Voiding(g) /\ req'[g].o = o
    BY <1>13 DEF IInv
  <2>2. CASE req[g].kind = "void"
    <3>1. req[h].kind = "cancel"
      BY <1>1, <1>13, <2>2, SafePairs
    <3>2. Fresh(g)'
      BY <1>8, <1>13, <2>1, <2>2 DEF Fresh
    <3>3. Voiding(g)'
      BY <1>4, <1>7, <1>13, <2>1, <3>1 DEF Voiding
    <3> QED
      BY <3>2, <3>3
  <2>3. CASE req[g].kind = "cancel"
    <3>1. Fresh(g)'
      BY <1>5, <1>7, <1>8, <1>13, <2>1, <2>3 DEF Fresh
    <3>2. req[g].at = "void" => Made(o) = {}
      BY <1>2, <1>13, <2>1, <2>3, NothingPaid DEF Fresh, IInv
    <3>3. Voiding(g)'
      BY <1>7, <1>13, <2>1, <2>3, <3>2 DEF Voiding
    <3> QED
      BY <3>1, <3>3
  <2>4. CASE req[g].kind = "edit"
    <3>1. req[g].total \in Nat
      BY <1>13 DEF IInv, Typed, Request
    <3>2. Paid(o)' <= req[g].total
      BY <1>7, <3>1
    <3>3. Fresh(g)'
      BY <1>5, <1>13, <2>1, <2>4, <3>2 DEF Fresh
    <3>4. Voiding(g)'
      BY <1>13, <2>1, <2>4 DEF Voiding
    <3> QED
      BY <3>3, <3>4
  <2>5. CASE req[g].kind \in {"light", "dispatch"}
    <3>1. Fresh(g)'
      BY <1>5, <1>13, <2>1, <2>5 DEF Fresh
    <3>2. Voiding(g)'
      BY <1>13, <2>1, <2>5 DEF Voiding
    <3> QED
      BY <3>1, <3>2
  <2>6. req[g].kind \in {"light", "dispatch", "edit", "cancel", "void"}
    BY <1>1, <1>13, SafePairs
  <2> QED
    BY <2>2, <2>3, <2>4, <2>5, <2>6
<1> QED
  BY <1>1, <1>2, <1>5, <1>6, <1>7, <1>8, <1>9, <1>10, <1>11, <1>12, <1>13, WriteKeeps

LEMMA PaymentWrites ==
    ASSUME IInv, Safe, NEW h \in Staff, recordPayment(h)
    PROVE  IInv'
<1>1. req[h].kind = "pay" /\ Busy(h)
  BY DEF recordPayment, At, Busy
<1>2. PICK o \in Orders, amount \in Nat :
         /\ o = req[h].o /\ amount = req[h].amount /\ BooksKnown(o)
         /\ due[o].state = "live" /\ amount > 0 /\ amount + Paid(o) <= due[o].amount
         /\ Paid(o) \in Nat
  BY <1>1, Target DEF Request, Fresh
<1>3. /\ Post(o, amount) /\ req' = [req EXCEPT ![h] = Idle]
      /\ UNCHANGED <<stock, order, due>>
  BY <1>2 DEF recordPayment, End
<1>4. req[h].o = o /\ Goes(h, Idle)
  BY <1>2, <1>3 DEF Goes
<1>5. /\ receipt' \in [Orders -> [Slots -> [amount : Nat, reversals : {0, 1}]]]
      /\ \A x \in Orders \ {o} : receipt'[x] = receipt[x]
      /\ Paid(o)' = Paid(o) + amount
  <2>1. Typed
    BY DEF IInv
  <2> QED
    BY <1>2, <1>3, <2>1, Posted
<1>6. /\ due' \in [Orders -> [state : {"none", "live", "void"}, amount : Nat]]
      /\ order' \in [Orders -> [status : Live \cup {"none", "CANCELLED"},
                                line : Lines, total : Nat]]
  BY <1>3 DEF IInv, Typed
<1>7. BooksKnown(o)'
  <2>1. due[o].amount \in Nat
    BY <1>2 DEF IInv, Typed
  <2>2. 0 <= Paid(o)' /\ Paid(o)' <= due[o].amount
    BY <1>2, <1>5, <2>1
  <2> QED
    BY <1>2, <1>3, <2>2 DEF BooksKnown
<1>8. StockBalanced' /\ stock' \in [SKUs -> Int]
  <2>1. \A x \in Orders, p \in SKUs : Sold(x, p)' = Sold(x, p)
    BY <1>3 DEF Sold
  <2> QED
    BY <1>3, <2>1, SoldStays DEF IInv, Typed
<1>9. Fresh(h)' /\ Voiding(h)'
  <2>1. req'[h] = Idle
    BY <1>3 DEF IInv, Typed
  <2> QED
    BY <2>1, IdleIsFine
<1>10. ASSUME NEW g \in Staff \ {h}, req[g].o = o, req'[g] = req[g],
              {req[g].kind, req[h].kind} \in SafeOverlaps
       PROVE  Fresh(g)' /\ Voiding(g)'
  <2>1. Fresh(g) /\ Voiding(g) /\ req'[g].o = o
    BY <1>10 DEF IInv
  <2>2. req[g].kind \in {"light", "dispatch"}
    BY <1>1, <1>10, SafePairs
  <2>3. Fresh(g)'
    BY <1>3, <1>10, <2>1, <2>2 DEF Fresh
  <2>4. Voiding(g)'
    BY <1>10, <2>1, <2>2 DEF Voiding
  <2> QED
    BY <2>3, <2>4
<1> QED
  BY <1>1, <1>2, <1>3, <1>4, <1>5, <1>6, <1>7, <1>8, <1>9, <1>10, WriteKeeps

-----------------------------------------------------------------------------
(***************************************************************************)
(* Steps after which every order looks to the requests as it did: those    *)
(* that change a status among the live ones, or what a request knows.      *)
(***************************************************************************)
SameLook(x) ==
    /\ UNCHANGED <<order[x].line, order[x].total>>
    /\ order'[x].status \in Live <=> order[x].status \in Live
    /\ order'[x].status = "none" <=> order[x].status = "none"
    /\ order'[x].status = "CANCELLED" <=> order[x].status = "CANCELLED"

LEMMA QuietKeeps ==
    ASSUME IInv, UNCHANGED <<stock, due, receipt>>,
           order' \in [Orders -> [status : Live \cup {"none", "CANCELLED"},
                                  line : Lines, total : Nat]],
           \A x \in Orders : SameLook(x),
           req' \in [Staff -> Request], Aimed', Resting', Compatible',
           \A g \in Staff : req'[g] = req[g] \/ (Fresh(g)' /\ Voiding(g)')
    PROVE  IInv'
<1>1. Typed'
  BY DEF IInv, Typed
<1>2. StockBalanced'
  <2>1. \A x \in Orders, p \in SKUs : Sold(x, p)' = Sold(x, p)
    BY DEF SameLook, Sold
  <2> QED
    BY <2>1, SoldStays DEF IInv
<1>3. \A x \in Orders : BooksKnown(x)'
  BY BooksKept DEF SameLook
<1>4. ASSUME NEW g \in Staff PROVE Fresh(g)' /\ Voiding(g)'
  <2> SUFFICES ASSUME Busy(g), req'[g] = req[g] PROVE Fresh(g)' /\ Voiding(g)'
    BY OnlyBusyCounts
  <2>1. PICK x \in Orders : x = req[g].o /\ x = req'[g].o
    BY DEF IInv, Aimed
  <2>2. SameFor(g)
    BY <2>1 DEF SameFor, SameLook
  <2> QED
    BY <2>2, FreshSame
<1> QED
  BY <1>1, <1>2, <1>3, <1>4 DEF IInv

\* A request that goes on or ends while the orders look the same.
LEMMA QuietRequest ==
    ASSUME IInv, UNCHANGED <<stock, due, receipt>>,
           order' \in [Orders -> [status : Live \cup {"none", "CANCELLED"},
                                  line : Lines, total : Nat]],
           \A x \in Orders : SameLook(x),
           NEW h \in Staff, Busy(h), NEW q, Goes(h, q), Fresh(h)', Voiding(h)'
    PROVE  IInv'
<1>1. /\ req' \in [Staff -> Request] /\ req'[h] = q
      /\ \A g \in Staff \ {h} : req'[g] = req[g]
      /\ Aimed' /\ Resting' /\ Compatible'
  BY RequestsKept
<1>2. \A g \in Staff : req'[g] = req[g] \/ (Fresh(g)' /\ Voiding(g)')
  BY <1>1
<1> QED
  BY <1>1, <1>2, QuietKeeps

LEMMA NothingLooksDifferent ==
    ASSUME IInv, UNCHANGED order
    PROVE  /\ \A x \in Orders : SameLook(x)
           /\ order' \in [Orders -> [status : Live \cup {"none", "CANCELLED"},
                                     line : Lines, total : Nat]]
BY DEF SameLook, IInv, Typed

\* One live order gets another live status.
LEMMA LiveStaysLive ==
    ASSUME IInv, NEW o \in Orders, NEW s \in Live, order[o].status \in Live,
           order' = [order EXCEPT ![o].status = s]
    PROVE  /\ \A x \in Orders : SameLook(x)
           /\ order' \in [Orders -> [status : Live \cup {"none", "CANCELLED"},
                                     line : Lines, total : Nat]]
<1>1. order \in [Orders -> [status : Live \cup {"none", "CANCELLED"},
                            line : Lines, total : Nat]]
  BY DEF IInv, Typed
<1>2. /\ order'[o].status = s /\ order'[o].line = order[o].line
      /\ order'[o].total = order[o].total
      /\ \A x \in Orders \ {o} : order'[x] = order[x]
  BY <1>1
<1>3. "none" \notin Live /\ "CANCELLED" \notin Live
  BY DEF Live
<1>4. \A x \in Orders : SameLook(x)
  BY <1>2, <1>3 DEF SameLook
<1>5. order' \in [Orders -> [status : Live \cup {"none", "CANCELLED"},
                             line : Lines, total : Nat]]
  BY <1>1
<1> QED
  BY <1>4, <1>5

LEMMA LightWrites ==
    ASSUME IInv, NEW h \in Staff, editStatus(h)
    PROVE  IInv'
<1>1. req[h].kind = "light" /\ Busy(h)
  BY DEF editStatus, At, Busy
<1>2. PICK o \in Orders, s \in Live : o = req[h].o /\ s = req[h].status /\ order[o].status \in Live
  BY <1>1, Target DEF Fresh
<1>3. /\ order' = [order EXCEPT ![o].status = s] /\ req' = [req EXCEPT ![h] = Idle]
      /\ UNCHANGED <<stock, due, receipt>>
  BY <1>2 DEF editStatus, End
<1>4. Fresh(h)' /\ Voiding(h)' /\ Goes(h, Idle)
  BY <1>3, IdleIsFine DEF IInv, Typed, Goes
<1> QED
  BY <1>1, <1>2, <1>3, <1>4, LiveStaysLive, QuietRequest

LEMMA ForwardWrites ==
    ASSUME IInv, NEW h \in Staff, forward(h)
    PROVE  IInv'
<1>1. req[h].kind = "dispatch" /\ Busy(h)
  BY DEF forward, At, Busy
<1>2. PICK o \in Orders : o = req[h].o /\ order[o].status \in Live
  BY <1>1, Target DEF Fresh
<1>3. /\ order' = [order EXCEPT ![o].status = "PROCESSING"] \/ order' = order
      /\ req' = [req EXCEPT ![h] = Idle]
      /\ UNCHANGED <<stock, due, receipt>>
  BY <1>2 DEF forward, End
<1>4. Fresh(h)' /\ Voiding(h)' /\ Goes(h, Idle)
  BY <1>3, IdleIsFine DEF IInv, Typed, Goes
<1>5. "PROCESSING" \in Live
  BY DEF Live
<1>6. /\ \A x \in Orders : SameLook(x)
      /\ order' \in [Orders -> [status : Live \cup {"none", "CANCELLED"},
                                line : Lines, total : Nat]]
  BY <1>2, <1>3, <1>5, LiveStaysLive, NothingLooksDifferent
<1> QED
  BY <1>1, <1>3, <1>4, <1>6, QuietRequest

LEMMA BookWrites ==
    ASSUME IInv, NEW h \in Staff, book(h)
    PROVE  IInv'
<1> DEFINE next == [req[h] EXCEPT !.at = "forward"]
<1>1. req[h].kind = "dispatch" /\ Busy(h) /\ req[h] \in Request
      /\ order[req[h].o].status \in Live
  <2>1. req[h].kind = "dispatch" /\ Busy(h)
    BY DEF book, At, Busy
  <2> QED
    BY <2>1, Target DEF Fresh
<1>2. PICK q \in {Idle, next} : req' = [req EXCEPT ![h] = q]
  BY DEF book, End, Onto
<1>3. UNCHANGED <<stock, order, due, receipt>>
  BY DEF book
<1>4. next \in Request /\ next.kind = "dispatch" /\ next.o = req[h].o /\ next.at = "forward"
  BY <1>1 DEF Request
<1> HIDE DEF next
<1>5. Goes(h, q) /\ req'[h] = q
  BY <1>1, <1>2, <1>4 DEF Goes, IInv, Typed
<1>6. Fresh(h)' /\ Voiding(h)'
  <2>1. CASE q = Idle
    BY <1>5, <2>1, IdleIsFine
  <2>2. CASE q = next
    BY <1>1, <1>3, <1>4, <1>5, <2>2 DEF Fresh, Voiding
  <2> QED
    BY <1>2, <2>1, <2>2
<1> QED
  BY <1>1, <1>3, <1>5, <1>6, NothingLooksDifferent, QuietRequest

LEMMA ReadDueReads ==
    ASSUME IInv, Safe, NEW h \in Staff, readDue(h)
    PROVE  IInv'
<1>1. req[h].at = "due" /\ req[h].kind \in {"cancel", "void"} /\ Busy(h)
  BY DEF readDue, IInv, Voiding, Busy
<1>2. PICK o \in Orders : o = req[h].o /\ req[h] \in Request /\ Fresh(h) /\ Voiding(h)
  BY <1>1, Target
<1>3. PICK made \in SUBSET (1..MaxReceipts) : made = Made(o)
  BY DEF Made
<1> DEFINE next == [req[h] EXCEPT !.at = "void", !.entries = made]
<1>4. /\ \/ req' = [req EXCEPT ![h] = next]
         \/ req' = [req EXCEPT ![h] = Idle]
      /\ UNCHANGED <<stock, order, due, receipt>>
      /\ \A r \in Made(o) : receipt[o][r].reversals = 0
  BY <1>2, <1>3 DEF readDue, End, MayVoid, Safe
<1>5. /\ next \in Request /\ next.kind = req[h].kind /\ next.o = o
      /\ next.at = "void" /\ next.entries = made
  BY <1>2 DEF Request
<1> HIDE DEF next
<1>6. PICK q \in {next, Idle} : req' = [req EXCEPT ![h] = q]
  BY <1>4
<1>7. Goes(h, q) /\ req'[h] = q
  BY <1>2, <1>5, <1>6 DEF Goes, IInv, Typed
<1>8. Fresh(h)' /\ Voiding(h)'
  <2>1. CASE q = Idle
    BY <1>7, <2>1, IdleIsFine
  <2>2. CASE q = next
    <3>1. /\ req'[h].kind = req[h].kind /\ req'[h].o = o
          /\ req'[h].at = "void" /\ req'[h].entries = made
      BY <1>5, <1>7, <2>2
    <3>2. Made(o)' = Made(o) /\ Paid(o)' = Paid(o)
      BY <1>4, ReceiptsKept
    <3>3. Fresh(h)'
      BY <1>1, <1>2, <1>4, <3>1, <3>2 DEF Fresh
    <3>4. Voiding(h)'
      BY <1>1, <1>2, <1>3, <1>4, <3>1, <3>2 DEF Voiding
    <3> QED
      BY <3>3, <3>4
  <2> QED
    BY <1>6, <2>1, <2>2
<1> QED
  BY <1>1, <1>4, <1>7, <1>8, NothingLooksDifferent, QuietRequest

LEMMA StopKeeps ==
    ASSUME IInv, NEW h \in Staff, stop(h)
    PROVE  IInv'
<1>1. Busy(h) /\ req' = [req EXCEPT ![h] = Idle] /\ UNCHANGED <<stock, order, due, receipt>>
  BY DEF stop, End, IInv, Resting
<1>2. Fresh(h)' /\ Voiding(h)' /\ Goes(h, Idle)
  BY <1>1, IdleIsFine DEF IInv, Typed, Goes
<1> QED
  BY <1>1, <1>2, NothingLooksDifferent, QuietRequest

LEMMA ParcelSteps ==
    ASSUME IInv, NEW o \in Orders, webhook(o) \/ removeWholesaleShipments(o)
    PROVE  IInv'
<1>1. UNCHANGED <<stock, due, receipt, req>>
  BY DEF webhook, removeWholesaleShipments
<1>2. \/ UNCHANGED order
      \/ /\ order[o].status \in {"PENDING", "PROCESSING"}
         /\ order' = [order EXCEPT ![o].status = "DELIVERED"]
  BY DEF webhook, removeWholesaleShipments
<1>3. /\ \A x \in Orders : SameLook(x)
      /\ order' \in [Orders -> [status : Live \cup {"none", "CANCELLED"},
                                line : Lines, total : Nat]]
  <2>1. CASE UNCHANGED order
    BY <2>1, NothingLooksDifferent
  <2>2. CASE /\ order[o].status \in {"PENDING", "PROCESSING"}
             /\ order' = [order EXCEPT ![o].status = "DELIVERED"]
    <3>1. "DELIVERED" \in Live /\ order[o].status \in Live
      BY <2>2 DEF Live
    <3> QED
      BY <2>2, <3>1, LiveStaysLive
  <2> QED
    BY <1>2, <2>1, <2>2
<1>4. /\ req' \in [Staff -> Request]
      /\ Aimed' /\ Resting' /\ Compatible'
  BY <1>1 DEF IInv, Typed, Aimed, Resting, Compatible, Busy
<1> QED
  BY <1>1, <1>3, <1>4, QuietKeeps

\* The buyer and the month: no order changes.
LEMMA OfficeKeeps ==
    ASSUME IInv, UNCHANGED <<stock, order, due, receipt, req>>
    PROVE  IInv'
<1>1. /\ req' \in [Staff -> Request]
      /\ Aimed' /\ Resting' /\ Compatible'
  BY DEF IInv, Typed, Aimed, Resting, Compatible, Busy
<1> QED
  BY <1>1, NothingLooksDifferent, QuietKeeps

-----------------------------------------------------------------------------
(***************************************************************************)
(* The invariant and what follows from it.                                 *)
(***************************************************************************)
LEMMA InitIInv == Init => IInv
<1> SUFFICES ASSUME Init PROVE IInv
  OBVIOUS
<1>1. NoLines \in Lines /\ Idle \in Request /\ Idle.kind = "none"
  BY IdleIsRequest
<1>2. Typed
  <2>1. NoOrder \in [status : Live \cup {"none", "CANCELLED"}, line : Lines, total : Nat]
    BY <1>1 DEF NoOrder
  <2>2. NoReceipt \in [amount : Nat, reversals : {0, 1}]
    BY DEF NoReceipt
  <2>3. stock \in [SKUs -> Int]
    BY DEF Init
  <2>7. req \in [Staff -> Request]
    BY <1>1 DEF Init
  <2>4. order \in [Orders -> [status : Live \cup {"none", "CANCELLED"},
                             line : Lines, total : Nat]]
    BY <2>1 DEF Init
  <2>5. due \in [Orders -> [state : {"none", "live", "void"}, amount : Nat]]
    BY DEF Init
  <2>6. receipt \in [Orders -> [1..MaxReceipts -> [amount : Nat, reversals : {0, 1}]]]
    BY <2>2 DEF Init
  <2> QED
    BY <2>3, <2>4, <2>5, <2>6, <2>7 DEF Typed
<1>3. \A h \in Staff : req[h] = Idle
  BY DEF Init
<1>4. Aimed /\ Resting /\ Compatible
  BY <1>1, <1>3 DEF Aimed, Resting, Compatible, Busy
<1>5. \A o \in Orders :
         /\ order[o].status = "none" /\ order[o].total = 0
         /\ due[o].state = "none" /\ due[o].amount = 0
  BY DEF Init, NoOrder
<1>6. ASSUME NEW o \in Orders PROVE BooksKnown(o)
  <2>1. Made(o) = {}
    BY DEF Init, Made, NoReceipt
  <2>2. Paid(o) = 0
    BY <1>2, <2>1, PaidIs
  <2> QED
    BY <1>5, <2>1, <2>2 DEF BooksKnown
<1>7. StockBalanced
  <2> SUFFICES ASSUME NEW p \in SKUs \ Digital
               PROVE  stock[p] = -SumFunctionOnSet(SoldBy(p), Orders)
    BY DEF StockBalanced, SoldBy
  <2>1. \A o \in Orders : SoldBy(p)[o] = 0
    BY <1>5 DEF SoldBy, Sold, Live
  <2>2. SumFunctionOnSet(SoldBy(p), Orders) = 0
    BY <2>1, SumZero, WholesaleAssumption
  <2>3. stock[p] = 0
    BY DEF Init
  <2> DEFINE gone == -SumFunctionOnSet(SoldBy(p), Orders)
  <2>4. SumFunctionOnSet(SoldBy(p), Orders) \in Int
    BY <2>2
  <2>5. gone = 0 - SumFunctionOnSet(SoldBy(p), Orders)
    BY <2>4
  <2> HIDE DEF gone
  <2>6. gone = 0
    BY <2>2, <2>5
  <2>7. stock[p] = gone
    BY <2>3, <2>6
  <2> QED
    BY <2>7 DEF gone
<1>8. \A h \in Staff : Fresh(h) /\ Voiding(h)
  BY <1>3 DEF Fresh, Voiding, Idle
<1> QED
  BY <1>2, <1>4, <1>6, <1>7, <1>8 DEF IInv

LEMMA StepIInv ==
    ASSUME Safe, IInv, [Next]_vars
    PROVE  IInv'
<1>1. ASSUME NEW h \in Staff, NEW o \in Orders,
             \/ ReadForCreate(h, o) \/ ReadForEdit(h, o) \/ ReadForLight(h, o)
             \/ ReadForCancel(h, o) \/ ReadForVoid(h, o) \/ ReadForRestore(h, o)
             \/ ReadForPayment(h, o) \/ ReadForDispatch(h, o)
      PROVE  IInv'
  BY <1>1, CreateReads, EditReads, LightReads, CancelReads, VoidReads, RestoreReads,
     PaymentReads, DispatchReads
<1>2. ASSUME NEW h \in Staff,
             \/ createOrder(h) \/ editOrder(h) \/ editStatus(h) \/ cancelOrder(h)
             \/ readDue(h) \/ void(h) \/ restoreOrder(h) \/ recordPayment(h)
             \/ book(h) \/ forward(h) \/ stop(h)
      PROVE  IInv'
  BY <1>2, CreateWrites, EditWrites, LightWrites, CancelWrites, ReadDueReads, VoidWrites,
     RestoreWrites, PaymentWrites, BookWrites, ForwardWrites, StopKeeps
<1>3. ASSUME NEW o \in Orders, webhook(o) \/ removeWholesaleShipments(o) PROVE IInv'
  BY <1>3, ParcelSteps
<1>4. CASE setActive \/ lockPeriod \/ UNCHANGED vars
  <2>1. UNCHANGED <<stock, order, due, receipt, req>>
    BY <1>4 DEF setActive, lockPeriod, vars
  <2> QED
    BY <2>1, OfficeKeeps
<1> QED
  BY <1>1, <1>2, <1>3, <1>4 DEF Next

LEMMA Always ==
    ASSUME Overlaps \subseteq SafeOverlaps, Practices = {}
    PROVE  Spec => []IInv
<1>1. Safe
  BY DEF Safe
<1>2. IInv /\ [Next]_vars => IInv'
  BY <1>1, StepIInv
<1> QED
  BY <1>2, InitIInv, PTL DEF Spec

\* The shelf has lost exactly the goods of the orders that are not cancelled
\* (updateOrder, cancelOrder and restoreOrder move the difference once).
THEOREM ShelfBalanced ==
    ASSUME Overlaps \subseteq SafeOverlaps, Practices = {}
    PROVE  Spec => []StockBalanced
<1>1. IInv => StockBalanced
  BY DEF IInv
<1> QED
  BY <1>1, Always, PTL

\* An invoice is of its order's total, is never paid beyond it, and a voided
\* one has nothing paid (updateOrder, DuesService.void, recordPayment).
THEOREM InvoicesExact ==
    ASSUME Overlaps \subseteq SafeOverlaps, Practices = {}
    PROVE  Spec => []InvoiceExact
<1>1. IInv => InvoiceExact
  BY DEF IInv, BooksKnown, InvoiceExact
<1> QED
  BY <1>1, Always, PTL
===============================================================================
