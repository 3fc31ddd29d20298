------------------------------ MODULE Till_proofs ------------------------------
(***************************************************************************)
(* What holds at the till for any number of sales, goods, customers and    *)
(* requests.  First the life of a sale (PosSale), as long as only requests *)
(* of a kind overlap, a delete and a restore, or the purge and anything,   *)
(* and no sale was given away (a rate of zero); then the coupon that an order or a sale has      *)
(* spent (Coupons), which the same deletes and restores give back and take *)
(* again (releaseOrderCoupons and reclaimOrderCoupons in deleteSale and    *)
(* restoreSale).                                                           *)
(*                                                                         *)
(* The properties of sales are not inductive.  Every commit books what it  *)
(* computed from a copy, so the invariant says how much of the copy is     *)
(* still true; and what the statuses, the flags of the Trash and the       *)
(* refunded money say of a sale has to agree with the counts on its lines, *)
(* because the code judges by the former what it books by the latter.      *)
(***************************************************************************)
EXTENDS PosSale, Coupons, SumTheorems, TLAPS

Safe == Overlaps \subseteq SafeOverlaps /\ 0 \notin Rates

Busy(h) == req[h] # Idle

Compatible ==
    \A g, h \in Requests :
        g # h /\ Busy(g) /\ Busy(h) /\ req[g].s = req[h].s
        => {req[g].kind, req[h].kind} \in Overlaps

\* The columns of one sale agree.
SaleKnown(s) ==
    /\ status[s] = "none" => /\ qty[s] = Nothing /\ back[s] = Nothing /\ refunded[s] = 0
                             /\ ~deleted[s] /\ ~voided[s]
    /\ status[s] # "none" => rate[s] > 0
    /\ \A p \in SKUs : back[s][p] <= qty[s][p]
    /\ refunded[s] = Price(s, back[s])
    /\ status[s] = "COMPLETED" => back[s] = Nothing
    /\ voided[s] => deleted[s]
    /\ deleted[s] => status[s] \in {"RETURNED", "purged"}
    /\ status[s] = "RETURNED" /\ ~voided[s] => back[s] = qty[s]

\* What is with the customer, told by the status.
Kept(s) == IF status[s] \in Live /\ ~deleted[s] THEN Minus(qty[s], back[s]) ELSE Nothing

\* The goods and the money of a sale whose row is there are where the columns say.
Booked(s) ==
    /\ \A p \in SKUs : moved[s][p] = -Kept(s)[p]
    /\ till[s] = IF status[s] \in Live /\ ~deleted[s] THEN Price(s, qty[s]) - refunded[s] ELSE 0

\* The same told by the Trash, as long as there are books.
Matches(s) ==
    /\ \A p \in SKUs : moved[s][p] = -Out(s)[p]
    /\ till[s] = IF deleted[s] THEN 0 ELSE Price(s, qty[s]) - refunded[s]

SaleInv(s) ==
    /\ SaleKnown(s)
    /\ status[s] # "purged" => Booked(s)
    /\ status[s] = "purged" => Matches(s)

\* A return still finds the lines of the sale, with no less returned.
ReturnFresh(h) ==
    LET r == req[h]  s == r.s IN
    /\ ~deleted[s] /\ ~voided[s] /\ status[s] \in Existing
    /\ r.qty = qty[s] /\ r.refunded = Price(s, r.back)
    /\ \A p \in SKUs : r.back[p] <= back[s][p] /\ r.n[p] <= r.qty[p] - r.back[p]

\* A delete or a restore still finds the lines, and knows where the status may
\* not have gone.
TrashFresh(h) ==
    LET r == req[h]  s == r.s IN
    /\ r.qty = qty[s] /\ r.back = back[s] /\ r.refunded = refunded[s]
    /\ r.kind = "delete" /\ r.status = "RETURNED" => status[s] \notin Live /\ ~voided[s]
    /\ r.kind = "restore" /\ r.voided => (status[s] = "RETURNED" => voided[s])
    /\ r.kind = "restore" /\ ~r.voided => status[s] \notin Live /\ ~voided[s]

\* What is still true of what request h has read.
Fresh(h) ==
    Busy(h) =>
        /\ status[req[h].s] # "none"
        /\ status[req[h].s] # "purged" =>
              /\ req[h].kind = "return" => ReturnFresh(h)
              /\ req[h].kind = "edit" /\ req[h].fresh => req[h].qty = qty[req[h].s]
              /\ req[h].kind \in {"delete", "restore"} => TrashFresh(h)

IInv == /\ TypeOK /\ Compatible
        /\ \A s \in Sales : SaleInv(s)
        /\ \A h \in Requests : Fresh(h)

-----------------------------------------------------------------------------
(* Units and prices                                                        *)

LEMMA NothingTyped ==
    /\ Nothing \in Units /\ Nothing \in [SKUs -> Int]
    /\ \A p \in SKUs : Nothing[p] = 0
BY DEF Nothing, Units

LEMMA MinusZero == \A z \in Int : z = 0 => -z = 0
<1>1. \A z \in Int : -z = 0 - z
  OBVIOUS
<1>2. \A z \in Int : z = 0 => 0 - z = 0
  OBVIOUS
<1> QED
  BY <1>1, <1>2

LEMMA UnitsInt ==
    ASSUME NEW n \in Units
    PROVE  n \in [SKUs -> Int] /\ \A p \in SKUs : n[p] \in Nat
BY DEF Units

LEMMA MinusTyped ==
    ASSUME NEW m \in [SKUs -> Int], NEW n \in [SKUs -> Int]
    PROVE  /\ Minus(m, n) \in [SKUs -> Int]
           /\ \A p \in SKUs : Minus(m, n)[p] = m[p] - n[p]
BY DEF Minus

LEMMA CountTyped ==
    /\ \A n \in [SKUs -> Int] : Count(n) \in Int
    /\ \A n \in Units : Count(n) \in Nat /\ \A p \in SKUs : n[p] <= Count(n)
    /\ Count(Nothing) = 0
<1>1. ASSUME NEW n \in [SKUs -> Int] PROVE Count(n) \in Int
  BY ConstantsAssumption, SumInt DEF Count
<1>2. ASSUME NEW n \in Units PROVE Count(n) \in Nat /\ \A p \in SKUs : n[p] <= Count(n)
  BY ConstantsAssumption, UnitsInt, SumNat DEF Count
<1>3. Count(Nothing) = 0
  BY ConstantsAssumption, NothingTyped, SumZero DEF Count
<1> QED
  BY <1>1, <1>2, <1>3

LEMMA CountPlus ==
    ASSUME NEW m \in [SKUs -> Int], NEW n \in [SKUs -> Int], NEW k \in [SKUs -> Int],
           \A p \in SKUs : k[p] = m[p] + n[p]
    PROVE  Count(k) = Count(m) + Count(n)
BY ConstantsAssumption, SumPlus DEF Count

\* What k costs when it is m and n together.
LEMMA PricePlus ==
    ASSUME TypeOK, NEW s \in Sales, NEW m \in [SKUs -> Int], NEW n \in [SKUs -> Int],
           NEW k \in [SKUs -> Int], \A p \in SKUs : k[p] = m[p] + n[p]
    PROVE  /\ Price(s, k) = Price(s, m) + Price(s, n)
           /\ Price(s, m) \in Int /\ Price(s, n) \in Int
<1>1. PICK r \in Nat : r = rate[s]
  BY DEF TypeOK
<1>2. PICK a, b \in Int : a = Count(m) /\ b = Count(n)
  BY CountTyped
<1>3. Count(k) = a + b
  BY <1>2, CountPlus
<1>4. r * (a + b) = r * a + r * b /\ r * a \in Int /\ r * b \in Int
  OBVIOUS
<1> QED
  BY <1>1, <1>2, <1>3, <1>4 DEF Price

LEMMA PriceTyped ==
    ASSUME TypeOK, NEW s \in Sales
    PROVE  /\ \A n \in Units : Price(s, n) \in Nat
           /\ Price(s, Nothing) = 0
<1>1. PICK r \in Nat : r = rate[s]
  BY DEF TypeOK
<1>2. ASSUME NEW n \in Units PROVE Price(s, n) \in Nat
  <2>1. PICK a \in Nat : a = Count(n)
    BY CountTyped
  <2>2. r * a \in Nat
    OBVIOUS
  <2> QED
    BY <1>1, <2>1, <2>2 DEF Price
<1>3. r * 0 = 0
  OBVIOUS
<1> QED
  BY <1>1, <1>2, <1>3, CountTyped DEF Price

\* Nobody gets a unit for nothing.
LEMMA FreeIsNothing ==
    ASSUME TypeOK, NEW s \in Sales, rate[s] > 0, NEW n \in Units, Price(s, n) = 0
    PROVE  n = Nothing
<1>1. PICK r \in Nat : r = rate[s] /\ r > 0
  BY DEF TypeOK
<1>2. PICK a \in Nat : a = Count(n)
  BY CountTyped
<1>3. r * a = 0
  BY <1>1, <1>2 DEF Price
<1>4. ASSUME a # 0 PROVE FALSE
  <2>1. PICK b \in Nat : a = b + 1
    BY <1>4
  <2>2. r * (b + 1) = r * b + r
    OBVIOUS
  <2>3. PICK c \in Nat : c = r * b
    OBVIOUS
  <2> QED
    BY <1>1, <1>3, <2>1, <2>2, <2>3
<1>5. \A p \in SKUs : n[p] = 0
  BY <1>2, <1>4, CountTyped, UnitsInt
<1> QED
  BY <1>5 DEF Nothing, Units

-----------------------------------------------------------------------------
(* One sale at a time                                                      *)

SameSale(s) ==
    /\ status'[s] = status[s] /\ deleted'[s] = deleted[s] /\ voided'[s] = voided[s]
    /\ qty'[s] = qty[s] /\ back'[s] = back[s] /\ rate'[s] = rate[s]
    /\ refunded'[s] = refunded[s] /\ moved'[s] = moved[s] /\ till'[s] = till[s]

\* Request g is as it was, but that its copy may be outdated.
Later(g) ==
    /\ Busy(g)' <=> Busy(g)
    /\ Busy(g) => /\ req'[g].kind = req[g].kind /\ req'[g].s = req[g].s
                  /\ req'[g].n = req[g].n /\ req'[g].status = req[g].status
                  /\ req'[g].voided = req[g].voided /\ req'[g].qty = req[g].qty
                  /\ req'[g].back = req[g].back /\ req'[g].refunded = req[g].refunded
                  /\ req'[g].fresh => req[g].fresh

LEMMA SameSaleKeeps ==
    ASSUME NEW s \in Sales, SaleInv(s), SameSale(s)
    PROVE  SaleInv(s)'
<1>1. SaleKnown(s)'
  BY DEF SaleInv, SaleKnown, SameSale, Price
<1>2. Booked(s) => Booked(s)'
  BY DEF Booked, SameSale, Price, Kept
<1>3. Matches(s) => Matches(s)'
  BY DEF Matches, SameSale, Price, Out
<1> QED
  BY <1>1, <1>2, <1>3 DEF SaleInv, SameSale

LEMMA SameSaleFresh ==
    ASSUME NEW g \in Requests, Fresh(g), Later(g), Busy(g) => SameSale(req[g].s)
    PROVE  Fresh(g)'
<1> SUFFICES ASSUME Busy(g)' PROVE Fresh(g)'
  BY DEF Fresh
<1>1. Busy(g) /\ SameSale(req[g].s)
  BY DEF Later
<1>2. (req[g].kind = "return" /\ ReturnFresh(g)) => ReturnFresh(g)'
  BY <1>1 DEF ReturnFresh, SameSale, Later, Price
<1>3. (req[g].kind \in {"delete", "restore"} /\ TrashFresh(g)) => TrashFresh(g)'
  BY <1>1 DEF TrashFresh, SameSale, Later
<1>4. status'[req'[g].s] # "none" /\ status'[req'[g].s] = status[req[g].s]
      /\ req'[g].kind = req[g].kind
  BY <1>1 DEF Fresh, SameSale, Later
<1>5. status[req[g].s] # "purged" /\ req'[g].kind = "edit" /\ req'[g].fresh
      => req'[g].qty = qty'[req'[g].s]
  BY <1>1 DEF Fresh, SameSale, Later
<1> QED
  BY <1>1, <1>2, <1>3, <1>4, <1>5 DEF Fresh

LEMMA BusyTyped ==
    ASSUME TypeOK, NEW h \in Requests, Busy(h)
    PROVE  /\ req[h] \in Request /\ req[h].s \in Sales /\ req[h].kind \in Kinds
           /\ req[h].n \in Units /\ req[h].status \in Existing /\ req[h].voided \in BOOLEAN
           /\ req[h].qty \in Units /\ req[h].back \in Units /\ req[h].refunded \in Nat
<1>1. req[h] \in Request
  BY DEF TypeOK, Busy
<1> QED
  BY <1>1 DEF Request

LEMMA FinishLeaves ==
    ASSUME TypeOK, NEW h \in Requests, Busy(h), Finish(h)
    PROVE  /\ req' \in [Requests -> Request \cup {Idle}] /\ ~Busy(h)'
           /\ \A g \in Requests \ {h} : /\ Later(g)
                                        /\ Busy(g) /\ req[g].s = req[h].s => ~req'[g].fresh
<1>1. \A g \in Requests \ {h} :
        req'[g] = IF Busy(g) /\ req[g].s = req[h].s THEN [req[g] EXCEPT !.fresh = FALSE]
                  ELSE req[g]
  BY DEF Finish, Busy
<1>2. req'[h] = Idle
  BY DEF Finish
<1>3. ASSUME NEW g \in Requests \ {h}, Busy(g), req[g].s = req[h].s
      PROVE  req'[g] \in Request /\ Later(g) /\ ~req'[g].fresh
  <2>1. req[g] \in Request /\ req'[g] = [req[g] EXCEPT !.fresh = FALSE]
    BY <1>1, <1>3, BusyTyped
  <2>2. req'[g] \in Request
    BY <2>1 DEF Request
  <2>3. /\ req'[g].kind = req[g].kind /\ req'[g].s = req[g].s /\ req'[g].n = req[g].n
        /\ req'[g].status = req[g].status /\ req'[g].voided = req[g].voided
        /\ req'[g].qty = req[g].qty /\ req'[g].back = req[g].back
        /\ req'[g].refunded = req[g].refunded /\ ~req'[g].fresh
    BY <2>1 DEF Request
  <2>4. Busy(g)'
    <3>1. Idle.kind = "none" /\ req'[g].kind # "none"
      BY <2>2 DEF Idle, Request, Kinds
    <3> QED
      BY <3>1 DEF Busy
  <2> QED
    BY <1>3, <2>2, <2>3, <2>4 DEF Later
<1>4. ASSUME NEW g \in Requests \ {h}, ~(Busy(g) /\ req[g].s = req[h].s)
      PROVE  req'[g] \in Request \cup {Idle} /\ Later(g)
  <2>1. req'[g] = req[g] /\ req[g] \in Request \cup {Idle}
    BY <1>1, <1>4 DEF TypeOK
  <2> QED
    BY <2>1 DEF Later, Busy
<1>5. req' \in [Requests -> Request \cup {Idle}]
  <2>1. req' = [g \in Requests |-> req'[g]]
    BY DEF Finish
  <2> QED
    BY <1>2, <1>3, <1>4, <2>1
<1> QED
  BY <1>2, <1>3, <1>4, <1>5 DEF Busy

ColumnsOK ==
    /\ stock \in [SKUs -> Nat]
    /\ status \in [Sales -> Existing \cup {"none", "purged"}]
    /\ deleted \in [Sales -> BOOLEAN] /\ voided \in [Sales -> BOOLEAN]
    /\ qty \in [Sales -> Units] /\ back \in [Sales -> Units]
    /\ rate \in [Sales -> Nat] /\ refunded \in [Sales -> Nat]
    /\ moved \in [Sales -> [SKUs -> Int]] /\ till \in [Sales -> Int]

LEMMA TypeParts == TypeOK <=> ColumnsOK /\ req \in [Requests -> Request \cup {Idle}]
BY DEF TypeOK, ColumnsOK

\* A step keeps the invariant when the sales it writes satisfy it again, and so
\* do the requests that have read them.
LEMMA WriteKeeps ==
    ASSUME IInv, ColumnsOK', req' \in [Requests -> Request \cup {Idle}],
           \A s \in Sales : SameSale(s) \/ SaleInv(s)',
           \A g \in Requests :
              ~Busy(g)' \/ (Later(g) /\ (SameSale(req[g].s) \/ Fresh(g)'))
    PROVE  IInv'
<1>1. /\ TypeOK /\ Compatible /\ (\A t \in Sales : SaleInv(t))
      /\ \A g \in Requests : Fresh(g)
  BY DEF IInv
<1>2. TypeOK'
  BY DEF TypeOK, ColumnsOK
<1>3. \A g \in Requests : Busy(g)' => Later(g)
  OBVIOUS
<1>4. Compatible'
  BY <1>1, <1>3 DEF Compatible, Later
<1>5. \A t \in Sales : SaleInv(t)'
  BY <1>1, SameSaleKeeps
<1>6. ASSUME NEW g \in Requests PROVE Fresh(g)'
  <2>1. CASE ~Busy(g)'
    BY <2>1 DEF Fresh
  <2>2. CASE Later(g) /\ SameSale(req[g].s)
    BY <1>1, <2>2, SameSaleFresh
  <2> QED
    BY <2>1, <2>2
<1> QED
  BY <1>2, <1>4, <1>5, <1>6 DEF IInv

\* The commit of request h.
LEMMA CommitKeeps ==
    ASSUME IInv, NEW h \in Requests, Busy(h), Finish(h), ColumnsOK',
           NEW s \in Sales, s = req[h].s, SaleInv(s)',
           \A t \in Sales \ {s} : SameSale(t),
           \A g \in Requests \ {h} : Busy(g) /\ req[g].s = s => Fresh(g)'
    PROVE  IInv'
<1>1. TypeOK
  BY DEF IInv
<1>2. /\ req' \in [Requests -> Request \cup {Idle}] /\ ~Busy(h)'
      /\ \A g \in Requests \ {h} : Later(g)
  BY <1>1, FinishLeaves
<1>3. ASSUME NEW g \in Requests
      PROVE  ~Busy(g)' \/ (Later(g) /\ (SameSale(req[g].s) \/ Fresh(g)'))
  <2>1. CASE g = h \/ ~Busy(g)
    BY <1>2, <2>1 DEF Later
  <2>2. CASE g # h /\ Busy(g) /\ req[g].s # s
    <3>1. req[g].s \in Sales \ {s}
      BY <1>1, <2>2, BusyTyped
    <3> QED
      BY <1>2, <2>2, <3>1
  <2>3. CASE g # h /\ Busy(g) /\ req[g].s = s
    BY <1>2, <2>3
  <2> QED
    BY <2>1, <2>2, <2>3
<1> QED
  BY <1>2, <1>3, WriteKeeps

\* Which requests may be in flight on the sale of another.
LEMMA SafeKinds ==
    ASSUME Safe, Compatible, NEW g \in Requests, NEW h \in Requests, g # h, Busy(g), Busy(h),
           req[g].s = req[h].s
    PROVE  /\ req[h].kind = "return" => req[g].kind \in {"return", "purge"}
           /\ req[h].kind = "edit" => req[g].kind \in {"edit", "purge"}
           /\ req[h].kind \in {"delete", "restore"} =>
                 req[g].kind \in {"delete", "restore", "purge"}
<1>1. {req[g].kind, req[h].kind} \in SafeOverlaps
  BY DEF Safe, Compatible
<1>2. CASE {req[g].kind, req[h].kind} \in
             {{"return"}, {"edit"}, {"delete"}, {"restore"}, {"delete", "restore"}}
  BY <1>2
<1>3. CASE \E k \in Kinds : {req[g].kind, req[h].kind} = {"purge", k}
  BY <1>3
<1> QED
  BY <1>1, <1>2, <1>3 DEF SafeOverlaps

LEMMA MoveTyped ==
    ASSUME TypeOK, NEW s \in Sales, NEW n \in [SKUs -> Int], move(s, n)
    PROVE  /\ stock' \in [SKUs -> Nat]
           /\ moved' \in [Sales -> [SKUs -> Int]]
           /\ \A p \in SKUs : moved'[s][p] = moved[s][p] + n[p]
           /\ \A t \in Sales \ {s} : moved'[t] = moved[t]
<1>1. stock \in [SKUs -> Nat] /\ moved \in [Sales -> [SKUs -> Int]]
  BY DEF TypeOK
<1>2. /\ \A p \in SKUs : n[p] < 0 => stock[p] + n[p] >= 0
      /\ stock' = [p \in SKUs |-> stock[p] + n[p]]
      /\ moved' = [moved EXCEPT ![s] = [p \in SKUs |-> moved[s][p] + n[p]]]
  BY DEF move
<1>3. \A p \in SKUs : stock[p] + n[p] \in Nat /\ moved[s][p] + n[p] \in Int
  BY <1>1, <1>2
<1> QED
  BY <1>1, <1>2, <1>3

LEMMA PostTyped ==
    ASSUME TypeOK, NEW s \in Sales, NEW amount \in Int, Post(s, amount)
    PROVE  /\ till' \in [Sales -> Int] /\ till'[s] = till[s] + amount
           /\ \A t \in Sales \ {s} : till'[t] = till[t]
BY DEF Post, TypeOK

LEMMA SaleTyped ==
    ASSUME TypeOK, NEW s \in Sales
    PROVE  /\ status[s] \in Existing \cup {"none", "purged"}
           /\ deleted[s] \in BOOLEAN /\ voided[s] \in BOOLEAN
           /\ qty[s] \in Units /\ back[s] \in Units /\ rate[s] \in Nat /\ refunded[s] \in Nat
           /\ moved[s] \in [SKUs -> Int] /\ till[s] \in Int
BY DEF TypeOK

-----------------------------------------------------------------------------
(* Returns                                                                 *)

\* The books of a sale whose row is there, told by its status or by the Trash.
LEMMA KnownMatches ==
    ASSUME TypeOK, NEW s \in Sales, SaleInv(s)
    PROVE  Matches(s)
<1>1. CASE status[s] = "purged"
  BY <1>1 DEF SaleInv
<1>2. CASE status[s] \in Live /\ ~deleted[s]
  BY <1>2 DEF SaleInv, Booked, Matches, Kept, Out, Live
<1>3. CASE status[s] # "purged" /\ deleted[s]
  <2>1. Booked(s) /\ status[s] \notin Live
    BY <1>3 DEF SaleInv, SaleKnown, Live
  <2> QED
    BY <1>3, <2>1 DEF Booked, Matches, Kept, Out
<1>4. CASE status[s] \in {"none", "RETURNED"} /\ ~deleted[s]
  <2>1. Booked(s) /\ status[s] \notin Live /\ SaleKnown(s) /\ ~voided[s]
    BY <1>4 DEF SaleInv, SaleKnown, Live
  <2>2. back[s] = qty[s]
    BY <1>4, <2>1 DEF SaleKnown
  <2>3. ASSUME NEW p \in SKUs PROVE moved[s][p] = -Out(s)[p]
    <3>1. qty[s][p] \in Nat /\ qty[s][p] - qty[s][p] = 0
      BY SaleTyped, UnitsInt
    <3>2. Out(s)[p] = Nothing[p]
      BY <1>4, <2>2, <3>1, NothingTyped DEF Out, Minus
    <3>3. moved[s][p] = -Nothing[p]
      BY <2>1 DEF Booked, Kept
    <3> QED
      BY <3>2, <3>3
  <2>4. till[s] = 0 /\ refunded[s] = Price(s, qty[s])
    BY <2>1, <2>2 DEF Booked, SaleKnown
  <2>5. Price(s, qty[s]) - refunded[s] = 0
    BY <2>4, PriceTyped, SaleTyped
  <2> QED
    BY <1>4, <2>3, <2>4, <2>5 DEF Matches
<1>5. status[s] \in Live \cup {"RETURNED", "none", "purged"}
  BY SaleTyped DEF Existing
<1>6. deleted[s] \in BOOLEAN
  BY DEF TypeOK
<1> QED
  BY <1>1, <1>2, <1>3, <1>4, <1>5, <1>6

\* What a return takes in and pays back: its price, whichever way the code
\* works it out.
LEMMA ReturnWrites ==
    ASSUME IInv, Safe, NEW h \in Requests, returnSale(h)
    PROVE  \E s \in Sales, n \in Units, all \in BOOLEAN :
             /\ s = req[h].s /\ Busy(h) /\ req[h].kind = "return" /\ status[s] \in Existing
             /\ \A p \in SKUs : n[p] > 0 => back[s][p] <= qty[s][p] - n[p]
             /\ all => \A p \in SKUs : back[s][p] + n[p] = qty[s][p]
             /\ back' = [back EXCEPT ![s] = [p \in SKUs |-> back[s][p] + n[p]]]
             /\ status' = [status EXCEPT ![s] = IF all THEN "RETURNED"
                                                ELSE "PARTIALLY_RETURNED"]
             /\ refunded' = [refunded EXCEPT ![s] = @ + Price(s, n)]
             /\ Post(s, -Price(s, n)) /\ move(s, n) /\ Finish(h)
             /\ UNCHANGED <<deleted, voided, qty, rate>>
<1>1. /\ req[h].kind = "return" /\ Busy(h) /\ TypeOK /\ Fresh(h)
      /\ status[req[h].s] \in Existing
  <2>1. req[h].kind = "return" /\ status[req[h].s] \in Existing
    BY DEF returnSale, Running
  <2>2. Idle.kind # "return"
    BY DEF Idle
  <2> QED
    BY <2>1, <2>2 DEF Busy, IInv
<1>2. PICK s \in Sales, n \in Units, q \in Units, b \in Units, m \in Nat :
        /\ s = req[h].s /\ n = req[h].n /\ q = req[h].qty /\ b = req[h].back
        /\ m = req[h].refunded
  BY <1>1, BusyTyped
<1>3. /\ q = qty[s] /\ m = Price(s, b) /\ SaleKnown(s)
      /\ \A p \in SKUs : b[p] <= back[s][p] /\ n[p] <= q[p] - b[p]
  BY <1>1, <1>2 DEF Fresh, ReturnFresh, IInv, SaleInv, Running, Existing, Live
<1>4. PICK all \in BOOLEAN : all <=> \A p \in SKUs : n[p] = q[p] - b[p]
  OBVIOUS
<1>5. PICK amount : amount = IF all THEN Price(s, q) - m ELSE Lesser(Price(s, n), Price(s, q) - m)
  OBVIOUS
<1>6. /\ \A p \in SKUs : n[p] > 0 => qty[s][p] > 0 /\ back[s][p] <= q[p] - n[p]
      /\ back' = [back EXCEPT ![s] = [p \in SKUs |-> back[s][p] + n[p]]]
      /\ status' = [status EXCEPT ![s] = IF all THEN "RETURNED" ELSE "PARTIALLY_RETURNED"]
      /\ refunded' = [refunded EXCEPT ![s] = @ + amount]
      /\ Post(s, -amount) /\ move(s, n) /\ Finish(h)
      /\ UNCHANGED <<deleted, voided, qty, rate>>
  BY <1>2, <1>4, <1>5 DEF returnSale
<1>7. amount = Price(s, n)
  <2> DEFINE known == [p \in SKUs |-> n[p] + b[p]]
             rest == [p \in SKUs |-> q[p] - b[p] - n[p]]
  <2>1. \A p \in SKUs : n[p] \in Nat /\ b[p] \in Nat /\ q[p] \in Nat
    BY UnitsInt
  <2>2. /\ known \in [SKUs -> Int] /\ \A p \in SKUs : known[p] = n[p] + b[p]
        /\ \A p \in SKUs : q[p] = known[p] + rest[p]
    BY <2>1
  <2>3. rest \in Units /\ rest \in [SKUs -> Int] /\ (all => rest = Nothing)
    <3>1. \A p \in SKUs : q[p] - b[p] - n[p] \in Nat
      BY <1>3, <2>1
    <3>2. rest \in Units /\ rest \in [SKUs -> Int]
      BY <3>1 DEF Units
    <3>3. ASSUME all PROVE \A p \in SKUs : q[p] - b[p] - n[p] = 0
      BY <1>4, <2>1, <3>3
    <3>4. all => rest = Nothing
      BY <3>3 DEF Nothing
    <3> QED
      BY <3>2, <3>4
  <2> HIDE DEF known, rest
  <2>4. Price(s, q) = Price(s, known) + Price(s, rest)
    BY <1>1, <2>2, <2>3, UnitsInt, PricePlus
  <2>5. Price(s, known) = Price(s, n) + Price(s, b)
    BY <1>1, <2>2, UnitsInt, PricePlus
  <2>6. Price(s, rest) \in Nat /\ Price(s, n) \in Nat /\ Price(s, b) \in Nat
    BY <1>1, <2>3, PriceTyped
  <2>7. all => Price(s, rest) = 0
    BY <1>1, <2>3, PriceTyped
  <2>8. Price(s, q) - m = Price(s, n) + Price(s, rest)
    BY <1>3, <2>4, <2>5, <2>6
  <2> QED
    BY <1>5, <2>6, <2>7, <2>8 DEF Lesser
<1>8. ASSUME all PROVE \A p \in SKUs : back[s][p] + n[p] = qty[s][p]
  <2> SUFFICES ASSUME NEW p \in SKUs PROVE back[s][p] + n[p] = qty[s][p]
    OBVIOUS
  <2>1. n[p] \in Nat /\ b[p] \in Nat /\ q[p] \in Nat /\ back[s][p] \in Nat
    BY <1>1, UnitsInt, SaleTyped
  <2>2. n[p] = q[p] - b[p] /\ b[p] <= back[s][p]
    BY <1>3, <1>4, <1>8
  <2>3. back[s][p] <= q[p] /\ q[p] = qty[s][p]
    BY <1>3 DEF SaleKnown
  <2>4. n[p] > 0 => back[s][p] <= q[p] - n[p]
    BY <1>6
  <2> QED
    BY <2>1, <2>2, <2>3, <2>4
<1> QED
  BY <1>1, <1>2, <1>3, <1>6, <1>7, <1>8

LEMMA ReturnKeeps ==
    ASSUME IInv, Safe, NEW h \in Requests, returnSale(h)
    PROVE  IInv'
<1>0. TypeOK /\ Compatible /\ (\A t \in Sales : SaleInv(t)) /\ \A g \in Requests : Fresh(g)
  BY DEF IInv
<1>1. PICK s \in Sales, n \in Units, all \in BOOLEAN :
        /\ s = req[h].s /\ Busy(h) /\ req[h].kind = "return" /\ status[s] \in Existing
        /\ \A p \in SKUs : n[p] > 0 => back[s][p] <= qty[s][p] - n[p]
        /\ all => \A p \in SKUs : back[s][p] + n[p] = qty[s][p]
        /\ back' = [back EXCEPT ![s] = [p \in SKUs |-> back[s][p] + n[p]]]
        /\ status' = [status EXCEPT ![s] = IF all THEN "RETURNED" ELSE "PARTIALLY_RETURNED"]
        /\ refunded' = [refunded EXCEPT ![s] = @ + Price(s, n)]
        /\ Post(s, -Price(s, n)) /\ move(s, n) /\ Finish(h)
        /\ UNCHANGED <<deleted, voided, qty, rate>>
  BY ReturnWrites
<1>2. ~deleted[s] /\ ~voided[s]
  BY <1>0, <1>1 DEF Fresh, ReturnFresh, Existing, Live
<1>3. SaleKnown(s) /\ Booked(s)
  BY <1>0, <1>1 DEF SaleInv, Existing, Live
<1>4. PICK c \in Nat : c = Price(s, n) /\ -c \in Int
  BY <1>0, PriceTyped
<1>5. PICK b, q \in Units : b = back[s] /\ q = qty[s]
  BY <1>0, SaleTyped
<1>6. PICK e \in Units : e = [p \in SKUs |-> b[p] + n[p]] /\ \A p \in SKUs : e[p] = b[p] + n[p]
  <2> DEFINE f == [p \in SKUs |-> b[p] + n[p]]
  <2>1. \A p \in SKUs : b[p] + n[p] \in Nat
    BY UnitsInt
  <2>2. f \in [SKUs -> Nat] /\ \A p \in SKUs : f[p] = b[p] + n[p]
    BY <2>1
  <2> QED
    BY <2>2 DEF Units
<1>7. ColumnsOK'
  <2>1. stock' \in [SKUs -> Nat] /\ moved' \in [Sales -> [SKUs -> Int]]
    BY <1>0, <1>1, UnitsInt, MoveTyped
  <2>2. till' \in [Sales -> Int]
    BY <1>0, <1>1, <1>4, PostTyped
  <2>3. back' \in [Sales -> Units]
    BY <1>0, <1>1, <1>5, <1>6 DEF TypeOK
  <2>4. refunded' \in [Sales -> Nat]
    BY <1>0, <1>1, <1>4 DEF TypeOK
  <2>5. status' \in [Sales -> Existing \cup {"none", "purged"}]
    BY <1>0, <1>1 DEF TypeOK, Existing, Live
  <2>6. /\ deleted' \in [Sales -> BOOLEAN] /\ voided' \in [Sales -> BOOLEAN]
        /\ qty' \in [Sales -> Units] /\ rate' \in [Sales -> Nat]
    BY <1>0, <1>1 DEF TypeOK
  <2> QED
    BY <2>1, <2>2, <2>3, <2>4, <2>5, <2>6 DEF ColumnsOK
<1>8. \A t \in Sales \ {s} : SameSale(t)
  <2>1. \A t \in Sales \ {s} : moved'[t] = moved[t] /\ till'[t] = till[t]
    BY <1>0, <1>1, <1>4, UnitsInt, MoveTyped, PostTyped
  <2> QED
    BY <1>0, <1>1, <2>1 DEF SameSale, TypeOK
<1>9. /\ back'[s] = e /\ qty'[s] = q /\ rate'[s] = rate[s] /\ refunded'[s] = refunded[s] + c
      /\ ~deleted'[s] /\ ~voided'[s]
      /\ status'[s] = IF all THEN "RETURNED" ELSE "PARTIALLY_RETURNED"
      /\ \A p \in SKUs : moved'[s][p] = moved[s][p] + n[p]
      /\ till'[s] = till[s] + -c
  <2>1. (\A p \in SKUs : moved'[s][p] = moved[s][p] + n[p]) /\ till'[s] = till[s] + -c
    BY <1>0, <1>1, <1>4, UnitsInt, MoveTyped, PostTyped
  <2>2. back'[s] = e /\ qty'[s] = q /\ rate'[s] = rate[s]
    BY <1>0, <1>1, <1>5, <1>6 DEF TypeOK
  <2>3. refunded'[s] = refunded[s] + c
    BY <1>0, <1>1, <1>4 DEF TypeOK
  <2> QED
    BY <1>0, <1>1, <1>2, <2>1, <2>2, <2>3 DEF TypeOK
<1>10. Price(s, e) = Price(s, b) + c /\ Price(s, b) = refunded[s] /\ Price(s, e) = refunded'[s]
  BY <1>0, <1>3, <1>4, <1>5, <1>6, <1>9, UnitsInt, PricePlus DEF SaleKnown
<1>11. (\A p \in SKUs : e[p] <= q[p]) /\ (all => e = q)
  <2>1. ASSUME NEW p \in SKUs PROVE e[p] <= q[p] /\ (all => e[p] = q[p])
    <3>1. n[p] \in Nat /\ b[p] \in Nat /\ q[p] \in Nat /\ e[p] = b[p] + n[p]
      BY <1>6, UnitsInt
    <3>2. b[p] <= q[p] /\ (n[p] > 0 => b[p] <= q[p] - n[p]) /\ (all => b[p] + n[p] = q[p])
      BY <1>1, <1>3, <1>5 DEF SaleKnown
    <3> QED
      BY <3>1, <3>2
  <2> QED
    BY <2>1 DEF Units
<1>12. SaleKnown(s)'
  <2>1. status'[s] \notin {"none", "COMPLETED"}
    BY <1>9
  <2>2. rate[s] > 0
    BY <1>1, <1>3 DEF SaleKnown, Existing, Live
  <2>3. refunded'[s] = Price(s, back[s])'
    BY <1>9, <1>10 DEF Price
  <2> QED
    BY <1>9, <1>11, <2>1, <2>2, <2>3 DEF SaleKnown
<1>13. Booked(s)'
  <2>1. status[s] \in Live \/ (status[s] = "RETURNED" /\ b = q)
    BY <1>1, <1>2, <1>3, <1>5 DEF SaleKnown, Existing
  <2>2. ASSUME NEW p \in SKUs PROVE moved'[s][p] = -Kept(s)'[p]
    <3>1. n[p] \in Nat /\ b[p] \in Nat /\ q[p] \in Nat /\ e[p] = b[p] + n[p]
      BY <1>6, UnitsInt
    <3>2. moved[s][p] = -(q[p] - b[p])
      BY <1>2, <1>3, <1>5, <2>1, <3>1, NothingTyped DEF Booked, Kept, Minus
    <3>3. Kept(s)'[p] = q[p] - e[p]
      BY <1>9, <1>11, <3>1, NothingTyped DEF Kept, Live, Minus
    <3> QED
      BY <1>9, <3>1, <3>2, <3>3
  <2>3. PICK x, y \in Int : x = Price(s, q) /\ y = refunded[s]
    BY <1>0, PriceTyped, SaleTyped
  <2>4. till[s] = x - y
    <3>1. b = q => x - y = 0
      BY <1>10, <2>3
    <3> QED
      BY <1>2, <1>3, <1>5, <2>1, <2>3, <3>1 DEF Booked, Live
  <2>5. till'[s] = x - (y + c) /\ (all => x = y + c)
    BY <1>4, <1>9, <1>10, <1>11, <2>3, <2>4
  <2>6. Price(s, qty[s])' = x /\ refunded'[s] = y + c
    BY <1>9, <2>3 DEF Price
  <2>7. till'[s] = IF status'[s] \in Live /\ ~deleted'[s]
                   THEN Price(s, qty[s])' - refunded'[s] ELSE 0
    BY <1>4, <1>9, <2>3, <2>5, <2>6 DEF Live
  <2> QED
    BY <2>2, <2>7 DEF Booked
<1>14. ASSUME NEW g \in Requests \ {h}, Busy(g), req[g].s = s PROVE Fresh(g)'
  <2>1. req[g].kind \in {"return", "purge"} /\ Fresh(g) /\ Later(g)
    BY <1>0, <1>1, <1>14, SafeKinds, FinishLeaves
  <2>2. req[g].kind = "return" => ReturnFresh(g)
    BY <1>1, <1>14, <2>1 DEF Fresh, Existing, Live
  <2>3. ASSUME req[g].kind = "return" PROVE ReturnFresh(g)'
    <3>1. /\ req'[g].s = s /\ req'[g].qty = q /\ req'[g].back = req[g].back
          /\ req'[g].n = req[g].n /\ req'[g].refunded = Price(s, req[g].back)
      BY <1>5, <1>14, <2>1, <2>2, <2>3 DEF Later, ReturnFresh
    <3>2. req'[g].refunded = Price(s, req[g].back)'
      BY <1>9, <1>14, <2>1, <2>3, <3>1 DEF Price, Later
    <3>3. ASSUME NEW p \in SKUs PROVE req[g].back[p] <= e[p]
      <4>1. req[g].back[p] \in Nat /\ b[p] \in Nat /\ n[p] \in Nat
        BY <1>0, <1>14, BusyTyped, UnitsInt
      <4>2. req[g].back[p] <= b[p]
        BY <1>5, <1>14, <2>2, <2>3 DEF ReturnFresh
      <4> QED
        BY <1>6, <4>1, <4>2
    <3>4. \A p \in SKUs : req[g].n[p] <= q[p] - req[g].back[p]
      BY <1>5, <1>14, <2>2, <2>3 DEF ReturnFresh
    <3>5. status'[s] \in Existing
      BY <1>9 DEF Existing, Live
    <3> QED
      BY <1>9, <3>1, <3>2, <3>3, <3>4, <3>5 DEF ReturnFresh
  <2>4. Busy(g)' /\ req'[g].kind = req[g].kind /\ req'[g].s = s /\ status'[s] # "none"
    BY <1>9, <1>14, <2>1 DEF Later
  <2> QED
    BY <2>1, <2>3, <2>4 DEF Fresh
<1>15. SaleInv(s)'
  BY <1>9, <1>12, <1>13 DEF SaleInv
<1> QED
  BY <1>1, <1>7, <1>8, <1>14, <1>15, CommitKeeps

-----------------------------------------------------------------------------
(* The row of a sale and its postings, as every other commit writes them   *)

\* The row of sale s is written.
Row(s, st, q, b, r, m) ==
    /\ status' = [status EXCEPT ![s] = st]
    /\ qty' = [qty EXCEPT ![s] = q] /\ back' = [back EXCEPT ![s] = b]
    /\ rate' = [rate EXCEPT ![s] = r] /\ refunded' = [refunded EXCEPT ![s] = m]

\* Only the flags of sale s are written.
Flags(s) ==
    /\ deleted' \in [Sales -> BOOLEAN] /\ voided' \in [Sales -> BOOLEAN]
    /\ \A t \in Sales \ {s} : deleted'[t] = deleted[t] /\ voided'[t] = voided[t]

\* Units n and money a are booked for sale s.
Books(s, n, a) ==
    \/ move(s, n) /\ Post(s, a)
    \/ UNCHANGED bookVars /\ n = Nothing /\ a = 0

LEMMA BooksTyped ==
    ASSUME TypeOK, NEW s \in Sales, NEW n \in [SKUs -> Int], NEW a \in Int, Books(s, n, a)
    PROVE  /\ stock' \in [SKUs -> Nat] /\ moved' \in [Sales -> [SKUs -> Int]]
           /\ till' \in [Sales -> Int]
           /\ \A p \in SKUs : moved'[s][p] = moved[s][p] + n[p]
           /\ till'[s] = till[s] + a
           /\ \A t \in Sales \ {s} : moved'[t] = moved[t] /\ till'[t] = till[t]
<1>1. CASE move(s, n) /\ Post(s, a)
  BY <1>1, MoveTyped, PostTyped
<1>2. CASE UNCHANGED bookVars /\ n = Nothing /\ a = 0
  <2>1. stock \in [SKUs -> Nat] /\ moved \in [Sales -> [SKUs -> Int]] /\ till \in [Sales -> Int]
    BY DEF TypeOK
  <2>2. stock' = stock /\ moved' = moved /\ till' = till
    BY <1>2 DEF bookVars
  <2>3. \A p \in SKUs : moved[s][p] \in Int /\ n[p] = 0
    BY <1>2, <2>1, NothingTyped
  <2>4. \A p \in SKUs : moved'[s][p] = moved[s][p] + n[p]
    BY <2>2, <2>3
  <2>5. till'[s] = till[s] + a
    BY <1>2, <2>1, <2>2
  <2> QED
    BY <2>1, <2>2, <2>4, <2>5
<1> QED
  BY <1>1, <1>2 DEF Books

LEMMA RowWritten ==
    ASSUME TypeOK, NEW s \in Sales, NEW n \in [SKUs -> Int], NEW a \in Int, Books(s, n, a),
           NEW st \in Existing \cup {"purged"}, NEW q \in Units, NEW b \in Units,
           NEW r \in Nat, NEW m \in Nat, Row(s, st, q, b, r, m), Flags(s)
    PROVE  /\ ColumnsOK' /\ (\A t \in Sales \ {s} : SameSale(t)) /\ status'[s] = st
           /\ qty'[s] = q /\ back'[s] = b /\ rate'[s] = r /\ refunded'[s] = m
           /\ \A p \in SKUs : moved'[s][p] = moved[s][p] + n[p]
           /\ till'[s] = till[s] + a
<1>1. /\ stock' \in [SKUs -> Nat] /\ moved' \in [Sales -> [SKUs -> Int]]
      /\ till' \in [Sales -> Int]
      /\ \A p \in SKUs : moved'[s][p] = moved[s][p] + n[p]
      /\ till'[s] = till[s] + a
      /\ \A t \in Sales \ {s} : moved'[t] = moved[t] /\ till'[t] = till[t]
  BY BooksTyped
<1>2. /\ status' \in [Sales -> Existing \cup {"none", "purged"}] /\ status'[s] = st
      /\ \A t \in Sales \ {s} : status'[t] = status[t]
  BY DEF TypeOK, Row
<1>3. /\ deleted' \in [Sales -> BOOLEAN]
      /\ \A t \in Sales \ {s} : deleted'[t] = deleted[t]
  BY DEF Flags
<1>4. /\ voided' \in [Sales -> BOOLEAN]
      /\ \A t \in Sales \ {s} : voided'[t] = voided[t]
  BY DEF Flags
<1>5. /\ qty' \in [Sales -> Units] /\ qty'[s] = q
      /\ \A t \in Sales \ {s} : qty'[t] = qty[t]
  BY DEF TypeOK, Row
<1>6. /\ back' \in [Sales -> Units] /\ back'[s] = b
      /\ \A t \in Sales \ {s} : back'[t] = back[t]
  BY DEF TypeOK, Row
<1>7. /\ rate' \in [Sales -> Nat] /\ rate'[s] = r
      /\ \A t \in Sales \ {s} : rate'[t] = rate[t]
  BY DEF TypeOK, Row
<1>8. /\ refunded' \in [Sales -> Nat] /\ refunded'[s] = m
      /\ \A t \in Sales \ {s} : refunded'[t] = refunded[t]
  BY DEF TypeOK, Row
<1>9. ColumnsOK'
  BY <1>1, <1>2, <1>3, <1>4, <1>5, <1>6, <1>7, <1>8 DEF ColumnsOK
<1>10. \A t \in Sales \ {s} : SameSale(t)
  BY <1>1, <1>2, <1>3, <1>4, <1>5, <1>6, <1>7, <1>8 DEF SameSale
<1> QED
  BY <1>1, <1>2, <1>3, <1>4, <1>5, <1>6, <1>7, <1>8, <1>9, <1>10

\* A column that is written with what it holds is unchanged.
LEMMA SameColumns ==
    ASSUME TypeOK, NEW s \in Sales
    PROVE  /\ status = [status EXCEPT ![s] = status[s]]
           /\ deleted = [deleted EXCEPT ![s] = deleted[s]]
           /\ voided = [voided EXCEPT ![s] = voided[s]]
           /\ qty = [qty EXCEPT ![s] = qty[s]] /\ back = [back EXCEPT ![s] = back[s]]
           /\ rate = [rate EXCEPT ![s] = rate[s]]
           /\ refunded = [refunded EXCEPT ![s] = refunded[s]]
BY DEF TypeOK

-----------------------------------------------------------------------------
(* Ringing up, editing and purging                                         *)

LEMMA CreateKeeps ==
    ASSUME IInv, NEW s \in Sales, NEW n \in [SKUs -> Quantities], NEW r \in Rates, 0 \notin Rates,
           create(s, n, r)
    PROVE  IInv'
<1>0. TypeOK /\ Compatible /\ (\A t \in Sales : SaleInv(t)) /\ \A g \in Requests : Fresh(g)
  BY DEF IInv
<1>1. /\ n \in Units /\ n \in [SKUs -> Int] /\ r \in Nat /\ r > 0
      /\ \A p \in SKUs : n[p] \in Nat
  <2>1. n \in [SKUs -> Nat] /\ r \in Nat /\ r # 0
    BY ConstantsAssumption
  <2>2. r > 0
    BY <2>1
  <2> QED
    BY <2>1, <2>2, UnitsInt DEF Units
<1>2. PICK out \in [SKUs -> Int] : out = Minus(Nothing, n) /\ \A p \in SKUs : out[p] = 0 - n[p]
  BY <1>1, NothingTyped, MinusTyped
<1>3. PICK a \in Nat : a = Count(n)
  BY <1>1, CountTyped
<1>4. PICK c \in Nat : c = r * a
  BY <1>1
<1>5. Books(s, out, c) /\ UNCHANGED req /\ status[s] = "none"
  BY <1>2, <1>3, <1>4 DEF create, Books
<1>6. /\ back[s] = Nothing /\ refunded[s] = 0 /\ ~deleted[s] /\ ~voided[s]
      /\ till[s] = 0 /\ \A p \in SKUs : moved[s][p] = 0
  <2>1. SaleKnown(s) /\ Booked(s)
    BY <1>0, <1>5 DEF SaleInv
  <2>2. Kept(s) = Nothing
    BY <1>5 DEF Kept, Live
  <2>3. ASSUME NEW p \in SKUs PROVE moved[s][p] = 0
    BY <2>1, <2>2, NothingTyped DEF Booked
  <2> QED
    BY <1>5, <2>1, <2>3 DEF SaleKnown, Booked, Live
<1>7. Row(s, "COMPLETED", n, Nothing, r, 0) /\ Flags(s) /\ ~deleted'[s] /\ ~voided'[s]
  <2>1. back = [back EXCEPT ![s] = Nothing] /\ refunded = [refunded EXCEPT ![s] = 0]
    BY <1>0, <1>6 DEF TypeOK
  <2>2. Flags(s) /\ ~deleted'[s] /\ ~voided'[s]
    BY <1>0, <1>6 DEF create, Flags, TypeOK
  <2> QED
    BY <2>1, <2>2 DEF create, Row
<1>8. /\ ColumnsOK' /\ \A t \in Sales \ {s} : SameSale(t)
      /\ status'[s] = "COMPLETED" /\ ~deleted'[s] /\ ~voided'[s]
      /\ qty'[s] = n /\ back'[s] = Nothing /\ rate'[s] = r /\ refunded'[s] = 0
      /\ \A p \in SKUs : moved'[s][p] = moved[s][p] + out[p]
      /\ till'[s] = till[s] + c
  <2>1. PICK st \in Existing \cup {"purged"}, z \in Nat : st = "COMPLETED" /\ z = 0
    BY DEF Existing, Live
  <2>2. Row(s, st, n, Nothing, r, z) /\ Flags(s)
    BY <1>7, <2>1
  <2>3. c \in Int /\ Nothing \in Units
    BY NothingTyped
  <2>4. /\ ColumnsOK' /\ (\A t \in Sales \ {s} : SameSale(t)) /\ status'[s] = st
        /\ qty'[s] = n /\ back'[s] = Nothing /\ rate'[s] = r /\ refunded'[s] = z
        /\ \A p \in SKUs : moved'[s][p] = moved[s][p] + out[p]
        /\ till'[s] = till[s] + c
    BY <1>0, <1>1, <1>5, <2>2, <2>3, RowWritten
  <2> QED
    BY <1>7, <2>1, <2>4
<1>9. SaleKnown(s)'
  <2>1. \A p \in SKUs : 0 <= n[p]
    BY <1>1
  <2>2. r * 0 = 0
    BY <1>1
  <2>3. Price(s, back[s])' = 0
    BY <1>8, <2>2, CountTyped DEF Price
  <2> QED
    BY <1>1, <1>8, <2>1, <2>3, NothingTyped DEF SaleKnown
<1>10. Booked(s)'
  <2>1. ASSUME NEW p \in SKUs PROVE moved'[s][p] = -Kept(s)'[p]
    <3>1. Kept(s)'[p] = n[p] - 0
      BY <1>8, NothingTyped DEF Kept, Live, Minus
    <3>2. moved'[s][p] = 0 + (0 - n[p])
      BY <1>2, <1>6, <1>8
    <3> QED
      BY <1>1, <3>1, <3>2
  <2>2. Price(s, qty[s])' = c
    BY <1>3, <1>4, <1>8 DEF Price
  <2>3. till'[s] = c
    BY <1>6, <1>8
  <2> QED
    BY <1>8, <2>1, <2>2, <2>3 DEF Booked, Live
<1>11. ASSUME NEW g \in Requests
       PROVE  ~Busy(g)' \/ (Later(g) /\ (SameSale(req[g].s) \/ Fresh(g)'))
  <2>1. Later(g)
    BY <1>5 DEF Later, Busy
  <2>2. Busy(g) => req[g].s \in Sales \ {s}
    BY <1>0, <1>5, BusyTyped DEF Fresh
  <2> QED
    BY <1>8, <2>1, <2>2 DEF Later
<1>12. req' \in [Requests -> Request \cup {Idle}]
  BY <1>0, <1>5 DEF TypeOK
<1> QED
  BY <1>8, <1>9, <1>10, <1>11, <1>12, WriteKeeps DEF SaleInv

LEMMA EditKeeps ==
    ASSUME IInv, Safe, NEW h \in Requests, editSale(h)
    PROVE  IInv'
<1>0. TypeOK /\ Compatible /\ (\A t \in Sales : SaleInv(t)) /\ \A g \in Requests : Fresh(g)
  BY DEF IInv
<1>1. req[h].kind = "edit" /\ Busy(h) /\ req[h].fresh
  <2>1. req[h].kind = "edit" /\ req[h].fresh
    BY DEF editSale, Running
  <2>2. Idle.kind # "edit"
    BY DEF Idle
  <2> QED
    BY <2>1, <2>2 DEF Busy
<1>2. PICK s \in Sales, n \in Units, q \in Units :
        s = req[h].s /\ n = req[h].n /\ q = req[h].qty
  BY <1>0, <1>1, BusyTyped
<1>3. /\ status[s] = "COMPLETED" /\ ~deleted[s]
      /\ qty' = [qty EXCEPT ![s] = n]
      /\ back' = [back EXCEPT ![s] = [p \in SKUs |-> IF n[p] = 0 THEN 0 ELSE @[p]]]
      /\ move(s, Minus(q, n)) /\ Post(s, Price(s, n) - Price(s, q)) /\ Finish(h)
      /\ UNCHANGED <<status, deleted, voided, rate, refunded>>
  BY <1>2 DEF editSale
<1>4. q = qty[s] /\ SaleKnown(s) /\ Booked(s) /\ back[s] = Nothing /\ refunded[s] = 0
      /\ ~voided[s] /\ rate[s] > 0 /\ rate[s] \in Nat
  <2>1. q = qty[s] /\ SaleKnown(s) /\ Booked(s)
    BY <1>0, <1>1, <1>2, <1>3 DEF Fresh, SaleInv
  <2>2. back[s] = Nothing /\ ~voided[s] /\ rate[s] > 0 /\ refunded[s] = Price(s, back[s])
    BY <1>3, <2>1 DEF SaleKnown
  <2> QED
    BY <1>0, <2>1, <2>2, PriceTyped, SaleTyped
<1>5. PICK out \in [SKUs -> Int] : out = Minus(q, n) /\ \A p \in SKUs : out[p] = q[p] - n[p]
  BY UnitsInt, MinusTyped
<1>6. PICK x \in Nat, y \in Nat : x = Price(s, q) /\ y = Price(s, n)
  BY <1>0, PriceTyped
<1>7. PICK c \in Int : c = y - x
  OBVIOUS
<1>8. Books(s, out, c)
  BY <1>3, <1>5, <1>6, <1>7 DEF Books
<1>9. PICK r \in Nat : r = rate[s]
  BY <1>4
<1>10. PICK st \in Existing \cup {"purged"}, z \in Nat : st = "COMPLETED" /\ z = 0
  BY DEF Existing, Live
<1>11. Row(s, st, n, Nothing, r, z) /\ Flags(s) /\ ~deleted'[s] /\ ~voided'[s]
  <2>1. [p \in SKUs |-> IF n[p] = 0 THEN 0 ELSE back[s][p]] = Nothing
    BY <1>4 DEF Nothing
  <2>2. back' = [back EXCEPT ![s] = Nothing]
    BY <1>0, <1>3, <2>1 DEF TypeOK
  <2>3. /\ status = [status EXCEPT ![s] = st] /\ rate = [rate EXCEPT ![s] = r]
        /\ refunded = [refunded EXCEPT ![s] = z]
    BY <1>0, <1>3, <1>4, <1>9, <1>10 DEF TypeOK
  <2>4. Flags(s) /\ ~deleted'[s] /\ ~voided'[s]
    BY <1>0, <1>3, <1>4 DEF Flags, TypeOK
  <2> QED
    BY <1>3, <2>2, <2>3, <2>4 DEF Row
<1>12. /\ ColumnsOK' /\ (\A t \in Sales \ {s} : SameSale(t)) /\ status'[s] = st
       /\ qty'[s] = n /\ back'[s] = Nothing /\ rate'[s] = r /\ refunded'[s] = z
       /\ \A p \in SKUs : moved'[s][p] = moved[s][p] + out[p]
       /\ till'[s] = till[s] + c
  BY <1>0, <1>8, <1>11, NothingTyped, RowWritten
<1>13. SaleKnown(s)'
  <2>1. \A p \in SKUs : 0 <= n[p]
    BY UnitsInt
  <2>2. r * 0 = 0
    OBVIOUS
  <2>3. Price(s, back[s])' = 0
    BY <1>12, <2>2, CountTyped DEF Price
  <2>4. r > 0
    BY <1>4, <1>9
  <2>5. /\ status'[s] = "COMPLETED" /\ ~deleted'[s] /\ ~voided'[s]
        /\ back'[s] = Nothing /\ refunded'[s] = 0 /\ rate'[s] > 0
    BY <1>10, <1>11, <1>12, <2>4
  <2>6. \A p \in SKUs : back'[s][p] <= qty'[s][p]
    BY <1>12, <2>1, NothingTyped
  <2> QED
    BY <2>3, <2>5, <2>6 DEF SaleKnown
<1>14. Booked(s)'
  <2>1. ASSUME NEW p \in SKUs PROVE moved'[s][p] = -Kept(s)'[p]
    <3>1. n[p] \in Nat /\ q[p] \in Nat
      BY UnitsInt
    <3>2. Kept(s)'[p] = n[p] - 0
      BY <1>10, <1>11, <1>12, NothingTyped DEF Kept, Live, Minus
    <3>3. Kept(s)[p] = q[p] - 0
      BY <1>3, <1>4, NothingTyped DEF Kept, Live, Minus
    <3>4. moved[s][p] = -(q[p] - 0)
      BY <1>4, <3>3 DEF Booked
    <3>5. moved'[s][p] = -(q[p] - 0) + (q[p] - n[p])
      BY <1>5, <1>12, <3>4
    <3> QED
      BY <3>1, <3>2, <3>5
  <2>2. Price(s, qty[s])' = y
    BY <1>6, <1>9, <1>12 DEF Price
  <2>3. till[s] = x
    BY <1>3, <1>4, <1>6 DEF Booked, Live
  <2>4. till'[s] = y /\ refunded'[s] = 0
    BY <1>7, <1>10, <1>12, <2>3
  <2>5. status'[s] \in Live /\ ~deleted'[s]
    BY <1>10, <1>11, <1>12 DEF Live
  <2> QED
    BY <2>1, <2>2, <2>4, <2>5 DEF Booked
<1>15. ASSUME NEW g \in Requests \ {h}, Busy(g), req[g].s = s PROVE Fresh(g)'
  <2>1. req[g].kind \in {"edit", "purge"} /\ Later(g) /\ ~req'[g].fresh
    BY <1>0, <1>1, <1>2, <1>3, <1>15, SafeKinds, FinishLeaves
  <2>2. req'[g].kind \in {"edit", "purge"} /\ req'[g].s = s
    BY <1>15, <2>1 DEF Later
  <2>3. status'[s] # "none"
    BY <1>10, <1>12
  <2> QED
    BY <2>1, <2>2, <2>3 DEF Fresh
<1> QED
  BY <1>1, <1>2, <1>3, <1>10, <1>12, <1>13, <1>14, <1>15, CommitKeeps DEF SaleInv

LEMMA PurgeKeeps ==
    ASSUME IInv, NEW h \in Requests, purgeTrash(h)
    PROVE  IInv'
<1>0. TypeOK /\ (\A t \in Sales : SaleInv(t)) /\ \A g \in Requests : Fresh(g)
  BY DEF IInv
<1>1. req[h].kind = "purge" /\ Busy(h) /\ Finish(h) /\ status[req[h].s] \in Existing
  <2>1. req[h].kind = "purge" /\ Finish(h) /\ status[req[h].s] \in Existing
    BY DEF purgeTrash, Running
  <2>2. Idle.kind # "purge"
    BY DEF Idle
  <2> QED
    BY <2>1, <2>2 DEF Busy
<1>2. PICK s \in Sales : s = req[h].s
  BY <1>0, <1>1, BusyTyped
<1>3. /\ status' = [status EXCEPT ![s] = "purged"]
      /\ UNCHANGED <<deleted, voided, qty, back, rate, refunded, stock, moved, till>>
  BY <1>2 DEF purgeTrash, bookVars
<1>4. /\ status' \in [Sales -> Existing \cup {"none", "purged"}] /\ status'[s] = "purged"
      /\ \A t \in Sales \ {s} : status'[t] = status[t]
  BY <1>0, <1>3 DEF TypeOK
<1>5. ColumnsOK'
  BY <1>0, <1>3, <1>4 DEF TypeOK, ColumnsOK
<1>6. \A t \in Sales \ {s} : SameSale(t)
  BY <1>3, <1>4 DEF SameSale
<1>7. SaleKnown(s) /\ Matches(s) /\ status[s] # "none"
  BY <1>0, <1>1, <1>2, KnownMatches DEF SaleInv, Existing, Live
<1>8. SaleKnown(s)'
  BY <1>3, <1>4, <1>7 DEF SaleKnown, Price
<1>9. Matches(s)'
  BY <1>3, <1>7 DEF Matches, Out, Price
<1>10. ASSUME NEW g \in Requests \ {h}, Busy(g), req[g].s = s PROVE Fresh(g)'
  <2>1. Later(g)
    BY <1>0, <1>1, <1>10, FinishLeaves
  <2> QED
    BY <1>4, <1>10, <2>1 DEF Fresh, Later
<1> QED
  BY <1>1, <1>2, <1>4, <1>5, <1>6, <1>8, <1>9, <1>10, CommitKeeps DEF SaleInv

-----------------------------------------------------------------------------
(* Reading, and giving up                                                  *)

LEMMA BeginKeeps ==
    ASSUME IInv, NEW h \in Requests, NEW k \in Kinds, NEW s \in Sales, NEW n \in Units,
           Begin(h, k, s, n),
           k = "return" => /\ ~deleted[s] /\ status[s] \in Live
                           /\ \A p \in SKUs : n[p] <= qty[s][p] - back[s][p],
           k = "delete" => ~deleted[s], k = "restore" => deleted[s]
    PROVE  IInv'
<1>0. TypeOK /\ Compatible /\ (\A t \in Sales : SaleInv(t)) /\ \A g \in Requests : Fresh(g)
  BY DEF IInv
<1>1. /\ req[h] = Idle /\ status[s] \in Existing
      /\ \A g \in Requests : Busy(g) /\ req[g].s = s => {k, req[g].kind} \in Overlaps
      /\ UNCHANGED <<status, deleted, voided, qty, back, rate, refunded, stock, moved, till>>
  BY DEF Begin, Busy, saleVars, bookVars
<1>2. PICK r \in Request :
        /\ r.kind = k /\ r.s = s /\ r.n = n /\ r.fresh /\ r.status = status[s]
        /\ r.voided = voided[s] /\ r.qty = qty[s] /\ r.back = back[s]
        /\ r.refunded = refunded[s] /\ req' = [req EXCEPT ![h] = r]
  <2> DEFINE f == [kind |-> k, s |-> s, n |-> n, fresh |-> TRUE, status |-> status[s],
                   voided |-> voided[s], qty |-> qty[s], back |-> back[s],
                   refunded |-> refunded[s]]
  <2>1. f \in Request
    BY <1>0, <1>1, SaleTyped DEF Request
  <2>2. /\ f.kind = k /\ f.s = s /\ f.n = n /\ f.fresh /\ f.status = status[s]
        /\ f.voided = voided[s] /\ f.qty = qty[s] /\ f.back = back[s]
        /\ f.refunded = refunded[s]
    OBVIOUS
  <2>3. req' = [req EXCEPT ![h] = f]
    BY DEF Begin
  <2> HIDE DEF f
  <2> QED
    BY <2>1, <2>2, <2>3
<1>3. /\ req' \in [Requests -> Request \cup {Idle}] /\ req'[h] = r
      /\ \A g \in Requests \ {h} : req'[g] = req[g]
  BY <1>0, <1>2 DEF TypeOK
<1>4. TypeOK'
  BY <1>0, <1>1, <1>3 DEF TypeOK
<1>5. Compatible'
  <2> SUFFICES ASSUME NEW f \in Requests, NEW g \in Requests, f # g, Busy(f)', Busy(g)',
                      req'[f].s = req'[g].s
               PROVE  {req'[f].kind, req'[g].kind} \in Overlaps
    BY DEF Compatible
  <2>1. CASE f = h
    BY <1>1, <1>2, <1>3, <2>1 DEF Busy
  <2>2. CASE g = h
    <3>1. {k, req[f].kind} \in Overlaps
      BY <1>1, <1>2, <1>3, <2>2 DEF Busy
    <3>2. {k, req[f].kind} = {req[f].kind, k}
      OBVIOUS
    <3> QED
      BY <1>2, <1>3, <2>2, <3>1, <3>2
  <2>3. CASE f # h /\ g # h
    BY <1>0, <1>3, <2>3 DEF Compatible, Busy
  <2> QED
    BY <2>1, <2>2, <2>3
<1>6. ASSUME NEW t \in Sales PROVE SaleInv(t)'
  <2>1. SameSale(t)
    BY <1>1 DEF SameSale
  <2> QED
    BY <1>0, <2>1, SameSaleKeeps
<1>7. ASSUME NEW g \in Requests \ {h} PROVE Fresh(g)'
  <2>1. Later(g)
    BY <1>3 DEF Later, Busy
  <2>2. Busy(g) => SameSale(req[g].s)
    BY <1>1 DEF SameSale
  <2> QED
    BY <1>0, <2>1, <2>2, SameSaleFresh
<1>8. Fresh(h)'
  <2>1. SaleKnown(s) /\ status[s] # "none"
    BY <1>0, <1>1 DEF SaleInv, Existing, Live
  <2>2. ASSUME k = "return" PROVE ReturnFresh(h)'
    <3>1. ~deleted[s] /\ ~voided[s] /\ status[s] \in Existing
      BY <1>1, <2>1, <2>2 DEF SaleKnown
    <3>2. r.refunded = Price(s, r.back)'
      BY <1>1, <1>2, <2>1 DEF SaleKnown, Price
    <3>3. \A p \in SKUs : r.back[p] <= back[s][p]
      BY <1>0, <1>2, SaleTyped, UnitsInt
    <3> QED
      BY <1>1, <1>2, <1>3, <2>2, <3>1, <3>2, <3>3 DEF ReturnFresh
  <2>3. ASSUME k \in {"delete", "restore"} PROVE TrashFresh(h)'
    <3>1. k = "delete" => ~voided[s]
      BY <2>1 DEF SaleKnown
    <3>2. k = "restore" => status[s] \notin Live
      BY <1>1, <2>1 DEF SaleKnown, Existing, Live
    <3>3. "RETURNED" \notin Live
      BY DEF Live
    <3> QED
      BY <1>1, <1>2, <1>3, <3>1, <3>2, <3>3 DEF TrashFresh
  <2> QED
    BY <1>1, <1>2, <1>3, <2>1, <2>2, <2>3 DEF Fresh
<1> QED
  BY <1>4, <1>5, <1>6, <1>7, <1>8 DEF IInv

LEMMA IdleKeeps ==
    ASSUME IInv, UNCHANGED <<saleVars, bookVars>>,
           UNCHANGED req \/ \E h \in Requests : req' = [req EXCEPT ![h] = Idle]
    PROVE  IInv'
<1>0. TypeOK /\ Compatible /\ (\A t \in Sales : SaleInv(t)) /\ \A g \in Requests : Fresh(g)
  BY DEF IInv
<1>1. UNCHANGED <<status, deleted, voided, qty, back, rate, refunded, stock, moved, till>>
  BY DEF saleVars, bookVars
<1>2. ColumnsOK' /\ \A t \in Sales : SameSale(t)
  BY <1>0, <1>1 DEF TypeOK, ColumnsOK, SameSale
<1>3. /\ req' \in [Requests -> Request \cup {Idle}]
      /\ \A g \in Requests : req'[g] = req[g] \/ ~Busy(g)'
  BY <1>0 DEF TypeOK, Busy
<1>4. ASSUME NEW g \in Requests
      PROVE  ~Busy(g)' \/ (Later(g) /\ (SameSale(req[g].s) \/ Fresh(g)'))
  <2>1. req'[g] = req[g] => Later(g) /\ (Busy(g)' <=> Busy(g))
    BY DEF Later, Busy
  <2>2. Busy(g) => SameSale(req[g].s)
    BY <1>1 DEF SameSale
  <2> QED
    BY <1>3, <2>1, <2>2
<1> QED
  BY <1>2, <1>3, <1>4, WriteKeeps

-----------------------------------------------------------------------------
(* Into the Trash and back                                                 *)

\* What a delete or a restore knows when it commits.
LEMMA TrashKnows ==
    ASSUME IInv, NEW h \in Requests, Running(h, "delete") \/ Running(h, "restore")
    PROVE  \E s \in Sales, q \in Units, b \in Units, r \in Nat, m \in Nat, x \in Nat :
             /\ Busy(h) /\ s = req[h].s /\ TrashFresh(h) /\ status[s] \in Existing
             /\ req[h].status \in Existing /\ req[h].voided \in BOOLEAN
             /\ q = qty[s] /\ b = back[s] /\ r = rate[s] /\ r > 0 /\ m = refunded[s]
             /\ req[h].qty = q /\ req[h].back = b /\ req[h].refunded = m
             /\ x = Price(s, q) /\ m = Price(s, b) /\ SaleKnown(s) /\ Booked(s)
<1>1. /\ Busy(h) /\ TypeOK /\ req[h].kind \in {"delete", "restore"}
      /\ status[req[h].s] \in Existing
  <2>1. req[h].kind \in {"delete", "restore"} /\ status[req[h].s] \in Existing
    BY DEF Running
  <2>2. Idle.kind \notin {"delete", "restore"}
    BY DEF Idle
  <2> QED
    BY <2>1, <2>2 DEF Busy, IInv
<1>2. PICK s \in Sales : s = req[h].s
  BY <1>1, BusyTyped
<1>3. TrashFresh(h) /\ SaleKnown(s) /\ Booked(s)
  BY <1>1, <1>2 DEF IInv, Fresh, SaleInv, Existing, Live
<1>4. PICK q \in Units, b \in Units, r \in Nat, m \in Nat :
        q = qty[s] /\ b = back[s] /\ r = rate[s] /\ m = refunded[s]
  BY <1>1, SaleTyped
<1>5. PICK x \in Nat : x = Price(s, q)
  BY <1>1, PriceTyped
<1>6. r > 0 /\ m = Price(s, b)
  BY <1>1, <1>2, <1>3, <1>4 DEF SaleKnown, Existing, Live
<1>7. req[h].status \in Existing /\ req[h].voided \in BOOLEAN
  BY <1>1, BusyTyped
<1>8. req[h].qty = q /\ req[h].back = b /\ req[h].refunded = m
  BY <1>2, <1>3, <1>4 DEF TrashFresh
<1> QED
  BY <1>1, <1>2, <1>3, <1>4, <1>5, <1>6, <1>7, <1>8

\* The other requests on the sale are deletes, restores and purges, and still
\* know it.
LEMMA OthersKnow ==
    ASSUME IInv, Safe, NEW h \in Requests, Running(h, "delete") \/ Running(h, "restore"),
           Busy(h), Finish(h), NEW s \in Sales, s = req[h].s,
           UNCHANGED <<qty, back, refunded>>, status'[s] # "none",
           NEW g \in Requests \ {h}, Busy(g), req[g].s = s,
           req[g].kind = "delete" /\ req[g].status = "RETURNED"
              => status'[s] \notin Live /\ ~voided'[s],
           req[g].kind = "restore" /\ req[g].voided
              => (status'[s] = "RETURNED" => voided'[s]),
           req[g].kind = "restore" /\ ~req[g].voided => status'[s] \notin Live /\ ~voided'[s]
    PROVE  Fresh(g)'
<1>1. TypeOK /\ Compatible /\ Fresh(g)
  BY DEF IInv
<1>2. req[g].kind \in {"delete", "restore", "purge"} /\ status[s] # "purged"
  BY <1>1, SafeKinds DEF Running, Existing, Live
<1>3. Later(g) /\ (req[g].kind \in {"delete", "restore"} => TrashFresh(g))
  BY <1>1, <1>2, FinishLeaves DEF Fresh
<1>4. req[g].kind \in {"delete", "restore"} => TrashFresh(g)'
  BY <1>3 DEF TrashFresh, Later
<1> QED
  BY <1>2, <1>3, <1>4 DEF Fresh, Later

\* A sale that was undone has its goods back and no money in the books.
LEMMA UndoneBooked ==
    ASSUME TypeOK, NEW s \in Sales, Booked(s), status[s] \in Live, ~deleted[s],
           NEW n \in [SKUs -> Int], \A p \in SKUs : n[p] = qty[s][p] - back[s][p],
           \A p \in SKUs : moved'[s][p] = moved[s][p] + n[p],
           till'[s] = till[s] - (Price(s, qty[s]) - refunded[s]),
           status'[s] \notin Live
    PROVE  Booked(s)'
<1>1. ASSUME NEW p \in SKUs PROVE moved'[s][p] = -Kept(s)'[p]
  <2>1. qty[s][p] \in Nat /\ back[s][p] \in Nat
    BY SaleTyped, UnitsInt
  <2>2. Kept(s)[p] = qty[s][p] - back[s][p] /\ moved[s][p] = -Kept(s)[p]
    BY DEF Kept, Minus, Booked
  <2>3. moved'[s][p] = 0
    BY <2>1, <2>2
  <2>4. Kept(s)' = Nothing
    BY DEF Kept, Nothing
  <2>5. PICK z \in Int : z = Kept(s)'[p] /\ -z = 0
    BY <2>4, NothingTyped, MinusZero
  <2> QED
    BY <2>3, <2>5
<1>2. PICK x \in Int : x = Price(s, qty[s]) - refunded[s]
  <2>1. Price(s, qty[s]) \in Nat /\ refunded[s] \in Nat
    BY PriceTyped, SaleTyped
  <2> QED
    BY <2>1
<1>3. till'[s] = 0
  BY <1>2 DEF Booked
<1> QED
  BY <1>1, <1>3 DEF Booked

\* A sale that was sold again has what did not come back with the customer.
LEMMA RedoneBooked ==
    ASSUME TypeOK, NEW s \in Sales, Booked(s), status[s] \notin Live,
           NEW n \in [SKUs -> Int], \A p \in SKUs : n[p] = back[s][p] - qty[s][p],
           \A p \in SKUs : moved'[s][p] = moved[s][p] + n[p],
           till'[s] = till[s] + (Price(s, qty[s]) - refunded[s]),
           status'[s] \in Live, ~deleted'[s],
           qty'[s] = qty[s], back'[s] = back[s], rate'[s] = rate[s], refunded'[s] = refunded[s]
    PROVE  Booked(s)'
<1>1. ASSUME NEW p \in SKUs PROVE moved'[s][p] = -Kept(s)'[p]
  <2>1. qty[s][p] \in Nat /\ back[s][p] \in Nat
    BY SaleTyped, UnitsInt
  <2>2. Kept(s)[p] = 0 /\ moved[s][p] = -Kept(s)[p]
    BY NothingTyped DEF Kept, Booked
  <2>3. moved'[s][p] = back[s][p] - qty[s][p]
    BY <2>1, <2>2
  <2>4. Kept(s)'[p] = qty[s][p] - back[s][p]
    BY DEF Kept, Minus
  <2> QED
    BY <2>1, <2>3, <2>4
<1>2. PICK x \in Int : x = Price(s, qty[s]) - refunded[s]
  <2>1. Price(s, qty[s]) \in Nat /\ refunded[s] \in Nat
    BY PriceTyped, SaleTyped
  <2> QED
    BY <2>1
<1>3. till'[s] = x
  BY <1>2 DEF Booked
<1>4. Price(s, qty[s])' - refunded'[s] = x
  BY <1>2 DEF Price
<1> QED
  BY <1>1, <1>3, <1>4 DEF Booked

LEMMA DeleteKeeps ==
    ASSUME IInv, Safe, NEW h \in Requests, deleteSale(h)
    PROVE  IInv'
<1>0. TypeOK /\ (\A t \in Sales : SaleInv(t)) /\ Finish(h) /\ Running(h, "delete")
  BY DEF IInv, deleteSale
<1>1. PICK s \in Sales, q \in Units, b \in Units, r \in Nat, m \in Nat, x \in Nat :
        /\ Busy(h) /\ s = req[h].s /\ TrashFresh(h) /\ status[s] \in Existing
        /\ req[h].status \in Existing /\ req[h].voided \in BOOLEAN
        /\ q = qty[s] /\ b = back[s] /\ r = rate[s] /\ r > 0 /\ m = refunded[s]
        /\ req[h].qty = q /\ req[h].back = b /\ req[h].refunded = m
        /\ x = Price(s, q) /\ m = Price(s, b) /\ SaleKnown(s) /\ Booked(s)
  BY <1>0, TrashKnows
<1>2. PICK live \in BOOLEAN : live <=> req[h].status \in Live
  OBVIOUS
<1>3. /\ live => /\ status[s] \in Live /\ ~deleted[s] /\ status[s] = req[h].status
                 /\ status' = [status EXCEPT ![s] = "RETURNED"]
                 /\ move(s, Minus(q, b)) /\ Post(s, -(x - m))
      /\ ~live => /\ req[h].status = "RETURNED" /\ UNCHANGED <<status, bookVars>>
      /\ deleted' = [deleted EXCEPT ![s] = TRUE]
      /\ voided' = [voided EXCEPT ![s] = live]
      /\ UNCHANGED <<qty, back, rate, refunded>>
  <2>1. /\ deleted' = [deleted EXCEPT ![s] = TRUE]
        /\ voided' = [voided EXCEPT ![s] = req[h].status \in Live]
        /\ UNCHANGED <<qty, back, rate, refunded>>
        /\ \/ /\ req[h].status \in Live
              /\ status[s] = req[h].status /\ ~deleted[s]
              /\ status' = [status EXCEPT ![s] = "RETURNED"]
              /\ move(s, Minus(q, b)) /\ Post(s, -(x - m))
           \/ req[h].status = "RETURNED" /\ UNCHANGED <<status, bookVars>>
    BY <1>1 DEF deleteSale
  <2>2. (req[h].status \in Live) = live
    BY <1>2
  <2>3. req[h].status = "RETURNED" => ~live
    BY <1>2 DEF Live
  <2> QED
    BY <1>2, <2>1, <2>2, <2>3
<1>4. ~live => status[s] = "RETURNED" /\ ~voided[s]
  BY <1>0, <1>1, <1>3 DEF TrashFresh, Running, Existing
<1>5. PICK n \in [SKUs -> Int], a \in Int :
        /\ Books(s, n, a)
        /\ live => /\ \A p \in SKUs : n[p] = q[p] - b[p]
                   /\ a = -(x - m)
        /\ ~live => n = Nothing /\ a = 0
  <2>1. CASE live
    <3>1. Minus(q, b) \in [SKUs -> Int] /\ \A p \in SKUs : Minus(q, b)[p] = q[p] - b[p]
      BY UnitsInt, MinusTyped
    <3>2. -(x - m) \in Int
      OBVIOUS
    <3> QED
      BY <1>3, <2>1, <3>1, <3>2 DEF Books
  <2>2. CASE ~live
    BY <1>3, <2>2, NothingTyped DEF Books
  <2> QED
    BY <2>1, <2>2
<1>6. PICK st \in Existing \cup {"purged"} : st = "RETURNED"
  BY DEF Existing
<1>7. Row(s, st, q, b, r, m) /\ Flags(s) /\ deleted'[s] /\ (voided'[s] <=> live)
  <2>1. status' = [status EXCEPT ![s] = st]
    BY <1>0, <1>3, <1>4, <1>6, SameColumns
  <2>2. /\ qty' = [qty EXCEPT ![s] = q] /\ back' = [back EXCEPT ![s] = b]
        /\ rate' = [rate EXCEPT ![s] = r] /\ refunded' = [refunded EXCEPT ![s] = m]
    BY <1>0, <1>1, <1>3, SameColumns
  <2>3. Flags(s) /\ deleted'[s] /\ (voided'[s] <=> live)
    BY <1>0, <1>3 DEF Flags, TypeOK
  <2> QED
    BY <2>1, <2>2, <2>3 DEF Row
<1>8. /\ ColumnsOK' /\ (\A t \in Sales \ {s} : SameSale(t)) /\ status'[s] = st
      /\ qty'[s] = q /\ back'[s] = b /\ rate'[s] = r /\ refunded'[s] = m
      /\ \A p \in SKUs : moved'[s][p] = moved[s][p] + n[p]
      /\ till'[s] = till[s] + a
  BY <1>0, <1>5, <1>7, RowWritten
<1>9. SaleKnown(s)'
  <2>1. Price(s, back[s])' = m
    BY <1>1, <1>8 DEF Price
  <2>2. ~live => b = q
    BY <1>1, <1>4 DEF SaleKnown
  <2>3. (\A p \in SKUs : b[p] <= q[p]) /\ r > 0
    BY <1>1 DEF SaleKnown
  <2> QED
    BY <1>6, <1>7, <1>8, <2>1, <2>2, <2>3 DEF SaleKnown
<1>10. Booked(s)'
  <2>1. status'[s] \notin Live
    BY <1>6, <1>8 DEF Live
  <2>2. CASE live
    <3>1. till'[s] = till[s] - (Price(s, qty[s]) - refunded[s])
      <4>1. till[s] \in Int
        BY <1>0, SaleTyped
      <4> QED
        BY <1>1, <1>5, <1>8, <2>2, <4>1
    <3>2. \A p \in SKUs : n[p] = qty[s][p] - back[s][p]
      BY <1>1, <1>5, <2>2
    <3> QED
      BY <1>0, <1>1, <1>3, <1>8, <2>1, <2>2, <3>1, <3>2, UndoneBooked
  <2>3. CASE ~live
    <3>1. \A p \in SKUs : moved'[s][p] = moved[s][p]
      BY <1>3, <2>3 DEF bookVars
    <3>2. till'[s] = till[s]
      BY <1>3, <2>3 DEF bookVars
    <3>3. status[s] \notin Live
      BY <1>4, <2>3 DEF Live
    <3>4. Kept(s)' = Kept(s)
      BY <2>1, <3>3 DEF Kept, Nothing
    <3> QED
      BY <1>1, <2>1, <3>1, <3>2, <3>3, <3>4 DEF Booked
  <2> QED
    BY <2>2, <2>3
<1>11. ASSUME NEW g \in Requests \ {h}, Busy(g), req[g].s = s PROVE Fresh(g)'
  <2>1. req[g].kind \in {"delete", "restore"} => TrashFresh(g)
    BY <1>1, <1>11 DEF IInv, Fresh, Existing, Live
  <2>2. status'[s] \notin Live /\ status'[s] # "none"
    BY <1>6, <1>8 DEF Live
  <2>3. req[g].kind = "delete" /\ req[g].status = "RETURNED" => ~live
    BY <1>3, <1>11, <2>1 DEF TrashFresh
  <2>4. req[g].kind = "restore" /\ req[g].voided => live
    BY <1>4, <1>11, <2>1 DEF TrashFresh
  <2>5. req[g].kind = "restore" /\ ~req[g].voided => ~live
    BY <1>3, <1>11, <2>1 DEF TrashFresh
  <2>6. UNCHANGED <<qty, back, refunded>>
    BY <1>3
  <2> QED
    BY <1>0, <1>1, <1>7, <1>8, <1>11, <2>2, <2>3, <2>4, <2>5, <2>6, OthersKnow
<1> QED
  BY <1>0, <1>1, <1>6, <1>8, <1>9, <1>10, <1>11, CommitKeeps DEF SaleInv

LEMMA RestoreKeeps ==
    ASSUME IInv, Safe, NEW h \in Requests, restoreSale(h)
    PROVE  IInv'
<1>0. TypeOK /\ (\A t \in Sales : SaleInv(t)) /\ Finish(h) /\ Running(h, "restore")
  BY DEF IInv, restoreSale
<1>1. PICK s \in Sales, q \in Units, b \in Units, r \in Nat, m \in Nat, x \in Nat :
        /\ Busy(h) /\ s = req[h].s /\ TrashFresh(h) /\ status[s] \in Existing
        /\ req[h].status \in Existing /\ req[h].voided \in BOOLEAN
        /\ q = qty[s] /\ b = back[s] /\ r = rate[s] /\ r > 0 /\ m = refunded[s]
        /\ req[h].qty = q /\ req[h].back = b /\ req[h].refunded = m
        /\ x = Price(s, q) /\ m = Price(s, b) /\ SaleKnown(s) /\ Booked(s)
  BY <1>0, TrashKnows
<1>2. PICK void \in BOOLEAN : void = req[h].voided
  BY <1>1
<1>3. PICK st \in Existing \cup {"purged"} :
        /\ void => st = IF m > 0 THEN "PARTIALLY_RETURNED" ELSE "COMPLETED"
        /\ ~void => st = status[s]
  BY <1>1 DEF Existing, Live
<1>4. /\ void => /\ status[s] = "RETURNED" /\ deleted[s]
                 /\ status' = [status EXCEPT ![s] = st]
                 /\ voided' = [voided EXCEPT ![s] = FALSE]
                 /\ move(s, Minus(b, q)) /\ Post(s, x - m)
      /\ ~void => UNCHANGED <<status, voided, bookVars>>
      /\ deleted' = [deleted EXCEPT ![s] = FALSE]
      /\ UNCHANGED <<qty, back, rate, refunded>>
  <2>1. /\ deleted' = [deleted EXCEPT ![s] = FALSE]
        /\ UNCHANGED <<qty, back, rate, refunded>>
        /\ \/ /\ req[h].voided /\ status[s] = "RETURNED" /\ deleted[s]
              /\ status' = [status EXCEPT ![s] = IF m > 0 THEN "PARTIALLY_RETURNED"
                                                 ELSE "COMPLETED"]
              /\ voided' = [voided EXCEPT ![s] = FALSE]
              /\ move(s, Minus(b, q)) /\ Post(s, x - m)
           \/ ~req[h].voided /\ UNCHANGED <<status, voided, bookVars>>
    BY <1>1 DEF restoreSale
  <2> QED
    BY <1>2, <1>3, <2>1
<1>5. (void => voided[s]) /\ (~void => status[s] = "RETURNED" /\ ~voided[s])
  BY <1>0, <1>1, <1>2, <1>4 DEF TrashFresh, Running, Existing
<1>6. PICK n \in [SKUs -> Int], a \in Int :
        /\ Books(s, n, a)
        /\ void => /\ \A p \in SKUs : n[p] = b[p] - q[p]
                   /\ a = x - m
        /\ ~void => n = Nothing /\ a = 0
  <2>1. CASE void
    <3>1. Minus(b, q) \in [SKUs -> Int] /\ \A p \in SKUs : Minus(b, q)[p] = b[p] - q[p]
      BY UnitsInt, MinusTyped
    <3>2. x - m \in Int
      OBVIOUS
    <3> QED
      BY <1>4, <2>1, <3>1, <3>2 DEF Books
  <2>2. CASE ~void
    BY <1>4, <2>2, NothingTyped DEF Books
  <2> QED
    BY <2>1, <2>2
<1>8. Row(s, st, q, b, r, m) /\ Flags(s) /\ ~deleted'[s] /\ ~voided'[s]
  <2>1. status' = [status EXCEPT ![s] = st]
    BY <1>0, <1>3, <1>4, SameColumns
  <2>2. /\ qty' = [qty EXCEPT ![s] = q] /\ back' = [back EXCEPT ![s] = b]
        /\ rate' = [rate EXCEPT ![s] = r] /\ refunded' = [refunded EXCEPT ![s] = m]
    <3>1. qty' = qty /\ back' = back /\ rate' = rate /\ refunded' = refunded
      BY <1>4
    <3> QED
      BY <1>0, <1>1, <3>1, SameColumns
  <2>3. deleted' \in [Sales -> BOOLEAN] /\ ~deleted'[s]
        /\ \A t \in Sales \ {s} : deleted'[t] = deleted[t]
    BY <1>0, <1>4 DEF TypeOK
  <2>4. voided' \in [Sales -> BOOLEAN] /\ ~voided'[s]
        /\ \A t \in Sales \ {s} : voided'[t] = voided[t]
    BY <1>0, <1>4, <1>5 DEF TypeOK
  <2> QED
    BY <2>1, <2>2, <2>3, <2>4 DEF Row, Flags
<1>9. /\ ColumnsOK' /\ (\A t \in Sales \ {s} : SameSale(t)) /\ status'[s] = st
      /\ qty'[s] = q /\ back'[s] = b /\ rate'[s] = r /\ refunded'[s] = m
      /\ \A p \in SKUs : moved'[s][p] = moved[s][p] + n[p]
      /\ till'[s] = till[s] + a
  BY <1>0, <1>6, <1>8, RowWritten
<1>10. SaleKnown(s)'
  <2>1. Price(s, back[s])' = m
    BY <1>1, <1>9 DEF Price
  <2>2. ~void => b = q /\ st = "RETURNED"
    BY <1>1, <1>3, <1>5 DEF SaleKnown
  <2>3. (\A p \in SKUs : b[p] <= q[p]) /\ r > 0
    BY <1>1 DEF SaleKnown
  <2>4. void => st \in {"PARTIALLY_RETURNED", "COMPLETED"}
    BY <1>3
  <2>5. st = "COMPLETED" => b = Nothing
    <3>1. st = "COMPLETED" => m = 0
      <4>1. st = "COMPLETED" => ~(m > 0)
        BY <1>3, <2>2
      <4> QED
        BY <4>1
    <3> QED
      BY <1>0, <1>1, <3>1, FreeIsNothing
  <2> QED
    BY <1>8, <1>9, <2>1, <2>2, <2>3, <2>4, <2>5 DEF SaleKnown
<1>11. Booked(s)'
  <2>1. status[s] = "RETURNED" /\ status[s] \notin Live
    BY <1>4, <1>5 DEF Live
  <2>2. CASE void
    <3>1. till'[s] = till[s] + (Price(s, qty[s]) - refunded[s])
      BY <1>1, <1>6, <1>9, <2>2
    <3>2. \A p \in SKUs : n[p] = back[s][p] - qty[s][p]
      BY <1>1, <1>6, <2>2
    <3>3. status'[s] \in Live /\ ~deleted'[s]
      BY <1>3, <1>8, <1>9, <2>2 DEF Live
    <3> QED
      BY <1>0, <1>1, <1>9, <2>1, <2>2, <3>1, <3>2, <3>3, RedoneBooked
  <2>3. CASE ~void
    <3>1. /\ \A p \in SKUs : moved'[s][p] = moved[s][p]
          /\ till'[s] = till[s] /\ status'[s] = status[s]
      BY <1>4, <2>3 DEF bookVars
    <3>2. Kept(s)' = Kept(s) /\ status'[s] \notin Live
      BY <2>1, <3>1 DEF Kept, Nothing
    <3> QED
      BY <1>1, <2>1, <3>1, <3>2 DEF Booked
  <2> QED
    BY <2>2, <2>3
<1>12. ASSUME NEW g \in Requests \ {h}, Busy(g), req[g].s = s PROVE Fresh(g)'
  <2>1. req[g].kind \in {"delete", "restore"} => TrashFresh(g)
    BY <1>1, <1>12 DEF IInv, Fresh, Existing, Live
  <2>2. status'[s] = st /\ ~voided'[s] /\ st # "none" /\ (void => st # "RETURNED")
    BY <1>3, <1>5, <1>8, <1>9
  <2>3. ~void => st = "RETURNED" /\ st \notin Live
    BY <1>3, <1>5 DEF Live
  <2>4. req[g].kind = "delete" /\ req[g].status = "RETURNED" => ~void
    BY <1>5, <1>12, <2>1 DEF TrashFresh
  <2>5. req[g].kind = "restore" /\ req[g].voided => void
    BY <1>5, <1>12, <2>1 DEF TrashFresh
  <2>6. req[g].kind = "restore" /\ ~req[g].voided => ~void
    BY <1>5, <1>12, <2>1 DEF TrashFresh
  <2>7. UNCHANGED <<qty, back, refunded>>
    BY <1>4
  <2> QED
    BY <1>0, <1>1, <1>12, <2>2, <2>3, <2>4, <2>5, <2>6, <2>7, OthersKnow
<1>13. st # "purged"
  BY <1>1, <1>3 DEF Existing, Live
<1> QED
  BY <1>0, <1>1, <1>9, <1>10, <1>11, <1>12, <1>13, CommitKeeps DEF SaleInv

-----------------------------------------------------------------------------
(* The theorems                                                            *)

LEMMA IInvInit == Init => IInv
<1> SUFFICES ASSUME Init PROVE IInv
  OBVIOUS
<1>1. TypeOK
  BY ConstantsAssumption, NothingTyped DEF Init, TypeOK, Existing, Live
<1>2. \A h \in Requests : ~Busy(h)
  BY DEF Init, Busy
<1>3. ASSUME NEW s \in Sales PROVE SaleInv(s)
  <2>1. /\ status[s] = "none" /\ ~deleted[s] /\ ~voided[s] /\ qty[s] = Nothing
        /\ back[s] = Nothing /\ refunded[s] = 0 /\ moved[s] = Nothing /\ till[s] = 0
    BY DEF Init
  <2>2. SaleKnown(s)
    BY <1>1, <2>1, NothingTyped, PriceTyped DEF SaleKnown
  <2>3. Kept(s) = Nothing
    BY <2>1 DEF Kept, Live
  <2>4. ASSUME NEW p \in SKUs PROVE moved[s][p] = -Kept(s)[p]
    <3>1. PICK z \in Int : z = Nothing[p] /\ z = 0 /\ -z = 0
      BY NothingTyped, MinusZero
    <3> QED
      BY <2>1, <2>3, <3>1
  <2> QED
    BY <2>1, <2>2, <2>4 DEF SaleInv, Booked, Live
<1> QED
  BY <1>1, <1>2, <1>3 DEF IInv, Compatible, Fresh

LEMMA IInvStep ==
    ASSUME IInv, Safe, [Next]_vars
    PROVE  IInv'
<1>0. \A n \in [SKUs -> Quantities] : n \in Units
  BY ConstantsAssumption DEF Units
<1>1. ASSUME NEW s \in Sales, NEW n \in [SKUs -> Quantities], NEW r \in Rates, create(s, n, r)
      PROVE  IInv'
  BY <1>1, CreateKeeps DEF Safe
<1>2. ASSUME NEW h \in Requests, NEW s \in Sales, NEW n \in [SKUs -> Quantities],
             ReadForReturn(h, s, n)
      PROVE  IInv'
  <2>1. "return" \in Kinds /\ "return" \notin {"delete", "restore"}
    BY DEF Kinds
  <2> QED
    BY <1>0, <1>2, <2>1, BeginKeeps DEF ReadForReturn
<1>3. ASSUME NEW h \in Requests, NEW s \in Sales, NEW n \in [SKUs -> Quantities],
             ReadForEdit(h, s, n)
      PROVE  IInv'
  <2>1. "edit" \in Kinds
    BY DEF Kinds
  <2> QED
    BY <1>0, <1>3, <2>1, BeginKeeps DEF ReadForEdit
<1>4. ASSUME NEW h \in Requests, NEW s \in Sales, ReadForDelete(h, s) PROVE IInv'
  <2>1. "delete" \in Kinds
    BY DEF Kinds
  <2> QED
    BY <1>4, <2>1, NothingTyped, BeginKeeps DEF ReadForDelete
<1>5. ASSUME NEW h \in Requests, NEW s \in Sales, ReadForRestore(h, s) PROVE IInv'
  <2>1. "restore" \in Kinds
    BY DEF Kinds
  <2> QED
    BY <1>5, <2>1, NothingTyped, BeginKeeps DEF ReadForRestore
<1>6. ASSUME NEW h \in Requests, returnSale(h) PROVE IInv'
  BY <1>6, ReturnKeeps
<1>7. ASSUME NEW h \in Requests, editSale(h) PROVE IInv'
  BY <1>7, EditKeeps
<1>8. ASSUME NEW h \in Requests, deleteSale(h) PROVE IInv'
  BY <1>8, DeleteKeeps
<1>9. ASSUME NEW h \in Requests, restoreSale(h) PROVE IInv'
  BY <1>9, RestoreKeeps
<1>10. ASSUME NEW h \in Requests, rollback(h) PROVE IInv'
  BY <1>10, IdleKeeps DEF rollback
<1>11. ASSUME NEW h \in Requests, purgeTrash(h) PROVE IInv'
  BY <1>11, PurgeKeeps
<1>13. ASSUME NEW h \in Requests, NEW s \in Sales, ReadForPurge(h, s) PROVE IInv'
  <2>1. "purge" \in Kinds
    BY DEF Kinds
  <2> QED
    BY <1>13, <2>1, NothingTyped, BeginKeeps DEF ReadForPurge
<1>12. CASE UNCHANGED vars
  <2>1. UNCHANGED <<saleVars, bookVars>> /\ UNCHANGED req
    BY <1>12 DEF vars, saleVars, bookVars
  <2> QED
    BY <2>1, IdleKeeps
<1> QED
  BY <1>1, <1>2, <1>3, <1>4, <1>5, <1>6, <1>7, <1>8, <1>9, <1>10, <1>11, <1>12, <1>13
     DEF Next

\* Whatever is returned, edited, deleted, restored and purged, in any order and
\* from copies as stale as the overlaps allow: no count, no flag and no amount
\* leaves its type, and stock never goes below zero.
THEOREM SalesTyped ==
    ASSUME Safe
    PROVE  Spec => []TypeOK
<1>1. IInv /\ [Next]_vars => IInv'
  BY IInvStep
<1>2. IInv => TypeOK
  BY DEF IInv
<1> QED
  BY IInvInit, <1>1, <1>2, PTL DEF Spec

\* The movements of a sale are the units that are with the customer: returns,
\* edits, deletes and restores restock nothing twice and sell nothing twice, and
\* the purge, whatever it overtakes, leaves them as they were.
THEOREM MovementsMatch ==
    ASSUME Safe
    PROVE  Spec => []MovementsMatchSale
<1>1. IInv /\ [Next]_vars => IInv'
  BY IInvStep
<1>2. IInv => MovementsMatchSale
  BY KnownMatches DEF IInv, Matches, MovementsMatchSale
<1> QED
  BY IInvInit, <1>1, <1>2, PTL DEF Spec

\* The ledger shows what was paid for a sale less what was paid back, nothing
\* while the sale is in the Trash, and the same once the purge has taken the row.
THEOREM MoneyMatches ==
    ASSUME Safe
    PROVE  Spec => []MoneyMatchesSale
<1>1. IInv /\ [Next]_vars => IInv'
  BY IInvStep
<1>2. IInv => MoneyMatchesSale
  BY KnownMatches DEF IInv, Matches, MoneyMatchesSale
<1> QED
  BY IInvInit, <1>1, <1>2, PTL DEF Spec

-----------------------------------------------------------------------------
(***************************************************************************)
(* The uses of a coupon.  Its limits hold for any number of orders,        *)
(* customers and racing restores: the counter is the number of live uses,  *)
(* and the uses that were never given back stay within both limits.        *)
(***************************************************************************)

\* A released use was given back; an order that does not exist has none.
HistoryOK ==
    \A o \in Orders : /\ redemption[o] = "released" => o \in givenBack
                      /\ orderStatus[o] = "none" => redemption[o] = "none"

UsesInv == CouponsTypeOK /\ HistoryOK /\ UsesCounted /\ TotalKept /\ CustomerKept

LEMMA LiveFinite ==
    /\ IsFiniteSet(LiveUses)
    /\ \A S \in SUBSET LiveUses : IsFiniteSet(S) /\ Cardinality(S) \in Nat
                              /\ Cardinality(S) <= Cardinality(LiveUses)
    /\ Cardinality(LiveUses) \in Nat
<1>1. IsFiniteSet(LiveUses)
  BY CouponsAssumption, FS_Subset DEF LiveUses
<1> QED
  BY <1>1, FS_Subset, FS_CardinalityType

\* The three ways in which a transaction touches the uses.
Keeps == UNCHANGED <<redemption, usedCount, givenBack>>
Releases(o) ==
    /\ redemption[o] = "live"
    /\ redemption' = [redemption EXCEPT ![o] = "released"]
    /\ usedCount' = IF usedCount > 0 THEN usedCount - 1 ELSE usedCount
    /\ givenBack' = givenBack \cup {o}
Reclaims(o) ==
    /\ redemption[o] = "released"
    /\ redemption' = [redemption EXCEPT ![o] = "live"]
    /\ usedCount' = usedCount + 1
    /\ UNCHANGED givenBack

UsesOK ==
    /\ usedCount \in Nat
    /\ redemption \in [Orders -> {"none", "live", "released"}]
    /\ givenBack \in SUBSET Orders
    /\ \A x \in Orders : redemption[x] = "released" => x \in givenBack
    /\ UsesCounted /\ TotalKept /\ CustomerKept

\* The limits survive when no use is added to those never given back.
LEMMA FewerKept ==
    ASSUME TotalKept, CustomerKept, NeverGivenBack' \subseteq NeverGivenBack
    PROVE  TotalKept' /\ CustomerKept'
<1>1. \A S \in SUBSET NeverGivenBack :
         /\ IsFiniteSet(S) /\ Cardinality(S) \in Nat
  BY LiveFinite DEF NeverGivenBack
<1>2. \A S \in SUBSET NeverGivenBack : \A T \in SUBSET S : Cardinality(T) <= Cardinality(S)
  BY <1>1, FS_Subset
<1>3. TotalKept'
  <2>1. Cardinality(NeverGivenBack') <= Cardinality(NeverGivenBack)
    BY <1>2
  <2> QED
    BY <2>1, <1>1, CouponsAssumption DEF TotalKept
<1>4. CustomerKept'
  <2> SUFFICES ASSUME MaxUsesPerCustomer > 0
               PROVE  /\ \A a \in Accounts :
                            Cardinality({o \in NeverGivenBack' : AccountOf[o] = a})
                               <= MaxUsesPerCustomer
                      /\ \A p \in Phones :
                            Cardinality({o \in NeverGivenBack' : PhoneOf[o] = p})
                               <= MaxUsesPerCustomer
    BY DEF CustomerKept
  <2>1. ASSUME NEW a \in Accounts
        PROVE  Cardinality({o \in NeverGivenBack' : AccountOf[o] = a}) <= MaxUsesPerCustomer
    <3> DEFINE S == {o \in NeverGivenBack : AccountOf[o] = a}
               T == {o \in NeverGivenBack' : AccountOf[o] = a}
    <3>1. S \in SUBSET NeverGivenBack /\ T \in SUBSET S
      OBVIOUS
    <3>2. Cardinality(S) <= MaxUsesPerCustomer
      BY DEF CustomerKept
    <3> HIDE DEF S, T
    <3>3. Cardinality(T) <= Cardinality(S) /\ Cardinality(S) \in Nat /\ Cardinality(T) \in Nat
      BY <3>1, <1>1, <1>2
    <3> QED
      BY <3>2, <3>3, CouponsAssumption DEF T
  <2>2. ASSUME NEW p \in Phones
        PROVE  Cardinality({o \in NeverGivenBack' : PhoneOf[o] = p}) <= MaxUsesPerCustomer
    <3> DEFINE S == {o \in NeverGivenBack : PhoneOf[o] = p}
               T == {o \in NeverGivenBack' : PhoneOf[o] = p}
    <3>1. S \in SUBSET NeverGivenBack /\ T \in SUBSET S
      OBVIOUS
    <3>2. Cardinality(S) <= MaxUsesPerCustomer
      BY DEF CustomerKept
    <3> HIDE DEF S, T
    <3>3. Cardinality(T) <= Cardinality(S) /\ Cardinality(S) \in Nat /\ Cardinality(T) \in Nat
      BY <3>1, <1>1, <1>2
    <3> QED
      BY <3>2, <3>3, CouponsAssumption DEF T
  <2> QED
    BY <2>1, <2>2
<1> QED
  BY <1>3, <1>4

LEMMA KeepsSafe == UsesInv /\ Keeps => UsesOK'
BY DEF UsesInv, Keeps, CouponsTypeOK, HistoryOK, UsesOK, UsesCounted, TotalKept,
       CustomerKept, LiveUses, NeverGivenBack

LEMMA ReleaseSafe ==
    ASSUME UsesInv, NEW o \in Orders, Releases(o)
    PROVE  UsesOK'
<1>1. LiveUses' = LiveUses \ {o} /\ o \in LiveUses
  BY DEF Releases, LiveUses, UsesInv, CouponsTypeOK
<1>2. Cardinality(LiveUses') = Cardinality(LiveUses) - 1
  BY <1>1, LiveFinite, FS_RemoveElement
<1>3. Cardinality(LiveUses) > 0
  BY <1>1, LiveFinite, FS_EmptySet
<1>4. UsesCounted' /\ usedCount' \in Nat
  BY <1>2, <1>3, LiveFinite DEF Releases, UsesInv, UsesCounted
<1>5. NeverGivenBack' \subseteq NeverGivenBack
  BY <1>1 DEF NeverGivenBack, Releases
<1>6. TotalKept' /\ CustomerKept'
  BY <1>5, FewerKept DEF UsesInv
<1>7. /\ redemption' \in [Orders -> {"none", "live", "released"}]
      /\ givenBack' \in SUBSET Orders
      /\ \A x \in Orders : redemption'[x] = "released" => x \in givenBack'
  BY DEF Releases, UsesInv, CouponsTypeOK, HistoryOK
<1> QED
  BY <1>4, <1>6, <1>7 DEF UsesOK

\* A use taken back was given back before, so it adds to neither limit.
LEMMA ReclaimSafe ==
    ASSUME UsesInv, NEW o \in Orders, Reclaims(o)
    PROVE  UsesOK'
<1>1. LiveUses' = LiveUses \cup {o} /\ o \notin LiveUses /\ o \in givenBack
  BY DEF Reclaims, LiveUses, UsesInv, CouponsTypeOK, HistoryOK
<1>2. Cardinality(LiveUses') = Cardinality(LiveUses) + 1
  BY <1>1, LiveFinite, FS_AddElement
<1>3. UsesCounted' /\ usedCount' \in Nat
  BY <1>2, LiveFinite DEF Reclaims, UsesInv, UsesCounted, CouponsTypeOK
<1>4. NeverGivenBack' \subseteq NeverGivenBack
  BY <1>1 DEF NeverGivenBack, Reclaims
<1>5. TotalKept' /\ CustomerKept'
  BY <1>4, FewerKept DEF UsesInv
<1>6. /\ redemption' \in [Orders -> {"none", "live", "released"}]
      /\ givenBack' \in SUBSET Orders
      /\ \A x \in Orders : redemption'[x] = "released" => x \in givenBack'
  BY DEF Reclaims, UsesInv, CouponsTypeOK, HistoryOK
<1> QED
  BY <1>3, <1>5, <1>6 DEF UsesOK

\* A new use: the limits are read under the row lock, together with the counter.
LEMMA RedeemSafe ==
    ASSUME UsesInv, NEW o \in Orders, redeemCoupon(o)
    PROVE  UsesOK'
<1>1. redemption[o] = "none" /\ redemption' = [redemption EXCEPT ![o] = "live"]
  BY DEF redeemCoupon, UsesInv, HistoryOK
<1>2. LiveUses' = LiveUses \cup {o} /\ o \notin LiveUses
  BY <1>1 DEF LiveUses, UsesInv, CouponsTypeOK
<1>3. Cardinality(LiveUses') = Cardinality(LiveUses) + 1
  BY <1>2, LiveFinite, FS_AddElement
<1>4. UsesCounted' /\ usedCount' \in Nat
  BY <1>3, LiveFinite DEF redeemCoupon, UsesInv, UsesCounted, CouponsTypeOK
<1>5. NeverGivenBack' \subseteq NeverGivenBack \cup {o} /\ o \notin NeverGivenBack
  BY <1>2 DEF NeverGivenBack, redeemCoupon
<1>6. \A S \in SUBSET NeverGivenBack : IsFiniteSet(S) /\ Cardinality(S) \in Nat
  BY LiveFinite DEF NeverGivenBack
\* A set of uses of the new state has at most one more than its old part.
<1>7. ASSUME NEW T \in SUBSET NeverGivenBack'
      PROVE  /\ Cardinality(T) \in Nat
             /\ Cardinality(T) <= Cardinality(T \ {o}) + 1
             /\ T \ {o} \in SUBSET LiveUses /\ T \ {o} \in SUBSET NeverGivenBack
             /\ Cardinality(T \ {o}) \in Nat
             /\ o \notin T => T \in SUBSET NeverGivenBack
  <2> DEFINE R == T \ {o}
  <2>1. R \in SUBSET NeverGivenBack /\ R \in SUBSET LiveUses
    BY <1>5 DEF NeverGivenBack
  <2>2. IsFiniteSet(R) /\ Cardinality(R) \in Nat
    BY <2>1, <1>6
  <2>3. o \notin T => T = R
    OBVIOUS
  <2>4. o \in T => T = R \cup {o} /\ o \notin R
    OBVIOUS
  <2> HIDE DEF R
  <2>5. Cardinality(R \cup {o}) \in {Cardinality(R), Cardinality(R) + 1}
    BY <2>2, FS_AddElement
  <2>6. Cardinality(T) \in {Cardinality(R), Cardinality(R) + 1}
    BY <2>3, <2>4, <2>5
  <2>7. o \notin T => T \in SUBSET NeverGivenBack
    BY <2>1, <2>3
  <2>8. Cardinality(T) \in Nat /\ Cardinality(T) <= Cardinality(R) + 1
    BY <2>2, <2>6
  <2> QED
    BY <2>1, <2>2, <2>7, <2>8 DEF R
<1>8. TotalKept'
  <2>1. Cardinality(LiveUses) < MaxUsesTotal
    BY DEF redeemCoupon, withinTotal, UsesInv, UsesCounted
  <2> DEFINE T == NeverGivenBack'
  <2>2. T \in SUBSET NeverGivenBack'
    OBVIOUS
  <2>3. Cardinality(T) <= Cardinality(T \ {o}) + 1 /\ Cardinality(T) \in Nat
    BY <1>7, <2>2
  <2>4. Cardinality(T \ {o}) <= Cardinality(LiveUses) /\ Cardinality(T \ {o}) \in Nat
    BY <1>7, <2>2, LiveFinite
  <2> HIDE DEF T
  <2>5. Cardinality(T) <= MaxUsesTotal
    BY <2>1, <2>3, <2>4, LiveFinite, CouponsAssumption
  <2> QED
    BY <2>5 DEF TotalKept, T
\* Uses of one account, or of one phone, are uses of the same customer as o.
<1>9. ASSUME MaxUsesPerCustomer > 0, NEW T \in SUBSET NeverGivenBack',
             o \in T => /\ AccountOf[o] # Unknown \/ PhoneOf[o] # Unknown
                        /\ T \subseteq SameCustomer(o),
             o \notin T => Cardinality(T) <= MaxUsesPerCustomer
      PROVE  Cardinality(T) <= MaxUsesPerCustomer
  <2> SUFFICES ASSUME o \in T PROVE Cardinality(T) <= MaxUsesPerCustomer
    BY <1>9
  <2>1. Cardinality(LiveUses \cap SameCustomer(o)) < MaxUsesPerCustomer
    BY <1>9 DEF redeemCoupon, withinCustomer
  <2>2. /\ IsFiniteSet(LiveUses \cap SameCustomer(o))
        /\ Cardinality(LiveUses \cap SameCustomer(o)) \in Nat
    BY LiveFinite
  <2>3. T \ {o} \in SUBSET (LiveUses \cap SameCustomer(o))
    BY <1>7, <1>9
  <2>4. Cardinality(T \ {o}) <= Cardinality(LiveUses \cap SameCustomer(o))
    BY <2>2, <2>3, FS_Subset
  <2>5. /\ Cardinality(T) <= Cardinality(T \ {o}) + 1
        /\ Cardinality(T) \in Nat /\ Cardinality(T \ {o}) \in Nat
    BY <1>7
  <2> QED
    BY <2>1, <2>2, <2>4, <2>5, CouponsAssumption
<1>10. CustomerKept'
  <2> SUFFICES ASSUME MaxUsesPerCustomer > 0
               PROVE  /\ \A a \in Accounts :
                            Cardinality({x \in NeverGivenBack' : AccountOf[x] = a})
                               <= MaxUsesPerCustomer
                      /\ \A p \in Phones :
                            Cardinality({x \in NeverGivenBack' : PhoneOf[x] = p})
                               <= MaxUsesPerCustomer
    BY DEF CustomerKept
  <2>1. ASSUME NEW a \in Accounts
        PROVE  Cardinality({x \in NeverGivenBack' : AccountOf[x] = a}) <= MaxUsesPerCustomer
    <3> DEFINE T == {x \in NeverGivenBack' : AccountOf[x] = a}
               S == {x \in NeverGivenBack : AccountOf[x] = a}
    <3>1. T \in SUBSET NeverGivenBack'
      OBVIOUS
    <3>2. o \in T => AccountOf[o] # Unknown /\ T \subseteq SameCustomer(o)
      BY CouponsAssumption, <1>2, <1>5 DEF SameCustomer, NeverGivenBack, LiveUses
    <3>3. Cardinality(S) <= MaxUsesPerCustomer
      BY DEF UsesInv, CustomerKept
    <3>4. o \notin T => T \subseteq S
      BY <1>5
    <3>5. IsFiniteSet(S) /\ Cardinality(S) \in Nat
      BY <1>6
    <3>6. Cardinality(T) \in Nat
      BY <3>1, <1>7
    <3> HIDE DEF T, S
    <3>7. o \notin T => Cardinality(T) <= MaxUsesPerCustomer
      BY <3>3, <3>4, <3>5, <3>6, FS_Subset, CouponsAssumption
    <3> QED
      BY <3>1, <3>2, <3>7, <1>9 DEF T
  <2>2. ASSUME NEW p \in Phones
        PROVE  Cardinality({x \in NeverGivenBack' : PhoneOf[x] = p}) <= MaxUsesPerCustomer
    <3> DEFINE T == {x \in NeverGivenBack' : PhoneOf[x] = p}
               S == {x \in NeverGivenBack : PhoneOf[x] = p}
    <3>1. T \in SUBSET NeverGivenBack'
      OBVIOUS
    <3>2. o \in T => PhoneOf[o] # Unknown /\ T \subseteq SameCustomer(o)
      BY CouponsAssumption, <1>2, <1>5 DEF SameCustomer, NeverGivenBack, LiveUses
    <3>3. Cardinality(S) <= MaxUsesPerCustomer
      BY DEF UsesInv, CustomerKept
    <3>4. o \notin T => T \subseteq S
      BY <1>5
    <3>5. IsFiniteSet(S) /\ Cardinality(S) \in Nat
      BY <1>6
    <3>6. Cardinality(T) \in Nat
      BY <3>1, <1>7
    <3> HIDE DEF T, S
    <3>7. o \notin T => Cardinality(T) <= MaxUsesPerCustomer
      BY <3>3, <3>4, <3>5, <3>6, FS_Subset, CouponsAssumption
    <3> QED
      BY <3>1, <3>2, <3>7, <1>9 DEF T
  <2> QED
    BY <2>1, <2>2
<1>11. /\ redemption' \in [Orders -> {"none", "live", "released"}]
       /\ givenBack' \in SUBSET Orders
       /\ \A x \in Orders : redemption'[x] = "released" => x \in givenBack'
  BY <1>1 DEF redeemCoupon, UsesInv, CouponsTypeOK, HistoryOK
<1> QED
  BY <1>4, <1>8, <1>10, <1>11 DEF UsesOK

-----------------------------------------------------------------------------
\* Every transaction is one of these, as far as the uses are concerned.
LEMMA UsesStep ==
    ASSUME UsesInv, [CouponsNext]_couponVars
    PROVE  \/ Keeps
           \/ \E o \in Orders : Releases(o) \/ Reclaims(o) \/ redeemCoupon(o)
<1> USE DEF Keeps, Releases, Reclaims, releaseOrderCoupons, reclaimOrderCoupons
<1>1. ASSUME NEW o \in Orders, cancel(o) \/ revive(o) \/ delete(o) \/ restoreUndoneSale(o)
      PROVE  Keeps \/ Releases(o) \/ Reclaims(o)
  BY <1>1 DEF cancel, revive, delete, restoreUndoneSale
<1>2. ASSUME NEW h \in Staff, NEW o \in Orders, ReadOrder(h, o)
      PROVE  Keeps
  BY <1>2 DEF ReadOrder
<1>3. ASSUME NEW h \in Staff, restoreOrder(h)
      PROVE  Keeps \/ \E o \in Orders : Reclaims(o)
  <2>1. restore[h].o \in Orders
    BY <1>3 DEF restoreOrder, UsesInv, CouponsTypeOK, RestoreRequest
  <2>2. Keeps \/ Reclaims(restore[h].o)
    BY <1>3 DEF restoreOrder
  <2> QED
    BY <2>1, <2>2
<1>4. CASE UNCHANGED couponVars
  BY <1>4 DEF couponVars
<1> QED
  BY <1>1, <1>2, <1>3, <1>4 DEF CouponsNext

LEMMA UsesInit == CouponsInit => UsesInv
<1> SUFFICES ASSUME CouponsInit PROVE UsesInv
  OBVIOUS
<1>1. CouponsTypeOK /\ HistoryOK
  BY DEF CouponsInit, CouponsTypeOK, HistoryOK
<1>2. LiveUses = {} /\ NeverGivenBack = {}
  BY DEF CouponsInit, LiveUses, NeverGivenBack
<1>3. Cardinality({}) = 0
  BY FS_EmptySet
<1>4. UsesCounted /\ TotalKept
  BY <1>2, <1>3, CouponsAssumption DEF CouponsInit, UsesCounted, TotalKept
<1>5. CustomerKept
  <2>1. /\ \A a : {o \in NeverGivenBack : AccountOf[o] = a} = {}
        /\ \A p : {o \in NeverGivenBack : PhoneOf[o] = p} = {}
    BY <1>2
  <2> QED
    BY <1>3, <2>1, CouponsAssumption DEF CustomerKept
<1> QED
  BY <1>1, <1>4, <1>5 DEF UsesInv

LEMMA UsesKept == UsesInv /\ [CouponsNext]_couponVars => UsesInv'
<1> SUFFICES ASSUME UsesInv, [CouponsNext]_couponVars PROVE UsesInv'
  OBVIOUS
<1>1. UsesOK'
  BY UsesStep, KeepsSafe, ReleaseSafe, ReclaimSafe, RedeemSafe
<1>2. /\ orderStatus' \in [Orders -> {"none", "active", "CANCELED"}]
      /\ deletedAt' \in [Orders -> BOOLEAN] /\ overtaken' \in SUBSET Orders
      /\ restore' \in [Staff -> RestoreRequest \cup {NoRestore}]
      /\ \A x \in Orders : orderStatus'[x] = "none" => redemption'[x] = "none"
  <2> USE DEF UsesInv, CouponsTypeOK, HistoryOK
  <2>1. ASSUME NEW o \in Orders, redeemCoupon(o) PROVE <1>2!:
    BY <2>1 DEF redeemCoupon
  <2>2. ASSUME NEW o \in Orders, cancel(o) PROVE <1>2!:
    BY <2>2 DEF cancel, releaseOrderCoupons, Overtakes
  <2>3. ASSUME NEW o \in Orders, revive(o) PROVE <1>2!:
    BY <2>3 DEF revive, reclaimOrderCoupons, Overtakes
  <2>4. ASSUME NEW o \in Orders, delete(o) PROVE <1>2!:
    BY <2>4 DEF delete, releaseOrderCoupons
  <2>5. ASSUME NEW o \in Orders, restoreUndoneSale(o) PROVE <1>2!:
    BY <2>5 DEF restoreUndoneSale, reclaimOrderCoupons
  <2>6. ASSUME NEW h \in Staff, NEW o \in Orders, ReadOrder(h, o) PROVE <1>2!:
    <3>1. [o |-> o, canceled |-> orderStatus[o] = "CANCELED"] \in RestoreRequest
      BY DEF RestoreRequest
    <3> QED
      BY <2>6, <3>1 DEF ReadOrder
  <2>7. ASSUME NEW h \in Staff, restoreOrder(h) PROVE <1>2!:
    <3>1. restore[h].o \in Orders
      BY <2>7 DEF restoreOrder, RestoreRequest
    <3> QED
      BY <2>7, <3>1 DEF restoreOrder, reclaimOrderCoupons
  <2>8. CASE UNCHANGED couponVars
    BY <2>8 DEF couponVars
  <2> QED
    BY <2>1, <2>2, <2>3, <2>4, <2>5, <2>6, <2>7, <2>8 DEF CouponsNext
<1> QED
  BY <1>1, <1>2 DEF UsesInv, CouponsTypeOK, HistoryOK, UsesOK

\* Whatever orders are placed, cancelled, revived, deleted and restored, and
\* however the restores overlap: the counter is the number of live uses.
THEOREM CounterIsExact == CouponsSpec => []UsesCounted
<1>1. UsesInv => UsesCounted
  BY DEF UsesInv
<1> QED
  BY <1>1, UsesInit, UsesKept, PTL DEF CouponsSpec

\* Not all customers together spend more uses than the limit allows, uses given
\* back once aside (redeemCoupon under the row lock of the discount).
THEOREM LimitsKept == CouponsSpec => []TotalKept
<1>1. UsesInv => TotalKept
  BY DEF UsesInv
<1> QED
  BY <1>1, UsesInit, UsesKept, PTL DEF CouponsSpec

\* No customer, known by account or by phone, spends more uses than the limit
\* per customer, uses given back once aside.
THEOREM CustomerLimitsKept == CouponsSpec => []CustomerKept
<1>1. UsesInv => CustomerKept
  BY DEF UsesInv
<1> QED
  BY <1>1, UsesInit, UsesKept, PTL DEF CouponsSpec

\* The columns keep their types; above all the counter, which is decremented
\* only when it is positive, never goes below zero.
THEOREM CouponsTyped == CouponsSpec => []CouponsTypeOK
<1>1. UsesInv => CouponsTypeOK
  BY DEF UsesInv
<1> QED
  BY <1>1, UsesInit, UsesKept, PTL DEF CouponsSpec

-----------------------------------------------------------------------------
(***************************************************************************)
(* A use counts exactly while its order is in the books.  This needs to    *)
(* know that every order has a row, and that a restore still finds the     *)
(* status it read unless the order was overtaken.                          *)
(***************************************************************************)
Counts(o) ==
    IF orderStatus[o] = "none" THEN redemption[o] = "none" /\ ~deletedAt[o]
    ELSE /\ redemption[o] # "none"
         /\ o \notin overtaken => (redemption[o] = "live" <=> InBooks(o))

RestoreFresh(h) ==
    restore[h] # NoRestore =>
        /\ orderStatus[restore[h].o] # "none"
        /\ restore[h].o \notin overtaken =>
              (restore[h].canceled <=> orderStatus[restore[h].o] = "CANCELED")

BooksOK == (\A o \in Orders : Counts(o)) /\ (\A h \in Staff : RestoreFresh(h))

LEMMA BooksInit == CouponsInit => BooksOK
BY DEF CouponsInit, BooksOK, Counts, RestoreFresh

LEMMA BooksStep == CouponsTypeOK /\ BooksOK /\ [CouponsNext]_couponVars => BooksOK'
<1> SUFFICES ASSUME CouponsTypeOK, BooksOK, [CouponsNext]_couponVars PROVE BooksOK'
  OBVIOUS
<1> USE DEF CouponsTypeOK, BooksOK
<1>0. \A h \in Staff : restore[h] # NoRestore => restore[h].o \in Orders
  BY DEF RestoreRequest
\* A change of status marks the orders of the restores in flight.
<1>a. ASSUME NEW o \in Orders, Overtakes(o), UNCHANGED restore, orderStatus[o] # "none",
             \E s \in {"active", "CANCELED"} : orderStatus' = [orderStatus EXCEPT ![o] = s]
      PROVE  \A h \in Staff : RestoreFresh(h)'
  BY <1>0, <1>a DEF Overtakes, RestoreFresh
<1>1. ASSUME NEW o \in Orders, redeemCoupon(o) PROVE BooksOK'
  <2>1. \A x \in Orders : Counts(x)'
    BY <1>1 DEF redeemCoupon, Counts, InBooks
  <2>2. \A h \in Staff : RestoreFresh(h)'
    BY <1>0, <1>1 DEF redeemCoupon, RestoreFresh
  <2> QED
    BY <2>1, <2>2
<1>2. ASSUME NEW o \in Orders, cancel(o) PROVE BooksOK'
  <2>1. \A x \in Orders : Counts(x)'
    BY <1>2 DEF cancel, releaseOrderCoupons, Overtakes, Counts, InBooks
  <2> QED
    BY <1>2, <1>a, <2>1 DEF cancel
<1>3. ASSUME NEW o \in Orders, revive(o) PROVE BooksOK'
  <2>1. \A x \in Orders : Counts(x)'
    BY <1>3 DEF revive, reclaimOrderCoupons, Overtakes, Counts, InBooks
  <2> QED
    BY <1>3, <1>a, <2>1 DEF revive
<1>4. ASSUME NEW o \in Orders, delete(o) PROVE BooksOK'
  <2>1. \A x \in Orders : Counts(x)'
    BY <1>4 DEF delete, releaseOrderCoupons, Counts, InBooks
  <2> QED
    BY <1>4, <2>1 DEF delete, RestoreFresh
<1>5. ASSUME NEW o \in Orders, restoreUndoneSale(o) PROVE BooksOK'
  <2>1. \A x \in Orders : Counts(x)'
    BY <1>5 DEF restoreUndoneSale, reclaimOrderCoupons, Counts, InBooks
  <2> QED
    BY <1>5, <2>1 DEF restoreUndoneSale, RestoreFresh
<1>6. ASSUME NEW h \in Staff, NEW o \in Orders, ReadOrder(h, o) PROVE BooksOK'
  <2>1. /\ restore' = [restore EXCEPT ![h] = [o |-> o, canceled |-> orderStatus[o] = "CANCELED"]]
        /\ UNCHANGED <<redemption, orderStatus, deletedAt, overtaken>> /\ deletedAt[o]
    BY <1>6 DEF ReadOrder
  <2>2. \A x \in Orders : Counts(x)'
    BY <2>1 DEF Counts, InBooks
  <2>3. RestoreFresh(h)'
    BY <2>1 DEF RestoreFresh, Counts
  <2>4. ASSUME NEW g \in Staff \ {h} PROVE RestoreFresh(g)'
    <3>1. restore'[g] = restore[g]
      BY <2>1
    <3> QED
      BY <2>1, <3>1 DEF RestoreFresh
  <2> QED
    BY <2>2, <2>3, <2>4
<1>7. ASSUME NEW h \in Staff, restoreOrder(h) PROVE BooksOK'
  <2>1. PICK o \in Orders : o = restore[h].o
    BY <1>0, <1>7 DEF restoreOrder
  <2>2. /\ restore[h] # NoRestore /\ restore' = [restore EXCEPT ![h] = NoRestore]
        /\ UNCHANGED <<orderStatus, overtaken>> /\ deletedAt' = [deletedAt EXCEPT ![o] = FALSE]
    BY <1>7, <2>1 DEF restoreOrder
  <2>3. /\ orderStatus[o] # "none"
        /\ o \notin overtaken => (restore[h].canceled <=> orderStatus[o] = "CANCELED")
    BY <2>1, <2>2 DEF RestoreFresh
  <2>4. \A g \in Staff : RestoreFresh(g)'
    BY <2>2 DEF RestoreFresh
  <2>5. ASSUME NEW x \in Orders \ {o} PROVE Counts(x)'
    <3>1. redemption'[x] = redemption[x]
      BY <1>7, <2>1 DEF restoreOrder, reclaimOrderCoupons
    <3> QED
      BY <2>2, <3>1 DEF Counts, InBooks
  <2>6. Counts(o)'
    <3>1. CASE restore[h].canceled
      <4>1. UNCHANGED redemption
        BY <1>7, <3>1 DEF restoreOrder
      <4> QED
        BY <2>2, <2>3, <3>1, <4>1 DEF Counts, InBooks
    <3>2. CASE ~restore[h].canceled
      <4>1. reclaimOrderCoupons(o)
        BY <1>7, <2>1, <3>2 DEF restoreOrder
      <4> QED
        BY <2>2, <2>3, <3>2, <4>1 DEF Counts, InBooks, reclaimOrderCoupons
    <3> QED
      BY <3>1, <3>2
  <2> QED
    BY <2>4, <2>5, <2>6
<1>8. CASE UNCHANGED couponVars
  BY <1>8 DEF couponVars, Counts, InBooks, RestoreFresh
<1> QED
  BY <1>1, <1>2, <1>3, <1>4, <1>5, <1>6, <1>7, <1>8 DEF CouponsNext

\* An order's use counts exactly while the order is neither cancelled nor in
\* the trash, except where its status changed under a restore's feet: no other
\* order of steps, and no number of restores of one order, gets it wrong.
THEOREM BooksExact == CouponsSpec => []CountsUnlessOvertaken
<1>1. BooksOK => CountsUnlessOvertaken
  BY DEF BooksOK, Counts, InBooks, CountsUnlessOvertaken
<1>2. UsesInv => CouponsTypeOK
  BY DEF UsesInv
<1> QED
  BY <1>1, <1>2, UsesInit, UsesKept, BooksInit, BooksStep, PTL DEF CouponsSpec
==============================================================================
