--------------------------- MODULE Transfers_proofs ---------------------------
(***************************************************************************)
(* Proofs about Transfers for any number of transfers, stores, SKUs and    *)
(* requests.  The inductive invariant adds to the types what a request     *)
(* knows: its target follows the status it read, and what it counted on    *)
(* arrival fits what was sent.                                             *)
(***************************************************************************)
EXTENDS Transfers, TLAPS

\* What the reads of a request established and later steps keep true.
Judged ==
    \A h \in Requests :
        req[h] # Idle =>
            /\ req[h].to \in TRANSITIONS[req[h].seen]
            /\ status[req[h].t] # "NONE"
            /\ \A p \in SKUs : req[h].got[p] <= qty[req[h].t][p]

IInv == TypeOK /\ Judged

-----------------------------------------------------------------------------
LEMMA CountedInt ==
    ASSUME NEW n \in [SKUs -> Int]
    PROVE  Counted(n) \in [SKUs -> Int]
BY DEF Counted

LEMMA NatUnits ==
    ASSUME NEW n \in Units
    PROVE  n \in [SKUs -> Int] /\ Out(n) \in [SKUs -> Int]
BY DEF Units, Out

\* A request that reaches its claim knows the transfer it claims.
LEMMA Claimed ==
    ASSUME IInv, NEW h \in Requests, NEW s \in TransferStatus, claim(h, s)
    PROVE  /\ req[h] \in Request /\ req[h] # Idle /\ req[h].to = s
           /\ req[h].t \in Transfers
           /\ status[req[h].t] = req[h].seen /\ req[h].seen \in TransferStatus
           /\ s \in TRANSITIONS[status[req[h].t]]
           /\ \A p \in SKUs : req[h].got[p] <= qty[req[h].t][p]
           /\ req[h].got \in Units
<1>1. "NONE" \notin TransferStatus
  BY DEF TransferStatus
<1>2. req[h].to = s /\ status[req[h].t] = req[h].seen
  BY DEF claim
<1>3. req[h] # Idle
  BY <1>1, <1>2 DEF Idle
<1>4. req[h] \in Request
  BY <1>3 DEF IInv, TypeOK
<1> QED
  BY <1>2, <1>3, <1>4 DEF IInv, Judged, Request

-----------------------------------------------------------------------------
\* A move changes the stock of one store only, by what is counted.
LEMMA MoveTyped ==
    ASSUME TypeOK, NEW s \in Stores, NEW n \in [SKUs -> Int], move(s, n)
    PROVE  /\ stock' \in [Stores -> [SKUs -> Int]]
           /\ \A r \in Stores \ {s} : stock'[r] = stock[r]
           /\ \A p \in SKUs : stock'[s][p] = stock[s][p] + Counted(n)[p]
<1>1. Counted(n) \in [SKUs -> Int]
  BY CountedInt
<1>2. stock \in [Stores -> [SKUs -> Int]]
  BY DEF TypeOK
<1> DEFINE row == [p \in SKUs |-> stock[s][p] + Counted(n)[p]]
<1>3. row \in [SKUs -> Int]
  BY <1>1, <1>2
<1>4. stock' = [stock EXCEPT ![s] = row]
  BY DEF move
<1> HIDE DEF row
<1>5. stock' \in [Stores -> [SKUs -> Int]] /\ stock'[s] = row
  BY <1>2, <1>3, <1>4
<1>6. \A r \in Stores \ {s} : stock'[r] = stock[r]
  BY <1>2, <1>4
<1> QED
  BY <1>5, <1>6 DEF row

\* A move finds room, so no shop is overdrawn by it.
LEMMA MoveShops ==
    ASSUME TypeOK, NEW s \in Stores, NEW n \in [SKUs -> Int], move(s, n)
    PROVE  \A r \in Stores \ {Online}, p \in SKUs : stock'[r][p] >= 0
<1> SUFFICES ASSUME NEW r \in Stores \ {Online}, NEW p \in SKUs
             PROVE  stock'[r][p] >= 0
  OBVIOUS
<1>1. stock[r][p] >= 0 /\ stock[r][p] \in Int
  BY DEF TypeOK
<1>2. CASE r = s /\ p \in Tracked
  <2>1. stock'[r][p] = stock[r][p] + n[p] /\ n[p] \in Int
    BY <1>2, MoveTyped DEF Counted
  <2>2. n[p] < 0 => stock[r][p] + n[p] >= 0
    BY <1>2 DEF move, Room
  <2> QED
    BY <1>1, <2>1, <2>2
<1>3. CASE r = s /\ p \notin Tracked
  <2>1. stock'[r][p] = stock[r][p] + 0
    BY <1>3, MoveTyped DEF Counted
  <2> QED
    BY <1>1, <2>1
<1>4. CASE r # s
  BY <1>1, <1>4, MoveTyped
<1> QED
  BY <1>2, <1>3, <1>4

\* The movements of a transfer are booked with its id.
LEMMA MoveForTyped ==
    ASSUME TypeOK, NEW t \in Transfers, NEW s \in Stores,
           NEW n \in [SKUs -> Int], moveFor(t, s, n)
    PROVE  /\ moved' \in [Transfers -> [SKUs -> Int]]
           /\ \A u \in Transfers \ {t} : moved'[u] = moved[u]
           /\ \A p \in SKUs : moved'[t][p] = moved[t][p] + Counted(n)[p]
<1>1. Counted(n) \in [SKUs -> Int]
  BY CountedInt
<1>2. moved \in [Transfers -> [SKUs -> Int]]
  BY DEF TypeOK
<1> DEFINE row == [p \in SKUs |-> moved[t][p] + Counted(n)[p]]
<1>3. row \in [SKUs -> Int]
  BY <1>1, <1>2
<1>4. moved' = [moved EXCEPT ![t] = row]
  BY DEF moveFor
<1> HIDE DEF row
<1>5. moved' \in [Transfers -> [SKUs -> Int]] /\ moved'[t] = row
  BY <1>2, <1>3, <1>4
<1>6. \A u \in Transfers \ {t} : moved'[u] = moved[u]
  BY <1>2, <1>4
<1> QED
  BY <1>5, <1>6 DEF row

\* A claim writes the status of one transfer and frees the request.
LEMMA ClaimTyped ==
    ASSUME IInv, NEW h \in Requests, NEW s \in TransferStatus, claim(h, s)
    PROVE  /\ status' \in [Transfers -> TransferStatus \cup {"NONE"}]
           /\ status'[req[h].t] = s
           /\ \A u \in Transfers \ {req[h].t} : status'[u] = status[u]
           /\ req' \in [Requests -> Request \cup {Idle}]
           /\ \A i \in Requests : req'[i] # Idle => req'[i] = req[i]
<1>1. req[h].t \in Transfers
  BY Claimed
<1> QED
  BY <1>1 DEF IInv, TypeOK, claim

\* A claim keeps what the other requests know: rows never disappear.
LEMMA ClaimJudged ==
    ASSUME IInv, NEW h \in Requests, NEW s \in TransferStatus, claim(h, s)
    PROVE  Judged'
<1> SUFFICES ASSUME NEW i \in Requests, req'[i] # Idle
             PROVE  /\ req'[i].to \in TRANSITIONS[req'[i].seen]
                    /\ status'[req'[i].t] # "NONE"
                    /\ \A p \in SKUs : req'[i].got[p] <= qty'[req'[i].t][p]
  BY DEF Judged
<1>1. req'[i] = req[i]
  BY ClaimTyped
<1>2. req[i].t \in Transfers
  BY <1>1 DEF IInv, TypeOK, Request
<1>3. status'[req[i].t] # "NONE"
  BY <1>1, <1>2, ClaimTyped DEF IInv, Judged, TransferStatus
<1>4. qty' = qty
  BY DEF claim
<1> QED
  BY <1>1, <1>3, <1>4 DEF IInv, Judged

\* What the goods of a claimed transfer are.
LEMMA Payload ==
    ASSUME IInv, NEW h \in Requests, NEW s \in TransferStatus, claim(h, s)
    PROVE  /\ qty[req[h].t] \in Units /\ got[req[h].t] \in Units
           /\ qty[req[h].t] \in [SKUs -> Int]
           /\ Out(qty[req[h].t]) \in [SKUs -> Int]
           /\ req[h].got \in [SKUs -> Int]
           /\ route[req[h].t].from \in Stores /\ route[req[h].t].to \in Stores
BY Claimed, NatUnits DEF IInv, TypeOK, Route

-----------------------------------------------------------------------------
LEMMA Initially == Init => IInv
BY ConstantsAssumption
   DEF Init, IInv, TypeOK, Judged, Nothing, Units, Route, Idle

LEMMA Inductive == IInv /\ [Next]_vars => IInv'
<1> SUFFICES ASSUME IInv, [Next]_vars PROVE IInv'
  OBVIOUS
<1> USE DEF IInv
<1>1. ASSUME NEW t \in Transfers, NEW r \in Route, NEW n \in [SKUs -> Quantities],
             create(t, r, n)
      PROVE  IInv'
  <2>1. n \in Units
    BY ConstantsAssumption DEF Units
  <2>2. TypeOK'
    BY <1>1, <2>1 DEF create, TypeOK, shopVars, TransferStatus
  <2>3. Judged'
    <3> SUFFICES ASSUME NEW i \in Requests, req'[i] # Idle
                 PROVE  /\ req'[i].to \in TRANSITIONS[req'[i].seen]
                        /\ status'[req'[i].t] # "NONE"
                        /\ \A p \in SKUs : req'[i].got[p] <= qty'[req'[i].t][p]
      BY DEF Judged
    <3>1. req'[i] = req[i] /\ req[i].t \in Transfers
      BY <1>1 DEF create, TypeOK, Request
    <3>2. req[i].t # t
      BY <1>1, <3>1 DEF create, Judged
    <3>3. status'[req[i].t] = status[req[i].t] /\ qty'[req[i].t] = qty[req[i].t]
      BY <1>1, <3>1, <3>2 DEF create, TypeOK
    <3> QED
      BY <3>1, <3>3 DEF Judged
  <2> QED
    BY <2>2, <2>3
<1>2. ASSUME NEW h \in Requests, NEW t \in Transfers, NEW s \in TransferStatus,
             NEW n \in [SKUs -> Arrivals], Read(h, t, s, n)
      PROVE  IInv'
  <2> DEFINE new == [to |-> s, t |-> t, seen |-> status[t], got |-> n]
  <2>1. n \in Units
    BY ConstantsAssumption DEF Units
  <2>2. status[t] # "NONE"
    BY <1>2 DEF Read, TRANSITIONS
  <2>3. new \in Request
    BY <2>1, <2>2 DEF Request, TypeOK
  <2>4. \A p \in SKUs : n[p] <= qty[t][p]
    BY <1>2 DEF Read, Nothing, TypeOK, Units
  <2>5. req' = [req EXCEPT ![h] = new] /\ UNCHANGED <<shopVars, rowVars>>
    BY <1>2 DEF Read
  <2>6. s \in TRANSITIONS[status[t]]
    BY <1>2 DEF Read
  <2>7. TypeOK'
    BY <2>3, <2>5 DEF TypeOK, shopVars, rowVars
  <2>8. Judged'
    BY <2>2, <2>4, <2>5, <2>6 DEF Judged, shopVars, rowVars, TypeOK
  <2> QED
    BY <2>7, <2>8
<1>3. ASSUME NEW h \in Requests, approve(h) PROVE IInv'
  <2>1. claim(h, "APPROVED") /\ "APPROVED" \in TransferStatus
    BY <1>3 DEF approve, TransferStatus
  <2>2. TypeOK'
    BY <1>3, <2>1, ClaimTyped DEF approve, claim, TypeOK
  <2> QED
    BY <2>1, <2>2, ClaimJudged
<1>4. ASSUME NEW h \in Requests, dispatch(h) PROVE IInv'
  <2>1. claim(h, "DISPATCHED") /\ "DISPATCHED" \in TransferStatus
    BY <1>4 DEF dispatch, TransferStatus
  <2>2. moveFor(req[h].t, route[req[h].t].from, Out(qty[req[h].t]))
    BY <1>4 DEF dispatch
  <2>3. /\ stock' \in [Stores -> [SKUs -> Int]]
        /\ \A r \in Stores \ {Online}, p \in SKUs : stock'[r][p] >= 0
    BY <2>1, <2>2, Payload, MoveTyped, MoveShops DEF moveFor, IInv
  <2>4. moved' \in [Transfers -> [SKUs -> Int]]
    BY <2>1, <2>2, Payload, Claimed, MoveForTyped
  <2>5. TypeOK'
    BY <1>4, <2>1, <2>3, <2>4, ClaimTyped DEF dispatch, claim, TypeOK
  <2> QED
    BY <2>1, <2>5, ClaimJudged
<1>5. ASSUME NEW h \in Requests, receive(h) PROVE IInv'
  <2>1. claim(h, "RECEIVED") /\ "RECEIVED" \in TransferStatus
    BY <1>5 DEF receive, TransferStatus
  <2>2. moveFor(req[h].t, route[req[h].t].to, req[h].got)
    BY <1>5 DEF receive
  <2>3. /\ stock' \in [Stores -> [SKUs -> Int]]
        /\ \A r \in Stores \ {Online}, p \in SKUs : stock'[r][p] >= 0
    BY <2>1, <2>2, Payload, MoveTyped, MoveShops DEF moveFor, IInv
  <2>4. moved' \in [Transfers -> [SKUs -> Int]]
    BY <2>1, <2>2, Payload, Claimed, MoveForTyped
  <2>5. got' \in [Transfers -> Units]
    BY <1>5, <2>1, Claimed DEF receive, TypeOK
  <2>6. TypeOK'
    BY <2>1, <2>3, <2>4, <2>5, ClaimTyped DEF claim, TypeOK
  <2> QED
    BY <2>1, <2>6, ClaimJudged
<1>6. ASSUME NEW h \in Requests, cancel(h) PROVE IInv'
  <2>1. claim(h, "CANCELLED") /\ "CANCELLED" \in TransferStatus
    BY <1>6 DEF cancel, TransferStatus
  <2>2. CASE req[h].seen = "DISPATCHED"
    <3>1. moveFor(req[h].t, route[req[h].t].from, qty[req[h].t])
      BY <1>6, <2>2 DEF cancel
    <3>2. /\ stock' \in [Stores -> [SKUs -> Int]]
          /\ \A r \in Stores \ {Online}, p \in SKUs : stock'[r][p] >= 0
      BY <2>1, <3>1, Payload, MoveTyped, MoveShops DEF moveFor, IInv
    <3>3. moved' \in [Transfers -> [SKUs -> Int]]
      BY <2>1, <3>1, Payload, Claimed, MoveForTyped
    <3> QED
      BY <1>6, <2>1, <3>2, <3>3, ClaimTyped, ClaimJudged DEF cancel, claim, TypeOK
  <2>3. CASE req[h].seen # "DISPATCHED"
    <3>1. UNCHANGED <<stock, moved>>
      BY <1>6, <2>3 DEF cancel
    <3> QED
      BY <1>6, <2>1, <3>1, ClaimTyped, ClaimJudged DEF cancel, claim, TypeOK
  <2> QED
    BY <2>2, <2>3
<1>7. ASSUME NEW h \in Requests, rollback(h) PROVE IInv'
  BY <1>7 DEF rollback, TypeOK, Judged, shopVars, rowVars
<1>8. ASSUME NEW s \in Stores, NEW p \in SKUs, NEW n \in {1, -1}, Trade(s, p, n)
      PROVE  IInv'
  <2>1. [q \in SKUs |-> IF q = p THEN n ELSE 0] \in [SKUs -> Int]
    OBVIOUS
  <2>2. /\ stock' \in [Stores -> [SKUs -> Int]]
        /\ \A r \in Stores \ {Online}, q \in SKUs : stock'[r][q] >= 0
    BY <1>8, <2>1, MoveTyped, MoveShops DEF Trade
  <2> QED
    BY <1>8, <2>2 DEF Trade, TypeOK, Judged, rowVars
<1>9. ASSUME NEW p \in SKUs,
             Hold(p) \/ Release(p) \/ Complete(p) \/ CompleteAgain(p)
      PROVE  IInv'
  <2>1. /\ stock' \in [Stores -> [SKUs -> Int]]
        /\ \A s \in Stores \ {Online} : stock'[s] = stock[s]
    BY <1>9, ConstantsAssumption
       DEF Hold, Release, Complete, CompleteAgain, TypeOK
  <2>2. reserved' \in [SKUs -> Int] /\ retaken' \in Units
    BY <1>9 DEF Hold, Release, Complete, CompleteAgain, TypeOK, Units
  <2>3. /\ active' = active /\ status' = status /\ route' = route /\ qty' = qty
        /\ got' = got /\ moved' = moved /\ req' = req
    BY <1>9 DEF Hold, Release, Complete, CompleteAgain, rowVars
  <2>4. TypeOK'
    BY <2>1, <2>2, <2>3 DEF TypeOK
  <2> QED
    BY <2>3, <2>4 DEF Judged
<1>10. ASSUME NEW s \in Closable, SetActive(s) PROVE IInv'
  BY <1>10, ConstantsAssumption DEF SetActive, TypeOK, Judged, rowVars
<1>11. CASE UNCHANGED vars
  BY <1>11 DEF vars, TypeOK, Judged
<1> QED
  BY <1>1, <1>2, <1>3, <1>4, <1>5, <1>6, <1>7, <1>8, <1>9, <1>10, <1>11 DEF Next

\* Every counter and every row keeps its type, and no transfer, sale or
\* adjustment takes a shop below zero, whatever overlaps.
THEOREM TransfersTyped == Spec => []TypeOK
<1>1. IInv => TypeOK
  BY DEF IInv
<1> QED
  BY <1>1, Initially, Inductive, PTL DEF Spec

-----------------------------------------------------------------------------
\* The movements of one transfer.
Booked(t) ==
    \A p \in SKUs :
        /\ status[t] = "DISPATCHED" => moved[t][p] = -Counted(qty[t])[p]
        /\ status[t] = "RECEIVED" =>
              moved[t][p] = Counted(got[t])[p] - Counted(qty[t])[p]
        /\ status[t] \notin {"DISPATCHED", "RECEIVED"} => moved[t][p] = 0

\* A step that leaves a transfer's row and movements alone keeps it booked.
LEMMA BookedStays ==
    ASSUME NEW t \in Transfers, Booked(t),
           status'[t] = status[t], qty'[t] = qty[t], got'[t] = got[t], moved'[t] = moved[t]
    PROVE  Booked(t)'
BY DEF Booked, Counted

LEMMA CountedOut ==
    ASSUME NEW n \in Units, NEW p \in SKUs
    PROVE  /\ Counted(n)[p] \in Nat
           /\ Counted(Out(n))[p] = -Counted(n)[p]
BY DEF Counted, Out, Units

\* The row of a claimed transfer is booked again after the claim.
LEMMA ClaimBooked ==
    ASSUME IInv, MovementsMatchStatus, NEW h \in Requests,
           approve(h) \/ dispatch(h) \/ receive(h) \/ cancel(h),
           NEW t \in Transfers, t = req[h].t
    PROVE  Booked(t)'
<1> USE DEF IInv
<1>0. \A u \in Transfers : Booked(u)
  BY DEF MovementsMatchStatus, Booked
<1>1. CASE approve(h)
  <2>1. claim(h, "APPROVED") /\ "APPROVED" \in TransferStatus
    BY <1>1 DEF approve, TransferStatus
  <2>2. t \in Transfers /\ status[t] = "REQUESTED" /\ status'[t] = "APPROVED"
    BY <2>1, Claimed, ClaimTyped DEF TRANSITIONS, TransferStatus
  <2> QED
    BY <1>0, <1>1, <2>2 DEF approve, Booked
<1>2. CASE dispatch(h)
  <2>1. claim(h, "DISPATCHED") /\ "DISPATCHED" \in TransferStatus
    BY <1>2 DEF dispatch, TransferStatus
  <2>2. t \in Transfers /\ status[t] = "APPROVED" /\ status'[t] = "DISPATCHED"
    BY <2>1, Claimed, ClaimTyped DEF TRANSITIONS, TransferStatus
  <2>3. moveFor(t, route[t].from, Out(qty[t])) /\ qty' = qty
    BY <1>2, <2>1 DEF dispatch, claim
  <2>4. route[t].from \in Stores /\ Out(qty[t]) \in [SKUs -> Int] /\ qty[t] \in Units
    BY <2>1, Payload
  <2>5. \A p \in SKUs : moved'[t][p] = moved[t][p] + Counted(Out(qty[t]))[p]
    BY <2>2, <2>3, <2>4, MoveForTyped
  <2>6. \A p \in SKUs : moved'[t][p] = -Counted(qty[t])[p]
    BY <1>0, <2>2, <2>4, <2>5, CountedOut DEF Booked
  <2> QED
    BY <2>2, <2>3, <2>6 DEF Booked, Counted
<1>3. CASE receive(h)
  <2>1. claim(h, "RECEIVED") /\ "RECEIVED" \in TransferStatus
    BY <1>3 DEF receive, TransferStatus
  <2>2. t \in Transfers /\ status[t] = "DISPATCHED" /\ status'[t] = "RECEIVED"
    BY <2>1, Claimed, ClaimTyped DEF TRANSITIONS, TransferStatus
  <2>3. moveFor(t, route[t].to, req[h].got) /\ qty' = qty
    BY <1>3, <2>1 DEF receive, claim
  <2>4. /\ route[t].to \in Stores /\ req[h].got \in [SKUs -> Int]
        /\ req[h].got \in Units /\ qty[t] \in Units
    BY <2>1, Payload, Claimed
  <2>5. \A p \in SKUs : moved'[t][p] = moved[t][p] + Counted(req[h].got)[p]
    BY <2>2, <2>3, <2>4, MoveForTyped
  <2>6. got'[t] = req[h].got
    BY <1>3, <2>2 DEF receive, TypeOK
  <2>7. \A p \in SKUs :
          /\ moved[t][p] = -Counted(qty[t])[p]
          /\ Counted(qty[t])[p] \in Nat /\ Counted(req[h].got)[p] \in Nat
    BY <1>0, <2>2, <2>4, CountedOut DEF Booked
  <2>8. \A p \in SKUs : moved'[t][p] = Counted(req[h].got)[p] - Counted(qty[t])[p]
    BY <2>5, <2>7
  <2>9. \A p \in SKUs : moved'[t][p] = Counted(got'[t])[p] - Counted(qty'[t])[p]
    BY <2>3, <2>6, <2>8
  <2> QED
    BY <2>2, <2>9 DEF Booked, Counted
<1>4. CASE cancel(h)
  <2>1. claim(h, "CANCELLED") /\ "CANCELLED" \in TransferStatus
    BY <1>4 DEF cancel, TransferStatus
  <2>2. /\ t \in Transfers /\ status[t] \in {"REQUESTED", "APPROVED", "DISPATCHED"}
        /\ status'[t] = "CANCELLED" /\ status[t] = req[h].seen
    BY <2>1, Claimed, ClaimTyped DEF TRANSITIONS, TransferStatus
  <2>3. CASE req[h].seen = "DISPATCHED"
    <3>1. moveFor(t, route[t].from, qty[t])
      BY <1>4, <2>3 DEF cancel
    <3>2. route[t].from \in Stores /\ qty[t] \in [SKUs -> Int] /\ qty[t] \in Units
      BY <2>1, Payload
    <3>3. \A p \in SKUs : moved'[t][p] = moved[t][p] + Counted(qty[t])[p]
      BY <2>2, <3>1, <3>2, MoveForTyped
    <3>4. \A p \in SKUs : moved[t][p] = -Counted(qty[t])[p] /\ Counted(qty[t])[p] \in Nat
      BY <1>0, <2>2, <2>3, <3>2, CountedOut DEF Booked
    <3>5. \A p \in SKUs : moved'[t][p] = 0
      BY <3>3, <3>4
    <3> QED
      BY <2>2, <3>5 DEF Booked
  <2>4. CASE req[h].seen # "DISPATCHED"
    <3>1. moved' = moved
      BY <1>4, <2>4 DEF cancel
    <3>2. status[t] \notin {"DISPATCHED", "RECEIVED"}
      BY <2>2, <2>4
    <3> QED
      BY <1>0, <2>2, <3>1, <3>2 DEF Booked
  <2> QED
    BY <2>3, <2>4
<1> QED
  BY <1>1, <1>2, <1>3, <1>4

\* A claim touches no other transfer.
LEMMA ClaimOthers ==
    ASSUME IInv, NEW h \in Requests,
           approve(h) \/ dispatch(h) \/ receive(h) \/ cancel(h),
           NEW u \in Transfers, u # req[h].t
    PROVE  /\ status'[u] = status[u] /\ qty'[u] = qty[u]
           /\ got'[u] = got[u] /\ moved'[u] = moved[u]
BY DEF IInv, TypeOK, approve, dispatch, receive, cancel, claim, moveFor

LEMMA StepBooked == IInv /\ MovementsMatchStatus /\ [Next]_vars => MovementsMatchStatus'
<1> SUFFICES ASSUME IInv, MovementsMatchStatus, [Next]_vars, NEW u \in Transfers
             PROVE  Booked(u)'
  BY DEF MovementsMatchStatus, Booked
<1>0. Booked(u)
  BY DEF MovementsMatchStatus, Booked
<1>1. ASSUME NEW t \in Transfers, NEW r \in Route, NEW n \in [SKUs -> Quantities],
             create(t, r, n)
      PROVE  Booked(u)'
  <2>1. CASE u = t
    BY <1>0, <1>1, <2>1 DEF create, Booked, IInv, TypeOK
  <2>2. CASE u # t
    <3>1. status'[u] = status[u] /\ qty'[u] = qty[u] /\ got'[u] = got[u] /\ moved'[u] = moved[u]
      BY <1>1, <2>2 DEF create, IInv, TypeOK
    <3> QED
      BY <1>0, <3>1, BookedStays
  <2> QED
    BY <2>1, <2>2
<1>2. ASSUME NEW h \in Requests, approve(h) \/ dispatch(h) \/ receive(h) \/ cancel(h)
      PROVE  Booked(u)'
  <2>1. CASE u = req[h].t
    BY <1>2, <2>1, ClaimBooked
  <2>2. CASE u # req[h].t
    BY <1>0, <1>2, <2>2, ClaimOthers, BookedStays
  <2> QED
    BY <2>1, <2>2
<1>3. ASSUME UNCHANGED rowVars PROVE Booked(u)'
  BY <1>0, <1>3, BookedStays DEF rowVars
<1>4. ASSUME NEW h \in Requests, NEW t \in Transfers, NEW s \in TransferStatus,
             NEW n \in [SKUs -> Arrivals], Read(h, t, s, n)
      PROVE  UNCHANGED rowVars
  BY <1>4 DEF Read
<1>5. ASSUME NEW h \in Requests, rollback(h) PROVE UNCHANGED rowVars
  BY <1>5 DEF rollback
<1>6. ASSUME NEW s \in Stores, NEW p \in SKUs, NEW n \in {1, -1}, Trade(s, p, n)
      PROVE  UNCHANGED rowVars
  BY <1>6 DEF Trade
<1>7. ASSUME NEW p \in SKUs,
             Hold(p) \/ Release(p) \/ Complete(p) \/ CompleteAgain(p)
      PROVE  UNCHANGED rowVars
  BY <1>7 DEF Hold, Release, Complete, CompleteAgain
<1>8. ASSUME NEW s \in Closable, SetActive(s) PROVE UNCHANGED rowVars
  BY <1>8 DEF SetActive
<1>9. CASE UNCHANGED vars
  BY <1>3, <1>9 DEF vars, rowVars
<1> QED
  BY <1>1, <1>2, <1>3, <1>4, <1>5, <1>6, <1>7, <1>8, <1>9 DEF Next

\* Whichever of several concurrent clicks won, the movements booked for a
\* transfer are those its status stands for.
THEOREM MovementsBalance == Spec => []MovementsMatchStatus
<1>1. Init => MovementsMatchStatus
  BY DEF Init, MovementsMatchStatus, Nothing
<1> QED
  BY <1>1, Initially, Inductive, StepBooked, PTL DEF Spec

-----------------------------------------------------------------------------
\* A move finds room, so it takes no unit that is held.
LEMMA MoveCovered ==
    ASSUME TypeOK, HoldsCovered, NEW s \in Stores, NEW n \in [SKUs -> Int],
           move(s, n), reserved' = reserved, retaken' = retaken
    PROVE  HoldsCovered'
<1> SUFFICES ASSUME NEW p \in Tracked \ Backorder
             PROVE  stock'[Online][p] + retaken'[p] >= reserved'[p]
  BY DEF HoldsCovered
<1>1. Online \in Stores /\ p \in SKUs
  BY ConstantsAssumption
<1>2. stock[Online][p] \in Int /\ reserved[p] \in Int /\ retaken[p] \in Nat
  BY <1>1 DEF TypeOK, Units
<1>3. stock[Online][p] + retaken[p] >= reserved[p]
  BY DEF HoldsCovered
<1>4. CASE s = Online
  <2>1. stock'[Online][p] = stock[Online][p] + n[p] /\ n[p] \in Int
    BY <1>1, <1>4, MoveTyped DEF Counted
  <2>2. n[p] < 0 => stock[Online][p] - reserved[p] + n[p] >= 0
    BY <1>4 DEF move, Room
  <2> QED
    BY <1>2, <1>3, <2>1, <2>2
<1>5. CASE s # Online
  BY <1>1, <1>3, <1>5, MoveTyped
<1> QED
  BY <1>4, <1>5

LEMMA StepCovered == IInv /\ HoldsCovered /\ [Next]_vars => HoldsCovered'
<1> SUFFICES ASSUME IInv, HoldsCovered, [Next]_vars PROVE HoldsCovered'
  OBVIOUS
<1>0. TypeOK
  BY DEF IInv
<1>1. ASSUME UNCHANGED <<stock, reserved, retaken>> PROVE HoldsCovered'
  BY <1>1 DEF HoldsCovered
<1>2. ASSUME NEW h \in Requests, dispatch(h) PROVE HoldsCovered'
  <2>1. claim(h, "DISPATCHED") /\ "DISPATCHED" \in TransferStatus
    BY <1>2 DEF dispatch, TransferStatus
  <2>2. move(route[req[h].t].from, Out(qty[req[h].t])) /\ UNCHANGED <<reserved, retaken>>
    BY <1>2, <2>1 DEF dispatch, moveFor, claim
  <2> QED
    BY <1>0, <2>1, <2>2, Payload, MoveCovered
<1>3. ASSUME NEW h \in Requests, receive(h) PROVE HoldsCovered'
  <2>1. claim(h, "RECEIVED") /\ "RECEIVED" \in TransferStatus
    BY <1>3 DEF receive, TransferStatus
  <2>2. move(route[req[h].t].to, req[h].got) /\ UNCHANGED <<reserved, retaken>>
    BY <1>3, <2>1 DEF receive, moveFor, claim
  <2> QED
    BY <1>0, <2>1, <2>2, Payload, MoveCovered
<1>4. ASSUME NEW h \in Requests, cancel(h) PROVE HoldsCovered'
  <2>1. claim(h, "CANCELLED") /\ "CANCELLED" \in TransferStatus
    BY <1>4 DEF cancel, TransferStatus
  <2>2. CASE req[h].seen = "DISPATCHED"
    <3>1. move(route[req[h].t].from, qty[req[h].t]) /\ UNCHANGED <<reserved, retaken>>
      BY <1>4, <2>1, <2>2 DEF cancel, moveFor, claim
    <3> QED
      BY <1>0, <2>1, <3>1, Payload, MoveCovered
  <2>3. CASE req[h].seen # "DISPATCHED"
    BY <1>1, <1>4, <2>1, <2>3 DEF cancel, claim
  <2> QED
    BY <2>2, <2>3
<1>5. ASSUME NEW s \in Stores, NEW p \in SKUs, NEW n \in {1, -1}, Trade(s, p, n)
      PROVE  HoldsCovered'
  <2>1. [q \in SKUs |-> IF q = p THEN n ELSE 0] \in [SKUs -> Int]
    OBVIOUS
  <2> QED
    BY <1>0, <1>5, <2>1, MoveCovered DEF Trade
<1>6. ASSUME NEW p \in SKUs,
             Hold(p) \/ Release(p) \/ Complete(p) \/ CompleteAgain(p)
      PROVE  HoldsCovered'
  <2> SUFFICES ASSUME NEW q \in Tracked \ Backorder
               PROVE  stock'[Online][q] + retaken'[q] >= reserved'[q]
    BY DEF HoldsCovered
  <2>1. Online \in Stores /\ q \in SKUs
    BY ConstantsAssumption
  <2>2. stock[Online][q] \in Int /\ reserved[q] \in Int /\ retaken[q] \in Nat
    BY <1>0, <2>1 DEF TypeOK, Units
  <2>3. stock[Online][q] + retaken[q] >= reserved[q]
    BY DEF HoldsCovered
  <2>4. CASE q # p
    BY <1>0, <1>6, <2>1, <2>3, <2>4
       DEF Hold, Release, Complete, CompleteAgain, TypeOK, Units
  <2>5. CASE q = p /\ Hold(p)
    <3>1. stock[Online][q] - reserved[q] >= 1 /\ reserved'[q] = reserved[q] + 1
      BY <1>0, <2>1, <2>5 DEF Hold, TypeOK
    <3>2. stock' = stock /\ retaken' = retaken
      BY <2>5 DEF Hold
    <3> QED
      BY <2>2, <3>1, <3>2
  <2>6. CASE q = p /\ Release(p)
    <3>1. reserved'[q] = reserved[q] - 1 /\ stock' = stock /\ retaken' = retaken
      BY <1>0, <2>1, <2>6 DEF Release, TypeOK
    <3> QED
      BY <2>2, <2>3, <3>1
  <2>7. CASE q = p /\ Complete(p)
    <3>1. /\ stock'[Online][q] = stock[Online][q] - 1
          /\ reserved'[q] = reserved[q] - 1 /\ retaken' = retaken
      BY <1>0, <2>1, <2>7 DEF Complete, TypeOK
    <3> QED
      BY <2>2, <2>3, <3>1
  <2>8. CASE q = p /\ CompleteAgain(p)
    <3>1. /\ stock'[Online][q] = stock[Online][q] - 1
          /\ retaken'[q] = retaken[q] + 1 /\ reserved' = reserved
      BY <1>0, <2>1, <2>8 DEF CompleteAgain, TypeOK, Units
    <3> QED
      BY <2>2, <2>3, <3>1
  <2> QED
    BY <1>6, <2>4, <2>5, <2>6, <2>7, <2>8
<1>7. ASSUME NEW h \in Requests, approve(h) \/ rollback(h)
      PROVE  UNCHANGED <<stock, reserved, retaken>>
  BY <1>7 DEF approve, claim, rollback, shopVars
<1>8. ASSUME NEW t \in Transfers, NEW r \in Route, NEW n \in [SKUs -> Quantities],
             create(t, r, n)
      PROVE  UNCHANGED <<stock, reserved, retaken>>
  BY <1>8 DEF create, shopVars
<1>9. ASSUME NEW h \in Requests, NEW t \in Transfers, NEW s \in TransferStatus,
             NEW n \in [SKUs -> Arrivals], Read(h, t, s, n)
      PROVE  UNCHANGED <<stock, reserved, retaken>>
  BY <1>9 DEF Read, shopVars
<1>10. ASSUME NEW s \in Closable, SetActive(s) PROVE UNCHANGED <<stock, reserved, retaken>>
  BY <1>10 DEF SetActive
<1>11. CASE UNCHANGED vars
  BY <1>1, <1>11 DEF vars
<1> QED
  BY <1>1, <1>2, <1>3, <1>4, <1>5, <1>6, <1>7, <1>8, <1>9, <1>10, <1>11 DEF Next

\* No transfer, sale, adjustment or new reservation, in any order, takes a unit
\* that a website order holds: what is missing on the online store's shelf is only
\* what orders completed again took.
THEOREM HoldsStayCovered == Spec => []HoldsCovered
<1>1. Init => HoldsCovered
  BY ConstantsAssumption DEF Init, HoldsCovered, Nothing
<1> QED
  BY <1>1, Initially, Inductive, StepCovered, PTL DEF Spec

-----------------------------------------------------------------------------
\* The refinement: each claim is a step of the consignment it claims.
legs == [t \in Transfers |-> Leg[status[t]]]
loads == [t \in Transfers |-> OnRoad(t)]

\* What one transfer's claim does to the mapped variables of all of them.
LEMMA LegsMove ==
    ASSUME IInv, NEW h \in Requests, NEW s \in TransferStatus, claim(h, s),
           NEW t \in Transfers, t = req[h].t
    PROVE  /\ legs' = [legs EXCEPT ![t] = Leg[s]]
           /\ \A u \in Transfers \ {t} : loads'[u] = loads[u]
           /\ loads'[t] = (IF s = "DISPATCHED" THEN Counted(qty[t]) ELSE Nothing)
<1>1. status'[t] = s /\ \A u \in Transfers \ {t} : status'[u] = status[u]
  BY ClaimTyped
<1>2. qty' = qty
  BY DEF claim
<1> QED
  BY <1>1, <1>2 DEF legs, loads, OnRoad, Counted

LEMMA Refines == IInv /\ [Next]_vars => [Goods!Next]_(Goods!vars)
<1> SUFFICES ASSUME IInv, [Next]_vars PROVE Goods!Next \/ UNCHANGED Goods!vars
  OBVIOUS
<1>0. TypeOK
  BY DEF IInv
<1>1. ASSUME UNCHANGED <<stock, status, route, qty>> PROVE UNCHANGED Goods!vars
  BY <1>1 DEF Goods!vars, OnRoad, Counted
<1>2. ASSUME NEW t \in Transfers, NEW r \in Route, NEW n \in [SKUs -> Quantities],
             create(t, r, n)
      PROVE  Goods!Plan(t)
  <2>0. status[t] = "NONE" /\ status' = [status EXCEPT ![t] = "REQUESTED"]
    BY <1>2 DEF create
  <2>1. legs' = [legs EXCEPT ![t] = "planned"] /\ legs[t] = "unknown"
    <3>1. status'[t] = "REQUESTED" /\ \A u \in Transfers \ {t} : status'[u] = status[u]
      BY <1>0, <2>0 DEF TypeOK
    <3>2. Leg["REQUESTED"] = "planned" /\ Leg["NONE"] = "unknown"
      BY DEF Leg
    <3>3. legs[t] = "unknown" /\ legs'[t] = "planned"
      BY <2>0, <3>1, <3>2 DEF legs
    <3>4. \A u \in Transfers \ {t} : legs'[u] = legs[u]
      BY <3>1 DEF legs
    <3> QED
      BY <3>3, <3>4 DEF legs
  <2>2. loads' = loads
    BY <1>0, <1>2 DEF create, loads, OnRoad, Counted, TypeOK
  <2>3. stock' = stock /\ r.from # r.to /\ route' = [route EXCEPT ![t] = r]
    BY <1>2 DEF create, shopVars
  <2>4. r \in Goods!Route
    BY DEF Route, Goods!Route
  <2> QED
    BY <2>1, <2>2, <2>3, <2>4 DEF Goods!Plan, Goods!Progress, legs, loads
<1>3. ASSUME NEW h \in Requests, approve(h) PROVE UNCHANGED Goods!vars
  <2>1. claim(h, "APPROVED") /\ "APPROVED" \in TransferStatus
    BY <1>3 DEF approve, TransferStatus
  <2>2. PICK t \in Transfers : t = req[h].t /\ status[t] = "REQUESTED"
    BY <2>1, Claimed DEF TRANSITIONS, TransferStatus
  <2>3. legs' = [legs EXCEPT ![t] = "planned"] /\ legs[t] = "planned"
    BY <2>1, <2>2, LegsMove DEF Leg, legs
  <2>4. legs' = legs
    BY <2>3 DEF legs
  <2>5. \A u \in Transfers : loads'[u] = loads[u]
    BY <2>1, <2>2, LegsMove DEF loads, OnRoad
  <2>6. loads' = loads
    BY <2>5 DEF loads
  <2> QED
    BY <1>3, <2>1, <2>4, <2>6 DEF approve, claim, Goods!vars, legs, loads
<1>4. ASSUME NEW h \in Requests, dispatch(h)
      PROVE  \E c \in Transfers : Goods!Depart(c)
  <2>1. claim(h, "DISPATCHED") /\ "DISPATCHED" \in TransferStatus
    BY <1>4 DEF dispatch, TransferStatus
  <2>2. PICK t \in Transfers : t = req[h].t /\ status[t] = "APPROVED"
    BY <2>1, Claimed DEF TRANSITIONS, TransferStatus
  <2>3. move(route[t].from, Out(qty[t])) /\ route' = route
    BY <1>4, <2>1, <2>2 DEF dispatch, moveFor, claim
  <2>4. route[t].from \in Stores /\ Out(qty[t]) \in [SKUs -> Int] /\ qty[t] \in Units
    BY <2>1, <2>2, Payload
  <2>5. /\ \A s \in Stores \ {route[t].from} : stock'[s] = stock[s]
        /\ \A p \in SKUs : stock'[route[t].from][p]
                           = stock[route[t].from][p] + Counted(Out(qty[t]))[p]
    BY <1>0, <2>3, <2>4, MoveTyped
  <2>6. /\ legs' = [legs EXCEPT ![t] = "onroad"] /\ legs[t] = "planned"
        /\ \A u \in Transfers \ {t} : loads'[u] = loads[u]
        /\ loads'[t] = Counted(qty[t])
    BY <2>1, <2>2, LegsMove DEF Leg, legs
  <2>7. \A p \in SKUs :
          /\ loads'[t][p] >= 0
          /\ stock'[route[t].from][p] = stock[route[t].from][p] - loads'[t][p]
    BY <1>0, <2>4, <2>5, <2>6, CountedOut DEF TypeOK
  <2>8. Goods!Only(t, route[t].from)
    BY <2>5, <2>6 DEF Goods!Only, loads
  <2>9. Goods!Progress(t, "planned", "onroad")
    BY <2>6 DEF Goods!Progress, legs
  <2> QED
    BY <2>3, <2>7, <2>8, <2>9 DEF Goods!Depart, loads
<1>5. ASSUME NEW h \in Requests, receive(h)
      PROVE  \E c \in Transfers : Goods!Arrive(c)
  <2>1. claim(h, "RECEIVED") /\ "RECEIVED" \in TransferStatus
    BY <1>5 DEF receive, TransferStatus
  <2>2. PICK t \in Transfers : t = req[h].t /\ status[t] = "DISPATCHED"
    BY <2>1, Claimed DEF TRANSITIONS, TransferStatus
  <2>3. move(route[t].to, req[h].got) /\ route' = route
    BY <1>5, <2>1, <2>2 DEF receive, moveFor, claim
  <2>4. /\ route[t].to \in Stores /\ req[h].got \in [SKUs -> Int]
        /\ req[h].got \in Units /\ qty[t] \in Units
        /\ \A p \in SKUs : req[h].got[p] <= qty[t][p]
    BY <2>1, <2>2, Payload, Claimed
  <2>5. /\ \A s \in Stores \ {route[t].to} : stock'[s] = stock[s]
        /\ \A p \in SKUs : stock'[route[t].to][p]
                           = stock[route[t].to][p] + Counted(req[h].got)[p]
    BY <1>0, <2>3, <2>4, MoveTyped
  <2>6. /\ legs' = [legs EXCEPT ![t] = "over"] /\ legs[t] = "onroad"
        /\ \A u \in Transfers \ {t} : loads'[u] = loads[u]
        /\ loads'[t] = Nothing /\ loads[t] = Counted(qty[t])
    BY <2>1, <2>2, LegsMove DEF Leg, legs, loads, OnRoad
  <2>7. \A p \in SKUs : Counted(req[h].got)[p] \in Nat /\ Counted(qty[t])[p] \in Nat
                       /\ Counted(req[h].got)[p] <= Counted(qty[t])[p]
    BY <2>4 DEF Counted, Units
  <2>8. \A p \in SKUs :
          /\ stock'[route[t].to][p] >= stock[route[t].to][p]
          /\ stock'[route[t].to][p] <= stock[route[t].to][p] + loads[t][p]
    BY <1>0, <2>4, <2>5, <2>6, <2>7 DEF TypeOK
  <2>9. Goods!Only(t, route[t].to)
    BY <2>5, <2>6 DEF Goods!Only, loads
  <2>10. Goods!Progress(t, "onroad", "over")
    BY <2>6 DEF Goods!Progress, legs
  <2> QED
    BY <2>3, <2>6, <2>8, <2>9, <2>10 DEF Goods!Arrive, Goods!Empty, Nothing, loads
<1>6. ASSUME NEW h \in Requests, cancel(h)
      PROVE  \E c \in Transfers : Goods!ComeBack(c) \/ Goods!CallOff(c)
  <2>1. claim(h, "CANCELLED") /\ "CANCELLED" \in TransferStatus
    BY <1>6 DEF cancel, TransferStatus
  <2>2. PICK t \in Transfers : /\ t = req[h].t /\ status[t] = req[h].seen
                              /\ status[t] \in {"REQUESTED", "APPROVED", "DISPATCHED"}
    BY <2>1, Claimed DEF TRANSITIONS, TransferStatus
  <2>3. /\ legs' = [legs EXCEPT ![t] = "over"]
        /\ \A u \in Transfers \ {t} : loads'[u] = loads[u]
        /\ loads'[t] = Nothing
    BY <2>1, <2>2, LegsMove DEF Leg
  <2>4. route' = route
    BY <2>1 DEF claim
  <2>5. CASE status[t] = "DISPATCHED"
    <3>1. move(route[t].from, qty[t])
      BY <1>6, <2>2, <2>5 DEF cancel, moveFor
    <3>2. route[t].from \in Stores /\ qty[t] \in [SKUs -> Int]
      BY <2>1, <2>2, Payload
    <3>3. /\ \A s \in Stores \ {route[t].from} : stock'[s] = stock[s]
          /\ \A p \in SKUs : stock'[route[t].from][p]
                             = stock[route[t].from][p] + Counted(qty[t])[p]
      BY <1>0, <3>1, <3>2, MoveTyped
    <3>4. legs[t] = "onroad" /\ loads[t] = Counted(qty[t])
      BY <2>5 DEF legs, loads, Leg, OnRoad
    <3>5. Goods!Only(t, route[t].from)
      BY <2>3, <3>3 DEF Goods!Only, loads
    <3>6. Goods!Progress(t, "onroad", "over")
      BY <2>3, <3>4 DEF Goods!Progress, legs
    <3> QED
      BY <2>3, <2>4, <3>3, <3>4, <3>5, <3>6
         DEF Goods!ComeBack, Goods!Empty, Nothing, loads
  <2>6. CASE status[t] # "DISPATCHED"
    <3>1. stock' = stock
      BY <1>6, <2>2, <2>6 DEF cancel
    <3>2. legs[t] = "planned" /\ loads[t] = Nothing
      BY <2>2, <2>6 DEF legs, loads, Leg, OnRoad
    <3>3. \A u \in Transfers : loads'[u] = loads[u]
      BY <2>3, <3>2
    <3>4. loads' = loads
      BY <3>3 DEF loads
    <3>5. Goods!Progress(t, "planned", "over")
      BY <2>3, <3>2 DEF Goods!Progress, legs
    <3> QED
      BY <2>4, <3>1, <3>4, <3>5 DEF Goods!CallOff, loads
  <2> QED
    BY <2>5, <2>6
<1>7. ASSUME NEW s \in Stores, NEW p \in SKUs, NEW n \in {1, -1}, Trade(s, p, n)
      PROVE  Goods!Trade(s)
  <2>1. [q \in SKUs |-> IF q = p THEN n ELSE 0] \in [SKUs -> Int]
    OBVIOUS
  <2>2. \A r \in Stores \ {s} : stock'[r] = stock[r]
    BY <1>0, <1>7, <2>1, MoveTyped DEF Trade
  <2> QED
    BY <1>7, <2>2 DEF Trade, Goods!Trade, rowVars, OnRoad, Counted
<1>8. ASSUME NEW p \in SKUs, Complete(p) \/ CompleteAgain(p) PROVE Goods!Trade(Online)
  <2>1. \A r \in Stores \ {Online} : stock'[r] = stock[r]
    BY <1>0, <1>8 DEF Complete, CompleteAgain, TypeOK
  <2> QED
    BY <1>8, <2>1 DEF Complete, CompleteAgain, Goods!Trade, rowVars, OnRoad, Counted
<1>9. ASSUME NEW h \in Requests, NEW t \in Transfers, NEW s \in TransferStatus,
             NEW n \in [SKUs -> Arrivals], Read(h, t, s, n)
      PROVE  UNCHANGED <<stock, status, route, qty>>
  BY <1>9 DEF Read, shopVars, rowVars
<1>10. ASSUME NEW h \in Requests, rollback(h)
       PROVE  UNCHANGED <<stock, status, route, qty>>
  BY <1>10 DEF rollback, shopVars, rowVars
<1>11. ASSUME NEW p \in SKUs, Hold(p) \/ Release(p)
       PROVE  UNCHANGED <<stock, status, route, qty>>
  BY <1>11 DEF Hold, Release, rowVars
<1>12. ASSUME NEW s \in Closable, SetActive(s)
       PROVE  UNCHANGED <<stock, status, route, qty>>
  BY <1>12 DEF SetActive, rowVars
<1>13. CASE UNCHANGED vars
  BY <1>1, <1>13 DEF vars
<1>14. CASE Next
  <2>1. Online \in Stores
    BY ConstantsAssumption
  <2> QED
    BY <1>1, <1>2, <1>3, <1>4, <1>5, <1>6, <1>7, <1>8, <1>9, <1>10, <1>11, <1>12,
       <1>14, <2>1 DEF Next, Goods!Next
<1> QED
  BY <1>13, <1>14

\* The service implements the promise of Consignments: whatever overlaps, the
\* goods of a transfer leave once and land once.
THEOREM TransfersImplementConsignments == Spec => GoodsLandOnce
<1>1. Init => Goods!Init
  <2> SUFFICES ASSUME Init PROVE Goods!Init
    OBVIOUS
  <2>1. stock \in [Stores -> [SKUs -> Int]]
    BY ConstantsAssumption DEF Init
  <2>2. route \in [Transfers -> Goods!Route]
    BY ConstantsAssumption DEF Init, Goods!Route
  <2> QED
    BY <2>1, <2>2 DEF Init, Goods!Init, Goods!Empty, Leg, OnRoad, Nothing
<1> QED
  BY <1>1, Initially, Inductive, Refines, PTL DEF Spec, GoodsLandOnce, Goods!Spec

=============================================================================
