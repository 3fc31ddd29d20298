----------------------------- MODULE Money_proofs -----------------------------
(***************************************************************************)
(* The money of an order: what holds of Payments and of Courier, whatever  *)
(* the amounts, the bounds and the number of requests.  The two are proved *)
(* one after the other, with an invariant each (IInv, CourierInv).         *)
(*                                                                         *)
(* Payments: as long as only those requests overlap that do not trust what *)
(* the other writes (SafeOverlaps).  Each property speaks of rows, and     *)
(* each row is written by a request that read others before; the invariant *)
(* therefore follows every request: what its copies still say, what it has *)
(* taken or verified and not yet booked.                                   *)
(*                                                                         *)
(* Courier: the types whatever the practices; the rows, and that no due is *)
(* overpaid, as long as no parcel is sent before the last one's return was *)
(* reported, however late a webhook comes (Rows, JobKnown); what is owed and *)
(* banked when the courier also reports in order (InStep, Practices = {}). *)
(* All properties then come down to one parcel, the newest: the ones before *)
(* it came back, so an open receivable or a settlement can only be about   *)
(* that one.                                                               *)
(***************************************************************************)
EXTENDS Payments, Courier, SumTheorems, TLAPS

Busy(h) == req[h] # Idle
Safe == Overlaps \subseteq SafeOverlaps

Compatible ==
    \A g, h \in Requests : g # h /\ Busy(g) /\ Busy(h) => {req[g].kind, req[h].kind} \in Overlaps

\* Where request h may be, and what is true of its copies there.
Fresh(h) ==
    LET k == req[h].kind  at == req[h].at  s == req[h].sub IN
    /\ k = "callback" => /\ at \in {"execute", "fail", "capture", "forward", "unlock"}
                         /\ at \in {"execute", "fail"} <=> gateway # "taken"
    /\ k = "verify" =>
          /\ at \in {"review", "capture", "advance", "record", "release", "confirm",
                     "forward", "unlock"}
          /\ s \in Submissions
          /\ submission[s] = IF at = "review" THEN "SUBMITTED" ELSE "VERIFIED"
          /\ at \in {"capture", "advance", "record"} => s \notin credited
          /\ at = "record" => req[h].got = advance.paid /\ req[h].due = advance.required
    /\ k = "reject" => at = "review" /\ s \in Submissions /\ submission[s] = "SUBMITTED"
    /\ k = "require" => at = "hold"
    /\ k = "waive" => at \in {"release", "confirm"}
    /\ k = "restore" => at = "cancel"

\* A callback took the money and has not booked it.
Taking == \E h \in Requests : At(h, "callback", "capture")

\* The submission that is verified and not yet booked, if any.
Unbooked == {s \in Submissions : \E h \in Requests : At(h, "verify", "capture") /\ req[h].sub = s}

IncomeBooked ==
    income <= (IF gateway = "open" \/ Taking THEN 0 ELSE Total) + Sent(Verified \ Unbooked)

TakenIsKept ==
    gateway = "taken" /\ ~Taking =>
        payment.ref = "trxID" /\ payment.status \in {"CAPTURED", "REFUNDED"}

IInv == /\ TypeOK /\ Compatible /\ IncomeBooked /\ TakenIsKept /\ FilesPaidFor /\ AdvanceExact
        /\ credited \subseteq Verified
        /\ \A h \in Requests : Fresh(h)

-----------------------------------------------------------------------------
(***************************************************************************)
(* Requests in flight.                                                     *)
(***************************************************************************)
Flights == [Requests -> Request \cup {Idle}]
Places == {"fail", "execute", "capture", "forward", "unlock", "review", "advance", "record",
           "release", "confirm", "hold", "cancel", "write"}

LEMMA PairEqual ==
    ASSUME NEW a, NEW b, NEW c, NEW d, {a, b} = {c, d}
    PROVE  (a = c /\ b = d) \/ (a = d /\ b = c)
OBVIOUS

LEMMA SafePairs ==
    ASSUME NEW j, NEW k, {j, k} \in SafeOverlaps
    PROVE  /\ k = "callback" => j \in {"verify", "reject", "require", "waive", "restore"}
           /\ k = "verify" => j \in {"callback", "waive", "restore"}
           /\ k = "reject" => j \in {"callback", "require", "waive", "restore"}
           /\ k = "require" => j \in {"callback", "reject", "restore"}
           /\ k = "restore" =>
                 j \in {"callback", "verify", "reject", "restore", "require", "waive"}
<1> DEFINE Pair(a, b) == (j = a /\ k = b) \/ (j = b /\ k = a)
<1>1. \/ \E i \in {"verify", "reject", "require", "waive", "restore"} : {j, k} = {"callback", i}
      \/ {j, k} = {"verify", "waive"} \/ {j, k} = {"verify", "restore"}
      \/ {j, k} = {"reject", "require"} \/ {j, k} = {"reject", "waive"}
      \/ {j, k} = {"reject", "restore"} \/ {j, k} = {"restore", "restore"}
      \/ {j, k} = {"restore", "require"} \/ {j, k} = {"restore", "waive"}
  BY DEF SafeOverlaps
<1>2. \/ \E i \in {"verify", "reject", "require", "waive", "restore"} : Pair("callback", i)
      \/ Pair("verify", "waive") \/ Pair("verify", "restore")
      \/ Pair("reject", "require") \/ Pair("reject", "waive")
      \/ Pair("reject", "restore") \/ Pair("restore", "restore")
      \/ Pair("restore", "require") \/ Pair("restore", "waive")
  BY <1>1, PairEqual
<1> QED
  BY <1>2

LEMMA BusyIs ==
    ASSUME req \in Flights, NEW h \in Requests
    PROVE  /\ Busy(h) => req[h] \in Request /\ req[h].kind \in Kinds
           /\ ~Busy(h) => req[h].kind = "none"
           /\ Busy(h) <=> req[h].kind # "none"
<1>1. req[h] \in Request \/ req[h] = Idle
  BY DEF Flights
<1>2. Idle.kind = "none" /\ "none" \notin Kinds
  BY DEF Idle, Kinds
<1>3. \A r \in Request : r.kind \in Kinds
  BY DEF Request
<1> QED
  BY <1>1, <1>2, <1>3 DEF Busy

\* Only request h changes, and those in flight may be in flight together.
Turn(h) ==
    /\ req' \in Flights /\ Compatible'
    /\ \A g \in Requests \ {h} : req'[g] = req[g]

LEMMA Going ==
    ASSUME req \in Flights, Compatible, NEW h \in Requests, Busy(h), NEW q \in Request \cup {Idle},
           req' = [req EXCEPT ![h] = q], q = Idle \/ q.kind = req[h].kind
    PROVE  Turn(h) /\ req'[h] = q
<1>1. /\ req' \in Flights /\ req'[h] = q
      /\ \A g \in Requests \ {h} : req'[g] = req[g]
  BY DEF Flights
<1>2. ASSUME NEW g \in Requests, Busy(g)' PROVE Busy(g) /\ req'[g].kind = req[g].kind
  BY <1>1, <1>2 DEF Busy
<1>3. Compatible'
  BY <1>2 DEF Compatible
<1> QED
  BY <1>1, <1>3 DEF Turn

LEMMA Starting ==
    ASSUME req \in Flights, Compatible, NEW h \in Requests, NEW k \in Kinds, MayStart(h, k),
           NEW q \in Request, req' = [req EXCEPT ![h] = q], q.kind = k
    PROVE  Turn(h) /\ req'[h] = q
<1>1. /\ req' \in Flights /\ req'[h] = q
      /\ \A g \in Requests \ {h} : req'[g] = req[g]
  BY DEF Flights
<1>2. Compatible'
  <2> SUFFICES ASSUME NEW f \in Requests, NEW g \in Requests, f # g, Busy(f)', Busy(g)'
               PROVE  {req'[f].kind, req'[g].kind} \in Overlaps
    BY DEF Compatible
  <2>1. CASE f = h
    BY <1>1, <2>1 DEF MayStart, Busy
  <2>2. CASE g = h
    <3>1. {k, req'[f].kind} \in Overlaps
      BY <1>1, <2>2 DEF MayStart, Busy
    <3>2. {k, req'[f].kind} = {req'[f].kind, k}
      OBVIOUS
    <3> QED
      BY <1>1, <2>2, <3>1, <3>2
  <2>3. CASE f # h /\ g # h
    BY <1>1, <2>3 DEF Compatible, Busy
  <2> QED
    BY <2>1, <2>2, <2>3
<1> QED
  BY <1>1, <1>2 DEF Turn

LEMMA BlankIs ==
    /\ Blank \in Request
    /\ PaymentStatuses = {"PENDING", "CAPTURED", "FAILED", "REFUNDED", "CANCELED"}
    /\ "PENDING" \in PaymentStatuses /\ "PENDING" \in OrderStatuses
BY DEF Blank, Request, Kinds, PaymentStatuses, OrderStatuses

LEMMA StartIs ==
    ASSUME req \in Flights, Compatible, NEW h \in Requests, NEW k \in Kinds, NEW at \in Places,
           Start(h, k, at)
    PROVE  /\ Turn(h) /\ ~Busy(h) /\ MayStart(h, k)
           /\ req'[h].kind = k /\ req'[h].at = at
<1> DEFINE q == [Blank EXCEPT !.kind = k, !.at = at]
<1>1. q \in Request /\ q.kind = k /\ q.at = at
  BY BlankIs DEF Request, Places
<1>2. MayStart(h, k) /\ req' = [req EXCEPT ![h] = q]
  BY DEF Start
<1> HIDE DEF q
<1>3. Turn(h) /\ req'[h] = q
  BY <1>1, <1>2, Starting
<1> QED
  BY <1>1, <1>2, <1>3 DEF MayStart, Busy

LEMMA StartOnOrderIs ==
    ASSUME req \in Flights, Compatible, NEW h \in Requests, NEW k \in Kinds, NEW at \in Places,
           NEW s \in Submissions \cup {"none"}, StartOnOrder(h, k, at, s),
           order \in OrderStatuses, payment.status \in PaymentStatuses
    PROVE  /\ Turn(h) /\ ~Busy(h) /\ MayStart(h, k)
           /\ req'[h].kind = k /\ req'[h].at = at /\ req'[h].sub = s
<1> DEFINE paid == IF k = "callback" THEN payment.status ELSE "PENDING"
           q == [Blank EXCEPT !.kind = k, !.at = at, !.sub = s, !.paid = paid, !.saw = order]
<1>1. paid \in PaymentStatuses
  BY BlankIs
<1>2. MayStart(h, k) /\ req' = [req EXCEPT ![h] = q]
  BY DEF StartOnOrder
<1> HIDE DEF paid
<1>3. q \in Request /\ q.kind = k /\ q.at = at /\ q.sub = s
  <2>1. PICK r \in Request : r = Blank
    BY BlankIs
  <2> DEFINE p == [r EXCEPT !.kind = k, !.at = at, !.sub = s]
  <2>2. p \in Request /\ p.kind = k /\ p.at = at /\ p.sub = s
    BY DEF Request, Places
  <2>3. q = [p EXCEPT !.paid = paid, !.saw = order]
    BY <2>1
  <2> HIDE DEF p, q
  <2> QED
    BY <1>1, <2>2, <2>3 DEF Request
<1> HIDE DEF q
<1>4. Turn(h) /\ req'[h] = q
  BY <1>2, <1>3, Starting
<1> QED
  BY <1>2, <1>3, <1>4 DEF MayStart, Busy

LEMMA GoToIs ==
    ASSUME req \in Flights, Compatible, NEW h \in Requests, Busy(h), NEW at \in Places,
           GoTo(h, at)
    PROVE  /\ Turn(h) /\ req'[h].at = at
           /\ req'[h].kind = req[h].kind /\ req'[h].sub = req[h].sub
<1>1. req[h] \in Request
  BY BusyIs
<1> DEFINE paid == IF at = "fail" THEN req[h].paid ELSE "PENDING"
           saw == IF at = "unlock" THEN "PENDING" ELSE req[h].saw
           q == [req[h] EXCEPT !.at = at, !.paid = paid, !.saw = saw, !.due = 0, !.got = 0]
<1>2. paid \in PaymentStatuses /\ saw \in OrderStatuses
  BY <1>1, BlankIs DEF Request
<1>3. req' = [req EXCEPT ![h] = q]
  BY DEF GoTo, Flights
<1> HIDE DEF paid, saw
<1>4. q \in Request /\ q.kind = req[h].kind /\ q.at = at /\ q.sub = req[h].sub
  BY <1>1, <1>2 DEF Request, Places
<1> HIDE DEF q
<1>5. Turn(h) /\ req'[h] = q
  BY <1>3, <1>4, Going
<1> QED
  BY <1>4, <1>5

LEMMA EndIs ==
    ASSUME req \in Flights, Compatible, NEW h \in Requests, Busy(h), End(h)
    PROVE  Turn(h) /\ req'[h] = Idle /\ Fresh(h)' /\ req'[h].kind = "none"
<1>1. Turn(h) /\ req'[h] = Idle
  BY Going DEF End
<1> QED
  BY <1>1 DEF Fresh, Idle

-----------------------------------------------------------------------------
(***************************************************************************)
(* Steps that leave the gateway, the submissions, the income and the       *)
(* advance alone.                                                          *)
(***************************************************************************)
Kept == payment.ref = "trxID" /\ payment.status \in {"CAPTURED", "REFUNDED"}

\* Whether g is about to book what it took or verified is as before.
SameBooking(g) ==
    /\ At(g, "callback", "capture")' <=> At(g, "callback", "capture")
    /\ At(g, "verify", "capture")' <=> At(g, "verify", "capture")
    /\ At(g, "verify", "capture") => req'[g].sub = req[g].sub

LEMMA FreshKept ==
    ASSUME NEW g \in Requests, Fresh(g), req'[g] = req[g],
           UNCHANGED <<gateway, submission, advance, credited>>
    PROVE  Fresh(g)'
BY DEF Fresh

LEMMA BookingsKept ==
    ASSUME \A g \in Requests : SameBooking(g)
    PROVE  (Taking' <=> Taking) /\ Unbooked' = Unbooked
<1>1. Taking' <=> Taking
  BY DEF Taking, SameBooking
<1>2. Unbooked' = Unbooked
  BY DEF Unbooked, SameBooking
<1> QED
  BY <1>1, <1>2

LEMMA VerifiedKept ==
    ASSUME UNCHANGED submission
    PROVE  Verified' = Verified
BY DEF Verified

QuietTypes ==
    /\ order \in OrderStatuses
    /\ payment \in [status : PaymentStatuses, ref : {"paymentID", "trxID", "none"}]
    /\ files \in {"locked", "paid", "delivered"}

LEMMA QuietKeeps ==
    ASSUME IInv, UNCHANGED <<gateway, submission, income, advance, credited>>,
           QuietTypes', req' \in Flights, Compatible',
           gateway = "taken" /\ Kept => Kept',
           files' = "paid" => files = "paid" \/ gateway # "open" \/ Sent(Verified) >= Total,
           \A g \in Requests : SameBooking(g) /\ (req'[g] = req[g] \/ Fresh(g)')
    PROVE  IInv'
<1>1. TypeOK'
  BY DEF IInv, TypeOK, QuietTypes, Flights
<1>2. (Taking' <=> Taking) /\ Unbooked' = Unbooked /\ Verified' = Verified
  BY BookingsKept, VerifiedKept
<1>3. Sent(Verified)' = Sent(Verified) /\ Sent(Verified \ Unbooked)' = Sent(Verified \ Unbooked)
  BY <1>2 DEF Sent
<1>4. IncomeBooked'
  BY <1>2, <1>3 DEF IInv, IncomeBooked
<1>5. TakenIsKept'
  BY <1>2 DEF IInv, TakenIsKept, Kept
<1>6. FilesPaidFor'
  BY <1>3 DEF IInv, FilesPaidFor
<1>7. AdvanceExact'
  BY DEF IInv, AdvanceExact, Sent
<1>8. \A g \in Requests : Fresh(g)'
  BY FreshKept DEF IInv
<1>9. (credited \subseteq Verified)'
  BY <1>2 DEF IInv
<1> QED
  BY <1>1, <1>4, <1>5, <1>6, <1>7, <1>8, <1>9 DEF IInv

LEMMA Known ==
    ASSUME IInv
    PROVE  /\ req \in Flights /\ Compatible /\ QuietTypes /\ TypeOK
           /\ \A g \in Requests : Fresh(g)
BY DEF IInv, TypeOK, Flights, QuietTypes

LEMMA QuietTurn ==
    ASSUME IInv, UNCHANGED <<gateway, submission, income, advance, credited>>,
           QuietTypes', NEW h \in Requests, Turn(h), Fresh(h)', SameBooking(h),
           gateway = "taken" /\ Kept => Kept',
           files' = "paid" => files = "paid" \/ gateway # "open" \/ Sent(Verified) >= Total
    PROVE  IInv'
<1>1. /\ req' \in Flights /\ Compatible'
      /\ \A g \in Requests \ {h} : req'[g] = req[g]
  BY DEF Turn
<1>2. \A g \in Requests : SameBooking(g) /\ (req'[g] = req[g] \/ Fresh(g)')
  <2> SUFFICES ASSUME NEW g \in Requests, g # h PROVE SameBooking(g) /\ req'[g] = req[g]
    OBVIOUS
  <2>1. req'[g] = req[g]
    BY <1>1
  <2> QED
    BY <2>1 DEF SameBooking, At
<1> QED
  BY <1>1, <1>2, QuietKeeps

\* Only a request changes.
LEMMA OnlyRequests ==
    ASSUME IInv, UNCHANGED <<order, moneyVars, advance, credited>>,
           NEW h \in Requests, Turn(h), Fresh(h)', SameBooking(h)
    PROVE  IInv'
<1>1. UNCHANGED <<order, payment, files, gateway, submission, income, advance, credited>>
  BY DEF moneyVars
<1>2. QuietTypes' /\ (Kept => Kept')
  BY <1>1, Known DEF QuietTypes, Kept
<1> QED
  BY <1>1, <1>2, QuietTurn

-----------------------------------------------------------------------------
(***************************************************************************)
(* Requests start.                                                         *)
(***************************************************************************)
\* A callback finds bkash's paymentID on the payment, so no money was taken that
\* the shop knows of.
LEMMA NothingTaken ==
    ASSUME IInv, Safe, NEW h \in Requests, NEW k, k = "callback", MayStart(h, k),
           payment.ref = "paymentID"
    PROVE  gateway # "taken"
<1> SUFFICES ASSUME gateway = "taken" PROVE FALSE
  OBVIOUS
<1>1. PICK g \in Requests : At(g, "callback", "capture")
  BY DEF IInv, TakenIsKept, Taking
<1>2. req[g] # Idle /\ req[g].kind = "callback"
  BY <1>1 DEF At, Idle
<1>3. {k, "callback"} \in SafeOverlaps
  BY <1>2 DEF MayStart, Safe
<1> QED
  BY <1>3, SafePairs

LEMMA CallbackStarts ==
    ASSUME IInv, Safe, NEW h \in Requests, NEW success \in BOOLEAN, ReadForCallback(h, success)
    PROVE  IInv'
<1>1. PICK at \in {"execute", "fail"} : StartOnOrder(h, "callback", at, "none")
  BY DEF ReadForCallback
<1>2. payment.ref = "paymentID" /\ UNCHANGED <<order, moneyVars, advance, credited>>
  BY DEF ReadForCallback
<1>3. order \in OrderStatuses /\ payment.status \in PaymentStatuses /\ req \in Flights /\ Compatible
  BY Known DEF QuietTypes
<1>4. /\ Turn(h) /\ ~Busy(h) /\ MayStart(h, "callback")
      /\ req'[h].kind = "callback" /\ req'[h].at = at
  BY <1>1, <1>3, StartOnOrderIs DEF Kinds, Places
<1>5. gateway # "taken"
  BY <1>2, <1>4, NothingTaken
<1>6. gateway' = gateway
  BY <1>2 DEF moneyVars
<1>7. Fresh(h)'
  BY <1>4, <1>5, <1>6 DEF Fresh
<1>8. SameBooking(h)
  BY <1>4 DEF SameBooking, At, Busy, Idle
<1> QED
  BY <1>2, <1>4, <1>7, <1>8, OnlyRequests

LEMMA ReviewStarts ==
    ASSUME IInv, NEW h \in Requests, NEW k \in {"verify", "reject"}, NEW s \in Submissions,
           ReadForReview(h, k, s)
    PROVE  IInv'
<1>1. /\ submission[s] = "SUBMITTED" /\ StartOnOrder(h, k, "review", s)
      /\ UNCHANGED <<order, moneyVars, advance, credited>>
  BY DEF ReadForReview
<1>2. order \in OrderStatuses /\ payment.status \in PaymentStatuses /\ req \in Flights /\ Compatible
  BY Known DEF QuietTypes
<1>3. /\ Turn(h) /\ ~Busy(h)
      /\ req'[h].kind = k /\ req'[h].at = "review" /\ req'[h].sub = s
  BY <1>1, <1>2, StartOnOrderIs DEF Kinds, Places
<1>4. submission' = submission
  BY <1>1 DEF moneyVars
<1>5. Fresh(h)'
  BY <1>1, <1>3, <1>4 DEF Fresh
<1>6. SameBooking(h)
  BY <1>3 DEF SameBooking, At, Busy, Idle
<1> QED
  BY <1>1, <1>3, <1>5, <1>6, OnlyRequests

LEMMA RestoreStarts ==
    ASSUME IInv, NEW h \in Requests, ReadForRestore(h)
    PROVE  IInv'
<1>1. /\ Start(h, "restore", "cancel")
      /\ UNCHANGED <<order, moneyVars, advance, credited>>
  BY DEF ReadForRestore
<1>2. /\ Turn(h) /\ ~Busy(h) /\ req'[h].kind = "restore" /\ req'[h].at = "cancel"
  BY <1>1, Known, StartIs DEF Kinds, Places
<1>3. Fresh(h)'
  BY <1>2 DEF Fresh
<1>4. SameBooking(h)
  BY <1>2 DEF SameBooking, At, Busy, Idle
<1> QED
  BY <1>1, <1>2, <1>3, <1>4, OnlyRequests

-----------------------------------------------------------------------------
(***************************************************************************)
(* Steps of a request that book nothing.                                   *)
(***************************************************************************)
LEMMA Flying ==
    ASSUME IInv, NEW h \in Requests, req[h].kind \in Kinds
    PROVE  Busy(h) /\ req[h] \in Request /\ Fresh(h)
<1>1. req[h].kind # "none"
  BY DEF Kinds
<1> QED
  BY <1>1, Known, BusyIs

LEMMA FailKeeps ==
    ASSUME IInv, NEW h \in Requests, markFailed(h)
    PROVE  IInv'
<1>1. /\ req[h].kind = "callback" /\ req[h].at = "fail" /\ End(h)
      /\ payment' = payment \/ payment' = [payment EXCEPT !.status = "FAILED"]
      /\ UNCHANGED <<order, gateway, submission, income, files, advance, credited>>
  BY DEF markFailed, At
<1>2. Busy(h) /\ gateway # "taken"
  BY <1>1, Flying DEF Fresh, Kinds
<1>3. Turn(h) /\ Fresh(h)' /\ req'[h].kind = "none"
  BY <1>1, <1>2, Known, EndIs
<1>4. QuietTypes'
  BY <1>1, Known DEF QuietTypes, PaymentStatuses
<1>5. SameBooking(h)
  BY <1>1, <1>3 DEF SameBooking, At
<1> QED
  BY <1>1, <1>2, <1>3, <1>4, <1>5, QuietTurn

LEMMA ForwardKeeps ==
    ASSUME IInv, NEW h \in Requests, forward(h)
    PROVE  IInv'
<1>1. /\ req[h].kind \in {"callback", "verify"} /\ req[h].at = "forward" /\ GoTo(h, "unlock")
      /\ order' = AfterCapture \/ order' = order
      /\ UNCHANGED <<moneyVars, advance, credited>>
  BY DEF forward
<1>2. Busy(h) /\ Fresh(h)
  BY <1>1, Flying DEF Kinds
<1>3. /\ Turn(h) /\ req'[h].at = "unlock"
      /\ req'[h].kind = req[h].kind /\ req'[h].sub = req[h].sub
  BY <1>1, <1>2, Known, GoToIs DEF Places
<1>4. UNCHANGED <<payment, files, gateway, submission, income, advance, credited>>
  BY <1>1 DEF moneyVars
<1>5. QuietTypes' /\ (Kept => Kept')
  BY <1>1, <1>4, Known, ConstantsAssumption DEF QuietTypes, Kept
<1>6. Fresh(h)'
  BY <1>1, <1>2, <1>3, <1>4 DEF Fresh
<1>7. SameBooking(h)
  BY <1>1, <1>3 DEF SameBooking, At
<1> QED
  BY <1>3, <1>4, <1>5, <1>6, <1>7, QuietTurn

LEMMA UnlockKeeps ==
    ASSUME IInv, NEW h \in Requests, unlockCaptured(h) \/ unlockVerified(h)
    PROVE  IInv'
<1>1. /\ req[h].kind \in {"callback", "verify"} /\ req[h].at = "unlock" /\ End(h)
      /\ UNCHANGED <<order, payment, gateway, submission, income, advance, credited>>
  BY DEF unlockCaptured, unlockVerified, At
<1>2. Busy(h) /\ Fresh(h)
  BY <1>1, Flying DEF Kinds
<1>3. \/ files' = files
      \/ /\ files' = "paid"
         /\ req[h].kind = "callback" \/ Sent(Verified) >= Total
  BY DEF unlockCaptured, unlockVerified, At, Unlock
<1>4. req[h].kind = "callback" => gateway # "open"
  BY <1>1, <1>2 DEF Fresh
<1>5. Turn(h) /\ Fresh(h)' /\ req'[h].kind = "none"
  BY <1>1, <1>2, Known, EndIs
<1>6. QuietTypes' /\ (Kept => Kept')
  BY <1>1, <1>3, Known DEF QuietTypes, Kept
<1>7. SameBooking(h)
  BY <1>1, <1>5 DEF SameBooking, At
<1> QED
  BY <1>1, <1>3, <1>4, <1>5, <1>6, <1>7, QuietTurn

LEMMA ReadAdvanceKeeps ==
    ASSUME IInv, NEW h \in Requests, readAdvance(h)
    PROVE  IInv'
<1>1. /\ req[h].kind = "verify" /\ req[h].at = "advance"
      /\ UNCHANGED <<order, moneyVars, advance, credited>>
  BY DEF readAdvance, At
<1>2. Busy(h) /\ Fresh(h) /\ req[h] \in Request
  BY <1>1, Flying DEF Kinds
<1>3. PICK at \in {"record", "forward"}, needs \in Nat, got \in Nat :
         /\ needs = advance.required /\ got = advance.paid
         /\ req' = [req EXCEPT ![h].at = at, ![h].due = needs, ![h].got = got]
  BY Known DEF readAdvance, TypeOK
<1> DEFINE q == [req[h] EXCEPT !.at = at, !.due = needs, !.got = got]
<1>4. q \in Request /\ q.kind = "verify" /\ q.at = at /\ q.sub = req[h].sub
      /\ q.due = needs /\ q.got = got
  BY <1>1, <1>2 DEF Request
<1>5. req' = [req EXCEPT ![h] = q]
  BY <1>3, Known DEF Flights
<1> HIDE DEF q
<1>6. Turn(h) /\ req'[h] = q
  BY <1>1, <1>2, <1>4, <1>5, Known, Going
<1>7. UNCHANGED <<submission, advance, credited>>
  BY <1>1 DEF moneyVars
<1>8. Fresh(h)'
  BY <1>1, <1>2, <1>3, <1>4, <1>6, <1>7 DEF Fresh
<1>9. SameBooking(h)
  BY <1>1, <1>4, <1>6 DEF SameBooking, At
<1> QED
  BY <1>1, <1>6, <1>8, <1>9, OnlyRequests

LEMMA HoldKeeps ==
    ASSUME IInv, NEW h \in Requests, hold(h)
    PROVE  IInv'
<1>1. /\ req[h].kind = "require" /\ End(h) /\ order' = "HOLD"
      /\ UNCHANGED <<moneyVars, advance, credited>>
  BY DEF hold, At
<1>2. Turn(h) /\ Fresh(h)' /\ req'[h].kind = "none"
  BY <1>1, Flying, Known, EndIs DEF Kinds
<1>3. UNCHANGED <<payment, files, gateway, submission, income, advance, credited>>
  BY <1>1 DEF moneyVars
<1>4. QuietTypes' /\ (Kept => Kept')
  BY <1>1, <1>3, Known DEF QuietTypes, Kept, OrderStatuses
<1>5. SameBooking(h)
  BY <1>1, <1>2 DEF SameBooking, At
<1> QED
  BY <1>2, <1>3, <1>4, <1>5, QuietTurn

\* What follows the release of an advance.
LEMMA ReleaseKeeps ==
    ASSUME IInv, NEW h \in Requests, readRelease(h) \/ confirm(h)
    PROVE  IInv'
<1>1. /\ req[h].kind \in {"verify", "waive"} /\ req[h].at \in {"release", "confirm"}
      /\ UNCHANGED <<moneyVars, advance, credited>>
      /\ order' = order \/ order' = "CONFIRMED"
  BY DEF readRelease, confirm
<1>2. Busy(h) /\ Fresh(h) /\ req[h] \in Request
  BY <1>1, Flying DEF Kinds
<1>3. PICK q : /\ req' = [req EXCEPT ![h] = q]
               /\ \/ q = [req[h] EXCEPT !.at = "confirm"]
                  \/ q = [req[h] EXCEPT !.at = "forward"] /\ req[h].kind = "verify"
                  \/ q = Idle
  BY Known DEF readRelease, confirm, AfterRelease, Flights
<1>4. \/ /\ q \in Request /\ q.kind = req[h].kind /\ q.sub = req[h].sub
         /\ q.at = "confirm" \/ (q.at = "forward" /\ q.kind = "verify")
      \/ q = Idle
  BY <1>2, <1>3 DEF Request
<1>5. Turn(h) /\ req'[h] = q
  BY <1>2, <1>3, <1>4, Known, Going
<1>6. UNCHANGED <<payment, files, gateway, submission, income, advance, credited>>
  BY <1>1 DEF moneyVars
<1>7. QuietTypes' /\ (Kept => Kept')
  BY <1>1, <1>6, Known DEF QuietTypes, Kept, OrderStatuses
<1>8. Fresh(h)'
  BY <1>1, <1>2, <1>4, <1>5, <1>6 DEF Fresh, Idle
<1>9. SameBooking(h)
  BY <1>1, <1>4, <1>5 DEF SameBooking, At, Idle
<1> QED
  BY <1>5, <1>6, <1>7, <1>8, <1>9, QuietTurn

LEMMA EffectsKept ==
    ASSUME IInv, NEW s \in OrderStatuses, order' = s, StatusEffects(s)
    PROVE  QuietTypes' /\ (Kept => Kept') /\ (files' = "paid" => files = "paid")
<1>1. QuietTypes
  BY Known
<1>2. payment' = payment \/ (payment.status = "PENDING"
                             /\ payment' = [payment EXCEPT !.status = "CANCELED"])
  BY DEF StatusEffects
<1>3. files' = files \/ files' = "delivered"
  BY DEF StatusEffects, Unlock
<1> QED
  BY <1>1, <1>2, <1>3 DEF QuietTypes, Kept, PaymentStatuses

LEMMA RestoreKeeps ==
    ASSUME IInv, NEW h \in Requests, restoreCart(h)
    PROVE  IInv'
<1>1. /\ req[h].kind = "restore" /\ End(h) /\ order' = "CANCELED" /\ StatusEffects("CANCELED")
      /\ UNCHANGED <<gateway, submission, income, advance, credited>>
  BY DEF restoreCart, At
<1>2. Turn(h) /\ Fresh(h)' /\ req'[h].kind = "none"
  BY <1>1, Flying, Known, EndIs DEF Kinds
<1>3. QuietTypes' /\ (Kept => Kept') /\ (files' = "paid" => files = "paid")
  BY <1>1, EffectsKept DEF OrderStatuses
<1>4. SameBooking(h)
  BY <1>1, <1>2 DEF SameBooking, At
<1> QED
  BY <1>1, <1>2, <1>3, <1>4, QuietTurn

\* Status changes of staff, and refunds: no request moves.
LEMMA StaffKeeps ==
    ASSUME IInv, refund \/ \E status \in Requested : updateStatus(status)
    PROVE  IInv'
<1>1. UNCHANGED <<gateway, submission, income, advance, credited, req>>
  BY DEF refund, updateStatus
<1>2. QuietTypes' /\ (Kept => Kept') /\ (files' = "paid" => files = "paid")
  <2>1. CASE refund
    BY <2>1, Known DEF refund, QuietTypes, Kept, PaymentStatuses
  <2>2. CASE \E status \in Requested : updateStatus(status)
    <3>1. PICK s \in OrderStatuses : order' = s /\ StatusEffects(s)
      BY <2>2, ConstantsAssumption DEF updateStatus
    <3> QED
      BY <3>1, EffectsKept
  <2> QED
    BY <2>1, <2>2
<1>3. req' \in Flights /\ Compatible'
  BY <1>1, Known DEF Compatible, Busy
<1>4. \A g \in Requests : SameBooking(g) /\ req'[g] = req[g]
  BY <1>1 DEF SameBooking, At
<1> QED
  BY <1>1, <1>2, <1>3, <1>4, QuietKeeps

-----------------------------------------------------------------------------
(***************************************************************************)
(* Money.                                                                  *)
(***************************************************************************)
LEMMA SentIs ==
    ASSUME NEW S \in SUBSET Submissions
    PROVE  /\ Sent(S) \in Nat /\ Sent({}) = 0
           /\ \A s \in Submissions \ S :
                 /\ Amount[s] \in Nat /\ Sent(S \cup {s}) = Sent(S) + Amount[s]
<1>1. IsFiniteSet(S)
  BY ConstantsAssumption, FS_Subset
<1>2. \A s \in Submissions : Amount[s] \in Nat /\ Amount[s] \in Int
  BY ConstantsAssumption
<1>3. Sent(S) \in Nat
  BY <1>1, <1>2, SumNat DEF Sent
<1>4. ASSUME NEW s \in Submissions \ S PROVE Sent(S \cup {s}) = Sent(S) + Amount[s]
  <2>1. \A x \in S \cup {s} : Amount[x] \in Int
    BY <1>2
  <2>2. Sent(S \cup {s}) = Amount[s] + Sent(S)
    BY <1>1, <2>1, SumAdd DEF Sent
  <2> QED
    BY <1>2, <1>3, <2>2
<1> QED
  BY <1>2, <1>3, <1>4, SumEmpty DEF Sent

\* What is verified only grows, and so does what it is worth.
LEMMA SentGrows ==
    ASSUME NEW S \in SUBSET Submissions, NEW s \in Submissions
    PROVE  Sent(S) <= Sent(S \cup {s}) /\ Sent(S \cup {s}) \in Nat /\ Sent(S) \in Nat
<1>1. CASE s \in S
  <2>1. S \cup {s} = S
    BY <1>1
  <2>2. Sent(S) \in Nat
    BY SentIs
  <2>3. Sent(S \cup {s}) = Sent(S)
    BY <2>1
  <2> QED
    BY <2>2, <2>3
<1>2. CASE s \notin S
  <2>1. Sent(S) \in Nat /\ Amount[s] \in Nat /\ Sent(S \cup {s}) = Sent(S) + Amount[s]
    BY <1>2, SentIs
  <2> QED
    BY <2>1
<1> QED
  BY <1>1, <1>2

\* Two requests in flight are of kinds that may overlap.
LEMMA Beside ==
    ASSUME IInv, Safe, NEW g \in Requests, NEW h \in Requests, g # h,
           req[g].kind \in Kinds, req[h].kind \in Kinds
    PROVE  {req[g].kind, req[h].kind} \in SafeOverlaps
<1>1. Busy(g) /\ Busy(h)
  BY Flying
<1> QED
  BY <1>1, Known DEF Compatible, Safe

\* While a callback runs there is no other; a verification, and a rejection, are
\* the only reviews.
LEMMA OneOfEach ==
    ASSUME IInv, Safe, NEW h \in Requests, NEW g \in Requests \ {h}
    PROVE  /\ req[h].kind = "callback" => req[g].kind # "callback"
           /\ req[h].kind \in {"verify", "reject"} => req[g].kind \notin {"verify", "reject"}
<1> SUFFICES ASSUME req[g].kind \in Kinds, req[h].kind \in Kinds
             PROVE  /\ req[h].kind = "callback" => req[g].kind # "callback"
                    /\ req[h].kind \in {"verify", "reject"} =>
                          req[g].kind \notin {"verify", "reject"}
  BY DEF Kinds
<1>1. {req[g].kind, req[h].kind} \in SafeOverlaps
  BY Beside
<1> QED
  BY <1>1, SafePairs

LEMMA FreshOther ==
    ASSUME NEW g \in Requests, Fresh(g), req'[g] = req[g],
           req[g].kind = "callback" => gateway' = gateway,
           req[g].kind \in {"verify", "reject"} =>
              submission'[req[g].sub] = submission[req[g].sub],
           req[g].kind = "verify" =>
              /\ advance'.paid = advance.paid /\ advance'.required = advance.required
              /\ credited' = credited
    PROVE  Fresh(g)'
BY DEF Fresh

\* The verification in flight is the only one that may have something to book.
LEMMA UnbookedIs ==
    ASSUME IInv, Safe, NEW h \in Requests, req[h].kind = "verify"
    PROVE  /\ req[h].at = "capture" => Unbooked = {req[h].sub}
           /\ req[h].at # "capture" => Unbooked = {}
<1>1. \A g \in Requests : At(g, "verify", "capture") => g = h
  BY OneOfEach DEF At
<1>2. req[h].sub \in Submissions
  BY Known DEF Fresh
<1> QED
  BY <1>1, <1>2 DEF Unbooked, At

\* The rest of the invariant, when the gateway and the bookings are as before.
LEMMA SubmissionsKeep ==
    ASSUME IInv, NEW h \in Requests, Turn(h), Fresh(h)', SameBooking(h),
           UNCHANGED <<order, payment, gateway, income, files, advance, credited>>,
           submission' \in [Submissions -> {"NONE", "SUBMITTED", "VERIFIED", "REJECTED"}],
           Verified' = Verified,
           \A g \in Requests \ {h} : Fresh(g)'
    PROVE  IInv'
<1>1. /\ req' \in Flights /\ Compatible'
      /\ \A g \in Requests \ {h} : req'[g] = req[g]
  BY DEF Turn
<1>2. TypeOK'
  BY <1>1 DEF IInv, TypeOK, Flights
<1>3. (Taking' <=> Taking) /\ Unbooked' = Unbooked
  <2>1. \A g \in Requests : SameBooking(g)
    BY <1>1 DEF SameBooking, At
  <2> QED
    BY <2>1, BookingsKept
<1>4. IncomeBooked' /\ TakenIsKept' /\ FilesPaidFor' /\ AdvanceExact' /\ credited' \subseteq Verified'
  BY <1>3 DEF IInv, IncomeBooked, TakenIsKept, FilesPaidFor, AdvanceExact, Sent
<1>5. \A g \in Requests : Fresh(g)'
  OBVIOUS
<1> QED
  BY <1>1, <1>2, <1>4, <1>5 DEF IInv

LEMMA SubmitKeeps ==
    ASSUME IInv, NEW s \in Submissions, submit(s)
    PROVE  IInv'
<1>1. /\ submission[s] = "NONE" /\ submission' = [submission EXCEPT ![s] = "SUBMITTED"]
      /\ UNCHANGED <<order, payment, gateway, income, files, advance, credited, req>>
  BY DEF submit
<1>2. submission \in [Submissions -> {"NONE", "SUBMITTED", "VERIFIED", "REJECTED"}]
  BY Known DEF TypeOK
<1>3. submission' \in [Submissions -> {"NONE", "SUBMITTED", "VERIFIED", "REJECTED"}]
  BY <1>1, <1>2
<1>4. Verified' = Verified
  BY <1>1, <1>2 DEF Verified
<1>5. ASSUME NEW g \in Requests PROVE Fresh(g)'
  <2>1. Fresh(g)
    BY Known
  <2>2. req[g].kind \in {"verify", "reject"} => submission'[req[g].sub] = submission[req[g].sub]
    BY <1>1, <1>2, <2>1 DEF Fresh
  <2> QED
    BY <1>1, <2>1, <2>2, FreshOther
<1>6. TypeOK'
  BY <1>1, <1>3 DEF IInv, TypeOK
<1>7. (Taking' <=> Taking) /\ Unbooked' = Unbooked /\ Compatible'
  BY <1>1, Known DEF Taking, Unbooked, At, Compatible, Busy
<1>8. IncomeBooked' /\ TakenIsKept' /\ FilesPaidFor' /\ AdvanceExact' /\ credited' \subseteq Verified'
  BY <1>1, <1>4, <1>7 DEF IInv, IncomeBooked, TakenIsKept, FilesPaidFor, AdvanceExact, Sent
<1> QED
  BY <1>5, <1>6, <1>7, <1>8 DEF IInv

LEMMA RejectKeeps ==
    ASSUME IInv, Safe, NEW h \in Requests, reject(h)
    PROVE  IInv'
<1>1. /\ req[h].kind = "reject" /\ End(h)
      /\ submission' = [submission EXCEPT ![req[h].sub] = "REJECTED"]
      /\ UNCHANGED <<order, payment, gateway, income, files, advance, credited>>
  BY DEF reject, At
<1>2. Turn(h) /\ Fresh(h)' /\ req'[h].kind = "none"
  BY <1>1, Flying, Known, EndIs DEF Kinds
<1>3. PICK s \in Submissions : s = req[h].sub /\ submission[s] = "SUBMITTED"
  BY <1>1, Known DEF Fresh
<1>4. submission \in [Submissions -> {"NONE", "SUBMITTED", "VERIFIED", "REJECTED"}]
  BY Known DEF TypeOK
<1>5. /\ submission' \in [Submissions -> {"NONE", "SUBMITTED", "VERIFIED", "REJECTED"}]
      /\ Verified' = Verified
  BY <1>1, <1>3, <1>4 DEF Verified
<1>6. ASSUME NEW g \in Requests \ {h} PROVE Fresh(g)'
  <2>1. req[g].kind \notin {"verify", "reject"}
    BY <1>1, OneOfEach
  <2>2. Fresh(g) /\ req'[g] = req[g]
    BY <1>2, Known DEF Turn
  <2> QED
    BY <1>1, <2>1, <2>2, FreshOther
<1>7. SameBooking(h)
  BY <1>1, <1>2 DEF SameBooking, At
<1> QED
  BY <1>1, <1>2, <1>5, <1>6, <1>7, SubmissionsKeep

-----------------------------------------------------------------------------
(***************************************************************************)
(* Money is taken, verified and booked.                                    *)
(***************************************************************************)
\* The money a callback takes is in flight until it is booked.
LEMMA ExecuteKeeps ==
    ASSUME IInv, Safe, NEW h \in Requests, executePayment(h)
    PROVE  IInv'
<1>1. /\ req[h].kind = "callback" /\ req[h].at = "execute"
      /\ UNCHANGED <<order, payment, submission, income, files, advance, credited>>
      /\ \/ gateway = "open" /\ gateway' = "taken" /\ GoTo(h, "capture")
         \/ gateway' = gateway /\ GoTo(h, "fail")
  BY DEF executePayment, At
<1>2. Busy(h) /\ gateway # "taken"
  BY <1>1, Flying DEF Fresh, Kinds
<1>3. CASE gateway' = gateway /\ GoTo(h, "fail")
  <2>1. Turn(h) /\ req'[h].at = "fail" /\ req'[h].kind = "callback"
    BY <1>1, <1>2, <1>3, Known, GoToIs DEF Places
  <2>2. Fresh(h)'
    BY <1>2, <1>3, <2>1 DEF Fresh
  <2>3. SameBooking(h)
    BY <1>1, <2>1 DEF SameBooking, At
  <2>4. UNCHANGED <<order, moneyVars, advance, credited>>
    BY <1>1, <1>3 DEF moneyVars
  <2> QED
    BY <2>1, <2>2, <2>3, <2>4, OnlyRequests
<1>4. CASE gateway = "open" /\ gateway' = "taken" /\ GoTo(h, "capture")
  <2>1. Turn(h) /\ req'[h].at = "capture" /\ req'[h].kind = "callback"
    BY <1>1, <1>2, <1>4, Known, GoToIs DEF Places
  <2>2. \A g \in Requests \ {h} : req'[g] = req[g]
    BY <2>1 DEF Turn
  <2>3. ASSUME NEW g \in Requests PROVE Fresh(g)'
    <3>1. CASE g = h
      BY <1>4, <2>1, <3>1 DEF Fresh
    <3>2. CASE g # h
      <4>1. req[g].kind # "callback"
        BY <1>1, <3>2, OneOfEach
      <4>2. Fresh(g) /\ req'[g] = req[g]
        BY <2>2, <3>2, Known
      <4> QED
        BY <1>1, <4>1, <4>2, FreshOther
    <3> QED
      BY <3>1, <3>2
  <2>4. TypeOK' /\ Compatible'
    BY <1>1, <1>4, <2>1 DEF IInv, TypeOK, Turn, Flights
  <2>5. Taking'
    BY <2>1 DEF Taking, At
  <2>6. Unbooked' = Unbooked /\ Verified' = Verified
    BY <1>1, <2>1, <2>2 DEF Unbooked, At, Verified
  <2>7. IncomeBooked'
    BY <1>1, <1>4, <2>5, <2>6 DEF IInv, IncomeBooked, Sent
  <2>8. TakenIsKept' /\ FilesPaidFor'
    BY <1>4, <2>5 DEF TakenIsKept, FilesPaidFor
  <2>9. AdvanceExact' /\ credited' \subseteq Verified'
    BY <1>1, <2>6 DEF IInv, AdvanceExact, Sent
  <2> QED
    BY <2>3, <2>4, <2>7, <2>8, <2>9 DEF IInv
<1> QED
  BY <1>1, <1>3, <1>4

LEMMA CaptureKeeps ==
    ASSUME IInv, Safe, NEW h \in Requests, capture(h)
    PROVE  IInv'
<1>1. /\ req[h].kind = "callback" /\ req[h].at = "capture" /\ GoTo(h, "forward")
      /\ payment' = [status |-> "CAPTURED", ref |-> "trxID"] /\ income' = income + Total
      /\ UNCHANGED <<order, gateway, submission, files, advance, credited>>
  BY DEF capture, At
<1>2. Busy(h) /\ gateway = "taken"
  BY <1>1, Flying DEF Fresh, Kinds
<1>3. Turn(h) /\ req'[h].at = "forward" /\ req'[h].kind = "callback"
  BY <1>1, <1>2, Known, GoToIs DEF Places
<1>4. \A g \in Requests \ {h} : req'[g] = req[g]
  BY <1>3 DEF Turn
<1>5. \A g \in Requests : Fresh(g)'
  <2>1. Fresh(h)'
    BY <1>1, <1>2, <1>3 DEF Fresh
  <2> QED
    BY <1>1, <1>4, <2>1, Known, FreshKept
<1>6. ~Taking' /\ Taking
  BY <1>1, <1>3, <1>4, OneOfEach DEF Taking, At
<1>7. Unbooked' = Unbooked /\ Verified' = Verified
  BY <1>1, <1>3, <1>4 DEF Unbooked, At, Verified
<1>8. income \in Nat /\ Total \in Nat /\ income <= 0 + Sent(Verified \ Unbooked)
  BY <1>6, Known, ConstantsAssumption DEF IInv, IncomeBooked, TypeOK
<1>9. Sent(Verified \ Unbooked) \in Nat
  BY SentIs DEF Verified
<1>10. income' \in Nat /\ income' <= Total + Sent(Verified \ Unbooked)
  BY <1>1, <1>8, <1>9
<1>11. IncomeBooked'
  BY <1>1, <1>2, <1>6, <1>7, <1>10 DEF IncomeBooked, Sent
<1>12. TypeOK' /\ Compatible'
  BY <1>1, <1>3, <1>10 DEF IInv, TypeOK, Turn, Flights, PaymentStatuses
<1>13. TakenIsKept' /\ FilesPaidFor'
  BY <1>1, <1>2 DEF TakenIsKept, FilesPaidFor
<1>14. AdvanceExact' /\ credited' \subseteq Verified'
  BY <1>1, <1>7 DEF IInv, AdvanceExact, Sent
<1> QED
  BY <1>5, <1>11, <1>12, <1>13, <1>14 DEF IInv

LEMMA VerifyKeeps ==
    ASSUME IInv, Safe, NEW h \in Requests, verify(h)
    PROVE  IInv'
<1>1. /\ req[h].kind = "verify" /\ req[h].at = "review"
      /\ submission' = [submission EXCEPT ![req[h].sub] = "VERIFIED"]
      /\ req' = [req EXCEPT ![h].at = "capture", ![h].paid = payment.status]
      /\ UNCHANGED <<order, payment, gateway, income, files, advance, credited>>
  BY DEF verify, At
<1>2. Busy(h) /\ req[h] \in Request
  BY <1>1, Flying DEF Kinds
<1>3. PICK s \in Submissions : s = req[h].sub /\ submission[s] = "SUBMITTED"
  BY <1>1, Known DEF Fresh
<1>4. submission \in [Submissions -> {"NONE", "SUBMITTED", "VERIFIED", "REJECTED"}]
  BY Known DEF TypeOK
<1>5. PICK paid \in PaymentStatuses : paid = payment.status
  BY Known DEF QuietTypes
<1> DEFINE q == [req[h] EXCEPT !.at = "capture", !.paid = paid]
<1>6. req' = [req EXCEPT ![h] = q]
  BY <1>1, <1>5, Known DEF Flights
<1>7. q \in Request /\ q.kind = "verify" /\ q.at = "capture" /\ q.sub = s
  BY <1>1, <1>2, <1>3 DEF Request
<1> HIDE DEF q
<1>8. Turn(h) /\ req'[h] = q
  BY <1>1, <1>2, <1>6, <1>7, Known, Going
<1>9. \A g \in Requests \ {h} : req'[g] = req[g]
  BY <1>8 DEF Turn
<1>10. /\ submission' \in [Submissions -> {"NONE", "SUBMITTED", "VERIFIED", "REJECTED"}]
       /\ submission'[s] = "VERIFIED"
       /\ Verified' = Verified \cup {s} /\ s \notin Verified
  BY <1>1, <1>3, <1>4 DEF Verified
<1>11. \A g \in Requests : At(g, "verify", "capture")' <=> g = h
  <2>1. \A g \in Requests \ {h} : req[g].kind # "verify"
    BY <1>1, OneOfEach
  <2> QED
    BY <1>7, <1>8, <1>9, <2>1 DEF At
<1>12. Unbooked = {} /\ Unbooked' = {s}
  <2>1. Unbooked = {}
    BY <1>1, UnbookedIs
  <2>2. Unbooked' = {s}
    BY <1>7, <1>8, <1>11 DEF Unbooked
  <2> QED
    BY <2>1, <2>2
<1>13. (Verified \ Unbooked)' = Verified \ Unbooked
  BY <1>10, <1>12
<1>14. Taking' <=> Taking
  BY <1>1, <1>7, <1>8, <1>9 DEF Taking, At
<1>15. IncomeBooked' /\ TakenIsKept'
  <2>1. IncomeBooked'
    BY <1>1, <1>13, <1>14 DEF IInv, IncomeBooked, Sent
  <2> QED
    BY <1>1, <1>14, <2>1 DEF IInv, TakenIsKept
<1>16. FilesPaidFor'
  <2>1. Sent(Verified) <= Sent(Verified') /\ Sent(Verified) \in Nat /\ Sent(Verified') \in Nat
    BY <1>10, SentGrows DEF Verified
  <2>2. Total \in Nat
    BY ConstantsAssumption
  <2>3. Sent(Verified) >= Total => Sent(Verified') >= Total
    BY <2>1, <2>2
  <2> QED
    BY <1>1, <2>3 DEF IInv, FilesPaidFor, Sent
<1>17. AdvanceExact' /\ credited' \subseteq Verified' /\ s \notin credited
  BY <1>1, <1>10 DEF IInv, AdvanceExact, Sent
<1>18. TypeOK' /\ Compatible'
  BY <1>1, <1>8, <1>10 DEF IInv, TypeOK, Turn, Flights
<1>19. ASSUME NEW g \in Requests PROVE Fresh(g)'
  <2>1. CASE g = h
    <3>1. /\ req'[h].kind = "verify" /\ req'[h].at = "capture" /\ req'[h].sub = s
          /\ s \notin credited'
      BY <1>1, <1>7, <1>8, <1>17
    <3> QED
      BY <1>10, <2>1, <3>1 DEF Fresh
  <2>2. CASE g # h
    <3>1. req[g].kind \notin {"verify", "reject"}
      BY <1>1, <2>2, OneOfEach
    <3>2. Fresh(g) /\ req'[g] = req[g]
      BY <1>9, <2>2, Known
    <3> QED
      BY <1>1, <3>1, <3>2, FreshOther
  <2> QED
    BY <2>1, <2>2
<1> QED
  BY <1>15, <1>16, <1>17, <1>18, <1>19 DEF IInv

\* A verification books its money once.
LEMMA VerifyCaptureKeeps ==
    ASSUME IInv, Safe, NEW h \in Requests, verifyCapture(h)
    PROVE  IInv'
<1>1. /\ req[h].kind = "verify" /\ req[h].at = "capture" /\ GoTo(h, "advance")
      /\ UNCHANGED <<order, gateway, submission, files, advance, credited>>
      /\ \/ payment' = payment /\ income' = income
         \/ /\ payment' = [status |-> "CAPTURED", ref |-> "trxID"]
            /\ income' = income + Amount[req[h].sub]
  BY DEF verifyCapture, At
<1>2. Busy(h) /\ Fresh(h)
  BY <1>1, Flying DEF Kinds
<1>3. PICK s \in Submissions : s = req[h].sub /\ submission[s] = "VERIFIED" /\ s \notin credited
  BY <1>1, <1>2 DEF Fresh
<1>4. /\ Turn(h) /\ req'[h].at = "advance" /\ req'[h].kind = "verify" /\ req'[h].sub = s
  BY <1>1, <1>2, <1>3, Known, GoToIs DEF Places
<1>5. \A g \in Requests \ {h} : req'[g] = req[g]
  BY <1>4 DEF Turn
<1>6. \A g \in Requests : Fresh(g)'
  <2>1. Fresh(h)'
    BY <1>1, <1>3, <1>4 DEF Fresh
  <2> QED
    BY <1>1, <1>5, <2>1, Known, FreshKept
<1>7. Taking' <=> Taking
  BY <1>1, <1>4, <1>5 DEF Taking, At
<1>8. Unbooked = {s} /\ Unbooked' = {} /\ Verified' = Verified /\ s \in Verified
  <2>1. Unbooked = {s}
    BY <1>1, <1>3, UnbookedIs
  <2>2. \A g \in Requests : ~At(g, "verify", "capture")'
    BY <1>1, <1>4, <1>5, OneOfEach DEF At
  <2>3. Unbooked' = {}
    BY <2>2 DEF Unbooked
  <2> QED
    BY <1>1, <1>3, <2>1, <2>3 DEF Verified
<1> DEFINE rest == Verified \ {s}
<1>9. /\ Sent(rest) \in Nat /\ Amount[s] \in Nat
      /\ Sent(Verified) = Sent(rest) + Amount[s]
  <2>1. rest \in SUBSET Submissions /\ s \in Submissions \ rest /\ Verified = rest \cup {s}
    BY <1>8 DEF Verified
  <2> QED
    BY <2>1, SentIs
<1>10. PICK bound \in Nat : bound = IF gateway = "open" \/ Taking THEN 0 ELSE Total
  BY ConstantsAssumption
<1>11. income \in Nat /\ income <= bound + Sent(rest)
  BY <1>8, <1>10, Known DEF IInv, IncomeBooked, TypeOK
<1>12. income' = income \/ income' = income + Amount[s]
  BY <1>1, <1>3
<1> HIDE DEF rest
<1>13. income' \in Nat /\ income' <= bound + Sent(Verified)
  BY <1>9, <1>11, <1>12
<1>14. IncomeBooked'
  <2>1. (Verified \ Unbooked)' = Verified
    BY <1>8
  <2> QED
    BY <1>1, <1>7, <1>10, <1>13, <2>1 DEF IncomeBooked, Sent
<1>15. TypeOK' /\ Compatible'
  BY <1>1, <1>4, <1>13 DEF IInv, TypeOK, Turn, Flights, PaymentStatuses
<1>16. TakenIsKept' /\ FilesPaidFor'
  <2>1. TakenIsKept'
    BY <1>1, <1>7 DEF IInv, TakenIsKept
  <2> QED
    BY <1>1, <1>8, <2>1 DEF IInv, FilesPaidFor, Sent
<1>17. AdvanceExact' /\ credited' \subseteq Verified'
  BY <1>1, <1>8 DEF IInv, AdvanceExact, Sent
<1> QED
  BY <1>6, <1>14, <1>15, <1>16, <1>17 DEF IInv

-----------------------------------------------------------------------------
(***************************************************************************)
(* The advance.                                                            *)
(***************************************************************************)
\* The rest of the invariant, when a step of request h writes on the advance.
LEMMA AdvanceKeeps ==
    ASSUME IInv, NEW h \in Requests, Turn(h), Fresh(h)', SameBooking(h),
           UNCHANGED <<order, payment, gateway, submission, income, files>>,
           advance' \in [status : AdvanceStatuses, required : Nat, paid : Nat],
           AdvanceExact', credited' \subseteq Verified,
           \A g \in Requests \ {h} :
              req[g].kind = "verify" =>
                 /\ advance'.paid = advance.paid /\ advance'.required = advance.required
                 /\ credited' = credited
    PROVE  IInv'
<1>1. /\ req' \in Flights /\ Compatible'
      /\ \A g \in Requests \ {h} : req'[g] = req[g]
  BY DEF Turn
<1>2. Verified' = Verified
  BY VerifiedKept
<1>3. TypeOK'
  <2>1. credited' \in SUBSET Submissions
    BY DEF Verified
  <2> QED
    BY <1>1, <2>1 DEF IInv, TypeOK, Flights
<1>4. (Taking' <=> Taking) /\ Unbooked' = Unbooked
  <2>1. \A g \in Requests : SameBooking(g)
    BY <1>1 DEF SameBooking, At
  <2> QED
    BY <2>1, BookingsKept
<1>5. IncomeBooked' /\ TakenIsKept' /\ FilesPaidFor' /\ credited' \subseteq Verified'
  BY <1>2, <1>4 DEF IInv, IncomeBooked, TakenIsKept, FilesPaidFor, Sent
<1>6. ASSUME NEW g \in Requests \ {h} PROVE Fresh(g)'
  BY <1>1, Known, FreshOther
<1> QED
  BY <1>1, <1>3, <1>5, <1>6 DEF IInv

LEMMA RecordKeeps ==
    ASSUME IInv, Safe, NEW h \in Requests, record(h)
    PROVE  IInv'
<1> DEFINE paid == req[h].got + Amount[req[h].sub]
           status == AdvanceStatus(paid, req[h].due)
<1>1. /\ req[h].kind = "verify" /\ req[h].at = "record"
      /\ advance' = [advance EXCEPT !.paid = paid, !.status = status]
      /\ credited' = credited \cup {req[h].sub}
      /\ UNCHANGED <<order, moneyVars>>
  BY DEF record, At
<1>2. Busy(h) /\ Fresh(h)
  BY <1>1, Flying DEF Kinds
<1>3. PICK s \in Submissions : s = req[h].sub /\ submission[s] = "VERIFIED" /\ s \notin credited
  BY <1>1, <1>2 DEF Fresh
<1>4. req[h].got = advance.paid /\ req[h].due = advance.required
  BY <1>1, <1>2 DEF Fresh
<1>5. PICK at \in {"release", "forward"} : GoTo(h, at)
  BY DEF record
<1>6. /\ Turn(h) /\ req'[h].at = at /\ req'[h].kind = "verify" /\ req'[h].sub = s
  BY <1>1, <1>2, <1>3, <1>5, Known, GoToIs DEF Places
<1>7. /\ advance.paid = Sent(credited) /\ credited \in SUBSET Submissions
      /\ advance \in [status : AdvanceStatuses, required : Nat, paid : Nat]
  BY Known DEF IInv, TypeOK, AdvanceExact
<1>8. Sent(credited \cup {s}) = Sent(credited) + Amount[s] /\ Sent(credited) \in Nat /\ Amount[s] \in Nat
  BY <1>3, <1>7, SentIs
<1>9. paid = Sent(credited') /\ paid \in Nat
  BY <1>1, <1>3, <1>4, <1>7, <1>8
<1>10. status = AdvanceStatus(paid, advance.required) /\ status \in AdvanceStatuses
  BY <1>4 DEF AdvanceStatus, AdvanceStatuses
<1> HIDE DEF paid, status
<1>11. /\ advance' \in [status : AdvanceStatuses, required : Nat, paid : Nat]
       /\ advance'.paid = paid /\ advance'.status = status /\ advance'.required = advance.required
  BY <1>1, <1>7, <1>9, <1>10
<1>12. AdvanceExact'
  BY <1>9, <1>10, <1>11 DEF AdvanceExact, Sent
<1>13. UNCHANGED <<order, payment, gateway, submission, income, files>>
  BY <1>1 DEF moneyVars
<1>14. Fresh(h)'
  BY <1>3, <1>6, <1>13 DEF Fresh
<1>15. SameBooking(h)
  BY <1>1, <1>6 DEF SameBooking, At
<1>16. \A g \in Requests \ {h} : req[g].kind # "verify"
  BY <1>1, OneOfEach
<1>17. credited' \subseteq Verified
  BY <1>1, <1>3 DEF IInv, Verified
<1> QED
  BY <1>6, <1>11, <1>12, <1>13, <1>14, <1>15, <1>16, <1>17, AdvanceKeeps

LEMMA RequireKeeps ==
    ASSUME IInv, Safe, NEW h \in Requests, NEW amount \in Advances, require(h, amount)
    PROVE  IInv'
<1>1. /\ Start(h, "require", "hold") /\ credited' = {}
      /\ advance' = [status |-> "PENDING", required |-> amount, paid |-> 0]
      /\ UNCHANGED <<order, payment, gateway, submission, income, files>>
  BY DEF require, moneyVars
<1>2. /\ Turn(h) /\ ~Busy(h) /\ MayStart(h, "require")
      /\ req'[h].kind = "require" /\ req'[h].at = "hold"
  BY <1>1, Known, StartIs DEF Kinds, Places
<1>3. Fresh(h)'
  BY <1>2 DEF Fresh
<1>4. SameBooking(h)
  BY <1>2 DEF SameBooking, At, Busy, Idle
<1>5. amount \in Nat /\ amount > 0
  BY ConstantsAssumption
<1>6. /\ advance' \in [status : AdvanceStatuses, required : Nat, paid : Nat]
      /\ advance'.paid = 0 /\ advance'.required = amount /\ advance'.status = "PENDING"
  BY <1>1, <1>5 DEF AdvanceStatuses
<1>7. AdvanceExact'
  <2>1. Sent({}) = 0
    BY SentIs
  <2>2. AdvanceStatus(0, amount) = "PENDING"
    BY <1>5 DEF AdvanceStatus
  <2> QED
    BY <1>1, <1>6, <2>1, <2>2 DEF AdvanceExact, Sent
<1>8. ASSUME NEW g \in Requests, req[g].kind = "verify" PROVE FALSE
  <2>1. Busy(g)
    BY <1>8, Flying DEF Kinds
  <2>2. {"require", "verify"} \in SafeOverlaps
    BY <1>2, <1>8, <2>1 DEF MayStart, Safe, Busy
  <2> QED
    BY <2>2, SafePairs
<1> QED
  BY <1>1, <1>2, <1>3, <1>4, <1>6, <1>7, <1>8, AdvanceKeeps

LEMMA WaiveKeeps ==
    ASSUME IInv, NEW h \in Requests, waive(h)
    PROVE  IInv'
<1>1. /\ Start(h, "waive", "release") /\ credited' = credited
      /\ advance' = [advance EXCEPT !.status = "WAIVED"]
      /\ UNCHANGED <<order, payment, gateway, submission, income, files>>
  BY DEF waive, moneyVars
<1>2. /\ Turn(h) /\ ~Busy(h)
      /\ req'[h].kind = "waive" /\ req'[h].at = "release"
  BY <1>1, Known, StartIs DEF Kinds, Places
<1>3. Fresh(h)'
  BY <1>2 DEF Fresh
<1>4. SameBooking(h)
  BY <1>2 DEF SameBooking, At, Busy, Idle
<1>5. /\ advance' \in [status : AdvanceStatuses, required : Nat, paid : Nat]
      /\ advance'.paid = advance.paid /\ advance'.required = advance.required
      /\ advance'.status = "WAIVED"
  BY <1>1, Known DEF TypeOK, AdvanceStatuses
<1>6. AdvanceExact' /\ credited' \subseteq Verified
  BY <1>1, <1>5 DEF IInv, AdvanceExact, Sent
<1> QED
  BY <1>1, <1>2, <1>3, <1>4, <1>5, <1>6, AdvanceKeeps

\* Leaving out the submission that is not yet booked leaves less.
LEMMA LeftOut ==
    ASSUME NEW s \in Submissions
    PROVE  /\ Sent(Verified \ {s}) <= Sent(Verified)
           /\ Sent(Verified \ {s}) \in Nat /\ Sent(Verified) \in Nat
<1>1. Verified \ {s} \in SUBSET Submissions
  BY DEF Verified
<1>2. CASE s \in Verified
  <2>1. (Verified \ {s}) \cup {s} = Verified
    BY <1>2
  <2>2. /\ Sent(Verified \ {s}) <= Sent((Verified \ {s}) \cup {s})
        /\ Sent((Verified \ {s}) \cup {s}) \in Nat /\ Sent(Verified \ {s}) \in Nat
    BY <1>1, SentGrows
  <2> QED
    BY <2>1, <2>2
<1>3. CASE s \notin Verified
  <2>1. Verified \ {s} = Verified
    BY <1>3
  <2>2. Sent(Verified \ {s}) \in Nat
    BY <1>1, SentIs
  <2>3. Sent(Verified \ {s}) = Sent(Verified)
    BY <2>1
  <2> QED
    BY <2>2, <2>3
<1> QED
  BY <1>2, <1>3

-----------------------------------------------------------------------------
(***************************************************************************)
(* A request that stops on its way leaves what it has written.             *)
(***************************************************************************)
LEMMA StopKeeps ==
    ASSUME IInv, Safe, NEW h \in Requests, stop(h)
    PROVE  IInv'
<1>1. /\ Busy(h) /\ End(h)
      /\ UNCHANGED <<order, payment, submission, income, files, advance, credited>>
      /\ gateway' = IF At(h, "callback", "capture") THEN "unanswered" ELSE gateway
  BY DEF stop, Busy
<1>2. Turn(h) /\ Fresh(h)' /\ req'[h].kind = "none"
  BY <1>1, Known, EndIs
<1>3. /\ req' \in Flights /\ Compatible'
      /\ \A g \in Requests \ {h} : req'[g] = req[g]
  BY <1>2 DEF Turn
<1>4. Verified' = Verified
  BY <1>1, VerifiedKept
<1>5. AdvanceExact' /\ credited' \subseteq Verified'
  BY <1>1, <1>4 DEF IInv, AdvanceExact, Sent
<1>6. CASE At(h, "callback", "capture")
  <2>1. req[h].kind = "callback" /\ Taking /\ gateway' = "unanswered"
    BY <1>1, <1>6 DEF At, Taking
  <2>2. ASSUME NEW g \in Requests PROVE Fresh(g)'
    <3>1. CASE g = h
      BY <1>2, <3>1
    <3>2. CASE g # h
      <4>1. req[g].kind # "callback"
        BY <2>1, <3>2, OneOfEach
      <4>2. Fresh(g) /\ req'[g] = req[g]
        BY <1>3, <3>2, Known
      <4> QED
        BY <1>1, <4>1, <4>2, FreshOther
    <3> QED
      BY <3>1, <3>2
  <2>3. ~Taking'
    BY <1>2, <1>3, <2>1, OneOfEach DEF Taking, At
  <2>4. Unbooked' = Unbooked
    BY <1>2, <1>3, <2>1 DEF Unbooked, At
  <2>5. income \in Nat /\ Total \in Nat /\ income <= 0 + Sent(Verified \ Unbooked)
    BY <2>1, Known, ConstantsAssumption DEF IInv, IncomeBooked, TypeOK
  <2>6. Sent(Verified \ Unbooked) \in Nat
    BY SentIs DEF Verified
  <2>7. income <= Total + Sent(Verified \ Unbooked)
    BY <2>5, <2>6
  <2>8. IncomeBooked'
    BY <1>1, <1>4, <2>1, <2>3, <2>4, <2>7 DEF IncomeBooked, Sent
  <2>9. TakenIsKept' /\ FilesPaidFor'
    BY <2>1 DEF TakenIsKept, FilesPaidFor
  <2>10. TypeOK'
    BY <1>1, <1>3, <2>1 DEF IInv, TypeOK, Flights
  <2> QED
    BY <1>3, <1>5, <2>2, <2>8, <2>9, <2>10 DEF IInv
<1>7. CASE At(h, "verify", "capture")
  <2>1. req[h].kind = "verify" /\ req[h].at = "capture" /\ gateway' = gateway
    BY <1>1, <1>7 DEF At
  <2>2. PICK s \in Submissions : s = req[h].sub
    BY <2>1, Flying DEF Fresh, Kinds
  <2>3. \A g \in Requests : Fresh(g)'
    BY <1>1, <1>2, <1>3, <2>1, Known, FreshKept
  <2>4. Taking' <=> Taking
    BY <1>2, <1>3, <2>1 DEF Taking, At
  <2>5. Unbooked = {s} /\ Unbooked' = {}
    <3>1. Unbooked = {s}
      BY <2>1, <2>2, UnbookedIs
    <3>2. \A g \in Requests : ~At(g, "verify", "capture")'
      BY <1>2, <1>3, <2>1, OneOfEach DEF At
    <3>3. Unbooked' = {}
      BY <3>2 DEF Unbooked
    <3> QED
      BY <3>1, <3>3
  <2>6. /\ Sent(Verified \ Unbooked) <= Sent(Verified)
        /\ Sent(Verified \ Unbooked) \in Nat /\ Sent(Verified) \in Nat
    BY <2>5, LeftOut
  <2>7. PICK bound \in Nat : bound = IF gateway = "open" \/ Taking THEN 0 ELSE Total
    BY ConstantsAssumption
  <2>8. income \in Nat /\ income <= bound + Sent(Verified \ Unbooked)
    BY <2>7, Known DEF IInv, IncomeBooked, TypeOK
  <2>9. income <= bound + Sent(Verified)
    BY <2>6, <2>8
  <2>10. IncomeBooked'
    <3>1. (Verified \ Unbooked)' = Verified
      BY <1>4, <2>5
    <3> QED
      BY <1>1, <2>1, <2>4, <2>7, <2>9, <3>1 DEF IncomeBooked, Sent
  <2>11. TakenIsKept'
    BY <1>1, <2>1, <2>4 DEF IInv, TakenIsKept
  <2>12. FilesPaidFor'
    BY <1>1, <1>4, <2>1 DEF IInv, FilesPaidFor, Sent
  <2>13. TypeOK'
    BY <1>1, <1>3, <2>1 DEF IInv, TypeOK, Flights
  <2> QED
    BY <1>3, <1>5, <2>3, <2>10, <2>11, <2>12, <2>13 DEF IInv
<1>8. CASE ~At(h, "callback", "capture") /\ ~At(h, "verify", "capture")
  <2>1. UNCHANGED <<order, moneyVars, advance, credited>>
    BY <1>1, <1>8 DEF moneyVars
  <2>2. SameBooking(h)
    BY <1>2, <1>8 DEF SameBooking, At
  <2> QED
    BY <1>2, <2>1, <2>2, OnlyRequests
<1> QED
  BY <1>6, <1>7, <1>8

-----------------------------------------------------------------------------
(***************************************************************************)
(* The invariant holds in every state.                                     *)
(***************************************************************************)
LEMMA InitIInv ==
    ASSUME Init
    PROVE  IInv
<1>1. TypeOK
  <2>1. \A h \in Requests : req[h] = Idle
    BY DEF Init
  <2> QED
    BY <2>1 DEF Init, TypeOK, OrderStatuses, PaymentStatuses, AdvanceStatuses
<1>2. \A h \in Requests : req[h].kind = "none" /\ ~Busy(h)
  BY DEF Init, Idle, Busy
<1>3. Compatible /\ \A h \in Requests : Fresh(h)
  BY <1>2 DEF Compatible, Fresh
<1>4. ~Taking /\ Unbooked = {} /\ Verified = {}
  BY <1>2 DEF Taking, Unbooked, At, Verified, Init
<1>5. Sent({}) = 0
  BY SentIs
<1>6. IncomeBooked
  <2>1. Verified \ Unbooked = {}
    BY <1>4
  <2> QED
    BY <1>4, <1>5, <2>1 DEF IncomeBooked, Init
<1>7. TakenIsKept /\ FilesPaidFor
  BY DEF TakenIsKept, FilesPaidFor, Init
<1>8. AdvanceExact /\ credited \subseteq Verified
  BY <1>5 DEF AdvanceExact, Init
<1> QED
  BY <1>1, <1>3, <1>6, <1>7, <1>8 DEF IInv

LEMMA StepIInv ==
    ASSUME IInv, Safe, [Next]_vars
    PROVE  IInv'
<1>1. CASE Next
  <2>1. ASSUME NEW s \in Submissions, submit(s) PROVE IInv'
    BY <2>1, SubmitKeeps
  <2>2. ASSUME NEW h \in Requests, NEW success \in BOOLEAN, ReadForCallback(h, success)
        PROVE  IInv'
    BY <2>2, CallbackStarts
  <2>3. ASSUME NEW h \in Requests, executePayment(h) \/ markFailed(h) \/ capture(h)
                                   \/ forward(h) \/ unlockCaptured(h)
        PROVE  IInv'
    BY <2>3, ExecuteKeeps, FailKeeps, CaptureKeeps, ForwardKeeps, UnlockKeeps
  <2>4. ASSUME NEW h \in Requests, NEW k \in {"verify", "reject"}, NEW s \in Submissions,
               ReadForReview(h, k, s)
        PROVE  IInv'
    BY <2>4, ReviewStarts
  <2>5. ASSUME NEW h \in Requests, reject(h) \/ verify(h) \/ verifyCapture(h)
                                   \/ readAdvance(h) \/ record(h) \/ unlockVerified(h)
        PROVE  IInv'
    BY <2>5, RejectKeeps, VerifyKeeps, VerifyCaptureKeeps, ReadAdvanceKeeps, RecordKeeps,
       UnlockKeeps
  <2>6. ASSUME NEW h \in Requests, NEW amount \in Advances, require(h, amount) PROVE IInv'
    BY <2>6, RequireKeeps
  <2>7. ASSUME NEW h \in Requests, hold(h) \/ waive(h) \/ readRelease(h) \/ confirm(h)
        PROVE  IInv'
    BY <2>7, HoldKeeps, WaiveKeeps, ReleaseKeeps
  <2>8. ASSUME NEW h \in Requests, ReadForRestore(h) \/ restoreCart(h) PROVE IInv'
    BY <2>8, RestoreStarts, RestoreKeeps
  <2>9. ASSUME NEW h \in Requests, stop(h) PROVE IInv'
    BY <2>9, StopKeeps
  <2>10. CASE refund \/ \E status \in Requested : updateStatus(status)
    BY <2>10, StaffKeeps
  <2> QED
    BY <1>1, <2>1, <2>2, <2>3, <2>4, <2>5, <2>6, <2>7, <2>8, <2>9, <2>10 DEF Next
<1>2. CASE UNCHANGED vars
  <2>1. UNCHANGED <<order, payment, gateway, submission, advance, credited, income, files, req>>
    BY <1>2 DEF vars
  <2>2. QuietTypes' /\ (Kept => Kept') /\ req' \in Flights /\ Compatible'
    BY <2>1, Known DEF QuietTypes, Kept, Compatible, Busy
  <2>3. \A g \in Requests : SameBooking(g) /\ req'[g] = req[g]
    BY <2>1 DEF SameBooking, At
  <2> QED
    BY <2>1, <2>2, <2>3, QuietKeeps
<1> QED
  BY <1>1, <1>2

LEMMA Always ==
    ASSUME Safe
    PROVE  Spec => []IInv
<1>1. Init => IInv
  BY InitIInv
<1>2. IInv /\ [Next]_vars => IInv'
  BY StepIInv
<1> QED
  BY <1>1, <1>2, PTL DEF Spec

-----------------------------------------------------------------------------
(***************************************************************************)
(* What follows.                                                           *)
(***************************************************************************)
\* Every row has its type, and every request in flight the copies it read.
THEOREM PaymentsTyped == ASSUME Overlaps \subseteq SafeOverlaps PROVE Spec => []TypeOK
<1>1. IInv => TypeOK
  BY DEF IInv
<1> QED
  BY <1>1, Always, PTL DEF Safe

\* The bookings of settle and verify never add up to more than bKash took and
\* staff verified: a verification that has not booked its money is left out of
\* the sum, and a callback that has not booked what it took out of the price.
THEOREM IncomeReceived == ASSUME Overlaps \subseteq SafeOverlaps PROVE Spec => []IncomeWasReceived
<1>1. ASSUME IInv, Safe PROVE IncomeWasReceived
  <2>1. /\ Sent(Verified \ Unbooked) <= Sent(Verified)
        /\ Sent(Verified \ Unbooked) \in Nat /\ Sent(Verified) \in Nat
    <3>1. CASE \E h \in Requests : At(h, "verify", "capture")
      <4>1. PICK h \in Requests : req[h].kind = "verify" /\ req[h].at = "capture"
        BY <3>1 DEF At
      <4>2. Unbooked = {req[h].sub} /\ req[h].sub \in Submissions
        BY <1>1, <4>1, UnbookedIs, Known DEF Fresh
      <4> QED
        BY <4>2, LeftOut
    <3>2. CASE ~\E h \in Requests : At(h, "verify", "capture")
      <4>1. Verified \ Unbooked = Verified
        BY <3>2 DEF Unbooked
      <4>2. Sent(Verified) \in Nat
        BY SentIs DEF Verified
      <4>3. Sent(Verified \ Unbooked) = Sent(Verified)
        BY <4>1
      <4> QED
        BY <4>2, <4>3
    <3> QED
      BY <3>1, <3>2
  <2>2. PICK booked \in Nat : booked = IF gateway = "open" \/ Taking THEN 0 ELSE Total
    BY ConstantsAssumption
  <2>3. PICK taken \in Nat : taken = IF gateway = "open" THEN 0 ELSE Total
    BY ConstantsAssumption
  <2>4. booked <= taken
    BY <2>2, <2>3, ConstantsAssumption
  <2>5. income \in Nat /\ income <= booked + Sent(Verified \ Unbooked)
    BY <1>1, <2>2, Known DEF IInv, IncomeBooked, TypeOK
  <2>6. income <= taken + Sent(Verified)
    BY <2>1, <2>4, <2>5
  <2> QED
    BY <2>3, <2>6 DEF IncomeWasReceived
<1> QED
  BY <1>1, Always, PTL DEF Safe

\* Once its callback is done, money that bKash took shows on the payment:
\* markFailed and the cancellations only touch a payment that is PENDING.
THEOREM TakenVisible == ASSUME Overlaps \subseteq SafeOverlaps PROVE Spec => []TakenIsVisible
<1>1. IInv => TakenIsVisible
  BY DEF IInv, TakenIsKept, TakenIsVisible, Taking, InFlight, At
<1> QED
  BY <1>1, Always, PTL DEF Safe

\* unlockForOrder is reached as a payment only behind the gateway's money or a
\* sum of verified submissions that covers the price, and neither goes back.
THEOREM FilesPaid == ASSUME Overlaps \subseteq SafeOverlaps PROVE Spec => []FilesPaidFor
<1>1. IInv => FilesPaidFor
  BY DEF IInv
<1> QED
  BY <1>1, Always, PTL DEF Safe

\* record adds to the copy it read, and the copy is still the row.
THEOREM AdvanceAdds == ASSUME Overlaps \subseteq SafeOverlaps PROVE Spec => []AdvanceExact
<1>1. IInv => AdvanceExact
  BY DEF IInv
<1> QED
  BY <1>1, Always, PTL DEF Safe

-----------------------------------------------------------------------------
(***************************************************************************)
(* Courier: the rows, the job in progress, and what they say of each other.*)
(***************************************************************************)
Statuses == ActiveOrderStatuses \cup ActiveStatuses
              \cup {"none", "COMPLETED", "RETURNED", "PARTIALLY_RETURNED", "CANCELED", "FAILED",
                    "DELIVERED", "PARTIALLY_DELIVERED"}
CourierPlaces == {"none", "book", "store", "process", "move", "resize", "open", "pay"}
Words == {"none", "in_transit"} \cup Ends
Job == [at : CourierPlaces, k : 0..MaxParcels, word : Words, seen : Statuses,
        cod : Unknown..CodTotal]
OrderRow == [status : ActiveOrderStatuses \cup
                        {"COMPLETED", "RETURNED", "PARTIALLY_RETURNED", "CANCELED"},
             pay : {"PENDING", "CAPTURED", "CANCELED"}]
ParcelRow == [status : ActiveStatuses \cup {"none", "FAILED", "DELIVERED",
                         "PARTIALLY_DELIVERED", "RETURNED", "CANCELED"},
              cod : 0..CodTotal, collected : Unknown..CodTotal,
              settled : Unknown..CodTotal, batch : BOOLEAN]
DueRow == [amount : 0..CodTotal, paid : Nat, open : BOOLEAN]

OneOpenDue == \A d, e \in OpenDues : d = e

CourierTyped ==
    /\ codOrder \in OrderRow
    /\ parcel \in [Parcels -> ParcelRow]
    /\ truth \in [Parcels -> {"none", "carried"} \cup Ends]
    /\ due \in [Dues -> DueRow]
    /\ cash \in Int /\ banked \in Nat
    /\ job \in Job
    /\ heard \in [Parcels -> Words]
    /\ stops \in Nat /\ cut \in BOOLEAN
    /\ OneOpenDue
    /\ job.at = "none" => job = NoJob
    /\ job.at # "none" => job.k \in Parcels
    /\ job.at \in {"book", "store"} => job.cod >= 0
    /\ job.at = "open" => job.cod > 0

Told(k) == parcel[k].collected # Unknown \/ parcel[k].settled # Unknown
Carried(k) == k \in Shipped /\ k \in Booked

\* Parcel k came back; and its return was taken in.
Ended(k) == truth[k] \in {"returned", "cancelled"}
Back(k) == Ended(k) /\ heard[k] = truth[k]

ParcelKnown(k) ==
    /\ parcel[k].status = "none" => parcel[k] = NoParcel
    /\ truth[k] = "none" => /\ heard[k] = "none" /\ ~parcel[k].batch /\ ~Told(k)
                            /\ parcel[k].status \in {"none", "FAILED"}
    /\ parcel[k].cod \in {0, CodTotal}
    /\ parcel[k].status = "DELIVERED" => truth[k] = "delivered"
    /\ parcel[k].status = "PARTIALLY_DELIVERED" => truth[k] = "partial"
    /\ heard[k] \in Ends => truth[k] = heard[k]
    /\ heard[k] # "none" => parcel[k].status # "none"
    /\ parcel[k].collected # Unknown =>
          truth[k] \in {"delivered", "partial"} /\ parcel[k].collected = Taken(k)
    /\ parcel[k].settled # Unknown =>
          truth[k] \in {"delivered", "partial"} /\ parcel[k].settled = Taken(k)
    /\ parcel[k].batch => truth[k] \in {"delivered", "partial"} /\ parcel[k].cod > 0

\* Parcels follow each other.
InTurn ==
    /\ \A k \in Booked : Newest(k) \/ Ended(k)
    /\ \A k \in Shipped \cup Booked, j \in Parcels : j < k => j \in Shipped \cup Booked

AmountKnown(k) == job.cod = Taken(k) /\ Told(k)
JobKnown ==
    LET k == job.k IN
    /\ job.at = "book" => /\ k \notin Shipped \cup Booked /\ \A j \in Booked : Ended(j) /\ j < k
                          /\ \A j \in Parcels : j < k => j \in Shipped \cup Booked
                          /\ job.cod \in {0, CodTotal} /\ job.word = "none"
    /\ job.at = "store" => /\ Newest(k) /\ k \notin Shipped
                           /\ job.cod \in {0, CodTotal} /\ job.word = "none"
    /\ job.at = "process" => /\ Carried(k) /\ Newest(k) /\ heard[k] = "none"
                             /\ job.cod = parcel[k].cod /\ job.word = "none"
    /\ job.at = "open" =>
          /\ Carried(k) /\ Newest(k)
          /\ \/ job.word = "none" /\ heard[k] = "none" /\ job.cod = parcel[k].cod
             \/ job.word \in {"none", "partial"} /\ truth[k] = "partial" /\ AmountKnown(k)
    /\ job.at = "move" =>
          /\ Carried(k) /\ job.word \in {"in_transit"} \cup Ends
          /\ job.word \in Ends => truth[k] = job.word
    /\ job.at = "resize" =>
          /\ Carried(k)
          /\ job.word \in {"none", "partial", "returned", "cancelled"}
          /\ truth[k] = IF job.word = "none" THEN "partial" ELSE job.word
    /\ job.at = "pay" => /\ Carried(k) /\ job.word \in {"delivered", "partial"}
                         /\ truth[k] = job.word
    /\ job.at \in {"move", "resize"} =>
          CASE job.word = "partial" -> AmountKnown(k)
                                       \/ (job.cod = Unknown /\ parcel[k].collected = Unknown)
            [] job.word = "none" -> AmountKnown(k)
            [] OTHER -> job.cod = 0

Batched == \E k \in Parcels : parcel[k].batch

DueKnown(d) ==
    /\ due[d].paid <= due[d].amount
    /\ due[d].paid > 0 => Batched
    /\ due[d].open =>
          /\ due[d].amount > 0
          /\ \/ due[d].amount = CodTotal
             \/ \E k \in Booked : truth[k] = "partial" /\ due[d].amount = Taken(k) /\ Told(k)

\* The shop waits for the money of parcel k.
Pending(k) ==
    /\ Carried(k) /\ codOf(k) > 0 /\ ~parcel[k].batch
    /\ heard[k] \notin {"returned", "cancelled"}

OwedAny(k) ==
    \E d \in OpenDues :
        \/ due[d].amount = Taken(k) /\ truth[k] = "partial"
        \/ due[d].amount = CodTotal

\* word: the last report to reckon with.
Owed(k, word) ==
    \E d \in OpenDues :
        \/ due[d].amount = Taken(k) /\ truth[k] = "partial"
        \/ /\ due[d].amount = CodTotal
           /\ word = "partial" /\ accepted(k, "void") => parcel[k].collected = Unknown

\* The last parcel came back, and nothing is owed.
Cleared == \A k \in Booked : Newest(k) /\ Back(k) /\ accepted(k, "void") => OpenDues = {}

\* Before a dispatch opens its receivable, one is open only when an earlier
\* parcel's voiding was refused, and it has the same amount.
Unopened ==
    \A d \in OpenDues :
        due[d].amount = CodTotal /\ job.word = "none" /\ heard[job.k] = "none"

Owing ==
    /\ Cleared
    /\ job.at \in {"store", "process", "open"} => Unopened
    /\ \A k \in Parcels : Pending(k) /\ accepted(k, "open") =>
          /\ job.at = "none" => Owed(k, heard[k])
          /\ job.at = "move" /\ job.word \in {"in_transit", "delivered"} => Owed(k, heard[k])
          /\ job.at \in {"move", "resize"} /\ job.word \in {"partial", "none"} => OwedAny(k)
          /\ job.at = "pay" => Owed(k, job.word)

\* What else is true when reports come in order.
Ordered ==
    /\ \A k \in Booked : Newest(k) \/ Back(k)
    /\ job.at = "book" => \A j \in Booked : Back(j)
    /\ job.at \in {"move", "resize"} => Newest(job.k)
    /\ job.at = "move" /\ job.word = "in_transit" => heard[job.k] \notin Ends

Rows == /\ InTurn
        /\ \A k \in Parcels : ParcelKnown(k)
        /\ \A d \in Dues : DueKnown(d)

Booking == (\A k \in Parcels : accepted(k, "open")) => cash = banked

InStep == Ordered /\ (~cut => Owing /\ Booking)

Books == Rows /\ JobKnown /\ (Practices = {} => InStep)

CourierInv == CourierTyped /\ Books

-----------------------------------------------------------------------------
(* Types, whatever the practices                                           *)

LEMMA Amounts ==
    /\ CodTotal \in Nat /\ CodTotal > 0 /\ PartTaken \in Nat /\ PartTaken < CodTotal
    /\ Unknown \in Int /\ Unknown < 0 /\ Unknown = 0 - 1
    /\ \A n \in 0..CodTotal : n \in Unknown..CodTotal
    /\ Unknown \in Unknown..CodTotal
    /\ MaxParcels \in Nat /\ MaxDues \in Nat
    /\ \A k \in Parcels : k \in 0..MaxParcels /\ k \in Nat /\ k > 0
BY CourierAssumption DEF CourierAssumption, Unknown, Parcels

LEMMA TakenTyped ==
    ASSUME CourierTyped, NEW k \in Parcels
    PROVE  Taken(k) \in 0..CodTotal /\ Taken(k) <= parcel[k].cod
<1>1. parcel[k] \in ParcelRow
  BY DEF CourierTyped
<1>2. parcel[k].cod \in 0..CodTotal
  BY <1>1 DEF ParcelRow
<1>3. CASE truth[k] = "partial"
  BY <1>2, <1>3, Amounts DEF Taken
<1>4. CASE truth[k] = "delivered"
  BY <1>2, <1>4, Amounts DEF Taken
<1>5. CASE truth[k] \notin {"partial", "delivered"}
  BY <1>2, <1>5, Amounts DEF Taken
<1> QED
  BY <1>3, <1>4, <1>5

LEMMA CodOfTyped ==
    ASSUME CourierTyped, NEW k \in Parcels
    PROVE  codOf(k) \in 0..CodTotal
<1>1. parcel[k] \in ParcelRow
  BY DEF CourierTyped
<1>2. /\ parcel[k].cod \in 0..CodTotal
      /\ parcel[k].collected # Unknown => parcel[k].collected \in 0..CodTotal
      /\ parcel[k].settled # Unknown => parcel[k].settled \in 0..CodTotal
  BY <1>1, Amounts DEF ParcelRow
<1> QED
  BY <1>2 DEF codOf

LEMMA NoJobTyped == NoJob \in Job
BY Amounts DEF NoJob, Job, CourierPlaces, Words, Statuses

LEMMA JobTyped ==
    ASSUME job \in Job, NEW at \in CourierPlaces
    PROVE  /\ [job EXCEPT !.at = at] \in Job
           /\ [job EXCEPT !.at = at].at = at /\ [job EXCEPT !.at = at].k = job.k
           /\ [job EXCEPT !.at = at].cod = job.cod /\ [job EXCEPT !.at = at].word = job.word
           /\ [job EXCEPT !.at = at].seen = job.seen
BY DEF Job

LEMMA DoneTyped ==
    ASSUME CourierTyped, job.at # "none", done
    PROVE  heard' \in [Parcels -> Words] /\ job' \in Job /\ job' = NoJob
BY NoJobTyped DEF CourierTyped, done, Job

\* Steps that leave the rows alone and take up or go on with a job.
LEMMA JobOnlyTyped ==
    ASSUME CourierTyped, UNCHANGED <<parcel, truth, due, cash, banked>>,
           UNCHANGED <<heard, stops, cut>>, codOrder' \in OrderRow, job' \in Job,
           job'.at = "none" => job' = NoJob, job'.at # "none" => job'.k \in Parcels,
           job'.at \in {"book", "store"} => job'.cod >= 0, job'.at = "open" => job'.cod > 0
    PROVE  CourierTyped'
BY DEF CourierTyped, OneOpenDue, OpenDues

\* Steps that write parcels or what became of them.
LEMMA ParcelsTyped ==
    ASSUME CourierTyped, UNCHANGED <<codOrder, due, cash, banked>>, UNCHANGED <<heard, stops, cut>>,
           parcel' \in [Parcels -> ParcelRow],
           truth' \in [Parcels -> {"none", "carried"} \cup Ends], job' \in Job,
           job'.at = "none" => job' = NoJob, job'.at # "none" => job'.k \in Parcels,
           job'.at \in {"book", "store"} => job'.cod >= 0, job'.at = "open" => job'.cod > 0
    PROVE  CourierTyped'
BY DEF CourierTyped, OneOpenDue, OpenDues

\* A job that starts.
LEMMA Starts ==
    ASSUME NEW at \in CourierPlaces, NEW k \in Parcels, NEW seen \in Statuses,
           NEW word \in Words, NEW cod \in Unknown..CodTotal
    PROVE  [at |-> at, k |-> k, word |-> word, seen |-> seen, cod |-> cod] \in Job
BY Amounts DEF Job

LEMMA DispatchTyped == ASSUME CourierTyped, dispatch PROVE CourierTyped'
<1>1. PICK k \in Parcels :
        job' = [at |-> "book", k |-> k, word |-> "none", seen |-> codOrder.status,
                cod |-> IF codOrder.pay = "PENDING" THEN CodTotal ELSE 0]
  BY DEF dispatch
<1>2. PICK c \in {0, CodTotal} : c = IF codOrder.pay = "PENDING" THEN CodTotal ELSE 0
  OBVIOUS
<1>3. codOrder.status \in Statuses /\ codOrder' \in OrderRow
  BY DEF dispatch, CourierTyped, OrderRow, Statuses
<1>4. c \in Unknown..CodTotal /\ c >= 0 /\ "book" \in CourierPlaces
  BY Amounts DEF CourierPlaces
<1>5. job' = [at |-> "book", k |-> k, word |-> "none", seen |-> codOrder.status, cod |-> c]
  BY <1>1, <1>2
<1>6. job' \in Job
  BY <1>3, <1>4, <1>5, Starts DEF Words
<1>7. UNCHANGED <<parcel, truth, due, cash, banked>> /\ UNCHANGED <<heard, stops, cut>>
  BY DEF dispatch, history
<1> QED
  BY <1>3, <1>4, <1>5, <1>6, <1>7, JobOnlyTyped

LEMMA NewParcelTyped ==
    ASSUME NEW s \in {"DISPATCHED", "FAILED"}, NEW c \in 0..CodTotal
    PROVE  NewParcel(s, c) \in ParcelRow
BY Amounts DEF ParcelRow, ActiveStatuses, NewParcel

LEMMA BookTyped == ASSUME CourierTyped, book PROVE CourierTyped'
<1>1. job.k \in Parcels /\ job.cod \in 0..CodTotal /\ job \in Job
  BY Amounts DEF book, CourierTyped, Job
<1>2. UNCHANGED <<codOrder, due, cash, banked>> /\ UNCHANGED <<heard, stops, cut>>
  BY DEF book, history
<1>3. CASE /\ truth' = [truth EXCEPT ![job.k] = "carried"]
           /\ job' = [job EXCEPT !.at = "store"]
           /\ UNCHANGED parcel
  <2>1. job' \in Job /\ job'.at = "store" /\ job'.k = job.k /\ job'.cod = job.cod
    BY <1>1, <1>3, JobTyped DEF CourierPlaces
  <2>2. job'.cod >= 0
    BY <1>1, <2>1
  <2>3. truth' \in [Parcels -> {"none", "carried"} \cup Ends]
    BY <1>1, <1>3 DEF CourierTyped
  <2>4. parcel' \in [Parcels -> ParcelRow]
    BY <1>3 DEF CourierTyped
  <2> QED
    BY <1>1, <1>2, <2>1, <2>2, <2>3, <2>4, ParcelsTyped
<1>4. CASE /\ parcel' = [parcel EXCEPT ![job.k] = NewParcel("FAILED", job.cod)]
           /\ job' = NoJob
           /\ UNCHANGED truth
  <2>1. parcel' \in [Parcels -> ParcelRow]
    BY <1>1, <1>4, NewParcelTyped DEF CourierTyped
  <2>2. truth' \in [Parcels -> {"none", "carried"} \cup Ends]
    BY <1>4 DEF CourierTyped
  <2>3. job' \in Job /\ job'.at = "none"
    BY <1>4, NoJobTyped DEF NoJob
  <2> QED
    BY <1>2, <1>4, <2>1, <2>2, <2>3, ParcelsTyped
<1> QED
  BY <1>3, <1>4 DEF book

LEMMA StoreTyped == ASSUME CourierTyped, store PROVE CourierTyped'
<1>1. job.k \in Parcels /\ job.cod \in 0..CodTotal /\ job \in Job
  BY Amounts DEF store, CourierTyped, Job
<1>2. UNCHANGED <<codOrder, due, cash, banked>> /\ UNCHANGED <<heard, stops, cut>>
  BY DEF store, history
<1>3. job' \in Job /\ job'.at = "process" /\ job'.k = job.k
  BY <1>1, JobTyped DEF store, CourierPlaces
<1>4. parcel' \in [Parcels -> ParcelRow]
  BY <1>1, NewParcelTyped DEF store, CourierTyped
<1>5. truth' \in [Parcels -> {"none", "carried"} \cup Ends]
  BY DEF store, CourierTyped
<1> QED
  BY <1>1, <1>2, <1>3, <1>4, <1>5, ParcelsTyped

LEMMA ProcessTyped == ASSUME CourierTyped, process PROVE CourierTyped'
<1>1. job.k \in Parcels /\ job.cod \in Unknown..CodTotal /\ job \in Job
  BY DEF process, CourierTyped, Job
<1>2. UNCHANGED <<parcel, truth, due, cash, banked>> /\ UNCHANGED <<heard, stops, cut>>
  BY DEF process, history
<1>3. codOrder' \in OrderRow
  BY DEF process, CourierTyped, OrderRow, ActiveOrderStatuses
<1>4. CASE job.cod > 0
  <2>1. job' \in Job /\ job'.at = "open" /\ job'.k = job.k /\ job'.cod = job.cod
    BY <1>1, <1>4, JobTyped DEF process, CourierPlaces
  <2> QED
    BY <1>1, <1>2, <1>3, <1>4, <2>1, JobOnlyTyped
<1>5. CASE ~(job.cod > 0)
  <2>1. job' = NoJob /\ job' \in Job /\ job'.at = "none"
    BY <1>5, NoJobTyped DEF process, NoJob
  <2> QED
    BY <1>2, <1>3, <2>1, JobOnlyTyped
<1> QED
  BY <1>4, <1>5

LEMMA FinishedTyped ==
    ASSUME CourierTyped, job.at # "none", done, UNCHANGED <<parcel, truth, cash, banked>>,
           UNCHANGED <<stops, cut>>, codOrder' \in OrderRow,
           due' \in [Dues -> DueRow], OneOpenDue'
    PROVE  CourierTyped'
<1>1. heard' \in [Parcels -> Words] /\ job' \in Job /\ job' = NoJob
  BY DoneTyped
<1>2. job'.at = "none"
  BY <1>1 DEF NoJob
<1> QED
  BY <1>1, <1>2 DEF CourierTyped

LEMMA GoesOnTyped ==
    ASSUME CourierTyped, job.at # "none", NEW at \in CourierPlaces \ {"none", "book", "store"},
           job' = [job EXCEPT !.at = at], at = "open" => job.cod > 0,
           UNCHANGED <<parcel, truth, cash, banked>>, UNCHANGED <<heard, stops, cut>>,
           codOrder' \in OrderRow, due' \in [Dues -> DueRow], OneOpenDue'
    PROVE  CourierTyped'
<1>1. job \in Job /\ job.k \in Parcels
  BY DEF CourierTyped
<1>2. job' \in Job /\ job'.at = at /\ job'.k = job.k /\ job'.cod = job.cod
  BY <1>1, JobTyped
<1> QED
  BY <1>1, <1>2 DEF CourierTyped

LEMMA MoveTyped == ASSUME CourierTyped, moveOrder PROVE CourierTyped'
<1>1. UNCHANGED <<parcel, truth, cash, banked>> /\ UNCHANGED <<stops, cut>> /\ UNCHANGED due
  BY DEF moveOrder
<1>2. codOrder' \in OrderRow
  BY DEF moveOrder, CourierTyped, OrderRow, ActiveOrderStatuses, OrderStatusOn
<1>3. due' \in [Dues -> DueRow] /\ OneOpenDue'
  BY <1>1 DEF CourierTyped, OneOpenDue, OpenDues
<1>4. job.at # "none"
  BY DEF moveOrder
<1>5. CASE job.word = "delivered"
  <2>1. job' = [job EXCEPT !.at = "pay"] /\ UNCHANGED heard
    BY <1>5 DEF moveOrder
  <2> QED
    BY <1>1, <1>2, <1>3, <1>4, <2>1, GoesOnTyped DEF CourierPlaces
<1>6. CASE job.word # "delivered" /\ job.word \in Ends
  <2>1. job' = [job EXCEPT !.at = "resize"] /\ UNCHANGED heard
    BY <1>6 DEF moveOrder
  <2> QED
    BY <1>1, <1>2, <1>3, <1>4, <2>1, GoesOnTyped DEF CourierPlaces
<1>7. CASE job.word # "delivered" /\ job.word \notin Ends
  <2>1. done
    BY <1>7 DEF moveOrder
  <2> QED
    BY <1>1, <1>2, <1>3, <1>4, <2>1, FinishedTyped
<1> QED
  BY <1>5, <1>6, <1>7

LEMMA PayTyped == ASSUME CourierTyped, capturePayment PROVE CourierTyped'
<1>1. UNCHANGED <<parcel, truth, cash, banked>> /\ UNCHANGED <<stops, cut>> /\ UNCHANGED due
  BY DEF capturePayment
<1>2. codOrder' \in OrderRow
  BY DEF capturePayment, CourierTyped, OrderRow
<1>3. due' \in [Dues -> DueRow] /\ OneOpenDue'
  BY <1>1 DEF CourierTyped, OneOpenDue, OpenDues
<1>4. job.at # "none" /\ done
  BY DEF capturePayment
<1> QED
  BY <1>1, <1>2, <1>3, <1>4, FinishedTyped

LEMMA VoidedDues ==
    ASSUME CourierTyped, voidOthers
    PROVE  /\ due' \in [Dues -> DueRow] /\ OneOpenDue'
           /\ \A d \in Dues : due'[d].amount = due[d].amount /\ due'[d].paid = due[d].paid
           /\ OpenDues' = OpenDues \ OtherDues
<1>1. due \in [Dues -> DueRow]
  BY DEF CourierTyped
<1> DEFINE q(d) == [due[d] EXCEPT !.open = @ /\ d \notin OtherDues]
<1>2. due' = [d \in Dues |-> q(d)]
  BY DEF voidOthers
<1>3. ASSUME NEW d \in Dues
      PROVE  /\ q(d) \in DueRow /\ q(d).amount = due[d].amount /\ q(d).paid = due[d].paid
             /\ q(d).open = (due[d].open /\ d \notin OtherDues)
  <2>1. due[d] \in DueRow
    BY <1>1
  <2> QED
    BY <2>1 DEF DueRow
<1>4. \A d \in Dues : due'[d] = q(d)
  BY <1>2
<1> HIDE DEF q
<1>5. due' \in [Dues -> DueRow]
  BY <1>2, <1>3
<1>6. OpenDues' = OpenDues \ OtherDues
  BY <1>3, <1>4 DEF OpenDues
<1>7. OneOpenDue'
  BY <1>6 DEF OneOpenDue, CourierTyped
<1> QED
  BY <1>3, <1>4, <1>5, <1>6, <1>7

\* What becomes of the receivable: nothing, it is voided, or that is refused.
LEMMA ResizedDues ==
    ASSUME CourierTyped, resizeCodReceivable
    PROVE  /\ due' \in [Dues -> DueRow] /\ OneOpenDue'
           /\ \A d \in Dues : due'[d].amount = due[d].amount /\ due'[d].paid = due[d].paid
           /\ OpenDues' \subseteq OpenDues
           /\ \/ /\ job.cod = Unknown \/ OtherDues = {}
                 /\ afterwards /\ OpenDues' = OpenDues /\ refused' = refused
              \/ /\ job.cod # Unknown /\ OtherDues # {}
                 /\ OpenDues' = OpenDues \ OtherDues /\ refused' = refused
                 /\ \/ job.cod > 0 /\ job' = [job EXCEPT !.at = "open"] /\ UNCHANGED heard
                    \/ ~(job.cod > 0) /\ afterwards
              \/ /\ job.cod # Unknown /\ OtherDues # {}
                 /\ afterwards /\ OpenDues' = OpenDues
                 /\ refused' = refused \cup {<<job.k, "void">>}
<1>1. CASE UNCHANGED due
  <2>1. OpenDues' = OpenDues
    BY <1>1 DEF OpenDues
  <2>2. due' \in [Dues -> DueRow] /\ OneOpenDue'
    BY <1>1, <2>1 DEF CourierTyped, OneOpenDue
  <2>3. \A d \in Dues : due'[d].amount = due[d].amount /\ due'[d].paid = due[d].paid
    BY <1>1
  <2>4. CASE job.cod = Unknown \/ OtherDues = {}
    BY <2>1, <2>2, <2>3, <2>4 DEF resizeCodReceivable
  <2>5. CASE job.cod # Unknown /\ OtherDues # {} /\ voidOthers /\ UNCHANGED refused
    <3>1. OpenDues' = OpenDues \ OtherDues
      BY <2>5, VoidedDues
    <3>2. FALSE
      BY <2>1, <2>5, <3>1 DEF OtherDues
    <3> QED
      BY <3>2
  <2>6. CASE job.cod # Unknown /\ OtherDues # {} /\ refuse("void") /\ afterwards
    BY <2>1, <2>2, <2>3, <2>6 DEF refuse
  <2> QED
    BY <2>4, <2>5, <2>6 DEF resizeCodReceivable
<1>2. CASE ~UNCHANGED due
  <2>1. /\ job.cod # Unknown /\ OtherDues # {} /\ voidOthers /\ refused' = refused
        /\ \/ job.cod > 0 /\ job' = [job EXCEPT !.at = "open"] /\ UNCHANGED heard
           \/ ~(job.cod > 0) /\ afterwards
    BY <1>2 DEF resizeCodReceivable
  <2>2. /\ due' \in [Dues -> DueRow] /\ OneOpenDue'
        /\ \A d \in Dues : due'[d].amount = due[d].amount /\ due'[d].paid = due[d].paid
        /\ OpenDues' = OpenDues \ OtherDues
    BY <2>1, VoidedDues
  <2> QED
    BY <2>1, <2>2
<1> QED
  BY <1>1, <1>2

LEMMA AfterwardsTyped ==
    ASSUME CourierTyped, job.at # "none", afterwards, UNCHANGED <<parcel, truth, cash, banked>>,
           UNCHANGED <<stops, cut>>, codOrder' \in OrderRow,
           due' \in [Dues -> DueRow], OneOpenDue'
    PROVE  CourierTyped'
<1>1. CASE job.word = "partial"
  <2>1. job' = [job EXCEPT !.at = "pay"] /\ UNCHANGED heard
    BY <1>1 DEF afterwards
  <2> QED
    BY <2>1, GoesOnTyped DEF CourierPlaces
<1>2. CASE job.word # "partial"
  <2>1. done
    BY <1>2 DEF afterwards
  <2> QED
    BY <2>1, FinishedTyped
<1> QED
  BY <1>1, <1>2

LEMMA ResizeTyped == ASSUME CourierTyped, resizeCodReceivable PROVE CourierTyped'
<1>1. UNCHANGED <<parcel, truth, cash, banked>> /\ UNCHANGED <<stops, cut>>
  BY DEF resizeCodReceivable
<1>2. codOrder' \in OrderRow
  BY DEF resizeCodReceivable, CourierTyped
<1>3. due' \in [Dues -> DueRow] /\ OneOpenDue'
  BY ResizedDues
<1>4. job.at # "none"
  BY DEF resizeCodReceivable
<1>5. CASE job.cod > 0 /\ job' = [job EXCEPT !.at = "open"] /\ UNCHANGED heard
  BY <1>1, <1>2, <1>3, <1>4, <1>5, GoesOnTyped DEF CourierPlaces
<1>6. CASE afterwards
  BY <1>1, <1>2, <1>3, <1>4, <1>6, AfterwardsTyped
<1>7. \/ job.cod > 0 /\ job' = [job EXCEPT !.at = "open"] /\ UNCHANGED heard
      \/ afterwards
  BY ResizedDues
<1> QED
  BY <1>5, <1>6, <1>7

\* What becomes of the receivable: one is open, it is opened, or that is refused.
LEMMA OpenedDue ==
    ASSUME CourierTyped, openCodReceivable
    PROVE  /\ due' \in [Dues -> DueRow] /\ OneOpenDue'
           /\ \/ /\ OpenDues # {} /\ UNCHANGED due /\ OpenDues' = OpenDues /\ refused' = refused
              \/ /\ OpenDues = {} /\ refused' = refused
                 /\ \E d \in Dues :
                       /\ due'[d] = [amount |-> job.cod, paid |-> 0, open |-> TRUE]
                       /\ \A e \in Dues \ {d} : due'[e] = due[e]
                       /\ OpenDues' = {d}
              \/ /\ OpenDues = {} /\ UNCHANGED due /\ OpenDues' = OpenDues
                 /\ refused' = refused \cup {<<job.k, "open">>}
<1>1. due \in [Dues -> DueRow]
  BY DEF CourierTyped
<1>2. CASE UNCHANGED due
  <2>1. OpenDues' = OpenDues
    BY <1>2 DEF OpenDues
  <2>2. due' \in [Dues -> DueRow] /\ OneOpenDue'
    BY <1>1, <1>2, <2>1 DEF CourierTyped, OneOpenDue
  <2>3. ~NewDue(job.cod) \/ OpenDues # {}
    <3> SUFFICES ASSUME NewDue(job.cod), OpenDues = {} PROVE FALSE
      OBVIOUS
    <3>1. PICK d \in Dues : due' = [due EXCEPT ![d] = [amount |-> job.cod, paid |-> 0,
                                                       open |-> TRUE]]
      BY DEF NewDue
    <3>2. due[d].open
      BY <1>1, <1>2, <3>1
    <3> QED
      BY <3>2 DEF OpenDues
  <2> QED
    BY <1>2, <2>1, <2>2, <2>3 DEF openCodReceivable, refuse
<1>3. CASE ~UNCHANGED due
  <2>1. OpenDues = {} /\ refused' = refused /\ NewDue(job.cod)
    BY <1>3 DEF openCodReceivable
  <2>2. PICK d \in Dues : due' = [due EXCEPT ![d] = [amount |-> job.cod, paid |-> 0,
                                                     open |-> TRUE]]
    BY <2>1 DEF NewDue
  <2>3. job.cod \in 0..CodTotal
    BY Amounts DEF openCodReceivable, CourierTyped, Job
  <2>4. due' \in [Dues -> DueRow]
    BY <1>1, <2>2, <2>3 DEF DueRow
  <2>5. /\ due'[d] = [amount |-> job.cod, paid |-> 0, open |-> TRUE]
        /\ \A e \in Dues \ {d} : due'[e] = due[e]
    BY <1>1, <2>2
  <2>6. OpenDues' = {d}
    BY <2>1, <2>5 DEF OpenDues
  <2> QED
    BY <2>1, <2>4, <2>5, <2>6 DEF OneOpenDue
<1> QED
  BY <1>2, <1>3

LEMMA OpenTyped == ASSUME CourierTyped, openCodReceivable PROVE CourierTyped'
<1>1. UNCHANGED <<parcel, truth, cash, banked>> /\ UNCHANGED <<stops, cut>>
  BY DEF openCodReceivable
<1>2. codOrder' \in OrderRow
  BY DEF openCodReceivable, CourierTyped
<1>3. due' \in [Dues -> DueRow] /\ OneOpenDue'
  BY OpenedDue
<1>4. job.at # "none" /\ afterwards
  BY DEF openCodReceivable
<1> QED
  BY <1>1, <1>2, <1>3, <1>4, AfterwardsTyped

\* What a report writes into the row of parcel k, and what is left to do.
Stored(k, known, word) ==
    /\ parcel'[k].status = Mapped(word)
    /\ parcel'[k].cod = parcel[k].cod /\ parcel'[k].settled = parcel[k].settled
    /\ parcel'[k].batch = parcel[k].batch
    /\ parcel'[k].collected = IF known /\ word \in {"delivered", "partial"}
                              THEN Taken(k) ELSE parcel[k].collected
    /\ \A j \in Parcels \ {k} : parcel'[j] = parcel[j]
    /\ job'.at = "move" /\ job'.k = k /\ job'.word = word
    /\ job'.cod = IF word = "partial"
                  THEN IF parcel'[k].collected # Unknown THEN parcel'[k].collected
                       ELSE parcel[k].settled
                  ELSE 0

LEMMA WordTyped ==
    ASSUME CourierTyped, NEW k \in Booked, NEW word \in Reportable(k)
    PROVE  word \in {"in_transit"} \cup Ends
BY DEF CourierTyped, Booked, Reportable, Word

LEMMA MappedTyped ==
    ASSUME NEW word
    PROVE  Mapped(word) \in {"DELIVERED", "PARTIALLY_DELIVERED", "RETURNED", "CANCELED",
                             "IN_TRANSIT"}
BY DEF Mapped

LEMMA WebhookReports ==
    ASSUME CourierTyped, webhook
    PROVE  /\ \E k \in Shipped \cap Booked, known \in BOOLEAN, word \in {"in_transit"} \cup Ends :
                 word \in Reportable(k) /\ Stored(k, known, word)
           /\ parcel' \in [Parcels -> ParcelRow] /\ job' \in Job
<1>1. PICK k \in Shipped \cap Booked, known \in BOOLEAN : \E word \in Reportable(k) :
          /\ parcel' = [parcel EXCEPT
               ![k].status = Mapped(word),
               ![k].collected = IF known /\ word \in {"delivered", "partial"}
                                THEN Taken(k) ELSE @]
          /\ job' = [at |-> "move", k |-> k, word |-> word, seen |-> parcel[k].status,
                     cod |-> IF word = "partial"
                             THEN IF parcel'[k].collected # Unknown THEN parcel'[k].collected
                                  ELSE parcel[k].settled
                             ELSE 0]
  BY DEF webhook
<1>2. PICK word \in Reportable(k) :
          /\ parcel' = [parcel EXCEPT
               ![k].status = Mapped(word),
               ![k].collected = IF known /\ word \in {"delivered", "partial"}
                                THEN Taken(k) ELSE @]
          /\ job' = [at |-> "move", k |-> k, word |-> word, seen |-> parcel[k].status,
                     cod |-> IF word = "partial"
                             THEN IF parcel'[k].collected # Unknown THEN parcel'[k].collected
                                  ELSE parcel[k].settled
                             ELSE 0]
  BY <1>1
<1>3. word \in {"in_transit"} \cup Ends /\ k \in Parcels
  BY WordTyped DEF Booked
<1>4. parcel \in [Parcels -> ParcelRow]
  BY DEF CourierTyped
<1>5. PICK s \in {"DELIVERED", "PARTIALLY_DELIVERED", "RETURNED", "CANCELED", "IN_TRANSIT"} :
        s = Mapped(word)
  BY MappedTyped
<1>6. PICK c \in Unknown..CodTotal :
        c = IF known /\ word \in {"delivered", "partial"} THEN Taken(k) ELSE parcel[k].collected
  <2>1. Taken(k) \in Unknown..CodTotal
    BY <1>3, TakenTyped, Amounts
  <2>2. parcel[k].collected \in Unknown..CodTotal
    BY <1>3, <1>4 DEF ParcelRow
  <2> QED
    BY <2>1, <2>2
<1>7. parcel[k] \in ParcelRow
  BY <1>3, <1>4
<1>8. /\ parcel'[k].status = s /\ parcel'[k].collected = c
      /\ parcel'[k].cod = parcel[k].cod /\ parcel'[k].settled = parcel[k].settled
      /\ parcel'[k].batch = parcel[k].batch
  BY <1>2, <1>3, <1>4, <1>5, <1>6, <1>7 DEF ParcelRow
<1>9. parcel'[k] \in ParcelRow
  <2>1. parcel' = [parcel EXCEPT ![k] = [parcel[k] EXCEPT !.status = s, !.collected = c]]
    BY <1>2, <1>3, <1>4, <1>5, <1>6, <1>7 DEF ParcelRow
  <2>2. [parcel[k] EXCEPT !.status = s, !.collected = c] \in ParcelRow
    BY <1>7 DEF ParcelRow, ActiveStatuses
  <2> QED
    BY <1>3, <1>4, <2>1, <2>2
<1>10. \A j \in Parcels \ {k} : parcel'[j] = parcel[j]
  BY <1>2, <1>4
<1>11. parcel' \in [Parcels -> ParcelRow]
  <2>1. parcel' = [j \in Parcels |-> parcel'[j]]
    BY <1>2, <1>4
  <2> QED
    BY <1>4, <1>9, <1>10, <2>1
<1>12. PICK d \in Unknown..CodTotal :
         d = IF word = "partial"
             THEN IF parcel'[k].collected # Unknown THEN parcel'[k].collected
                  ELSE parcel[k].settled
             ELSE 0
  <2>1. parcel'[k].collected \in Unknown..CodTotal /\ parcel[k].settled \in Unknown..CodTotal
    BY <1>7, <1>9 DEF ParcelRow
  <2>2. 0 \in Unknown..CodTotal
    BY Amounts
  <2> QED
    BY <2>1, <2>2
<1>13. PICK seen \in Statuses : seen = parcel[k].status
  BY <1>7 DEF ParcelRow, Statuses
<1>14. job' = [at |-> "move", k |-> k, word |-> word, seen |-> seen, cod |-> d]
  BY <1>2, <1>12, <1>13
<1>15. job' \in Job
  BY <1>3, <1>14, Starts DEF CourierPlaces, Words
<1>16. Stored(k, known, word)
  BY <1>5, <1>6, <1>8, <1>10, <1>12, <1>14 DEF Stored
<1> QED
  BY <1>3, <1>11, <1>15, <1>16

LEMMA WebhookTyped == ASSUME CourierTyped, webhook PROVE CourierTyped'
<1>1. /\ parcel' \in [Parcels -> ParcelRow] /\ job' \in Job
      /\ job'.at = "move" /\ job'.k \in Parcels
  BY WebhookReports DEF Stored, Booked
<1>2. UNCHANGED <<codOrder, due, cash, banked>> /\ UNCHANGED <<heard, stops, cut>>
  BY DEF webhook, history
<1>3. truth' \in [Parcels -> {"none", "carried"} \cup Ends]
  BY DEF webhook, CourierTyped
<1> QED
  BY <1>1, <1>2, <1>3, ParcelsTyped

LEMMA ResizingTyped ==
    ASSUME NEW k \in Parcels, NEW cod \in Unknown..CodTotal
    PROVE  /\ Resizing(k, cod) \in Job /\ Resizing(k, cod).at = "resize"
           /\ Resizing(k, cod).k = k /\ Resizing(k, cod).word = "none"
           /\ Resizing(k, cod).cod = cod
BY Amounts DEF Resizing, Job, CourierPlaces, Words, Statuses

LEMMA ReconcileTyped ==
    ASSUME CourierTyped, NEW k \in Parcels, reconcile(k)
    PROVE  CourierTyped'
<1>1. UNCHANGED <<parcel, truth, due, cash, banked>> /\ UNCHANGED <<heard, stops, cut>>
  BY DEF reconcile, history
<1>2. codOrder' \in OrderRow
  BY DEF reconcile, CourierTyped, OrderRow
<1>3. PICK c \in Unknown..CodTotal :
        c = IF parcel[k].collected # Unknown THEN parcel[k].collected ELSE parcel[k].settled
  <2>1. parcel[k] \in ParcelRow
    BY DEF CourierTyped
  <2>2. parcel[k].collected \in Unknown..CodTotal /\ parcel[k].settled \in Unknown..CodTotal
    BY <2>1 DEF ParcelRow
  <2> QED
    BY <2>2
<1>4. job' = IF c = Unknown THEN NoJob ELSE Resizing(k, c)
  BY <1>3 DEF reconcile
<1>5. /\ job' \in Job /\ job'.at \in {"none", "resize"}
      /\ job'.at = "none" => job' = NoJob
      /\ job'.at # "none" => job'.k \in Parcels
  BY <1>4, ResizingTyped, NoJobTyped DEF NoJob
<1> QED
  BY <1>1, <1>2, <1>5, JobOnlyTyped

LEMMA PayoutTyped ==
    ASSUME CourierTyped, NEW k \in Parcels, applyPayout(k)
    PROVE  CourierTyped'
<1>1. UNCHANGED <<codOrder, due, cash, banked>> /\ UNCHANGED <<heard, stops, cut>>
  BY DEF applyPayout, history
<1>2. PICK c \in Unknown..CodTotal : c = Taken(k)
  <2>1. Taken(k) \in 0..CodTotal
    BY TakenTyped
  <2> QED
    BY <2>1, Amounts
<1>3. job' = IF parcel[k].status = "PARTIALLY_DELIVERED" THEN Resizing(k, c) ELSE NoJob
  BY <1>2 DEF applyPayout
<1>4. /\ job' \in Job /\ job'.at \in {"none", "resize"}
      /\ job'.at = "none" => job' = NoJob
      /\ job'.at # "none" => job'.k \in Parcels
  BY <1>3, ResizingTyped, NoJobTyped DEF NoJob
<1>5. parcel' \in [Parcels -> ParcelRow]
  BY <1>2 DEF applyPayout, CourierTyped, ParcelRow
<1>6. truth' \in [Parcels -> {"none", "carried"} \cup Ends]
  BY DEF applyPayout, CourierTyped
<1> QED
  BY <1>1, <1>4, <1>5, <1>6, ParcelsTyped

LEMMA TrackTyped ==
    ASSUME CourierTyped, NEW k \in Parcels, track(k)
    PROVE  CourierTyped'
<1>1. UNCHANGED <<codOrder, due, cash, banked>> /\ UNCHANGED <<heard, stops, cut>>
      /\ UNCHANGED job
  BY DEF track, history
<1>2. PICK s \in {"DELIVERED", "PARTIALLY_DELIVERED", "RETURNED", "CANCELED", "IN_TRANSIT"} :
        s = Mapped(Word(k))
  BY MappedTyped
<1>3. parcel' \in [Parcels -> ParcelRow]
  BY <1>2 DEF track, CourierTyped, ParcelRow, ActiveStatuses
<1>4. truth' \in [Parcels -> {"none", "carried"} \cup Ends]
  BY DEF track, CourierTyped
<1> QED
  BY <1>1, <1>3, <1>4, ParcelsTyped DEF CourierTyped

LEMMA CancelTyped ==
    ASSUME CourierTyped, NEW k \in Parcels, cancelOrReturn(k)
    PROVE  CourierTyped'
<1>1. UNCHANGED <<codOrder, due, cash, banked>> /\ UNCHANGED <<heard, stops, cut>>
      /\ UNCHANGED job
  BY DEF cancelOrReturn, history
<1>2. parcel' \in [Parcels -> ParcelRow]
  BY DEF cancelOrReturn, CourierTyped, ParcelRow
<1>3. truth' \in [Parcels -> {"none", "carried"} \cup Ends]
  BY DEF cancelOrReturn, CourierTyped, Ends
<1> QED
  BY <1>1, <1>2, <1>3, ParcelsTyped DEF CourierTyped

LEMMA CarryTyped ==
    ASSUME CourierTyped, NEW k \in Parcels, carry(k)
    PROVE  CourierTyped'
<1>1. UNCHANGED <<codOrder, due, cash, banked>> /\ UNCHANGED <<heard, stops, cut>>
      /\ UNCHANGED job
  BY DEF carry, history
<1>2. parcel' \in [Parcels -> ParcelRow]
  BY DEF carry, CourierTyped
<1>3. truth' \in [Parcels -> {"none", "carried"} \cup Ends]
  BY DEF carry, CourierTyped
<1> QED
  BY <1>1, <1>2, <1>3, ParcelsTyped DEF CourierTyped

LEMMA StaffTyped ==
    ASSUME CourierTyped, NEW s \in {"PROCESSING", "COMPLETED", "CANCELED"}, staffUpdateStatus(s)
    PROVE  CourierTyped'
<1>1. codOrder' \in OrderRow
  BY DEF staffUpdateStatus, CourierTyped, OrderRow, ActiveOrderStatuses
<1>2. UNCHANGED <<parcel, truth, due, cash, banked>> /\ UNCHANGED <<heard, stops, cut>>
      /\ UNCHANGED job
  BY DEF staffUpdateStatus, history
<1> QED
  BY <1>1, <1>2, JobOnlyTyped DEF CourierTyped

LEMMA CrashTyped == ASSUME CourierTyped, crash PROVE CourierTyped'
<1>1. UNCHANGED <<codOrder, parcel, truth, due, cash, banked>> /\ UNCHANGED heard
  BY DEF crash
<1>2. stops' \in Nat /\ cut' \in BOOLEAN
  BY DEF crash, CourierTyped
<1>3. job' = NoJob /\ job' \in Job /\ job'.at = "none"
  BY NoJobTyped DEF crash, NoJob
<1> QED
  BY <1>1, <1>2, <1>3 DEF CourierTyped, OneOpenDue, OpenDues

LEMMA FewDues ==
    ASSUME OneOpenDue
    PROVE  /\ Cardinality(OpenDues) \in {0, 1} /\ IsFiniteSet(OpenDues)
           /\ OpenDues # {} => Cardinality(OpenDues) = 1
<1>1. CASE OpenDues = {}
  BY <1>1, FS_EmptySet
<1>2. CASE OpenDues # {}
  <2>1. PICK d \in OpenDues : TRUE
    BY <1>2
  <2>2. OpenDues = {d}
    BY <2>1 DEF OneOpenDue
  <2>3. PICK W : W = OpenDues
    OBVIOUS
  <2>4. Cardinality(W) = 1 /\ IsFiniteSet(W)
    BY <2>2, <2>3, FS_Singleton
  <2> QED
    BY <2>3, <2>4
<1> QED
  BY <1>1, <1>2

\* The amounts of a settlement of the parcels in S.
LEMMA SettledAmounts ==
    ASSUME CourierTyped, NEW S \in SUBSET Parcels
    PROVE  Reached(S) \in Nat /\ Expected(S) \in Nat
<1> DEFINE f == [k \in Parcels |-> Taken(k)]
           g == [k \in Parcels |-> codOf(k)]
<1>1. IsFiniteSet(S)
  <2>1. IsFiniteSet(Parcels)
    BY Amounts, FS_Interval DEF Parcels
  <2> QED
    BY <2>1, FS_Subset
<1>2. \A k \in Parcels : Taken(k) \in Nat /\ codOf(k) \in Nat
  <2> SUFFICES ASSUME NEW k \in Parcels PROVE Taken(k) \in Nat /\ codOf(k) \in Nat
    OBVIOUS
  <2>1. Taken(k) \in 0..CodTotal
    BY TakenTyped
  <2>2. codOf(k) \in 0..CodTotal
    BY CodOfTyped
  <2> QED
    BY <2>1, <2>2
<1>3. \A k \in S : f[k] \in Nat /\ g[k] \in Nat
  BY <1>2
<1>4. Reached(S) = SumFunctionOnSet(f, S) /\ Expected(S) = SumFunctionOnSet(g, S)
  BY DEF Reached, Expected
<1> HIDE DEF f, g
<1>5. SumFunctionOnSet(f, S) \in Nat
  BY <1>1, <1>3, SumNat
<1>6. SumFunctionOnSet(g, S) \in Nat
  BY <1>1, <1>3, SumNat
<1> QED
  BY <1>4, <1>5, <1>6

\* What a settlement writes; k is the parcel whose amount clears the receivable.
Settles(k) ==
    /\ \A j \in Parcels : /\ parcel'[j].status = parcel[j].status
                          /\ parcel'[j].cod = parcel[j].cod
                          /\ parcel'[j].collected = parcel[j].collected
                          /\ parcel'[j].settled = parcel[j].settled
                          /\ parcel'[j].batch = (parcel[j].batch \/ j \in unsettledShipments)
    /\ \A d \in Dues : /\ due'[d].amount = due[d].amount /\ due'[d].open = due[d].open
                       /\ due'[d].paid = IF d \in OpenDues /\ codOf(k) > 0
                                         THEN due[d].paid + codOf(k) ELSE due[d].paid
    /\ cash' = cash + (IF codOf(k) > 0 THEN Cardinality(OpenDues) * codOf(k) ELSE 0)
                    + (Reached(unsettledShipments) - Expected(unsettledShipments))
    /\ banked' = banked + Reached(unsettledShipments)

LEMMA SettleWrites ==
    ASSUME CourierTyped, settle
    PROVE  /\ \E k \in unsettledShipments : Settles(k)
           /\ parcel' \in [Parcels -> ParcelRow] /\ due' \in [Dues -> DueRow]
<1>1. PICK k \in unsettledShipments :
          /\ parcel' = [j \in Parcels |-> [parcel[j] EXCEPT !.batch =
                                              @ \/ j \in unsettledShipments]]
          /\ due' = [d \in Dues |-> [due[d] EXCEPT !.paid =
                                       IF d \in OpenDues /\ codOf(k) > 0
                                       THEN @ + codOf(k) ELSE @]]
          /\ cash' = cash + (IF codOf(k) > 0 THEN Cardinality(OpenDues) * codOf(k) ELSE 0)
                          + (Reached(unsettledShipments) - Expected(unsettledShipments))
          /\ banked' = banked + Reached(unsettledShipments)
  BY DEF settle
<1>2. PICK n \in Nat : n = codOf(k)
  BY CodOfTyped DEF unsettledShipments, Shipped
<1>3. ASSUME NEW j \in Parcels
      PROVE  /\ parcel'[j].status = parcel[j].status
             /\ parcel'[j].cod = parcel[j].cod
             /\ parcel'[j].collected = parcel[j].collected
             /\ parcel'[j].settled = parcel[j].settled
             /\ parcel'[j].batch = (parcel[j].batch \/ j \in unsettledShipments)
             /\ parcel'[j] \in ParcelRow
  <2>1. parcel[j] \in ParcelRow
    BY DEF CourierTyped
  <2>2. parcel'[j] = [parcel[j] EXCEPT !.batch = @ \/ j \in unsettledShipments]
    BY <1>1
  <2>3. PICK b \in BOOLEAN : b = (parcel[j].batch \/ j \in unsettledShipments)
    OBVIOUS
  <2>4. parcel'[j] = [parcel[j] EXCEPT !.batch = b]
    BY <2>2, <2>3
  <2>5. parcel'[j] \in ParcelRow
    BY <2>1, <2>4 DEF ParcelRow
  <2>6. parcel'[j].batch = b
    BY <2>1, <2>4 DEF ParcelRow
  <2> QED
    BY <2>1, <2>3, <2>4, <2>5, <2>6 DEF ParcelRow
<1>4. ASSUME NEW d \in Dues
      PROVE  /\ due'[d].amount = due[d].amount /\ due'[d].open = due[d].open
             /\ due'[d].paid = IF d \in OpenDues /\ codOf(k) > 0
                               THEN due[d].paid + codOf(k) ELSE due[d].paid
             /\ due'[d] \in DueRow
  <2>1. due[d] \in DueRow
    BY DEF CourierTyped
  <2>2. PICK m \in Nat : m = IF d \in OpenDues /\ n > 0 THEN due[d].paid + n ELSE due[d].paid
    BY <2>1 DEF DueRow
  <2>3. due'[d] = [due[d] EXCEPT !.paid = m]
    BY <1>1, <1>2, <2>2
  <2> QED
    BY <1>2, <2>1, <2>2, <2>3 DEF DueRow
<1>5. parcel' \in [Parcels -> ParcelRow]
  <2>1. parcel' = [j \in Parcels |-> parcel'[j]]
    BY <1>1
  <2> QED
    BY <1>3, <2>1
<1>6. due' \in [Dues -> DueRow]
  <2>1. due' = [d \in Dues |-> due'[d]]
    BY <1>1
  <2> QED
    BY <1>4, <2>1
<1>7. Settles(k)
  BY <1>1, <1>3, <1>4 DEF Settles
<1> QED
  BY <1>5, <1>6, <1>7

LEMMA SettleTyped == ASSUME CourierTyped, settle PROVE CourierTyped'
<1>1. PICK k \in unsettledShipments : Settles(k)
  BY SettleWrites
<1>2. parcel' \in [Parcels -> ParcelRow] /\ due' \in [Dues -> DueRow]
  BY SettleWrites
<1>3. UNCHANGED <<codOrder, truth, job, heard>> /\ UNCHANGED <<stops, cut>>
  BY DEF settle, history
<1>4. OneOpenDue'
  <2>1. OpenDues' = OpenDues
    BY <1>1 DEF Settles, OpenDues
  <2> QED
    BY <2>1 DEF OneOpenDue, CourierTyped
<1>5. cash' \in Int /\ banked' \in Nat
  <2>1. PICK n \in Nat : n = codOf(k)
    BY CodOfTyped DEF unsettledShipments, Shipped
  <2>2. PICK r \in Nat, e \in Nat : r = Reached(unsettledShipments)
                                     /\ e = Expected(unsettledShipments)
    BY SettledAmounts DEF unsettledShipments, Shipped
  <2>3. PICK c \in {0, 1} : c = Cardinality(OpenDues)
    BY FewDues DEF CourierTyped
  <2>4. PICK p \in Int : p = c * n
    OBVIOUS
  <2>5. cash' = cash + (IF n > 0 THEN p ELSE 0) + (r - e) /\ banked' = banked + r
    BY <1>1, <2>1, <2>2, <2>3, <2>4 DEF Settles
  <2>6. cash \in Int /\ banked \in Nat
    BY DEF CourierTyped
  <2> QED
    BY <2>5, <2>6
<1> QED
  BY <1>2, <1>3, <1>4, <1>5 DEF CourierTyped

LEMMA TypedStep == CourierTyped /\ [CourierNext]_courierVars => CourierTyped'
<1> SUFFICES ASSUME CourierTyped, [CourierNext]_courierVars PROVE CourierTyped'
  OBVIOUS
<1>1. CASE progress
  BY <1>1, BookTyped, StoreTyped, ProcessTyped, MoveTyped, OpenTyped, ResizeTyped, PayTyped
     DEF progress
<1>2. CASE \E k \in Parcels :
              reconcile(k) \/ applyPayout(k) \/ track(k) \/ cancelOrReturn(k) \/ carry(k)
  BY <1>2, ReconcileTyped, PayoutTyped, TrackTyped, CancelTyped, CarryTyped
<1>3. CASE \E s \in {"PROCESSING", "COMPLETED", "CANCELED"} : staffUpdateStatus(s)
  BY <1>3, StaffTyped
<1>4. CASE UNCHANGED courierVars
  BY <1>4 DEF courierVars, history, CourierTyped, OneOpenDue, OpenDues
<1> QED
  BY <1>1, <1>2, <1>3, <1>4, DispatchTyped, WebhookTyped, SettleTyped, CrashTyped
     DEF CourierNext

Refusable == refused \subseteq Parcels \X {"void", "open"}

LEMMA RefusedTyped ==
    ASSUME CourierTyped, Refusable, [CourierNext]_courierVars
    PROVE  Refusable'
<1>1. CASE openCodReceivable \/ resizeCodReceivable
  <2>1. job.k \in Parcels
    BY <1>1 DEF openCodReceivable, resizeCodReceivable, CourierTyped
  <2>2. refused' \subseteq refused \cup {<<job.k, "void">>, <<job.k, "open">>}
    BY <1>1 DEF openCodReceivable, resizeCodReceivable, refuse
  <2> QED
    BY <2>1, <2>2 DEF Refusable
<1>2. CASE ~(openCodReceivable \/ resizeCodReceivable)
  <2>1. refused' = refused
    <3>1. CASE progress
      BY <1>2, <3>1 DEF progress, book, store, process, moveOrder, capturePayment, history
    <3>2. CASE \E k \in Parcels :
                  reconcile(k) \/ applyPayout(k) \/ track(k) \/ cancelOrReturn(k) \/ carry(k)
      BY <3>2 DEF reconcile, applyPayout, track, cancelOrReturn, carry, history
    <3>3. CASE \E s \in {"PROCESSING", "COMPLETED", "CANCELED"} : staffUpdateStatus(s)
      BY <3>3 DEF staffUpdateStatus, history
    <3>4. CASE dispatch \/ webhook \/ settle \/ crash
      BY <3>4 DEF dispatch, webhook, settle, crash, history
    <3>5. CASE UNCHANGED courierVars
      BY <3>5 DEF courierVars, history
    <3> QED
      BY <3>1, <3>2, <3>3, <3>4, <3>5 DEF CourierNext
  <2> QED
    BY <2>1 DEF Refusable
<1> QED
  BY <1>1, <1>2

LEMMA TypedInit == CourierInit => CourierTyped
<1> SUFFICES ASSUME CourierInit PROVE CourierTyped
  OBVIOUS
<1>1. NoParcel \in ParcelRow
  BY Amounts DEF NoParcel, NewParcel, ParcelRow
<1>2. [amount |-> 0, paid |-> 0, open |-> FALSE] \in DueRow
  BY Amounts DEF DueRow
<1>3. parcel \in [Parcels -> ParcelRow] /\ due \in [Dues -> DueRow]
  BY <1>1, <1>2 DEF CourierInit
<1>4. OneOpenDue
  BY DEF CourierInit, OneOpenDue, OpenDues
<1>5. job \in Job /\ job = NoJob /\ job.at = "none"
  BY NoJobTyped DEF CourierInit, NoJob
<1>6. codOrder \in OrderRow
  BY DEF CourierInit, OrderRow, ActiveOrderStatuses
<1>7. heard \in [Parcels -> Words] /\ truth \in [Parcels -> {"none", "carried"} \cup Ends]
  BY DEF CourierInit, Words
<1>8. cash \in Int /\ banked \in Nat /\ stops \in Nat
  BY DEF CourierInit
<1>10. cut \in BOOLEAN
  BY DEF CourierInit
<1>9. job.at # "book" /\ job.at # "store" /\ job.at # "open"
  BY <1>5
<1> QED
  BY <1>3, <1>4, <1>5, <1>6, <1>7, <1>8, <1>9, <1>10 DEF CourierTyped

\* Every column, job and counter keeps its type whatever the practices: above
\* all, no more than one receivable of the order is open at a time, although a
\* resized one is voided and opened again by two writes (openCodReceivable).
THEOREM CourierRowsTyped == CourierSpec => []CourierTypeOK
<1>1. CourierTyped /\ Refusable => CourierTypeOK
  <2> SUFFICES ASSUME CourierTyped, Refusable PROVE CourierTypeOK
    OBVIOUS
  <2>1. Cardinality(OpenDues) <= 1
    <3>1. Cardinality(OpenDues) \in {0, 1}
      BY FewDues DEF CourierTyped
    <3> QED
      BY <3>1
  <2>2. job.at \in CourierPlaces
    BY DEF CourierTyped, Job
  <2> QED
    BY <2>1, <2>2, Zenon DEF CourierTyped, CourierTypeOK, CourierPlaces, Words, OrderRow, ParcelRow,
       DueRow, Refusable
<1>2. CourierInit => Refusable
  BY DEF CourierInit, Refusable
<1>3. CourierTyped /\ Refusable /\ [CourierNext]_courierVars => Refusable'
  BY RefusedTyped
<1> QED
  BY <1>1, <1>2, <1>3, TypedInit, TypedStep, PTL DEF CourierSpec

-----------------------------------------------------------------------------
(* What the rows say of each other                                         *)

LEMMA AllPlaces ==
    ASSUME CourierTyped
    PROVE  /\ job.at \in CourierPlaces /\ job.word \in Words /\ job.k \in 0..MaxParcels
           /\ job.cod \in Int /\ job.cod <= CodTotal
BY Amounts DEF CourierTyped, Job

LEMMA RowFields ==
    ASSUME CourierTyped, NEW k \in Parcels
    PROVE  /\ parcel[k].cod \in 0..CodTotal /\ parcel[k].collected \in Unknown..CodTotal
           /\ parcel[k].settled \in Unknown..CodTotal
<1>1. parcel[k] \in ParcelRow
  BY DEF CourierTyped
<1> QED
  BY <1>1 DEF ParcelRow

\* A parcel about which nothing is written is judged as before.
LEMMA SameParcel ==
    ASSUME NEW x \in Parcels, parcel'[x] = parcel[x], truth'[x] = truth[x], heard'[x] = heard[x]
    PROVE  /\ Taken(x)' = Taken(x) /\ codOf(x)' = codOf(x)
           /\ (Told(x)' <=> Told(x)) /\ (Back(x)' <=> Back(x)) /\ (Ended(x)' <=> Ended(x))
           /\ (x \in Shipped)' <=> x \in Shipped
           /\ (x \in Booked)' <=> x \in Booked
           /\ (Carried(x)' <=> Carried(x)) /\ (Pending(x)' <=> Pending(x))
           /\ ParcelKnown(x) => ParcelKnown(x)'
<1>1. Taken(x)' = Taken(x)
  BY DEF Taken
<1>2. codOf(x)' = codOf(x)
  BY DEF codOf
<1>3. (x \in Shipped)' <=> x \in Shipped
  BY DEF Shipped
<1>4. (x \in Booked)' <=> x \in Booked
  BY DEF Booked
<1>5. Carried(x)' <=> Carried(x)
  BY <1>3, <1>4 DEF Carried
<1>6. (Told(x)' <=> Told(x)) /\ (Back(x)' <=> Back(x)) /\ (Ended(x)' <=> Ended(x))
  BY DEF Told, Back, Ended
<1>7. Pending(x)' <=> Pending(x)
  BY <1>2, <1>5 DEF Pending
<1>8. ParcelKnown(x) => ParcelKnown(x)'
  BY <1>1, <1>6 DEF ParcelKnown
<1> QED
  BY <1>1, <1>2, <1>3, <1>4, <1>5, <1>6, <1>7, <1>8

LEMMA NewestBooked == ASSUME NEW k, Newest(k) PROVE k \in Booked /\ k \in Parcels
BY DEF Newest, Booked

LEMMA OneNewest == ASSUME NEW j, NEW k, Newest(j), Newest(k) PROVE j = k
<1>1. j \in Nat /\ k \in Nat /\ j <= k /\ k <= j
  BY Amounts DEF Newest, Booked
<1> QED
  BY <1>1

\* The last parcel did not come back.
LEMMA NothingToClear == ASSUME NEW k \in Parcels, Newest(k), ~Back(k) PROVE Cleared
BY OneNewest DEF Cleared

LEMMA CodOfKnown ==
    ASSUME NEW k \in Parcels, ParcelKnown(k)
    PROVE  codOf(k) = IF Told(k) THEN Taken(k) ELSE parcel[k].cod
BY DEF ParcelKnown, codOf, Told

\* The parcel that the shop waits for is the last one, and nothing is settled.
LEMMA PendingFacts ==
    ASSUME CourierTyped, Rows, Ordered, NEW k \in Parcels, Pending(k)
    PROVE  /\ Newest(k) /\ ~Back(k) /\ parcel[k].cod = CodTotal /\ ~Batched
           /\ Told(k) => codOf(k) = Taken(k)
           /\ \A j \in Parcels : Newest(j) \/ Pending(j) => j = k
<1>1. ParcelKnown(k)
  BY DEF Rows
<1>2. ~Back(k)
  BY DEF Pending, Back, Ended
<1>3. Newest(k)
  BY <1>2 DEF Ordered, Pending, Carried
<1>4. parcel[k].cod = CodTotal
  <2>1. parcel[k].cod # 0
    BY <1>1, CodOfKnown, TakenTyped DEF Pending
  <2> QED
    BY <1>1, <2>1 DEF ParcelKnown
<1>5. ~Batched
  <2> SUFFICES ASSUME NEW j \in Parcels, parcel[j].batch PROVE FALSE
    BY DEF Batched
  <2>1. truth[j] \in {"delivered", "partial"}
    BY DEF Rows, ParcelKnown
  <2>2. Newest(j)
    BY <2>1 DEF Rows, InTurn, Ended, Booked
  <2>3. j = k
    BY <1>3, <2>2, OneNewest
  <2> QED
    BY <2>3 DEF Pending
<1>6. ASSUME NEW j \in Parcels, Newest(j) \/ Pending(j) PROVE j = k
  <2>1. Newest(j)
    BY <1>6 DEF Ordered, Pending, Carried, Back, Ended
  <2> QED
    BY <1>3, <2>1, OneNewest
<1> QED
  BY <1>1, <1>2, <1>3, <1>4, <1>5, <1>6, CodOfKnown

\* No parcel was written, only reports were taken in.
LEMMA SameBookings ==
    ASSUME UNCHANGED <<parcel, truth>>
    PROVE  /\ Booked' = Booked /\ Shipped' = Shipped /\ (Batched' <=> Batched)
           /\ \A k \in Parcels : /\ Taken(k)' = Taken(k) /\ codOf(k)' = codOf(k)
                                 /\ (Told(k)' <=> Told(k)) /\ (Newest(k)' <=> Newest(k))
                                 /\ (Carried(k)' <=> Carried(k))
                                 /\ (Ended(k)' <=> Ended(k))
<1>1. Booked' = Booked /\ Shipped' = Shipped /\ (Batched' <=> Batched)
  BY DEF Booked, Shipped, Batched
<1>2. ASSUME NEW k \in Parcels PROVE Taken(k)' = Taken(k) /\ codOf(k)' = codOf(k)
  BY DEF Taken, codOf
<1>3. ASSUME NEW k \in Parcels
      PROVE /\ (Told(k)' <=> Told(k)) /\ (Newest(k)' <=> Newest(k)) /\ (Carried(k)' <=> Carried(k))
            /\ (Ended(k)' <=> Ended(k))
  BY <1>1 DEF Told, Newest, Carried, Ended
<1> QED
  BY <1>1, <1>2, <1>3

LEMMA SameDue ==
    ASSUME UNCHANGED <<parcel, truth>>, NEW d \in Dues, DueKnown(d), due'[d] = due[d]
    PROVE  DueKnown(d)'
BY SameBookings DEF DueKnown, Booked

LEMMA SameRows ==
    ASSUME CourierTyped, Rows, UNCHANGED <<parcel, truth, heard, due>>
    PROVE  /\ Rows'
           /\ \A k \in Parcels : /\ (Back(k)' <=> Back(k)) /\ (Pending(k)' <=> Pending(k))
                                 /\ (Newest(k)' <=> Newest(k))
           /\ Ordered => \A k \in Booked' : Newest(k)' \/ Back(k)'
<1>1. \A k \in Parcels : /\ (Back(k)' <=> Back(k)) /\ (Pending(k)' <=> Pending(k))
                         /\ (Newest(k)' <=> Newest(k)) /\ (ParcelKnown(k) => ParcelKnown(k)')
  BY SameParcel, SameBookings
<1>2. \A d \in Dues : DueKnown(d)'
  BY SameDue DEF Rows
<1>3. InTurn'
  BY SameBookings DEF Rows, InTurn, Booked
<1>4. Ordered => \A k \in Booked' : Newest(k)' \/ Back(k)'
  BY <1>1, SameBookings DEF Ordered, Booked
<1> QED
  BY <1>1, <1>2, <1>3, <1>4 DEF Rows

LEMMA DispatchBooks ==
    ASSUME CourierTyped, Books, "early_resend" \notin Practices, dispatch
    PROVE  Books'
<1>1. /\ Rows'
      /\ \A k \in Parcels : /\ (Back(k)' <=> Back(k)) /\ (Pending(k)' <=> Pending(k))
                            /\ (Newest(k)' <=> Newest(k))
      /\ Ordered => \A k \in Booked' : Newest(k)' \/ Back(k)'
  BY SameRows DEF dispatch, history, Books
<1>2. PICK k \in Parcels :
        /\ k \notin Shipped \cup Booked
        /\ 1..(k - 1) \subseteq Shipped \cup Booked
        /\ job' = [at |-> "book", k |-> k, word |-> "none", seen |-> codOrder.status,
                   cod |-> IF codOrder.pay = "PENDING" THEN CodTotal ELSE 0]
  BY DEF dispatch
<1>3. /\ job'.at = "book" /\ job'.k = k /\ job'.word = "none" /\ job'.cod \in {0, CodTotal}
  BY <1>2
<1>4. \A j \in Booked : Back(j) /\ j < k
  <2> SUFFICES ASSUME NEW j \in Booked PROVE Back(j) /\ j < k
    OBVIOUS
  <2>1. Back(j)
    BY DEF dispatch, MayResend, Back, Ended
  <2>2. ~(k < j)
    BY <1>2 DEF Books, Rows, InTurn
  <2>3. k # j /\ k \in Int /\ j \in Int
    BY <1>2, Amounts DEF Booked
  <2> QED
    BY <2>1, <2>2, <2>3
<1>5. \A j \in Parcels : j < k => j \in Shipped \cup Booked
  <2> SUFFICES ASSUME NEW j \in Parcels, j < k PROVE j \in 1..(k - 1)
    BY <1>2
  <2> QED
    BY Amounts
<1>6. Booked' = Booked /\ Shipped' = Shipped
  BY SameBookings DEF dispatch
<1>7. JobKnown'
  <2>1. \A j \in Booked : Ended(j)'
    BY <1>4, SameBookings DEF Booked, Back, dispatch
  <2> QED
    BY <1>2, <1>3, <1>4, <1>5, <1>6, <2>1 DEF JobKnown
<1>8. cash' = cash /\ banked' = banked /\ cut' = cut /\ refused' = refused /\ OpenDues' = OpenDues
  BY DEF dispatch, history, OpenDues
<1>9. Practices = {} /\ ~cut => Owing'
  BY <1>1, <1>3, <1>6, <1>8 DEF Books, InStep, Owing, Cleared, accepted, Booked
<1>10. Practices = {} => Ordered'
  <2>1. \A j \in Booked' : Back(j)'
    BY <1>1, <1>4, <1>6 DEF Booked
  <2> QED
    BY <1>3, <2>1 DEF Ordered
<1> QED
  BY <1>1, <1>7, <1>8, <1>9, <1>10 DEF Books, InStep, Booking, accepted

LEMMA ProcessBooks ==
    ASSUME CourierTyped, Books, process
    PROVE  Books'
<1>1. /\ Rows'
      /\ \A k \in Parcels : /\ (Back(k)' <=> Back(k)) /\ (Pending(k)' <=> Pending(k))
                            /\ (Newest(k)' <=> Newest(k))
      /\ Ordered => \A k \in Booked' : Newest(k)' \/ Back(k)'
  BY SameRows DEF process, history, Books
<1>2. PICK k \in Parcels : k = job.k
  BY DEF process, CourierTyped
<1>3. /\ Carried(k) /\ Newest(k) /\ heard[k] = "none"
      /\ job.cod = parcel[k].cod /\ job.word = "none" /\ job.at = "process"
  BY <1>2 DEF process, Books, JobKnown
<1>4. /\ Carried(k)' /\ Newest(k)' /\ heard'[k] = "none" /\ parcel'[k].cod = parcel[k].cod
      /\ Booked' = Booked
  BY <1>3, SameBookings DEF process, history
<1>5. cash' = cash /\ banked' = banked /\ cut' = cut /\ refused' = refused /\ OpenDues' = OpenDues
  BY DEF process, history, OpenDues
<1>6. CASE job.cod > 0
  <2>1. job' = [job EXCEPT !.at = "open"] /\ job \in Job
    BY <1>6 DEF process, CourierTyped
  <2>2. /\ job'.at = "open" /\ job'.k = k /\ job'.word = "none" /\ job'.cod = parcel[k].cod
    BY <1>2, <1>3, <2>1, JobTyped DEF CourierPlaces
  <2>3. JobKnown'
    BY <1>4, <2>2 DEF JobKnown
  <2>4. Practices = {} /\ ~cut => Owing'
    <3> SUFFICES ASSUME Practices = {}, ~cut PROVE Owing'
      OBVIOUS
    <3>1. Owing
      BY DEF Books, InStep
    <3>2. Cleared'
      BY <1>1, <1>4, <1>5, <3>1 DEF Owing, Cleared, Booked, accepted
    <3>3. UNCHANGED <<due, heard>>
      BY DEF process, history
    <3>4. Unopened'
      BY <1>2, <1>3, <1>5, <2>2, <3>1, <3>3 DEF Owing, Unopened
    <3> QED
      BY <2>2, <3>2, <3>4 DEF Owing
  <2>5. Ordered => Ordered'
    BY <1>1, <2>2 DEF Ordered
  <2> QED
    BY <1>1, <1>5, <2>3, <2>4, <2>5 DEF Books, InStep, Booking, accepted
<1>7. CASE ~(job.cod > 0)
  <2>1. job' = NoJob /\ job'.at = "none"
    BY <1>7 DEF process, NoJob
  <2>2. JobKnown'
    BY <2>1 DEF JobKnown
  <2>3. Ordered => ~Pending(k)
    <3>1. ASSUME Ordered, Pending(k) PROVE FALSE
      <4>1. parcel[k].cod = CodTotal
        BY <3>1, PendingFacts DEF Books
      <4> QED
        BY <1>3, <1>7, <4>1, Amounts
    <3> QED
      BY <3>1
  <2>4. Ordered => \A j \in Parcels : ~Pending(j)
    BY <1>3, <2>3, PendingFacts DEF Books
  <2>5. Practices = {} /\ ~cut => Owing'
    BY <1>1, <1>3, <1>4, <1>5, <2>1, <2>4 DEF Books, InStep, Owing, Cleared, accepted, Booked
  <2>6. Ordered => Ordered'
    BY <1>1, <2>1 DEF Ordered
  <2> QED
    BY <1>1, <1>5, <2>2, <2>5, <2>6 DEF Books, InStep, Booking, accepted
<1> QED
  BY <1>6, <1>7

\* A report about parcel k is taken in.
LEMMA TakenIn ==
    ASSUME CourierTyped, Rows, NEW k \in Parcels, Carried(k), job.k = k, done,
           \/ job.word = "none"
           \/ job.word \in Ends /\ truth[k] = job.word
           \/ job.word = "in_transit",
           UNCHANGED <<parcel, truth>>
    PROVE  /\ InTurn' /\ \A j \in Parcels : ParcelKnown(j)'
           /\ JobKnown' /\ job'.at = "none"
           /\ \A j \in Parcels \ {k} : /\ heard'[j] = heard[j] /\ (Back(j)' <=> Back(j))
                                       /\ (Pending(j)' <=> Pending(j))
           /\ heard'[k] = IF job.word = "none" THEN heard[k] ELSE job.word
           /\ Ordered /\ Newest(k) => Ordered'
<1>1. heard \in [Parcels -> Words]
  BY DEF CourierTyped
<1>2. \A j \in Parcels \ {k} : heard'[j] = heard[j]
  BY <1>1 DEF done
<1>3. heard'[k] = IF job.word = "none" THEN heard[k] ELSE job.word
  BY <1>1 DEF done
<1>4. \A j \in Parcels \ {k} : /\ ParcelKnown(j)' /\ (Back(j)' <=> Back(j))
                               /\ (Pending(j)' <=> Pending(j))
  BY <1>2, SameParcel DEF Rows
<1>5. ParcelKnown(k)'
  <2>1. Taken(k)' = Taken(k) /\ (Told(k)' <=> Told(k))
    BY SameBookings
  <2>2. truth[k] # "none" /\ parcel[k].status # "none"
    BY DEF Carried, Shipped, Booked
  <2>3. heard'[k] \in Ends => truth[k] = heard'[k]
    BY <1>3 DEF Rows, ParcelKnown, Ends
  <2> QED
    BY <2>1, <2>2, <2>3 DEF Rows, ParcelKnown
<1>6. InTurn'
  BY SameBookings DEF Rows, InTurn, Booked
<1>7. job'.at = "none" /\ JobKnown'
  BY DEF done, NoJob, JobKnown
<1>8. Ordered /\ Newest(k) => Ordered'
  BY <1>4, <1>7, SameBookings DEF Ordered, Booked
<1> QED
  BY <1>2, <1>3, <1>4, <1>5, <1>6, <1>7, <1>8

LEMMA MoveBooks ==
    ASSUME CourierTyped, Books, moveOrder
    PROVE  Books'
<1>1. PICK k \in Parcels : k = job.k
  BY DEF moveOrder, CourierTyped
<1>2. /\ Carried(k) /\ job.at = "move"
      /\ job.word \in {"in_transit"} \cup Ends
      /\ job.word \in Ends => truth[k] = job.word
      /\ Practices = {} => Ordered /\ Newest(k)
      /\ Practices = {} /\ job.word = "in_transit" => heard[k] \notin Ends
  BY <1>1 DEF moveOrder, Books, JobKnown, InStep, Ordered
<1>3. UNCHANGED <<parcel, truth, due, cash, banked, cut, refused>> /\ OpenDues' = OpenDues
  BY DEF moveOrder, OpenDues
<1>4. /\ Carried(k)' /\ (Newest(k)' <=> Newest(k)) /\ Booked' = Booked /\ Taken(k)' = Taken(k)
      /\ Told(k)' <=> Told(k)
  BY <1>2, <1>3, SameBookings
<1>5. job \in Job /\ "pay" \in CourierPlaces /\ "resize" \in CourierPlaces
  BY DEF CourierTyped, CourierPlaces
<1>6. CASE job.word = "delivered"
  <2>1. job' = [job EXCEPT !.at = "pay"] /\ UNCHANGED heard
    BY <1>6 DEF moveOrder
  <2>2. job'.at = "pay" /\ job'.k = k /\ job'.word = "delivered"
    BY <1>1, <1>5, <1>6, <2>1, JobTyped
  <2>3. /\ Rows'
        /\ \A j \in Parcels : /\ (Back(j)' <=> Back(j)) /\ (Pending(j)' <=> Pending(j))
                              /\ (Newest(j)' <=> Newest(j))
        /\ Ordered => \A j \in Booked' : Newest(j)' \/ Back(j)'
    BY <1>3, <2>1, SameRows DEF Books
  <2>4. JobKnown'
    BY <1>2, <1>3, <1>4, <1>6, <2>2 DEF JobKnown, Ends
  <2>5. ASSUME NEW j \in Parcels, Owed(j, heard[j]) PROVE Owed(j, "delivered")'
    <3>1. Taken(j)' = Taken(j)
      BY <1>3, SameBookings
    <3> QED
      BY <1>3, <2>5, <3>1 DEF Owed
  <2>6. Practices = {} /\ ~cut => Owing'
    BY <1>2, <1>3, <1>4, <1>6, <2>2, <2>3, <2>5 DEF Books, InStep, Owing, Cleared, accepted, Booked
  <2>7. Practices = {} => Ordered'
    BY <1>2, <2>2, <2>3 DEF Ordered
  <2> QED
    BY <1>3, <2>3, <2>4, <2>6, <2>7 DEF Books, InStep, Booking, accepted
<1>7. CASE job.word # "delivered" /\ job.word \in Ends
  <2>1. job' = [job EXCEPT !.at = "resize"] /\ UNCHANGED heard
    BY <1>7 DEF moveOrder
  <2>2. job'.at = "resize" /\ job'.k = k /\ job'.word = job.word /\ job'.cod = job.cod
    BY <1>1, <1>5, <2>1, JobTyped
  <2>3. /\ Rows'
        /\ \A j \in Parcels : /\ (Back(j)' <=> Back(j)) /\ (Pending(j)' <=> Pending(j))
                              /\ (Newest(j)' <=> Newest(j))
        /\ Ordered => \A j \in Booked' : Newest(j)' \/ Back(j)'
    BY <1>3, <2>1, SameRows DEF Books
  <2>4. JobKnown'
    BY <1>1, <1>2, <1>3, <1>4, <1>7, <2>2 DEF JobKnown, Ends, AmountKnown, Books
  <2>5. ASSUME NEW j \in Parcels, OwedAny(j) PROVE OwedAny(j)'
    <3>1. Taken(j)' = Taken(j)
      BY <1>3, SameBookings
    <3> QED
      BY <1>3, <2>5, <3>1 DEF OwedAny
  <2>6. Practices = {} /\ ~cut => Owing'
    BY <1>2, <1>3, <1>4, <1>7, <2>2, <2>3, <2>5 DEF Books, InStep, Owing, Cleared, accepted, Booked
  <2>7. Practices = {} => Ordered'
    BY <1>2, <1>4, <2>2, <2>3 DEF Ordered
  <2> QED
    BY <1>3, <2>3, <2>4, <2>6, <2>7 DEF Books, InStep, Booking, accepted
<1>8. CASE job.word = "in_transit"
  <2>1. done
    BY <1>8 DEF moveOrder, Ends
  <2>2. /\ InTurn' /\ \A j \in Parcels : ParcelKnown(j)'
        /\ JobKnown' /\ job'.at = "none"
        /\ \A j \in Parcels \ {k} : /\ heard'[j] = heard[j] /\ (Back(j)' <=> Back(j))
                                    /\ (Pending(j)' <=> Pending(j))
        /\ heard'[k] = "in_transit"
        /\ Practices = {} => Ordered'
    BY <1>1, <1>2, <1>3, <1>8, <2>1, TakenIn DEF Books
  <2>3. Rows'
    BY <1>3, <2>2, SameDue DEF Books, Rows
  <2>4. Practices = {} => ~Back(k) /\ ~Back(k)'
    BY <1>2, <1>3, <1>8, <2>2 DEF Back, Ended, Ends
  <2>5. Practices = {} => (Pending(k)' <=> Pending(k))
    <3>1. codOf(k)' = codOf(k) /\ (Carried(k)' <=> Carried(k))
      BY <1>3, SameBookings
    <3> QED
      BY <1>2, <1>3, <1>8, <2>2, <3>1 DEF Pending, Ends
  <2>6. ASSUME NEW j \in Parcels, Owed(j, heard[j]) PROVE Owed(j, heard[j])'
    <3>1. Taken(j)' = Taken(j)
      BY <1>3, SameBookings
    <3>2. heard'[j] = "partial" => heard[j] = "partial"
      BY <2>2
    <3> QED
      BY <1>3, <2>6, <3>1, <3>2 DEF Owed, accepted
  <2>7. ASSUME Practices = {}, ~cut PROVE Owing'
    <3>1. Owing
      BY <2>7 DEF Books, InStep
    <3>2. \A j \in Parcels : /\ (Newest(j)' <=> Newest(j)) /\ (Back(j)' => Back(j))
                             /\ (Pending(j)' <=> Pending(j))
      BY <1>3, <2>2, <2>4, <2>5, <2>7, SameBookings
    <3>3. Cleared'
      BY <1>3, <1>4, <3>1, <3>2 DEF Owing, Cleared, Booked, accepted
    <3>4. ASSUME NEW j \in Parcels, Pending(j)', accepted(j, "open")' PROVE Owed(j, heard[j])'
      <4>1. Owed(j, heard[j])
        BY <1>2, <1>3, <1>8, <3>1, <3>2, <3>4 DEF Owing, accepted
      <4> QED
        BY <2>6, <4>1
    <3> QED
      BY <2>2, <3>3, <3>4 DEF Owing
  <2> QED
    BY <1>3, <2>2, <2>3, <2>7 DEF Books, InStep, Booking, accepted
<1> QED
  BY <1>2, <1>6, <1>7, <1>8

LEMMA PayBooks ==
    ASSUME CourierTyped, Books, capturePayment
    PROVE  Books'
<1>1. PICK k \in Parcels : k = job.k
  BY DEF capturePayment, CourierTyped
<1>2. /\ Carried(k) /\ Newest(k) /\ job.at = "pay"
      /\ job.word \in {"delivered", "partial"} /\ truth[k] = job.word
  BY <1>1 DEF capturePayment, Books, JobKnown, Rows, InTurn, Ended, Carried
<1>3. UNCHANGED <<parcel, truth, due, cash, banked, cut, refused>> /\ OpenDues' = OpenDues
  BY DEF capturePayment, OpenDues
<1>4. /\ InTurn' /\ \A j \in Parcels : ParcelKnown(j)'
      /\ JobKnown' /\ job'.at = "none"
      /\ \A j \in Parcels \ {k} : /\ heard'[j] = heard[j] /\ (Back(j)' <=> Back(j))
                                  /\ (Pending(j)' <=> Pending(j))
      /\ heard'[k] = job.word /\ (Ordered => Ordered')
  BY <1>1, <1>2, <1>3, TakenIn DEF Books, capturePayment, Ends
<1>5. Rows'
  BY <1>3, <1>4, SameDue DEF Books, Rows
<1>6. ~Back(k)' /\ k \in Booked /\ Booked' = Booked
  BY <1>2, <1>3, SameBookings DEF Back, Ended, Carried
<1>7. Pending(k)' => Pending(k)
  <2>1. codOf(k)' = codOf(k) /\ (Carried(k)' <=> Carried(k))
    BY <1>3, SameBookings
  <2>2. heard[k] \notin {"returned", "cancelled"}
    BY <1>2 DEF Books, Rows, ParcelKnown, Ends
  <2> QED
    BY <1>3, <2>1, <2>2 DEF Pending
<1>8. Owed(k, job.word) => Owed(k, heard[k])'
  <2>1. Taken(k)' = Taken(k)
    BY <1>3, SameBookings
  <2> QED
    BY <1>3, <1>4, <2>1 DEF Owed, accepted
<1>9. ASSUME Ordered, NEW j \in Parcels, Pending(j)' PROVE j = k
  <2>1. Pending(j)
    BY <1>4, <1>7, <1>9
  <2> QED
    BY <1>2, <1>9, <2>1, PendingFacts DEF Books
<1>10. ASSUME Practices = {}, ~cut PROVE Owing'
  <2> Ordered /\ Owing
    BY <1>10 DEF Books, InStep
  <2>1. Cleared'
    <3>1. \A j \in Parcels : Newest(j)' <=> Newest(j)
      BY <1>3, SameBookings
    <3> QED
      BY <1>2, <1>6, <3>1, OneNewest DEF Cleared, Booked
  <2>2. ASSUME NEW j \in Parcels, Pending(j)', accepted(j, "open")' PROVE Owed(j, heard[j])'
    <3>1. j = k /\ Pending(k) /\ accepted(k, "open")
      BY <1>3, <1>7, <1>9, <2>2 DEF accepted
    <3>2. Owed(k, job.word)
      BY <1>2, <3>1 DEF Owing
    <3> QED
      BY <1>8, <3>1, <3>2
  <2> QED
    BY <1>4, <2>1, <2>2 DEF Owing
<1> QED
  BY <1>3, <1>4, <1>5, <1>10 DEF Books, InStep, Booking, accepted

LEMMA OpenBooks ==
    ASSUME CourierTyped, Books, openCodReceivable
    PROVE  Books'
<1>1. PICK k \in Parcels : k = job.k
  BY DEF openCodReceivable, CourierTyped
<1>2. /\ Carried(k) /\ Newest(k) /\ job.at = "open" /\ job.cod > 0
      /\ \/ job.word = "none" /\ heard[k] = "none" /\ job.cod = parcel[k].cod
         \/ /\ job.word \in {"none", "partial"} /\ truth[k] = "partial"
            /\ job.cod = Taken(k) /\ Told(k)
  BY <1>1 DEF openCodReceivable, Books, JobKnown, AmountKnown, CourierTyped
<1>3. UNCHANGED <<parcel, truth, cash, banked, cut>>
  BY DEF openCodReceivable
<1>4. /\ Booked' = Booked /\ (Batched' <=> Batched) /\ Carried(k)' /\ Newest(k)'
      /\ \A j \in Parcels : /\ Taken(j)' = Taken(j) /\ codOf(j)' = codOf(j)
                            /\ (Told(j)' <=> Told(j))
  BY <1>2, <1>3, SameBookings
<1>5. \/ job.cod = CodTotal
      \/ truth[k] = "partial" /\ job.cod = Taken(k) /\ Told(k)
  <2>1. parcel[k].cod \in {0, CodTotal}
    BY DEF Books, Rows, ParcelKnown
  <2> QED
    BY <1>2, <2>1
<1>6. \A d \in Dues : DueKnown(d)'
  <2>1. CASE UNCHANGED due
    BY <1>3, <2>1, SameDue DEF Books, Rows
  <2>2. CASE ~UNCHANGED due
    <3>1. PICK d \in Dues :
            /\ due'[d] = [amount |-> job.cod, paid |-> 0, open |-> TRUE]
            /\ \A e \in Dues \ {d} : due'[e] = due[e]
      BY <2>2, OpenedDue
    <3>2. \A e \in Dues \ {d} : DueKnown(e)'
      BY <1>3, <3>1, SameDue DEF Books, Rows
    <3>3. PICK n \in Int : n = job.cod
      BY AllPlaces
    <3>4. due'[d].amount = n /\ due'[d].paid = 0 /\ n > 0
      BY <1>2, <3>1, <3>3
    <3>5. \/ due'[d].amount = CodTotal
          \/ /\ k \in Booked' /\ truth'[k] = "partial" /\ due'[d].amount = Taken(k)'
             /\ Told(k)'
      BY <1>2, <1>3, <1>4, <1>5, <3>3, <3>4 DEF Carried
    <3>6. due'[d].paid <= due'[d].amount /\ ~(due'[d].paid > 0) /\ due'[d].amount > 0
      BY <3>3, <3>4
    <3>7. DueKnown(d)'
      BY <3>5, <3>6 DEF DueKnown
    <3> QED
      BY <3>2, <3>7
  <2> QED
    BY <2>1, <2>2
<1>7. ~Back(k) /\ heard[k] \notin {"returned", "cancelled"}
  BY <1>2 DEF Back, Ended, Books, Rows, ParcelKnown, Ends
<1>8. ASSUME NEW word, Unopened, accepted(k, "open")',
             word = job.word \/ word = heard[k],
             word = "none" \/ (truth[k] = "partial" /\ job.cod = Taken(k))
      PROVE  Owed(k, word)'
  <2>1. CASE OpenDues # {}
    <3>1. PICK d \in OpenDues : due[d].amount = CodTotal /\ job.word = "none" /\ heard[k] = "none"
      BY <1>1, <1>8, <2>1 DEF Unopened
    <3>2. d \in OpenDues' /\ due'[d].amount = CodTotal /\ word # "partial"
      BY <1>8, <2>1, <3>1, OpenedDue
    <3> QED
      BY <3>2 DEF Owed
  <2>2. CASE OpenDues = {}
    <3>1. refused' # refused \cup {<<k, "open">>}
      BY <1>8 DEF accepted
    <3>2. PICK d \in Dues : due'[d].amount = job.cod /\ d \in OpenDues'
      BY <1>1, <2>2, <3>1, OpenedDue
    <3>3. \/ due'[d].amount = Taken(k)' /\ truth'[k] = "partial"
          \/ due'[d].amount = CodTotal /\ word = "none"
      BY <1>3, <1>4, <1>5, <1>8, <3>2
    <3> QED
      BY <3>2, <3>3 DEF Owed
  <2> QED
    BY <2>1, <2>2
<1>14. ASSUME Practices = {}, ~cut PROVE Ordered /\ Unopened
  BY <1>2, <1>14 DEF Books, InStep, Owing
<1>15. ASSUME Practices = {}, ~cut PROVE Booking'
  <2>1. refused \subseteq refused'
    BY OpenedDue
  <2>2. cash' = cash /\ banked' = banked /\ Booking
    BY <1>3, <1>15 DEF Books, InStep
  <2> QED
    BY <2>1, <2>2 DEF Booking, accepted
<1>16. (\A j \in Parcels : Newest(j)' <=> Newest(j)) /\ (~Back(k)' => Cleared')
  <2>1. \A j \in Parcels : Newest(j)' <=> Newest(j)
    BY <1>3, SameBookings
  <2> QED
    BY <1>2, <1>4, <2>1, OneNewest DEF Cleared, Booked
<1>9. CASE job.word = "partial"
  <2>1. job' = [job EXCEPT !.at = "pay"] /\ UNCHANGED heard /\ job \in Job
    BY <1>9 DEF openCodReceivable, afterwards, CourierTyped
  <2>2. job'.at = "pay" /\ job'.k = k /\ job'.word = "partial"
    BY <1>1, <1>9, <2>1, JobTyped DEF CourierPlaces
  <2>3. \A j \in Parcels : /\ ParcelKnown(j)' /\ (Back(j)' <=> Back(j))
                           /\ (Pending(j)' <=> Pending(j))
    BY <1>3, <2>1, SameParcel DEF Books, Rows
  <2>4. InTurn'
    BY <1>3, SameBookings DEF Books, Rows, InTurn, Booked
  <2>5. JobKnown'
    BY <1>2, <1>3, <1>4, <1>9, <2>2 DEF JobKnown
  <2>6. ASSUME Practices = {}, ~cut PROVE Owing'
    <3>1. Cleared'
      BY <1>4, <1>7, <1>16, <2>3
    <3>2. \A j \in Parcels : Pending(j)' => j = k
      BY <1>2, <1>14, <2>3, <2>6, PendingFacts DEF Books
    <3>3. accepted(k, "open")' => Owed(k, "partial")'
      BY <1>2, <1>8, <1>9, <1>14, <2>6
    <3> QED
      BY <2>2, <3>1, <3>2, <3>3 DEF Owing
  <2>7. Ordered => Ordered'
    BY <1>3, <2>2, <2>3, SameBookings DEF Ordered, Booked
  <2> QED
    BY <1>3, <1>6, <2>3, <2>4, <2>5, <2>6, <2>7, <1>15 DEF Books, Rows, InStep
<1>10. CASE job.word # "partial"
  <2>1. done /\ job.word = "none"
    BY <1>2, <1>10 DEF openCodReceivable, afterwards
  <2>2. /\ InTurn' /\ \A j \in Parcels : ParcelKnown(j)'
        /\ JobKnown' /\ job'.at = "none"
        /\ \A j \in Parcels \ {k} : /\ heard'[j] = heard[j] /\ (Back(j)' <=> Back(j))
                                    /\ (Pending(j)' <=> Pending(j))
        /\ heard'[k] = heard[k] /\ (Ordered => Ordered')
    BY <1>1, <1>2, <1>3, <2>1, TakenIn DEF Books
  <2>3. ASSUME Practices = {}, ~cut PROVE Owing'
    <3>1. (Back(k)' <=> Back(k)) /\ (Pending(k)' <=> Pending(k))
      BY <1>3, <2>2, SameParcel
    <3>2. Cleared'
      BY <1>7, <1>16, <3>1
    <3>3. \A j \in Parcels : Pending(j)' => j = k
      BY <1>2, <1>14, <2>2, <2>3, <3>1, PendingFacts DEF Books
    <3>4. PICK word : word = heard[k]
      OBVIOUS
    <3>5. accepted(k, "open")' => Owed(k, word)'
      BY <1>2, <1>8, <1>14, <2>3, <3>4
    <3>6. accepted(k, "open")' => Owed(k, heard[k])'
      BY <2>2, <3>4, <3>5 DEF Owed
    <3> QED
      BY <2>2, <3>2, <3>3, <3>6 DEF Owing
  <2> QED
    BY <1>3, <1>6, <1>15, <2>2, <2>3 DEF Books, Rows, InStep
<1> QED
  BY <1>9, <1>10

LEMMA ResizeBooks ==
    ASSUME CourierTyped, Books, resizeCodReceivable
    PROVE  Books'
<1>1. PICK k \in Parcels : k = job.k
  BY DEF resizeCodReceivable, CourierTyped
<1>2. /\ Carried(k) /\ job.at = "resize"
      /\ job.word \in {"none", "partial", "returned", "cancelled"}
      /\ truth[k] = IF job.word = "none" THEN "partial" ELSE job.word
      /\ Ordered => Newest(k)
      /\ truth[k] = "partial" => Newest(k)
  <2>1. /\ Carried(k) /\ job.at = "resize"
        /\ job.word \in {"none", "partial", "returned", "cancelled"}
        /\ truth[k] = IF job.word = "none" THEN "partial" ELSE job.word
    BY <1>1 DEF resizeCodReceivable, Books, JobKnown
  <2>2. Ordered => Newest(k)
    BY <1>1, <2>1 DEF Ordered
  <2>3. truth[k] = "partial" => Newest(k)
    BY <2>1 DEF Books, Rows, InTurn, Ended, Carried
  <2> QED
    BY <2>1, <2>2, <2>3
<1>3. /\ job.word \in {"none", "partial"} =>
            \/ job.cod = Taken(k) /\ Told(k)
            \/ job.word = "partial" /\ job.cod = Unknown /\ parcel[k].collected = Unknown
      /\ job.word \notin {"none", "partial"} => job.cod = 0
  BY <1>1, <1>2 DEF Books, JobKnown, AmountKnown
<1>4. UNCHANGED <<parcel, truth, cash, banked, cut>>
  BY DEF resizeCodReceivable
<1>5. /\ Booked' = Booked /\ (Batched' <=> Batched) /\ Carried(k)' /\ (Newest(k)' <=> Newest(k))
      /\ \A j \in Parcels : /\ Taken(j)' = Taken(j) /\ codOf(j)' = codOf(j)
                            /\ (Told(j)' <=> Told(j))
  BY <1>2, <1>4, SameBookings
<1>6. /\ \A d \in Dues : due'[d].amount = due[d].amount /\ due'[d].paid = due[d].paid
      /\ OpenDues' \subseteq OpenDues
      /\ refused' = refused \/ refused' = refused \cup {<<k, "void">>}
  BY <1>1, ResizedDues
<1>17. \/ /\ job.cod = Unknown \/ OtherDues = {}
          /\ afterwards /\ OpenDues' = OpenDues /\ refused' = refused
       \/ /\ job.cod # Unknown /\ OtherDues # {}
          /\ OpenDues' = OpenDues \ OtherDues /\ refused' = refused
          /\ \/ job.cod > 0 /\ job' = [job EXCEPT !.at = "open"] /\ UNCHANGED heard
             \/ ~(job.cod > 0) /\ afterwards
       \/ /\ job.cod # Unknown /\ OtherDues # {}
          /\ afterwards /\ OpenDues' = OpenDues /\ ~accepted(k, "void")'
  BY <1>1, ResizedDues DEF accepted
<1>7. \A d \in Dues : DueKnown(d)'
  <2> SUFFICES ASSUME NEW d \in Dues PROVE DueKnown(d)'
    OBVIOUS
  <2>1. DueKnown(d) /\ (due'[d].open => due[d].open)
    BY <1>6 DEF Books, Rows, OpenDues
  <2> QED
    BY <1>4, <1>5, <1>6, <2>1 DEF DueKnown, Booked
<1>8. job \in Job /\ "open" \in CourierPlaces /\ "pay" \in CourierPlaces
  BY DEF CourierTyped, CourierPlaces
<1>9. ASSUME UNCHANGED heard
      PROVE  /\ InTurn'
             /\ \A j \in Parcels : /\ ParcelKnown(j)' /\ (Back(j)' <=> Back(j))
                                   /\ (Pending(j)' <=> Pending(j))
  <2>1. \A j \in Parcels : /\ ParcelKnown(j)' /\ (Back(j)' <=> Back(j))
                           /\ (Pending(j)' <=> Pending(j))
    BY <1>4, <1>9, SameParcel DEF Books, Rows
  <2>2. InTurn'
    BY <1>4, SameBookings DEF Books, Rows, InTurn, Booked
  <2> QED
    BY <2>1, <2>2
<1>10. ASSUME afterwards, Ordered, Owing, Pending(k), accepted(k, "open"),
              job.word \in {"none", "partial"}
       PROVE  \A word : word = "partial" \/ word = heard[k] => Owed(k, word)'
  <2>1. OwedAny(k) /\ ~Batched /\ (Told(k) => codOf(k) = Taken(k)) /\ codOf(k) > 0
    <3>1. OwedAny(k)
      BY <1>2, <1>10 DEF Owing
    <3> QED
      BY <1>10, <3>1, PendingFacts DEF Books, Pending
  <2>2. PICK d \in OpenDues : \/ due[d].amount = Taken(k) /\ truth[k] = "partial"
                              \/ due[d].amount = CodTotal
    BY <2>1 DEF OwedAny
  <2>3. CASE OpenDues' = OpenDues /\ ~accepted(k, "void")'
    <3>1. \/ due'[d].amount = Taken(k)' /\ truth'[k] = "partial"
          \/ due'[d].amount = CodTotal
      BY <1>4, <1>5, <1>6, <2>2 DEF OpenDues
    <3> QED
      BY <2>2, <2>3, <3>1 DEF Owed
  <2>4. CASE OpenDues' = OpenDues /\ job.cod = Unknown /\ parcel[k].collected = Unknown
    <3>1. \/ due'[d].amount = Taken(k)' /\ truth'[k] = "partial"
          \/ due'[d].amount = CodTotal /\ parcel'[k].collected = Unknown
      BY <1>4, <1>5, <1>6, <2>2, <2>4 DEF OpenDues
    <3> QED
      BY <2>2, <2>4, <3>1 DEF Owed
  <2>5. CASE OpenDues' = OpenDues /\ OtherDues = {} /\ job.cod = Taken(k) /\ Told(k)
    <3>1. d \in OpenDues' /\ d \in Dues
      BY <2>2, <2>5 DEF OpenDues
    <3>2. due[d].paid = 0
      <4>1. due[d].paid \in Nat
        BY <3>1 DEF CourierTyped, DueRow
      <4>2. ~(due[d].paid > 0)
        BY <2>1, <3>1 DEF Books, Rows, DueKnown
      <4> QED
        BY <4>1, <4>2
    <3>3. due[d].amount = Taken(k)
      BY <2>2, <2>5, <3>2 DEF OtherDues
    <3>4. due'[d].amount = Taken(k)' /\ truth'[k] = "partial"
      BY <1>2, <1>4, <1>5, <1>6, <1>10, <3>1, <3>3
    <3> QED
      BY <3>1, <3>4 DEF Owed
  <2>6. \/ job.cod = Taken(k) /\ Told(k) /\ job.cod > 0 /\ job.cod # Unknown
        \/ job.cod = Unknown /\ parcel[k].collected = Unknown
    BY <1>3, <1>10, <2>1, Amounts
  <2>7. ~ \/ UNCHANGED heard /\ job' = [job EXCEPT !.at = "open"]
        \/ FALSE
    <3>1. job \in Job /\ job.at = "resize"
      BY <1>2 DEF CourierTyped
    <3>2. [job EXCEPT !.at = "open"].at = "open"
      BY <3>1 DEF Job
    <3>3. job'.at # "open"
      <4>1. CASE job.word = "partial"
        <5>1. job' = [job EXCEPT !.at = "pay"] /\ [job EXCEPT !.at = "pay"].at = "pay"
          BY <1>10, <3>1, <4>1 DEF afterwards, Job
        <5> QED
          BY <5>1
      <4>2. CASE job.word # "partial"
        BY <1>10, <4>2 DEF afterwards, done, NoJob
      <4> QED
        BY <4>1, <4>2
    <3> QED
      BY <3>2, <3>3
  <2> QED
    BY <1>17, <2>3, <2>4, <2>5, <2>6, <2>7
<1>14. ASSUME Practices = {} PROVE Ordered /\ (~cut => Owing)
  BY <1>14 DEF Books, InStep
<1>15. Ordered /\ UNCHANGED heard /\ job'.at \in {"none", "open", "pay"} => Ordered'
  BY <1>4, <1>9, SameBookings DEF Ordered, Booked
<1>16. ASSUME Practices = {}, ~cut PROVE Booking'
  <2>1. refused \subseteq refused'
    BY <1>6
  <2>2. cash' = cash /\ banked' = banked /\ Booking
    BY <1>4, <1>16 DEF Books, InStep
  <2> QED
    BY <2>1, <2>2 DEF Booking, accepted
<1>18. (\A j \in Parcels : Newest(j)' <=> Newest(j))
       /\ (Ordered /\ truth[k] = "partial" => Cleared')
  <2>1. \A j \in Parcels : Newest(j)' <=> Newest(j)
    BY <1>4, SameBookings
  <2>2. truth[k] = "partial" => ~Back(k)'
    BY <1>4 DEF Back, Ended
  <2> QED
    BY <1>2, <1>5, <2>1, <2>2, OneNewest DEF Cleared, Booked
<1>19. \A j \in Parcels : accepted(j, "open")' => accepted(j, "open")
  BY <1>6 DEF accepted
<1>11. CASE /\ job.cod # Unknown /\ OtherDues # {} /\ OpenDues' = OpenDues \ OtherDues
            /\ job.cod > 0 /\ job' = [job EXCEPT !.at = "open"] /\ UNCHANGED heard
  <2>1. job' = [job EXCEPT !.at = "open"] /\ UNCHANGED heard
    BY <1>11
  <2>2. job'.at = "open" /\ job'.k = k /\ job'.word = job.word /\ job'.cod = job.cod
    BY <1>1, <1>8, <2>1, JobTyped
  <2>3. job.word \in {"none", "partial"} /\ truth[k] = "partial"
        /\ job.cod = Taken(k) /\ Told(k)
    BY <1>2, <1>3, <1>11, Amounts
  <2>4. JobKnown'
    BY <1>2, <1>4, <1>5, <2>2, <2>3 DEF JobKnown, AmountKnown
  <2>5. OpenDues' = {}
    <3>1. OneOpenDue /\ OtherDues \subseteq OpenDues
      BY DEF OtherDues, CourierTyped
    <3> QED
      BY <1>11, <3>1 DEF OneOpenDue
  <2>6. Owing'
    BY <2>2, <2>5 DEF Owing, Unopened, Cleared
  <2> QED
    BY <1>4, <1>7, <1>9, <1>15, <1>16, <2>1, <2>2, <2>4, <2>6, <1>14 DEF Books, Rows, InStep
<1>12. CASE afterwards /\ job.word = "partial"
  <2>1. job' = [job EXCEPT !.at = "pay"] /\ UNCHANGED heard
    BY <1>12 DEF afterwards
  <2>2. job'.at = "pay" /\ job'.k = k /\ job'.word = "partial"
    BY <1>1, <1>8, <1>12, <2>1, JobTyped
  <2>3. JobKnown'
    BY <1>2, <1>4, <1>5, <1>12, <2>2 DEF JobKnown
  <2>4. ASSUME Practices = {}, ~cut PROVE Owing'
    <3> Ordered /\ Owing
      BY <1>14, <2>4
    <3>1. Cleared'
      BY <1>2, <1>12, <1>18
    <3>2. ASSUME NEW j \in Parcels, Pending(j)', accepted(j, "open")'
          PROVE  Owed(j, "partial")'
      <4>1. Pending(j) /\ j = k
        BY <1>2, <1>9, <2>1, <3>2, PendingFacts DEF Books
      <4> QED
        BY <1>10, <1>12, <1>19, <3>2, <4>1
    <3> QED
      BY <2>2, <3>1, <3>2 DEF Owing
  <2> QED
    BY <1>4, <1>7, <1>9, <1>14, <1>15, <1>16, <2>1, <2>2, <2>3, <2>4
       DEF Books, Rows, InStep
<1>13. CASE afterwards /\ job.word # "partial"
  <2>1. done
    BY <1>13 DEF afterwards
  <2>2. /\ InTurn' /\ \A j \in Parcels : ParcelKnown(j)'
        /\ JobKnown' /\ job'.at = "none"
        /\ \A j \in Parcels \ {k} : /\ heard'[j] = heard[j] /\ (Back(j)' <=> Back(j))
                                    /\ (Pending(j)' <=> Pending(j))
        /\ heard'[k] = IF job.word = "none" THEN heard[k] ELSE job.word
        /\ Ordered => Ordered'
    BY <1>1, <1>2, <1>4, <2>1, TakenIn DEF Books, Ends
  <2>3. CASE job.word = "none"
    <3>1. UNCHANGED heard
      BY <2>1, <2>3 DEF done
    <3>2. ASSUME Practices = {}, ~cut PROVE Owing'
      <4> Ordered /\ Owing
        BY <1>14, <3>2
      <4>1. Cleared'
        BY <1>2, <1>18, <2>3
      <4>2. ASSUME NEW j \in Parcels, Pending(j)', accepted(j, "open")'
            PROVE  Owed(j, heard[j])'
        <5>1. Pending(j) /\ j = k
          BY <1>2, <1>9, <3>1, <4>2, PendingFacts DEF Books
        <5>2. PICK word : word = heard[k]
          OBVIOUS
        <5>3. Owed(k, word)'
          BY <1>10, <1>13, <1>19, <2>3, <4>2, <5>1, <5>2
        <5> QED
          BY <3>1, <5>1, <5>2, <5>3 DEF Owed
      <4> QED
        BY <2>2, <4>1, <4>2 DEF Owing
    <3> QED
      BY <1>4, <1>7, <1>14, <1>16, <2>2, <3>2 DEF Books, Rows, InStep
  <2>4. CASE job.word \in {"returned", "cancelled"}
    <3>1. job.cod = 0 /\ job.cod # Unknown /\ heard'[k] = job.word
      BY <1>3, <2>2, <2>4, Amounts
    <3>2. ASSUME ~Batched, accepted(k, "void")' PROVE OpenDues' = {}
      <4>1. OpenDues \subseteq OtherDues
        <5> SUFFICES ASSUME NEW d \in OpenDues PROVE d \in OtherDues
          OBVIOUS
        <5>1. due[d].paid \in Nat /\ DueKnown(d) /\ due[d].open
          BY DEF CourierTyped, DueRow, OpenDues, Books, Rows
        <5>2. due[d].paid = 0 /\ due[d].amount # job.cod
          BY <3>1, <3>2, <5>1 DEF DueKnown
        <5> QED
          BY <5>2 DEF OtherDues
      <4>2. job.cod # Unknown /\ ~(job.cod > 0)
        BY <3>1
      <4> QED
        BY <1>17, <3>2, <4>1, <4>2
    <3>3. ASSUME Ordered, Back(k)' PROVE ~Batched
      <4> SUFFICES ASSUME NEW j \in Parcels, parcel[j].batch PROVE FALSE
        BY DEF Batched
      <4>1. truth[j] \in {"delivered", "partial"}
        BY DEF Books, Rows, ParcelKnown
      <4>2. Newest(j) /\ Newest(k)
        BY <1>2, <3>3, <4>1 DEF Ordered, Booked, Back, Ended
      <4>3. j = k
        BY <4>2, OneNewest
      <4> QED
        BY <1>4, <3>3, <4>1, <4>3 DEF Back, Ended
    <3>6. Ordered => Cleared'
      <4> SUFFICES ASSUME Ordered, NEW j \in Booked', Newest(j)', Back(j)', accepted(j, "void")'
                   PROVE  OpenDues' = {}
        BY DEF Cleared
      <4>1. j = k
        BY <1>2, <1>5, <1>18, OneNewest DEF Booked
      <4> QED
        BY <3>2, <3>3, <4>1
    <3>4. ASSUME Ordered, NEW j \in Parcels, Pending(j)' PROVE FALSE
      <4>1. j # k
        BY <2>4, <3>1, <3>4 DEF Pending
      <4>2. Pending(j)
        BY <2>2, <3>4, <4>1
      <4> QED
        BY <1>2, <3>4, <4>1, <4>2, PendingFacts DEF Books
    <3>5. Ordered => Owing'
      BY <2>2, <3>4, <3>6 DEF Owing
    <3> QED
      BY <1>4, <1>7, <1>14, <1>16, <2>2, <3>5 DEF Books, Rows, InStep
  <2> QED
    BY <1>2, <1>13, <2>3, <2>4
<1> QED
  BY <1>11, <1>12, <1>13, <1>17

LEMMA ReconcileBooks ==
    ASSUME CourierTyped, Books, NEW k \in Parcels, reconcile(k)
    PROVE  Books'
<1>1. /\ Rows'
      /\ \A j \in Parcels : /\ (Back(j)' <=> Back(j)) /\ (Pending(j)' <=> Pending(j))
                            /\ (Newest(j)' <=> Newest(j))
      /\ Ordered => \A j \in Booked' : Newest(j)' \/ Back(j)'
  BY SameRows DEF reconcile, history, Books
<1>2. UNCHANGED <<parcel, truth, due, cash, banked, cut, refused, heard>> /\ OpenDues' = OpenDues
  BY DEF reconcile, history, OpenDues
<1>3. truth[k] = "partial" /\ parcel[k].status = "PARTIALLY_DELIVERED"
  BY DEF reconcile, Books, Rows, ParcelKnown
<1>4. Carried(k) /\ Newest(k)
  BY <1>3 DEF Carried, Shipped, Booked, Books, Rows, InTurn, Ended
<1>5. /\ Carried(k)' /\ Newest(k)' /\ Taken(k)' = Taken(k) /\ (Told(k)' <=> Told(k))
      /\ Booked' = Booked
  BY <1>2, <1>4, SameBookings
<1>6. PICK c \in Unknown..CodTotal :
        /\ c = IF parcel[k].collected # Unknown THEN parcel[k].collected ELSE parcel[k].settled
        /\ c # Unknown => c = Taken(k) /\ Told(k)
  <2>1. parcel[k].collected \in Unknown..CodTotal /\ parcel[k].settled \in Unknown..CodTotal
    BY RowFields
  <2> QED
    BY <2>1 DEF Books, Rows, ParcelKnown, Told
<1>7. job' = IF c = Unknown THEN NoJob ELSE Resizing(k, c)
  BY <1>6 DEF reconcile
<1>8. job.at = "none"
  BY DEF reconcile, NoJob
<1>9. ASSUME NEW j \in Parcels, Owed(j, heard[j])
      PROVE Owed(j, heard[j])' /\ OwedAny(j)'
  <2>1. Taken(j)' = Taken(j)
    BY <1>2, SameBookings
  <2> QED
    BY <1>2, <1>9, <2>1 DEF Owed, OwedAny, accepted
<1>10. CASE c = Unknown
  <2>1. job'.at = "none"
    BY <1>7, <1>10 DEF NoJob
  <2>2. JobKnown'
    BY <2>1 DEF JobKnown
  <2>3. Owing => Owing'
    BY <1>1, <1>2, <1>5, <1>8, <1>9, <2>1 DEF Owing, Cleared, accepted, Booked
  <2>4. Ordered => Ordered'
    BY <1>1, <2>1 DEF Ordered
  <2> QED
    BY <1>1, <1>2, <2>2, <2>3, <2>4 DEF Books, InStep, Booking, accepted
<1>11. CASE c # Unknown
  <2>1. job'.at = "resize" /\ job'.k = k /\ job'.word = "none" /\ job'.cod = c
    BY <1>7, <1>11, ResizingTyped
  <2>2. JobKnown'
    BY <1>2, <1>3, <1>5, <1>6, <1>11, <2>1 DEF JobKnown, AmountKnown
  <2>3. Owing => Owing'
    BY <1>1, <1>2, <1>5, <1>8, <1>9, <2>1 DEF Owing, Cleared, accepted, Booked
  <2>4. Ordered => Ordered'
    BY <1>1, <1>5, <2>1 DEF Ordered
  <2> QED
    BY <1>1, <1>2, <2>2, <2>3, <2>4 DEF Books, InStep, Booking, accepted
<1> QED
  BY <1>10, <1>11

LEMMA SameOwing ==
    ASSUME Owing, UNCHANGED <<parcel, truth, due, job, heard, refused>>
    PROVE  Owing'
<1>1. Booked' = Booked /\ OpenDues' = OpenDues
  BY DEF Booked, OpenDues
<1>2. ASSUME NEW k \in Parcels
      PROVE  /\ (Newest(k)' <=> Newest(k)) /\ (Back(k)' <=> Back(k))
             /\ (accepted(k, "void")' <=> accepted(k, "void"))
             /\ (accepted(k, "open")' <=> accepted(k, "open"))
  BY <1>1 DEF Newest, Back, Ended, accepted
<1>3. Cleared'
  BY <1>1, <1>2 DEF Owing, Cleared, Booked
<1>4. job.at \in {"store", "process", "open"} => Unopened'
  BY <1>1 DEF Owing, Unopened
<1>5. ASSUME NEW k \in Parcels
      PROVE  /\ Pending(k)' <=> Pending(k)
             /\ OwedAny(k) => OwedAny(k)'
             /\ Owed(k, heard[k]) => Owed(k, heard[k])'
             /\ Owed(k, job.word) => Owed(k, job.word)'
  <2>1. Taken(k)' = Taken(k) /\ codOf(k)' = codOf(k) /\ (Carried(k)' <=> Carried(k))
    BY SameBookings
  <2> QED
    BY <1>1, <1>2, <2>1 DEF Pending, OwedAny, Owed
<1> QED
  BY <1>2, <1>3, <1>4, <1>5 DEF Owing

LEMMA StaffBooks ==
    ASSUME CourierTyped, Books, NEW s, staffUpdateStatus(s)
    PROVE  Books'
<1>1. /\ Rows'
      /\ \A j \in Parcels : /\ (Back(j)' <=> Back(j)) /\ (Pending(j)' <=> Pending(j))
                            /\ (Newest(j)' <=> Newest(j))
      /\ Ordered => \A j \in Booked' : Newest(j)' \/ Back(j)'
  BY SameRows DEF staffUpdateStatus, history, Books
<1>2. UNCHANGED <<parcel, truth, due, cash, banked, job, heard, cut, refused>>
  BY DEF staffUpdateStatus, history
<1>3. /\ Booked' = Booked /\ Shipped' = Shipped /\ OpenDues' = OpenDues
      /\ \A k \in Parcels : /\ Taken(k)' = Taken(k) /\ (Told(k)' <=> Told(k))
                            /\ (Newest(k)' <=> Newest(k)) /\ (Carried(k)' <=> Carried(k))
  BY <1>2, SameBookings DEF OpenDues
<1>4. JobKnown'
  BY <1>2 DEF JobKnown, Books, Booked, Shipped, Ended, Newest, Carried, Taken, Told, AmountKnown
<1>5. Owing => Owing'
  BY <1>2, SameOwing
<1>6. Ordered => Ordered'
  BY <1>2 DEF Ordered, Booked, Newest, Back, Ended
<1> QED
  BY <1>1, <1>2, <1>4, <1>5, <1>6 DEF Books, InStep, Booking, accepted

LEMMA CrashBooks ==
    ASSUME CourierTyped, Books, crash
    PROVE  Books'
<1>1. Rows' /\ (Ordered => \A j \in Booked' : Newest(j)' \/ Back(j)')
  BY SameRows DEF crash, Books
<1>2. job'.at = "none" /\ cut'
  BY DEF crash, NoJob
<1>3. Ordered => Ordered'
  BY <1>1, <1>2 DEF Ordered
<1> QED
  BY <1>1, <1>2, <1>3 DEF Books, JobKnown, InStep

\* The row of parcel k is updated, or the courier brings it to an end, beside the
\* job in progress.
LEMMA Touched ==
    ASSUME CourierTyped, Books, NEW k \in Parcels, k \in Booked,
           UNCHANGED <<due, cash, banked, job, heard, cut, refused>>,
           \A j \in Parcels \ {k} : parcel'[j] = parcel[j] /\ truth'[j] = truth[j],
           parcel'[k].cod = parcel[k].cod, parcel'[k].collected = parcel[k].collected,
           parcel'[k].settled = parcel[k].settled, parcel'[k].batch = parcel[k].batch,
           parcel'[k].status = "none" <=> parcel[k].status = "none",
           \/ truth'[k] = truth[k]
           \/ truth[k] = "carried" /\ truth'[k] \in Ends,
           ParcelKnown(k)'
    PROVE  Books'
<1>1. ParcelKnown(k) /\ k \in Booked'
  BY DEF Books, Rows, Booked, Ends
<1>2. /\ codOf(k)' = codOf(k) /\ (Told(k)' <=> Told(k)) /\ (k \in Shipped' <=> k \in Shipped)
      /\ (Carried(k)' <=> Carried(k)) /\ (Pending(k)' <=> Pending(k))
  <2>1. codOf(k)' = codOf(k)
    BY DEF codOf
  <2>2. Told(k)' <=> Told(k)
    BY DEF Told
  <2>3. k \in Shipped' <=> k \in Shipped
    BY DEF Shipped
  <2>4. Carried(k)' <=> Carried(k)
    BY <1>1, <2>3 DEF Carried
  <2> QED
    BY <2>1, <2>2, <2>3, <2>4 DEF Pending
<1>3. (Back(k)' <=> Back(k)) /\ (Ended(k) => Ended(k)')
  BY <1>1 DEF Back, Ended, ParcelKnown, Ends
<1>4. Told(k) \/ truth[k] # "carried" => Taken(k)' = Taken(k) /\ truth'[k] = truth[k]
  BY <1>1 DEF Told, ParcelKnown, Taken
<1>5. \A j \in Parcels \ {k} :
        /\ Taken(j)' = Taken(j) /\ codOf(j)' = codOf(j) /\ truth'[j] = truth[j]
        /\ (Told(j)' <=> Told(j)) /\ (Back(j)' <=> Back(j)) /\ (Ended(j)' <=> Ended(j))
        /\ (Carried(j)' <=> Carried(j)) /\ (Pending(j)' <=> Pending(j)) /\ ParcelKnown(j)'
        /\ (j \in Shipped)' <=> j \in Shipped
        /\ (j \in Booked)' <=> j \in Booked
  BY SameParcel DEF Books, Rows
<1>6. Booked' = Booked /\ Shipped' = Shipped
  <2>1. Booked' \subseteq Parcels /\ Shipped' \subseteq Parcels
        /\ Booked \subseteq Parcels /\ Shipped \subseteq Parcels
    BY DEF Booked, Shipped
  <2> QED
    BY <1>1, <1>2, <1>5, <2>1
<1>7. \A j \in Parcels : /\ (Back(j)' <=> Back(j)) /\ (Carried(j)' <=> Carried(j))
                         /\ (Newest(j)' <=> Newest(j)) /\ (Pending(j)' <=> Pending(j))
                         /\ (Told(j)' <=> Told(j)) /\ ParcelKnown(j)'
                         /\ (Ended(j) => Ended(j)')
                         /\ parcel'[j].cod = parcel[j].cod
                         /\ parcel'[j].collected = parcel[j].collected
                         /\ parcel'[j].batch = parcel[j].batch
                         /\ Told(j) \/ truth[j] # "carried" => /\ Taken(j)' = Taken(j)
                                                               /\ truth'[j] = truth[j]
  BY <1>2, <1>3, <1>4, <1>5, <1>6 DEF Newest
<1>8. InTurn'
  BY <1>6, <1>7 DEF Books, Rows, InTurn, Booked
<1>9. Batched' <=> Batched
  BY <1>7 DEF Batched
<1>10. \A d \in Dues : DueKnown(d)'
  BY <1>6, <1>7, <1>9 DEF Books, Rows, DueKnown, Booked
<1>11. JobKnown'
  <2>1. JobKnown
    BY DEF Books
  <2>2. job.at # "none" => job.k \in Parcels
    BY DEF CourierTyped
  <2>3. \A j \in Parcels : AmountKnown(j) => AmountKnown(j)'
    BY <1>7 DEF AmountKnown
  <2> QED
    BY <1>6, <1>7, <2>1, <2>2, <2>3 DEF JobKnown, Booked, Ends
<1>12. OpenDues' = OpenDues
  BY DEF OpenDues
<1>13. ASSUME NEW j \in Parcels
       PROVE  (OwedAny(j) => OwedAny(j)') /\ (Owed(j, heard[j]) => Owed(j, heard[j])')
              /\ (Owed(j, job.word) => Owed(j, job.word)')
  BY <1>7, <1>12 DEF Owed, OwedAny, accepted
<1>15. Ordered => Ordered'
  <2>1. job.at # "none" => job.k \in Parcels
    BY DEF CourierTyped
  <2> QED
    BY <1>6, <1>7, <2>1 DEF Ordered, Booked
<1>14. Owing => Owing'
  BY <1>6, <1>7, <1>12, <1>13 DEF Owing, Cleared, Unopened, accepted, Booked
<1> QED
  BY <1>7, <1>8, <1>10, <1>11, <1>14, <1>15 DEF Books, Rows, InStep, Booking, accepted

LEMMA CarryBooks ==
    ASSUME CourierTyped, Books, NEW k \in Parcels, carry(k)
    PROVE  Books'
<1>1. /\ UNCHANGED <<parcel, due, cash, banked, job, heard, cut, refused>>
      /\ truth[k] = "carried"
  BY DEF carry, history
<1>2. PICK end \in Ends : truth' = [truth EXCEPT ![k] = end]
  BY DEF carry
<1>3. truth'[k] = end /\ \A j \in Parcels \ {k} : truth'[j] = truth[j]
  BY <1>2 DEF CourierTyped
<1>4. ParcelKnown(k)
  BY DEF Books, Rows
<1>5. ParcelKnown(k)'
  <2>1. ~Told(k)'
    BY <1>1, <1>4 DEF ParcelKnown, Told
  <2> QED
    BY <1>1, <1>3, <1>4, <2>1 DEF ParcelKnown, Ends, Told
<1>6. k \in Booked
  BY <1>1 DEF Booked
<1> QED
  BY <1>1, <1>3, <1>5, <1>6, Touched

LEMMA TrackBooks ==
    ASSUME CourierTyped, Books, NEW k \in Parcels, track(k)
    PROVE  Books'
<1>1. /\ UNCHANGED <<truth, due, cash, banked, job, heard, cut, refused>>
      /\ k \in Shipped /\ k \in Booked
  BY DEF track, history
<1>2. PICK s \in {"DELIVERED", "PARTIALLY_DELIVERED", "RETURNED", "CANCELED", "IN_TRANSIT"} :
        s = Mapped(Word(k))
  BY MappedTyped
<1>3. parcel[k] \in ParcelRow /\ parcel \in [Parcels -> ParcelRow]
  BY DEF CourierTyped
<1>4. /\ parcel'[k].status = s /\ parcel'[k].cod = parcel[k].cod
      /\ parcel'[k].collected = parcel[k].collected /\ parcel'[k].settled = parcel[k].settled
      /\ parcel'[k].batch = parcel[k].batch
      /\ \A j \in Parcels \ {k} : parcel'[j] = parcel[j]
  BY <1>2, <1>3 DEF track, ParcelRow
<1>5. ParcelKnown(k)
  BY DEF Books, Rows
<1>6. /\ s = "DELIVERED" => truth[k] = "delivered"
      /\ s = "PARTIALLY_DELIVERED" => truth[k] = "partial"
      /\ truth[k] # "none" /\ parcel[k].status # "none"
  BY <1>1, <1>2 DEF Mapped, Word, Booked, Shipped
<1>7. Taken(k)' = Taken(k) /\ (Told(k)' <=> Told(k))
  BY <1>1, <1>4 DEF Taken, Told
<1>8. ParcelKnown(k)'
  BY <1>1, <1>4, <1>5, <1>6, <1>7 DEF ParcelKnown
<1> QED
  BY <1>1, <1>4, <1>6, <1>8, Touched

LEMMA CancelBooks ==
    ASSUME CourierTyped, Books, NEW k \in Parcels, cancelOrReturn(k)
    PROVE  Books'
<1>1. /\ UNCHANGED <<due, cash, banked, job, heard, cut, refused>>
      /\ k \in Shipped /\ truth[k] = "carried" /\ k \in Booked
  BY DEF cancelOrReturn, history, Booked
<1>2. /\ truth'[k] \in {"carried", "cancelled"}
      /\ \A j \in Parcels \ {k} : truth'[j] = truth[j]
  BY <1>1 DEF cancelOrReturn, CourierTyped
<1>3. parcel[k] \in ParcelRow /\ parcel \in [Parcels -> ParcelRow]
  BY DEF CourierTyped
<1>4. /\ parcel'[k].status = "CANCELED" /\ parcel'[k].cod = parcel[k].cod
      /\ parcel'[k].collected = parcel[k].collected /\ parcel'[k].settled = parcel[k].settled
      /\ parcel'[k].batch = parcel[k].batch
      /\ \A j \in Parcels \ {k} : parcel'[j] = parcel[j]
  BY <1>3 DEF cancelOrReturn, ParcelRow
<1>5. ParcelKnown(k) /\ parcel[k].status # "none"
  BY <1>1 DEF Books, Rows, Shipped
<1>6. ~Told(k)'
  BY <1>1, <1>4, <1>5 DEF ParcelKnown, Told
<1>7. ParcelKnown(k)'
  BY <1>1, <1>2, <1>4, <1>5, <1>6 DEF ParcelKnown, Ends, Told
<1> QED
  BY <1>1, <1>2, <1>4, <1>5, <1>7, Touched DEF Ends

LEMMA BookBooks ==
    ASSUME CourierTyped, Books, book
    PROVE  Books'
<1>1. PICK k \in Parcels : k = job.k
  BY DEF book, CourierTyped
<1>2. /\ job.at = "book" /\ k \notin Shipped \cup Booked /\ \A j \in Booked : Ended(j) /\ j < k
      /\ \A j \in Parcels : j < k => j \in Shipped \cup Booked
      /\ job.cod \in {0, CodTotal} /\ job.word = "none"
      /\ Ordered => \A j \in Booked : Back(j)
  BY <1>1 DEF book, Books, JobKnown, Ordered
<1>3. UNCHANGED <<due, cash, banked, heard, cut, refused>> /\ OpenDues' = OpenDues
  BY DEF book, history, OpenDues
<1>4. /\ ParcelKnown(k) /\ truth[k] = "none" /\ parcel[k] = NoParcel /\ heard[k] = "none"
      /\ ~parcel[k].batch /\ ~Told(k)
  BY <1>2 DEF Books, Rows, ParcelKnown, Shipped, Booked
<1>5. truth \in [Parcels -> {"none", "carried"} \cup Ends] /\ parcel \in [Parcels -> ParcelRow]
      /\ job \in Job /\ "store" \in CourierPlaces
  BY DEF CourierTyped, CourierPlaces
<1>6. Booked \subseteq Parcels /\ Shipped \subseteq Parcels /\ k \in Int
  BY Amounts DEF Booked, Shipped
<1>7. CASE /\ truth' = [truth EXCEPT ![job.k] = "carried"]
           /\ job' = [job EXCEPT !.at = "store"]
           /\ UNCHANGED parcel
  <2>1. truth'[k] = "carried" /\ \A j \in Parcels \ {k} : truth'[j] = truth[j]
    BY <1>1, <1>5, <1>7
  <2>2. \A j \in Parcels \ {k} : /\ Taken(j)' = Taken(j) /\ (Told(j)' <=> Told(j))
                                 /\ (Back(j)' <=> Back(j)) /\ (Ended(j)' <=> Ended(j))
                                 /\ ParcelKnown(j)'
    BY <1>3, <1>7, <2>1, SameParcel DEF Books, Rows
  <2>3. Booked' = Booked \cup {k} /\ Shipped' = Shipped /\ (Batched' <=> Batched)
    BY <1>7, <2>1 DEF Booked, Shipped, Batched
  <2>4. ParcelKnown(k)'
    BY <1>3, <1>4, <1>7, <2>1 DEF ParcelKnown, Told, Ends
  <2>5. Newest(k)'
    BY <1>2, <1>6, <2>3, Amounts DEF Newest
  <2>6. InTurn'
    <3>1. \A j \in Booked' : Newest(j)' \/ Ended(j)'
      BY <1>2, <1>6, <2>2, <2>3, <2>5
    <3>2. \A i \in Shipped' \cup Booked', j \in Parcels : j < i => j \in Shipped' \cup Booked'
      BY <1>2, <2>3 DEF Books, Rows, InTurn
    <3> QED
      BY <3>1, <3>2 DEF InTurn
  <2>7. \A d \in Dues : DueKnown(d)'
    <3> SUFFICES ASSUME NEW d \in Dues PROVE DueKnown(d)'
      OBVIOUS
    <3>1. DueKnown(d) /\ due'[d] = due[d]
      BY <1>3 DEF Books, Rows
    <3>2. ASSUME NEW j \in Booked, truth[j] = "partial", due[d].amount = Taken(j), Told(j)
          PROVE  j \in Booked' /\ truth'[j] = "partial" /\ due'[d].amount = Taken(j)' /\ Told(j)'
      BY <1>2, <1>6, <2>1, <2>2, <2>3, <3>1, <3>2
    <3> QED
      BY <2>3, <3>1, <3>2 DEF DueKnown
  <2>8. job'.at = "store" /\ job'.k = k /\ job'.cod = job.cod /\ job'.word = job.word
    BY <1>1, <1>5, <1>7, JobTyped
  <2>9. JobKnown'
    BY <1>2, <2>3, <2>5, <2>8 DEF JobKnown
  <2>10. Ordered /\ Owing => Owing'
    <3> SUFFICES ASSUME Ordered, Owing PROVE Owing'
      OBVIOUS
    <3>1. ~Back(k)'
      BY <1>3, <1>4, <2>1 DEF Back, Ended
    <3>2. Cleared'
      BY <1>2, <1>6, <2>2, <2>3, <2>5, <3>1 DEF Cleared, Newest
    <3>3. Unopened'
      <4> SUFFICES ASSUME NEW d \in OpenDues PROVE due[d].amount = CodTotal
        BY <1>2, <1>3, <1>4, <2>8 DEF Unopened
      <4>1. DueKnown(d) /\ due[d].open
        BY DEF Books, Rows, OpenDues
      <4>2. ~ \E j \in Booked : truth[j] = "partial"
        BY <1>2 DEF Ended
      <4> QED
        BY <4>1, <4>2 DEF DueKnown
    <3> QED
      BY <2>8, <3>2, <3>3 DEF Owing
  <2>11. Ordered => Ordered'
    BY <1>2, <1>6, <2>2, <2>3, <2>5, <2>8 DEF Ordered
  <2> QED
    BY <1>3, <2>2, <2>4, <2>6, <2>7, <2>9, <2>10, <2>11 DEF Books, Rows, InStep, Booking, accepted
<1>8. CASE /\ parcel' = [parcel EXCEPT ![job.k] = NewParcel("FAILED", job.cod)]
           /\ job' = NoJob
           /\ UNCHANGED truth
  <2>1. /\ parcel'[k].status = "FAILED" /\ parcel'[k].cod = job.cod
        /\ parcel'[k].collected = Unknown /\ parcel'[k].settled = Unknown
        /\ parcel'[k].batch = FALSE
    BY <1>1, <1>5, <1>8 DEF NewParcel
  <2>2. \A j \in Parcels \ {k} : parcel'[j] = parcel[j]
    BY <1>1, <1>5, <1>8
  <2>3. \A j \in Parcels \ {k} : /\ Taken(j)' = Taken(j) /\ (Told(j)' <=> Told(j))
                                 /\ (Back(j)' <=> Back(j)) /\ (Pending(j)' <=> Pending(j))
                                 /\ (Ended(j)' <=> Ended(j)) /\ ParcelKnown(j)'
    BY <1>3, <1>8, <2>2, SameParcel DEF Books, Rows
  <2>4. Booked' = Booked /\ Shipped' = Shipped \cup {k} /\ (Batched' <=> Batched)
    <3>1. Booked' = Booked
      BY <1>8 DEF Booked
    <3>2. Shipped' = Shipped \cup {k}
      BY <2>1, <2>2 DEF Shipped
    <3>3. Batched' <=> Batched
      BY <1>4, <2>1, <2>2 DEF Batched
    <3> QED
      BY <3>1, <3>2, <3>3
  <2>5. ParcelKnown(k)'
    BY <1>2, <1>3, <1>4, <1>8, <2>1 DEF ParcelKnown, Told, Ends
  <2>6. InTurn'
    <3>1. \A j \in Booked' : Newest(j)' \/ Ended(j)'
      BY <1>2, <1>6, <2>3, <2>4
    <3>2. \A i \in Shipped' \cup Booked', j \in Parcels : j < i => j \in Shipped' \cup Booked'
      BY <1>2, <2>4 DEF Books, Rows, InTurn
    <3> QED
      BY <3>1, <3>2 DEF InTurn
  <2>7. \A d \in Dues : DueKnown(d)'
    <3> SUFFICES ASSUME NEW d \in Dues PROVE DueKnown(d)'
      OBVIOUS
    <3>1. DueKnown(d) /\ due'[d] = due[d]
      BY <1>3 DEF Books, Rows
    <3>2. ASSUME NEW j \in Booked, truth[j] = "partial", due[d].amount = Taken(j), Told(j)
          PROVE  j \in Booked' /\ truth'[j] = "partial" /\ due'[d].amount = Taken(j)' /\ Told(j)'
      BY <1>2, <1>6, <1>8, <2>3, <2>4, <3>1, <3>2
    <3> QED
      BY <2>4, <3>1, <3>2 DEF DueKnown
  <2>8. job'.at = "none" /\ JobKnown'
    BY <1>8 DEF NoJob, JobKnown
  <2>9. Ordered => \A j \in Parcels : ~Pending(j)'
    BY <1>2, <2>3, <2>4 DEF Pending, Carried, Back, Ended
  <2>10. Ordered /\ Owing => Owing'
    <3> SUFFICES ASSUME Ordered, Owing PROVE Owing'
      OBVIOUS
    <3>1. \A j \in Parcels \ {k} : Newest(j)' <=> Newest(j)
      BY <2>4 DEF Newest
    <3>2. Cleared'
      BY <1>2, <1>3, <1>6, <2>3, <2>4, <3>1 DEF Owing, Cleared, accepted
    <3> QED
      BY <2>8, <2>9, <3>2 DEF Owing
  <2>11. Ordered => Ordered'
    BY <1>2, <1>6, <2>3, <2>4, <2>8 DEF Ordered
  <2> QED
    BY <1>3, <2>3, <2>5, <2>6, <2>7, <2>8, <2>10, <2>11 DEF Books, Rows, InStep, Booking, accepted
<1> QED
  BY <1>7, <1>8 DEF book

LEMMA StoreBooks ==
    ASSUME CourierTyped, Books, store
    PROVE  Books'
<1>1. PICK k \in Parcels : k = job.k
  BY DEF store, CourierTyped
<1>2. /\ job.at = "store" /\ Newest(k) /\ k \notin Shipped
      /\ job.cod \in {0, CodTotal} /\ job.word = "none"
  BY <1>1 DEF store, Books, JobKnown
<1>3. UNCHANGED <<truth, due, cash, banked, heard, cut, refused>> /\ OpenDues' = OpenDues
      /\ Booked' = Booked
  BY DEF store, history, OpenDues, Booked
<1>4. ParcelKnown(k) /\ parcel[k] = NoParcel /\ heard[k] = "none" /\ truth[k] # "none"
  BY <1>2 DEF Books, Rows, ParcelKnown, Shipped, Newest, Booked
<1>5. ~Told(k) /\ ~parcel[k].batch
  BY <1>4 DEF Told, NoParcel, NewParcel
<1>6. parcel \in [Parcels -> ParcelRow] /\ job \in Job /\ "process" \in CourierPlaces
  BY DEF CourierTyped, CourierPlaces
<1>7. /\ parcel'[k].status = "DISPATCHED" /\ parcel'[k].cod = job.cod
      /\ parcel'[k].collected = Unknown /\ parcel'[k].settled = Unknown
      /\ parcel'[k].batch = FALSE
  BY <1>1, <1>6 DEF store, NewParcel
<1>8. \A j \in Parcels \ {k} : parcel'[j] = parcel[j]
  BY <1>1, <1>6 DEF store
<1>9. \A j \in Parcels \ {k} : /\ Taken(j)' = Taken(j) /\ (Told(j)' <=> Told(j))
                               /\ (Back(j)' <=> Back(j)) /\ ParcelKnown(j)'
                               /\ (Ended(j)' <=> Ended(j))
  BY <1>3, <1>8, SameParcel DEF Books, Rows
<1>10. Shipped' = Shipped \cup {k} /\ (Batched' <=> Batched)
  <2>1. Shipped' = Shipped \cup {k}
    BY <1>7, <1>8 DEF Shipped
  <2>2. Batched' <=> Batched
    BY <1>5, <1>7, <1>8 DEF Batched
  <2> QED
    BY <2>1, <2>2
<1>11. ParcelKnown(k)'
  BY <1>2, <1>3, <1>4, <1>7 DEF ParcelKnown, Ends
<1>12. (Back(k)' <=> Back(k)) /\ (Ended(k)' <=> Ended(k))
  BY <1>3 DEF Back, Ended
<1>13. InTurn'
  <2>1. \A j \in Parcels : (Newest(j)' <=> Newest(j)) /\ (Ended(j)' <=> Ended(j))
    BY <1>3, <1>9, <1>12 DEF Newest
  <2>2. \A j \in Booked' : Newest(j)' \/ Ended(j)'
    BY <1>3, <2>1 DEF Books, Rows, InTurn, Booked
  <2>3. k \in Booked
    BY <1>2 DEF Newest
  <2>4. \A i \in Shipped' \cup Booked', j \in Parcels : j < i => j \in Shipped' \cup Booked'
    BY <1>3, <1>10, <2>3 DEF Books, Rows, InTurn
  <2> QED
    BY <2>2, <2>4 DEF InTurn
<1>14. \A d \in Dues : DueKnown(d)'
  <2> SUFFICES ASSUME NEW d \in Dues PROVE DueKnown(d)'
    OBVIOUS
  <2>1. DueKnown(d) /\ due'[d] = due[d]
    BY <1>3 DEF Books, Rows
  <2>2. ASSUME NEW j \in Booked, truth[j] = "partial", due[d].amount = Taken(j), Told(j)
        PROVE  j \in Booked' /\ truth'[j] = "partial" /\ due'[d].amount = Taken(j)' /\ Told(j)'
    <3>1. j \in Parcels \ {k}
      BY <1>5, <2>2 DEF Booked
    <3> QED
      BY <1>3, <1>9, <2>1, <2>2, <3>1
  <2> QED
    BY <1>10, <2>1, <2>2 DEF DueKnown
<1>15. job'.at = "process" /\ job'.k = k /\ job'.cod = job.cod /\ job'.word = job.word
  BY <1>1, <1>6, JobTyped DEF store
<1>16. JobKnown'
  <2>1. Carried(k)' /\ Newest(k)'
    BY <1>2, <1>3, <1>10 DEF Carried, Newest
  <2> QED
    BY <1>2, <1>3, <1>4, <1>7, <1>15, <2>1 DEF JobKnown
<1>17. Owing => Owing'
  <2> SUFFICES ASSUME Owing PROVE Owing'
    OBVIOUS
  <2>1. \A j \in Parcels : (Newest(j)' <=> Newest(j)) /\ (Back(j)' <=> Back(j))
    BY <1>3, <1>9, <1>12 DEF Newest
  <2>2. Cleared'
    BY <1>3, <2>1 DEF Owing, Cleared, Booked, accepted
  <2>3. Unopened'
    BY <1>1, <1>2, <1>3, <1>15 DEF Owing, Unopened
  <2> QED
    BY <1>15, <2>2, <2>3 DEF Owing
<1>18. Ordered => Ordered'
  <2>1. \A j \in Parcels : (Newest(j)' <=> Newest(j)) /\ (Back(j)' <=> Back(j))
    BY <1>3, <1>9, <1>12 DEF Newest
  <2> QED
    BY <1>3, <1>15, <2>1 DEF Ordered, Booked
<1> QED
  BY <1>3, <1>9, <1>11, <1>13, <1>14, <1>16, <1>17, <1>18 DEF Books, Rows, InStep, Booking, accepted

\* The amount that the courier took for parcel k is entered, from a report or from a
\* statement, or only the parcel's status.
LEMMA AmountEntered ==
    ASSUME CourierTyped, Books, NEW k \in Parcels, Carried(k),
           UNCHANGED <<truth, heard, due>>,
           \A j \in Parcels \ {k} : parcel'[j] = parcel[j],
           parcel'[k].status # "none", parcel'[k].cod = parcel[k].cod,
           parcel'[k].batch = parcel[k].batch,
           \/ parcel'[k].collected = parcel[k].collected
           \/ parcel'[k].collected = Taken(k) /\ truth[k] \in {"delivered", "partial"},
           \/ parcel'[k].settled = parcel[k].settled
           \/ parcel'[k].settled = Taken(k) /\ truth[k] \in {"delivered", "partial"},
           parcel'[k].status = "DELIVERED" => truth[k] = "delivered",
           parcel'[k].status = "PARTIALLY_DELIVERED" => truth[k] = "partial"
    PROVE  /\ Rows' /\ Booked' = Booked /\ Carried(k)' /\ Taken(k)' = Taken(k)
           /\ (Told(k) => Told(k)')
           /\ \A j \in Parcels : (Back(j)' <=> Back(j)) /\ (Newest(j)' <=> Newest(j))
           /\ Ordered => \A j \in Booked' : Newest(j)' \/ Back(j)'
           /\ Ordered /\ Newest(k) => \A j \in Parcels : Pending(j)' => Pending(j) /\ j = k
<1>1. ParcelKnown(k) /\ truth[k] # "none" /\ parcel[k].status # "none"
  BY DEF Books, Rows, Carried, Shipped, Booked
<1>2. Taken(k) \in Int /\ Unknown \in Int /\ Taken(k) # Unknown /\ parcel[k].cod \in Int
      /\ Taken(k) <= parcel[k].cod
  <2>1. Taken(k) \in 0..CodTotal /\ Taken(k) <= parcel[k].cod
    BY TakenTyped
  <2>2. parcel[k].cod \in 0..CodTotal
    BY RowFields
  <2> QED
    BY <2>1, <2>2, Amounts
<1>3. Taken(k)' = Taken(k)
  BY DEF Taken
<1>4. Told(k) => Told(k)'
  BY <1>2 DEF Told
<1>5. ParcelKnown(k)'
  <2>1. parcel'[k].batch => truth[k] \in {"delivered", "partial"} /\ parcel'[k].cod > 0
    BY <1>1 DEF ParcelKnown
  <2>2. /\ parcel'[k].collected # Unknown =>
             truth[k] \in {"delivered", "partial"} /\ parcel'[k].collected = Taken(k)
        /\ parcel'[k].settled # Unknown =>
             truth[k] \in {"delivered", "partial"} /\ parcel'[k].settled = Taken(k)
    BY <1>1 DEF ParcelKnown
  <2>3. /\ parcel'[k].cod \in {0, CodTotal} /\ (heard'[k] \in Ends => truth'[k] = heard'[k])
    BY <1>1 DEF ParcelKnown
  <2> QED
    BY <1>1, <1>3, <2>1, <2>2, <2>3 DEF ParcelKnown
<1>6. /\ Booked' = Booked /\ Shipped' = Shipped /\ (Batched' <=> Batched)
  <2>1. Booked' = Booked
    BY DEF Booked
  <2>2. Shipped' = Shipped
    BY <1>1 DEF Shipped
  <2>3. Batched' <=> Batched
    BY DEF Batched
  <2> QED
    BY <2>1, <2>2, <2>3
<1>7. \A j \in Parcels \ {k} : /\ Taken(j)' = Taken(j) /\ (Told(j)' <=> Told(j))
                               /\ (Pending(j)' <=> Pending(j)) /\ ParcelKnown(j)'
  BY SameParcel DEF Books, Rows
<1>8. \A j \in Parcels : /\ (Back(j)' <=> Back(j)) /\ (Newest(j)' <=> Newest(j))
                         /\ (Carried(j)' <=> Carried(j)) /\ (Ended(j)' <=> Ended(j))
  BY <1>6 DEF Back, Newest, Carried, Ended
<1>9. InTurn'
  BY <1>6, <1>8 DEF Books, Rows, InTurn, Booked
<1>10. \A d \in Dues : DueKnown(d)'
  <2> SUFFICES ASSUME NEW d \in Dues PROVE DueKnown(d)'
    OBVIOUS
  <2>1. DueKnown(d)
    BY DEF Books, Rows
  <2>2. \A j \in Booked : Taken(j)' = Taken(j) /\ (Told(j) => Told(j)')
    BY <1>3, <1>4, <1>7 DEF Booked
  <2> QED
    BY <1>6, <2>1, <2>2 DEF DueKnown
<1>11. Pending(k)' => Pending(k)
  <2>1. codOf(k) = IF Told(k) THEN Taken(k) ELSE parcel[k].cod
    BY <1>1, CodOfKnown
  <2>2. codOf(k)' = IF Told(k)' THEN Taken(k) ELSE parcel[k].cod
    <3>1. \/ parcel'[k].collected = Unknown
          \/ parcel'[k].collected = Taken(k)
      BY <1>1 DEF ParcelKnown
    <3>2. \/ parcel'[k].settled = Unknown
          \/ parcel'[k].settled = Taken(k)
      BY <1>1 DEF ParcelKnown
    <3> QED
      BY <3>1, <3>2 DEF codOf, Told
  <2>3. codOf(k)' > 0 => codOf(k) > 0
    BY <1>2, <1>4, <2>1, <2>2
  <2> QED
    BY <2>3 DEF Pending
<1>12. Ordered => \A j \in Booked' : Newest(j)' \/ Back(j)'
  BY <1>6, <1>8 DEF Ordered, Booked
<1>13. ASSUME Ordered, Newest(k), NEW j \in Parcels, Pending(j)'
       PROVE  Pending(j) /\ j = k
  <2>1. Pending(j)
    BY <1>7, <1>11, <1>13
  <2> QED
    BY <1>13, <2>1, PendingFacts DEF Books
<1> QED
  BY <1>3, <1>4, <1>5, <1>6, <1>7, <1>8, <1>9, <1>10, <1>12, <1>13 DEF Rows

LEMMA WebhookBooks ==
    ASSUME CourierTyped, Books, webhook
    PROVE  Books'
<1>1. PICK k \in Shipped \cap Booked, known \in BOOLEAN, word \in {"in_transit"} \cup Ends :
         word \in Reportable(k) /\ Stored(k, known, word)
  BY WebhookReports
<1>2. UNCHANGED <<truth, heard, due, cash, banked, cut, refused>> /\ OpenDues' = OpenDues
      /\ job.at = "none"
  BY DEF webhook, history, OpenDues, NoJob
<1>3. /\ Carried(k) /\ k \in Parcels
      /\ word = Word(k) \/ word = "in_transit"
      /\ Practices = {} => Newest(k) /\ word = Word(k)
  BY <1>1 DEF Reportable, Carried, Booked
<1>4. /\ word = "in_transit" => truth[k] = "carried" \/ Practices # {}
      /\ word \in Ends => truth[k] = word
  BY <1>1, <1>3 DEF Word, CourierTyped, Ends, Booked
<1>5. /\ parcel'[k].status # "none"
      /\ parcel'[k].status = "DELIVERED" => truth[k] = "delivered"
      /\ parcel'[k].status = "PARTIALLY_DELIVERED" => truth[k] = "partial"
  BY <1>1, <1>4 DEF Stored, Mapped, Ends
<1>6. /\ parcel'[k].cod = parcel[k].cod /\ parcel'[k].settled = parcel[k].settled
      /\ parcel'[k].batch = parcel[k].batch
      /\ \/ parcel'[k].collected = parcel[k].collected
         \/ parcel'[k].collected = Taken(k) /\ truth[k] \in {"delivered", "partial"}
      /\ word \notin {"delivered", "partial"} => parcel'[k].collected = parcel[k].collected
      /\ \A j \in Parcels \ {k} : parcel'[j] = parcel[j]
  BY <1>1, <1>4 DEF Stored, Ends
<1>7. /\ Rows' /\ Booked' = Booked /\ Carried(k)' /\ Taken(k)' = Taken(k)
      /\ \A j \in Parcels : (Back(j)' <=> Back(j)) /\ (Newest(j)' <=> Newest(j))
      /\ Ordered => \A j \in Booked' : Newest(j)' \/ Back(j)'
      /\ Ordered /\ Newest(k) => \A j \in Parcels : Pending(j)' => Pending(j) /\ j = k
  BY <1>2, <1>3, <1>5, <1>6, AmountEntered
<1>8. /\ job'.at = "move" /\ job'.k = k /\ job'.word = word
      /\ job'.cod = IF word = "partial"
                    THEN IF parcel'[k].collected # Unknown THEN parcel'[k].collected
                         ELSE parcel[k].settled
                    ELSE 0
  BY <1>1 DEF Stored
<1>9. ParcelKnown(k) /\ ParcelKnown(k)'
  BY <1>3, <1>7 DEF Books, Rows
<1>10. word = "partial" => \/ job'.cod = Taken(k)' /\ Told(k)'
                           \/ job'.cod = Unknown /\ parcel'[k].collected = Unknown
  BY <1>6, <1>8, <1>9 DEF ParcelKnown, Told
<1>11. JobKnown'
  <2>2. word # "partial" => job'.cod = 0 /\ word # "none"
    BY <1>1, <1>8 DEF Ends
  <2>3. AmountKnown(k)' <=> job'.cod = Taken(k)' /\ Told(k)'
    BY DEF AmountKnown
  <2>4. word # "none" /\ (word \in Ends => truth'[k] = word)
    BY <1>1, <1>2, <1>4 DEF Ends
  <2> QED
    BY <1>1, <1>7, <1>8, <1>10, <2>2, <2>3, <2>4 DEF JobKnown
<1>12. ASSUME Practices = {}, Pending(k), accepted(k, "open"), ~cut
       PROVE  /\ word \in {"in_transit", "delivered"} => Owed(k, heard[k])'
              /\ OwedAny(k)'
  <2>1. PICK h : h = heard[k]
    OBVIOUS
  <2>2. PICK d \in OpenDues : \/ due[d].amount = Taken(k) /\ truth[k] = "partial"
                              \/ /\ due[d].amount = CodTotal
                                 /\ h = "partial" /\ accepted(k, "void") =>
                                      parcel[k].collected = Unknown
    <3>1. Owed(k, h)
      BY <1>2, <1>3, <1>12, <2>1 DEF Books, InStep, Owing
    <3> QED
      BY <3>1 DEF Owed
  <2>3. d \in OpenDues' /\ due'[d].amount = due[d].amount /\ truth'[k] = truth[k]
    BY <1>2
  <2>4. OwedAny(k)'
    BY <1>7, <2>2, <2>3 DEF OwedAny
  <2>5. ASSUME word \in {"in_transit", "delivered"} PROVE Owed(k, heard[k])'
    <3>1. h # "partial" /\ heard'[k] = h
      BY <1>2, <1>4, <1>9, <1>12, <2>1, <2>5 DEF ParcelKnown, Ends
    <3> QED
      BY <1>7, <2>2, <2>3, <3>1 DEF Owed
  <2> QED
    BY <2>4, <2>5
<1>13. ASSUME Practices = {} PROVE Ordered'
  <2>1. Ordered /\ Newest(k)'
    BY <1>3, <1>7, <1>13 DEF Books, InStep
  <2>2. word = "in_transit" => heard'[k] \notin Ends
    BY <1>2, <1>4, <1>9, <1>13 DEF ParcelKnown, Ends
  <2> QED
    BY <1>7, <1>8, <2>1, <2>2 DEF Ordered
<1>14. ASSUME Practices = {}, ~cut PROVE Owing'
  <2>1. Ordered /\ Newest(k) /\ Owing
    BY <1>3, <1>14 DEF Books, InStep
  <2>2. Cleared'
    BY <1>2, <1>7, <2>1 DEF Owing, Cleared, Booked, accepted
  <2>3. \A j \in Parcels : Pending(j)' => Pending(k) /\ j = k
    BY <1>7, <2>1
  <2>4. ASSUME NEW j \in Parcels, Pending(j)', accepted(j, "open")'
        PROVE  /\ word \in {"in_transit", "delivered"} => Owed(j, heard[j])'
               /\ OwedAny(j)'
    <3>1. Pending(k) /\ j = k /\ accepted(k, "open")
      BY <1>2, <2>3, <2>4 DEF accepted
    <3> QED
      BY <1>12, <1>14, <3>1
  <2> QED
    BY <1>1, <1>8, <2>2, <2>4 DEF Owing
<1> QED
  BY <1>2, <1>7, <1>11, <1>13, <1>14 DEF Books, InStep, Booking, accepted

LEMMA PayoutBooks ==
    ASSUME CourierTyped, Books, NEW k \in Parcels, applyPayout(k)
    PROVE  Books'
<1>1. UNCHANGED <<truth, heard, due, cash, banked, cut, refused>> /\ OpenDues' = OpenDues
      /\ job.at = "none" /\ k \in Shipped /\ truth[k] \in {"delivered", "partial"}
  BY DEF applyPayout, history, OpenDues, NoJob
<1>2. Carried(k) /\ Newest(k)
  BY <1>1 DEF Carried, Booked, Books, Rows, InTurn, Ended
<1>3. parcel[k] \in ParcelRow /\ parcel \in [Parcels -> ParcelRow]
  BY DEF CourierTyped
<1>4. PICK c \in 0..CodTotal : c = Taken(k)
  BY TakenTyped
<1>5. /\ parcel'[k].status = parcel[k].status /\ parcel'[k].cod = parcel[k].cod
      /\ parcel'[k].batch = parcel[k].batch /\ parcel'[k].collected = parcel[k].collected
      /\ parcel'[k].settled = c
      /\ \A j \in Parcels \ {k} : parcel'[j] = parcel[j]
  BY <1>3, <1>4 DEF applyPayout, ParcelRow
<1>6. ParcelKnown(k) /\ parcel[k].status # "none"
  BY <1>1 DEF Books, Rows, Shipped
<1>7. /\ Rows' /\ Booked' = Booked /\ Carried(k)' /\ Newest(k)' /\ Taken(k)' = Taken(k)
      /\ \A j \in Parcels : (Back(j)' <=> Back(j)) /\ (Newest(j)' <=> Newest(j))
      /\ Ordered => \A j \in Booked' : Newest(j)' \/ Back(j)'
      /\ Ordered => \A j \in Parcels : Pending(j)' => Pending(j) /\ j = k
  BY <1>1, <1>2, <1>4, <1>5, <1>6, AmountEntered DEF ParcelKnown
<1>8. Told(k)'
  BY <1>4, <1>5, Amounts DEF Told
<1>9. ASSUME NEW j \in Parcels, Owed(k, heard[k])
      PROVE  Owed(k, heard[k])' /\ OwedAny(k)'
  BY <1>1, <1>5, <1>7, <1>9 DEF Owed, OwedAny, accepted
<1>10. Owing => Cleared'
  BY <1>1, <1>7 DEF Owing, Cleared, Booked, accepted
<1>11. CASE parcel[k].status = "PARTIALLY_DELIVERED"
  <2>1. truth[k] = "partial" /\ job' = Resizing(k, c) /\ c \in Unknown..CodTotal
    BY <1>4, <1>6, <1>11, Amounts DEF applyPayout, ParcelKnown
  <2>2. job'.at = "resize" /\ job'.k = k /\ job'.word = "none" /\ job'.cod = c
    BY <2>1, ResizingTyped
  <2>3. JobKnown'
    BY <1>1, <1>4, <1>7, <1>8, <2>1, <2>2 DEF JobKnown, AmountKnown
  <2>4. Ordered /\ Owing => Owing'
    BY <1>1, <1>7, <1>9, <1>10, <2>2 DEF Owing, accepted, Booked
  <2>5. Ordered => Ordered'
    BY <1>7, <2>2 DEF Ordered
  <2> QED
    BY <1>1, <1>7, <2>3, <2>4, <2>5 DEF Books, InStep, Booking, accepted
<1>12. CASE parcel[k].status # "PARTIALLY_DELIVERED"
  <2>1. job'.at = "none"
    BY <1>12 DEF applyPayout, NoJob
  <2>2. JobKnown'
    BY <2>1 DEF JobKnown
  <2>3. Ordered /\ Owing => Owing'
    BY <1>1, <1>7, <1>9, <1>10, <2>1 DEF Owing, accepted, Booked
  <2>4. Ordered => Ordered'
    BY <1>7, <2>1 DEF Ordered
  <2> QED
    BY <1>1, <1>7, <2>2, <2>3, <2>4 DEF Books, InStep, Booking, accepted
<1> QED
  BY <1>11, <1>12

LEMMA SettleBooks ==
    ASSUME CourierTyped, Books, settle
    PROVE  Books'
<1>1. PICK k \in unsettledShipments : Settles(k)
  BY SettleWrites
<1>2. UNCHANGED <<truth, heard, job, cut, refused>> /\ job.at = "none"
  BY DEF settle, history, NoJob
<1>3. ASSUME NEW j \in unsettledShipments
      PROVE  /\ j \in Parcels /\ Carried(j) /\ Newest(j) /\ truth[j] \in {"delivered", "partial"}
             /\ ~parcel[j].batch /\ parcel[j].cod > 0
  <2>1. /\ j \in Parcels /\ j \in Shipped /\ ~parcel[j].batch /\ parcel[j].cod > 0
        /\ parcel[j].status \in {"DELIVERED", "PARTIALLY_DELIVERED"}
    BY DEF unsettledShipments, Shipped
  <2>2. truth[j] \in {"delivered", "partial"}
    BY <2>1 DEF Books, Rows, ParcelKnown
  <2>3. j \in Booked /\ ~Ended(j)
    BY <2>1, <2>2 DEF Booked, Ended
  <2>4. Newest(j)
    BY <2>3 DEF Books, Rows, InTurn
  <2> QED
    BY <2>1, <2>2, <2>3, <2>4 DEF Carried
<1>4. /\ k \in Parcels /\ Carried(k) /\ Newest(k) /\ truth[k] \in {"delivered", "partial"}
      /\ ~parcel[k].batch /\ parcel[k].cod > 0 /\ ParcelKnown(k)
  BY <1>3 DEF Books, Rows
<1>5. unsettledShipments = {k}
  BY <1>3, <1>4, OneNewest
<1>6. ~Batched
  <2> SUFFICES ASSUME NEW j \in Parcels, parcel[j].batch PROVE FALSE
    BY DEF Batched
  <2>1. truth[j] \in {"delivered", "partial"}
    BY DEF Books, Rows, ParcelKnown
  <2>2. Newest(j)
    BY <2>1 DEF Books, Rows, InTurn, Ended, Booked
  <2>3. j = k
    BY <1>4, <2>2, OneNewest
  <2> QED
    BY <1>4, <2>3
<1>7. /\ \A j \in Parcels : /\ parcel'[j].status = parcel[j].status
                            /\ parcel'[j].cod = parcel[j].cod
                            /\ parcel'[j].collected = parcel[j].collected
                            /\ parcel'[j].settled = parcel[j].settled
                            /\ j # k => parcel'[j].batch = parcel[j].batch
      /\ parcel'[k].batch
  <2>1. \A j \in Parcels : parcel'[j].batch = (parcel[j].batch \/ j = k)
    BY <1>1, <1>5 DEF Settles
  <2>2. \A j \in Parcels : parcel[j].batch \in BOOLEAN
    BY DEF CourierTyped, ParcelRow
  <2>3. \A j \in Parcels : j # k => parcel'[j].batch = parcel[j].batch
    BY <2>1, <2>2
  <2>4. parcel'[k].batch
    BY <1>4, <2>1
  <2> QED
    BY <1>1, <2>3, <2>4 DEF Settles
<1>8. /\ Booked' = Booked /\ Shipped' = Shipped /\ Batched'
      /\ \A j \in Parcels : /\ Taken(j)' = Taken(j) /\ codOf(j)' = codOf(j)
                            /\ (Told(j)' <=> Told(j)) /\ (Back(j)' <=> Back(j))
                            /\ (Newest(j)' <=> Newest(j)) /\ (Carried(j)' <=> Carried(j))
                            /\ (Ended(j)' <=> Ended(j))
  <2>1. Booked' = Booked /\ Shipped' = Shipped
    BY <1>2, <1>7 DEF Booked, Shipped
  <2>2. Batched'
    BY <1>4, <1>7 DEF Batched
  <2>3. ASSUME NEW j \in Parcels
        PROVE  /\ Taken(j)' = Taken(j) /\ codOf(j)' = codOf(j)
               /\ (Told(j)' <=> Told(j)) /\ (Back(j)' <=> Back(j)) /\ (Ended(j)' <=> Ended(j))
    BY <1>2, <1>7 DEF Taken, codOf, Told, Back, Ended
  <2>4. ASSUME NEW j \in Parcels
        PROVE  (Newest(j)' <=> Newest(j)) /\ (Carried(j)' <=> Carried(j))
    BY <2>1 DEF Newest, Carried
  <2> QED
    BY <2>1, <2>2, <2>3, <2>4
<1>9. ASSUME NEW j \in Parcels PROVE ParcelKnown(j)'
  <2>1. ParcelKnown(j)
    BY DEF Books, Rows
  <2>2. /\ parcel[j].status # "none" => parcel'[j].status # "none"
        /\ j = k => parcel[j].status # "none" /\ parcel'[j].status # "none"
    BY <1>4, <1>7 DEF Carried, Shipped
  <2>3. parcel'[j].batch => truth[j] \in {"delivered", "partial"} /\ parcel'[j].cod > 0
    BY <1>4, <1>7, <2>1 DEF ParcelKnown
  <2>4. CASE j = k
    BY <1>2, <1>4, <1>7, <1>8, <2>1, <2>2, <2>3, <2>4 DEF ParcelKnown
  <2>5. CASE j # k
    <3>1. parcel'[j] = parcel[j]
      <4>1. parcel[j] \in ParcelRow
        BY DEF CourierTyped
      <4>2. parcel'[j] \in ParcelRow
        BY SettleWrites
      <4> QED
        BY <1>7, <2>5, <4>1, <4>2 DEF ParcelRow
    <3> QED
      BY <1>2, <2>1, <3>1, SameParcel
  <2> QED
    BY <2>4, <2>5
<1>10. InTurn'
  BY <1>8 DEF Books, Rows, InTurn, Booked
<1>11. PICK n \in 0..CodTotal : n = codOf(k)
  BY <1>4, CodOfTyped
<1>12. \A d \in Dues : /\ due'[d].amount = due[d].amount /\ due'[d].open = due[d].open
                       /\ due[d].paid = 0 /\ due[d].amount \in Nat
                       /\ due'[d].paid = IF due[d].open /\ n > 0 THEN n ELSE 0
  <2> SUFFICES ASSUME NEW d \in Dues
               PROVE  /\ due'[d].amount = due[d].amount /\ due'[d].open = due[d].open
                      /\ due[d].paid = 0 /\ due[d].amount \in Nat
                      /\ due'[d].paid = IF due[d].open /\ n > 0 THEN n ELSE 0
    OBVIOUS
  <2>1. due[d].paid \in Nat /\ due[d].amount \in Nat
    BY Amounts DEF CourierTyped, DueRow
  <2>2. due[d].paid = 0
    BY <1>6, <2>1 DEF Books, Rows, DueKnown
  <2>3. d \in OpenDues <=> due[d].open
    BY DEF OpenDues
  <2> QED
    BY <1>1, <1>11, <2>1, <2>2, <2>3 DEF Settles
<1>13. OpenDues' = OpenDues
  BY <1>12 DEF OpenDues
<1>14. ASSUME NEW d \in Dues PROVE DueKnown(d)'
  <2>1. DueKnown(d)
    BY DEF Books, Rows
  <2>2. ASSUME due[d].open PROVE n <= due[d].amount
    <3>1. CASE due[d].amount = CodTotal
      BY <1>11, <3>1, Amounts
    <3>2. CASE \E j \in Booked : truth[j] = "partial" /\ due[d].amount = Taken(j) /\ Told(j)
      <4>1. PICK j \in Booked : truth[j] = "partial" /\ due[d].amount = Taken(j) /\ Told(j)
        BY <3>2
      <4>2. Newest(j)
        BY <4>1 DEF Books, Rows, InTurn, Ended
      <4>3. j = k
        BY <1>4, <4>2, OneNewest
      <4>4. n = due[d].amount
        BY <1>4, <1>11, <4>1, <4>3, CodOfKnown
      <4> QED
        BY <1>12, <4>4
    <3> QED
      BY <2>1, <2>2, <3>1, <3>2 DEF DueKnown
  <2>3. due'[d].paid <= due'[d].amount
    BY <1>11, <1>12, <2>2
  <2>4. due'[d].open =>
          /\ due'[d].amount > 0
          /\ \/ due'[d].amount = CodTotal
             \/ \E j \in Booked' : truth'[j] = "partial" /\ due'[d].amount = Taken(j)' /\ Told(j)'
    <3>1. \A j \in Booked : Taken(j)' = Taken(j) /\ (Told(j)' <=> Told(j)) /\ truth'[j] = truth[j]
      BY <1>2, <1>8 DEF Booked
    <3> QED
      BY <1>8, <1>12, <2>1, <3>1 DEF DueKnown
  <2> QED
    BY <1>8, <2>3, <2>4 DEF DueKnown
<1>15. JobKnown'
  BY <1>2 DEF JobKnown
<1>16. Ordered => \A j \in Parcels : ~Pending(j)'
  <2> SUFFICES ASSUME Ordered, NEW j \in Parcels, Pending(j)' PROVE FALSE
    OBVIOUS
  <2>1. j # k
    BY <1>7 DEF Pending
  <2>2. Pending(j)
    BY <1>2, <1>7, <1>8, <2>1 DEF Pending
  <2> QED
    BY <1>4, <2>1, <2>2, PendingFacts DEF Books
<1>17. ASSUME Ordered, Owing PROVE Owing'
  <2>1. Cleared'
    BY <1>2, <1>8, <1>13, <1>17 DEF Owing, Cleared, Booked, accepted
  <2> QED
    BY <1>2, <1>16, <1>17, <2>1 DEF Owing
<1>18. Reached(unsettledShipments) = Taken(k) /\ Expected(unsettledShipments) = n
  <2> DEFINE f == [j \in Parcels |-> Taken(j)]
             g == [j \in Parcels |-> codOf(j)]
  <2>1. f[k] = Taken(k) /\ g[k] = n
    BY <1>4, <1>11
  <2>2. f[k] \in Int /\ g[k] \in Int
    <3>1. Taken(k) \in 0..CodTotal
      BY <1>4, TakenTyped
    <3> QED
      BY <1>11, <2>1, <3>1
  <2>3. Reached({k}) = SumFunctionOnSet(f, {k}) /\ Expected({k}) = SumFunctionOnSet(g, {k})
    BY DEF Reached, Expected
  <2> HIDE DEF f, g
  <2>4. IsFiniteSet({k}) /\ {k} \ {k} = {}
    BY FS_Singleton
  <2>5. SumFunctionOnSet(f, {k}) = f[k] + SumFunctionOnSet(f, {k} \ {k})
    BY <2>2, <2>4, SumRemove
  <2>6. SumFunctionOnSet(g, {k}) = g[k] + SumFunctionOnSet(g, {k} \ {k})
    BY <2>2, <2>4, SumRemove
  <2>7. SumFunctionOnSet(f, {}) = 0 /\ SumFunctionOnSet(g, {}) = 0
    BY SumEmpty
  <2>8. SumFunctionOnSet(f, {k}) = f[k] /\ SumFunctionOnSet(g, {k}) = g[k]
    BY <2>2, <2>4, <2>5, <2>6, <2>7
  <2> QED
    BY <1>5, <2>1, <2>3, <2>8
<1>19. ASSUME Owing, cash = banked, accepted(k, "open") PROVE cash' = banked'
  <2>1. cash = banked /\ banked \in Nat
    BY <1>19 DEF CourierTyped
  <2>2. PICK t \in 0..CodTotal : t = Taken(k)
    BY <1>4, TakenTyped
  <2>3. PICK c \in {0, 1} : c = Cardinality(OpenDues)
    BY FewDues DEF CourierTyped
  <2>4. cash' = cash + (IF n > 0 THEN c * n ELSE 0) + (t - n) /\ banked' = banked + t
    BY <1>1, <1>11, <1>18, <2>2, <2>3 DEF Settles
  <2>5. n > 0 => c = 1
    <3> SUFFICES ASSUME n > 0 PROVE OpenDues # {}
      BY <2>3, FewDues DEF CourierTyped
    <3>1. heard[k] \notin {"returned", "cancelled"}
      BY <1>4 DEF ParcelKnown, Ends
    <3>2. Pending(k)
      BY <1>4, <1>11, <3>1 DEF Pending
    <3>3. Owed(k, heard[k])
      BY <1>2, <1>4, <1>19, <3>2 DEF Owing
    <3> QED
      BY <3>3 DEF Owed
  <2> QED
    BY <1>11, <2>1, <2>2, <2>4, <2>5
<1>20. ASSUME Ordered PROVE Ordered'
  <2>1. \A j \in Booked' : Newest(j)' \/ Back(j)'
    BY <1>8, <1>20 DEF Ordered, Booked
  <2> QED
    BY <1>2, <2>1 DEF Ordered
<1>21. ASSUME Owing, Booking PROVE Booking'
  BY <1>2, <1>4, <1>19, <1>21 DEF Booking, accepted
<1> QED
  BY <1>2, <1>9, <1>10, <1>14, <1>15, <1>17, <1>20, <1>21 DEF Books, Rows, InStep

LEMMA BooksInit == CourierInit => Books
<1> SUFFICES ASSUME CourierInit PROVE Books
  OBVIOUS
<1>1. Booked = {} /\ Shipped = {} /\ OpenDues = {}
  BY DEF CourierInit, Booked, Shipped, OpenDues, NoParcel, NewParcel
<1>2. ASSUME NEW k \in Parcels PROVE ParcelKnown(k)
  BY Amounts DEF CourierInit, ParcelKnown, NoParcel, NewParcel, Told, Ends
<1>3. ASSUME NEW d \in Dues PROVE DueKnown(d)
  BY DEF CourierInit, DueKnown
<1>4. InTurn
  BY <1>1 DEF InTurn
<1>5. JobKnown
  BY DEF CourierInit, JobKnown, NoJob
<1>6. Owing
  <2>1. \A k \in Parcels : ~Pending(k)
    BY <1>1 DEF Pending, Carried
  <2> QED
    BY <1>1, <2>1 DEF Owing, Cleared, Unopened
<1>7. cash = banked
  BY DEF CourierInit
<1>8. Ordered
  BY <1>1 DEF CourierInit, NoJob, Ordered
<1> QED
  BY <1>2, <1>3, <1>4, <1>5, <1>6, <1>7, <1>8 DEF Books, Rows, InStep, Booking

LEMMA BooksStep ==
    ASSUME "early_resend" \notin Practices
    PROVE  CourierInv /\ [CourierNext]_courierVars => CourierInv'
<1> SUFFICES ASSUME CourierInv, [CourierNext]_courierVars PROVE CourierInv'
  OBVIOUS
<1>1. CourierTyped' /\ CourierTyped /\ Books
  BY TypedStep DEF CourierInv
<1>2. Books'
  <2>1. CASE progress
    BY <1>1, <2>1, BookBooks, StoreBooks, ProcessBooks, MoveBooks, OpenBooks, ResizeBooks, PayBooks
       DEF progress
  <2>2. CASE \E k \in Parcels :
                reconcile(k) \/ applyPayout(k) \/ track(k) \/ cancelOrReturn(k) \/ carry(k)
    BY <1>1, <2>2, ReconcileBooks, PayoutBooks, TrackBooks, CancelBooks, CarryBooks
  <2>3. CASE \E s \in {"PROCESSING", "COMPLETED", "CANCELED"} : staffUpdateStatus(s)
    BY <1>1, <2>3, StaffBooks
  <2>4. CASE dispatch
    BY <1>1, <2>4, DispatchBooks
  <2>5. CASE webhook
    BY <1>1, <2>5, WebhookBooks
  <2>6. CASE settle \/ crash
    BY <1>1, <2>6, SettleBooks, CrashBooks
  <2>7. CASE UNCHANGED courierVars
    <3>1. UNCHANGED <<parcel, truth, due, cash, banked, job, heard, cut, refused>>
      BY <2>7 DEF courierVars, history
    <3>2. Rows'
      BY <1>1, <3>1, SameRows DEF Books
    <3>3. JobKnown'
      BY <1>1, <3>1 DEF JobKnown, Books, Booked, Shipped, Ended, Newest, Carried, Taken, Told,
         AmountKnown
    <3>4. Owing => Owing'
      BY <3>1, SameOwing
    <3>5. Ordered => Ordered'
      BY <3>1 DEF Ordered, Booked, Newest, Back, Ended
    <3> QED
      BY <1>1, <3>1, <3>2, <3>3, <3>4, <3>5 DEF Books, InStep, Booking, accepted
  <2> QED
    BY <2>1, <2>2, <2>3, <2>4, <2>5, <2>6, <2>7 DEF CourierNext
<1> QED
  BY <1>1, <1>2 DEF CourierInv

LEMMA Inductive ==
    ASSUME "early_resend" \notin Practices
    PROVE  CourierSpec => []CourierInv
<1>1. CourierInit => CourierInv
  BY TypedInit, BooksInit DEF CourierInv
<1> QED
  BY <1>1, BooksStep, PTL DEF CourierSpec

\* No receivable is ever paid more than its amount, wherever the settlement
\* (settle) took the collected amount from: webhook, statement or the parcel,
\* and however late the webhook's report came.
THEOREM NeverOverpaid ==
    ASSUME "early_resend" \notin Practices
    PROVE  CourierSpec => []NotOverpaid
<1>1. CourierInv => NotOverpaid
  BY DEF CourierInv, Books, Rows, DueKnown, NotOverpaid
<1> QED
  BY <1>1, Inductive, PTL

\* While the money of a parcel is out, its open receivable names the amount that
\* is owed: dispatch, report, resize and reconciliation never leave it unowed
\* (openCodReceivable), unless the server stopped halfway or one of that parcel's
\* own postings was refused; what was refused to an earlier parcel does no harm.
THEOREM ParcelsOwed ==
    ASSUME Practices = {}
    PROVE  CourierSpec => []ParcelOwed
<1>1. CourierInv => ParcelOwed
  <2> SUFFICES ASSUME CourierInv, job = NoJob, ~cut, NEW k \in Shipped \cap Booked,
                      codOf(k) > 0, ~parcel[k].batch, heard[k] \notin {"returned", "cancelled"},
                      accepted(k, "void"), accepted(k, "open")
               PROVE  \E d \in OpenDues :
                         /\ due[d].paid = 0
                         /\ \/ due[d].amount = Taken(k) /\ truth[k] = "partial"
                            \/ /\ due[d].amount = parcel[k].cod
                               /\ heard[k] = "partial" => parcel[k].collected = Unknown
    BY DEF ParcelOwed
  <2>1. Pending(k) /\ k \in Parcels
    BY DEF Pending, Carried, Booked
  <2>2. parcel[k].cod = CodTotal /\ ~Batched
    BY <2>1, PendingFacts DEF CourierInv, Books, InStep
  <2>3. Owed(k, heard[k])
    BY <2>1 DEF CourierInv, Books, InStep, Owing, NoJob
  <2>4. PICK h : h = heard[k]
    OBVIOUS
  <2>5. Owed(k, h)
    BY <2>3, <2>4
  <2>6. PICK d \in OpenDues : \/ due[d].amount = Taken(k) /\ truth[k] = "partial"
                              \/ /\ due[d].amount = CodTotal
                                 /\ h = "partial" => parcel[k].collected = Unknown
    BY <2>5 DEF Owed
  <2>7. due[d].paid = 0
    <3>1. due[d].paid \in Nat /\ DueKnown(d)
      BY DEF CourierInv, CourierTyped, DueRow, OpenDues, Books, Rows
    <3> QED
      BY <2>2, <3>1 DEF DueKnown
  <2> QED
    BY <2>2, <2>4, <2>6, <2>7
<1>2. CourierSpec => []CourierInv
  BY Inductive
<1> QED
  BY <1>1, <1>2, PTL

\* After the return of the last parcel was taken in, nothing is owed by the
\* courier any more (resizeCodReceivable), unless the server stopped halfway or
\* the voiding that this return asked for was refused.
THEOREM ReturnsNotOwed ==
    ASSUME Practices = {}
    PROVE  CourierSpec => []ReturnedNotOwed
<1>1. CourierInv => ReturnedNotOwed
  <2> SUFFICES ASSUME CourierInv, ~cut, NEW k \in Booked, Newest(k),
                      heard[k] \in {"returned", "cancelled"}, accepted(k, "void")
               PROVE  OpenDues = {}
    BY DEF ReturnedNotOwed
  <2>1. Back(k)
    BY DEF CourierInv, Books, Rows, ParcelKnown, Back, Ended, Ends, Booked
  <2> QED
    BY <2>1 DEF CourierInv, Books, InStep, Owing, Cleared
<1>2. CourierSpec => []CourierInv
  BY Inductive
<1> QED
  BY <1>1, <1>2, PTL

\* What the settlements wrote to the ledger, clearings and adjustments together
\* (settle), is what reached the bank, unless the server stopped halfway or the
\* opening of a receivable was refused; a refused voiding does not matter.
THEOREM BankAgrees ==
    ASSUME Practices = {}
    PROVE  CourierSpec => []BankMatches
<1>1. CourierInv => BankMatches
  BY DEF CourierInv, Books, InStep, Booking, BankMatches
<1>2. CourierSpec => []CourierInv
  BY Inductive
<1> QED
  BY <1>1, <1>2, PTL
===============================================================================
