------------------------- MODULE CampaignQueue_proofs -------------------------
(***************************************************************************)
(* Proofs about CampaignQueue for any carts, templates, worker runs and    *)
(* members of staff, any batch size and any number of attempts.            *)
(*                                                                         *)
(* That the queue implements CampaignSteps needs to know only that a step  *)
(* is nowhere before it is scheduled, and holds whatever overlaps.  That   *)
(* no message goes out twice unasked also needs to know who still owes a   *)
(* step a message, and holds of runs that do not overlap.                  *)
(***************************************************************************)
EXTENDS CampaignQueue, TLAPS

Run == [todo : SUBSET Steps, off : SUBSET Steps,
        now : Steps \cup {NoStep}, outcome : {"none", "sent", "failed"}]

\* Run w has s ahead of it: it will send it without asking again.
Holds(w, s) ==
    \/ s \in sender[w].todo
    \/ sender[w].now = s /\ sender[w].outcome = "none"

\* A run holds no step before it takes it up, and a step once.
RunsOrdered ==
    \A w \in Senders :
        /\ sender[w].now = NoStep => sender[w].outcome = "none"
        /\ sender[w].now \notin sender[w].todo

\* Before its row is written a step is in no run, was not sent and not retried.
Unscheduled ==
    \A s \in Steps :
        status[s] = "NONE" =>
            /\ told[s] = 0 /\ retried[s] = 0
            /\ \A w \in Senders : s \notin sender[w].todo /\ sender[w].now # s

QueueInv == TypeOK /\ RunsOrdered /\ Unscheduled

\* One run at a time: the worker's, or that of a retry.
RunsApart == \A v, w \in Senders : Busy(v) /\ Busy(w) => v = w

\* Somebody may still send s: a run that holds it, or the next tick when no run
\* has its message out.
Owed(s) ==
    \/ \E w \in Senders : Holds(w, s)
    \/ status[s] = "PENDING" /\ \A w \in Senders : sender[w].now # s

\* What was sent, and one more when one is owed, was asked for.
OweLittle == \A s \in Steps : Owed(s) => told[s] <= retried[s] + stops

SendInv == QueueInv /\ RunsApart /\ NoDoubleSend /\ OweLittle

-----------------------------------------------------------------------------
LEMMA StepIsSome == \A s \in Steps : s # NoStep
BY DEF Steps, NoStep

LEMMA RestTyped ==
    /\ Rest \in Run
    /\ Rest.todo = {} /\ Rest.off = {} /\ Rest.now = NoStep /\ Rest.outcome = "none"
BY DEF Rest, Run

\* An idle run has nothing ahead of it.
LEMMA RestHoldsNothing ==
    ASSUME NEW w \in Senders, NEW s \in Steps, sender[w] = Rest
    PROVE  ~Holds(w, s) /\ sender[w].now # s
BY StepIsSome, RestTyped DEF Holds

LEMMA Initially == Init => SendInv
<1> SUFFICES ASSUME Init PROVE SendInv
  OBVIOUS
<1>1. \A w \in Senders : sender[w] = Rest
  BY DEF Init
<1>2. TypeOK
  BY RestTyped, <1>1 DEF Init, TypeOK, Run
<1>3. RunsOrdered
  BY <1>1, RestTyped DEF RunsOrdered
<1>4. Unscheduled
  BY <1>1, RestHoldsNothing, RestTyped DEF Unscheduled, Init
<1>5. RunsApart
  BY <1>1 DEF RunsApart, Busy
<1>6. NoDoubleSend /\ OweLittle
  BY <1>1, RestHoldsNothing DEF NoDoubleSend, OweLittle, Owed, Init
<1> QED
  BY <1>2, <1>3, <1>4, <1>5, <1>6 DEF SendInv, QueueInv

-----------------------------------------------------------------------------
(* Steps that leave the runs alone                                         *)

\* What every step that only writes statuses keeps: it brings no step back to
\* before it was scheduled.
LEMMA StatusWritten ==
    ASSUME QueueInv,
           status' \in [Steps -> {"NONE", "PENDING", "SENT", "FAILED", "SKIPPED", "DELETED"}],
           \A s \in Steps : status'[s] = "NONE" => status[s] = "NONE",
           UNCHANGED <<attempts, due, active, quiet, sender, told, retried, stops>>
    PROVE  QueueInv'
BY DEF QueueInv, TypeOK, RunsOrdered, Unscheduled

LEMMA StatusSteps ==
    ASSUME TypeOK
    PROVE  /\ \A r \in Rows : enqueueForIncomplete(r) \/ skipRemaining(r) \/ removeRow(r) =>
                status' \in [Steps -> {"NONE", "PENDING", "SENT", "FAILED", "SKIPPED", "DELETED"}]
           /\ \A s \in Steps : cancelQueueItem(s) =>
                status' \in [Steps -> {"NONE", "PENDING", "SENT", "FAILED", "SKIPPED", "DELETED"}]
BY DEF TypeOK, enqueueForIncomplete, skipRemaining, removeRow, cancelQueueItem

\* What the clock and the settings change.
LEMMA Around ==
    ASSUME QueueInv,
           \/ \E s \in Steps : becomeDue(s)
           \/ \E t \in Templates : switchTemplate(t)
           \/ dayPasses
    PROVE  QueueInv' /\ UNCHANGED <<status, sender, told, retried, stops>>
<1>1. UNCHANGED <<status, attempts, sender, told, retried, stops>>
  BY DEF becomeDue, switchTemplate, dayPasses
<1>2. /\ due' \in [Steps -> BOOLEAN] /\ active' \subseteq Templates /\ quiet' \in BOOLEAN
  BY DEF QueueInv, TypeOK, becomeDue, switchTemplate, dayPasses
<1> QED
  BY <1>1, <1>2 DEF QueueInv, TypeOK, RunsOrdered, Unscheduled

-----------------------------------------------------------------------------
(* Steps of a run                                                          *)

LEMMA SenderTyped ==
    ASSUME TypeOK, NEW w \in Senders
    PROVE  /\ sender[w] \in Run
           /\ sender[w].todo \subseteq Steps
           /\ sender[w].now \in Steps \cup {NoStep}
BY DEF TypeOK, Run

\* A run changes its own sender only, and never takes up a step that it or the
\* queue did not have.
LEMMA RunWritten ==
    ASSUME QueueInv, NEW w \in Senders, NEW r \in Run, sender' = [sender EXCEPT ![w] = r],
           status' \in [Steps -> {"NONE", "PENDING", "SENT", "FAILED", "SKIPPED", "DELETED"}],
           \A s \in Steps : status'[s] = "NONE" => status[s] = "NONE",
           attempts' \in [Steps -> Nat], due' \in [Steps -> BOOLEAN],
           told' \in [Steps -> Nat], retried' \in [Steps -> Nat],
           UNCHANGED <<active, quiet, stops>>,
           r.now = NoStep => r.outcome = "none", r.now \notin r.todo,
           \A s \in Steps : status'[s] = "NONE" =>
              told'[s] = 0 /\ retried'[s] = 0 /\ s \notin r.todo /\ r.now # s
    PROVE  QueueInv'
<1>1. /\ sender' \in [Senders -> Run] /\ sender'[w] = r
      /\ \A v \in Senders \ {w} : sender'[v] = sender[v]
  BY DEF QueueInv, TypeOK, Run
<1>2. TypeOK'
  BY <1>1 DEF QueueInv, TypeOK, Run
<1>3. RunsOrdered'
  BY <1>1 DEF QueueInv, RunsOrdered
<1>4. Unscheduled'
  <2> SUFFICES ASSUME NEW s \in Steps, status'[s] = "NONE"
               PROVE  /\ told'[s] = 0 /\ retried'[s] = 0
                      /\ \A v \in Senders : s \notin sender'[v].todo /\ sender'[v].now # s
    BY DEF Unscheduled
  <2> QED
    BY <1>1 DEF QueueInv, Unscheduled
<1> QED
  BY <1>2, <1>3, <1>4 DEF QueueInv

\* The run that starts with a batch, and the one that starts with a retry.
LEMMA Batched ==
    ASSUME NEW S \in SUBSET Steps
    PROVE  LET r == [Rest EXCEPT !.todo = S, !.off = {s \in S : s[2] \notin active}]
           IN  r \in Run /\ r.todo = S /\ r.now = NoStep /\ r.outcome = "none"
BY DEF Rest, Run

LEMMA Singled ==
    ASSUME NEW s \in Steps
    PROVE  LET r == [Rest EXCEPT !.now = s]
           IN  r \in Run /\ r.todo = {} /\ r.now = s /\ r.outcome = "none"
BY DEF Rest, Run

LEMMA TickQueue ==
    ASSUME QueueInv, NEW w \in Ticks, tick(w)
    PROVE  QueueInv'
<1>1. PICK S \in SUBSET DueNow :
        sender' = [sender EXCEPT ![w] =
          [Rest EXCEPT !.todo = S, !.off = {s \in S : s[2] \notin active}]]
  BY DEF tick
<1> DEFINE r == [Rest EXCEPT !.todo = S, !.off = {s \in S : s[2] \notin active}]
<1>2. S \subseteq Steps /\ \A s \in S : status[s] = "PENDING"
  BY DEF DueNow
<1>3. r \in Run /\ r.todo = S /\ r.now = NoStep /\ r.outcome = "none"
  BY <1>2, Batched
<1>4. UNCHANGED <<status, attempts, due, active, quiet, told, retried, stops>>
  BY DEF tick
<1>5. sender' = [sender EXCEPT ![w] = r]
  BY <1>1
<1>6. NoStep \notin S
  BY <1>2, StepIsSome
<1> HIDE DEF r
<1>7. \A s \in Steps : status'[s] = "NONE" =>
        told'[s] = 0 /\ retried'[s] = 0 /\ s \notin r.todo /\ r.now # s
  BY <1>2, <1>3, <1>4, StepIsSome DEF QueueInv, Unscheduled
<1> QED
  BY <1>3, <1>4, <1>5, <1>6, <1>7, RunWritten DEF QueueInv, TypeOK, Senders

\* What a run that takes up s becomes: it stops at a deleted step, passes one
\* whose template was off, or holds it.
LEMMA Taken ==
    ASSUME QueueInv, NEW w \in Senders, NEW s \in Steps, take(w, s)
    PROVE  /\ s \in sender[w].todo /\ sender[w].now = NoStep
           /\ \E r \in Run :
                /\ sender' = [sender EXCEPT ![w] = r]
                /\ r.outcome = "none" /\ r.todo \subseteq sender[w].todo \ {s}
                /\ \/ r.now = NoStep /\ status' = status
                   \/ r.now = NoStep /\ status' = [status EXCEPT ![s] = "SKIPPED"]
                   \/ r.now = s /\ status' = status
<1>1. s \in sender[w].todo /\ sender[w].now = NoStep /\ sender[w].outcome = "none"
  BY DEF take, QueueInv, RunsOrdered
<1>2. sender[w] \in Run
  BY SenderTyped DEF QueueInv
<1> DEFINE rest == [sender[w] EXCEPT !.todo = @ \ {s}]
           held == [rest EXCEPT !.now = s]
<1>3. /\ rest \in Run /\ rest.now = NoStep /\ rest.outcome = "none"
      /\ rest.todo = sender[w].todo \ {s}
  BY <1>1, <1>2 DEF Run
<1>4. /\ held \in Run /\ held.now = s /\ held.outcome = "none"
      /\ held.todo = sender[w].todo \ {s}
  BY <1>1, <1>2 DEF Run
<1>5. \/ sender' = [sender EXCEPT ![w] = Rest] /\ status' = status
      \/ /\ status' = [status EXCEPT ![s] = "SKIPPED"]
         /\ sender' = [sender EXCEPT ![w] = IF rest.todo = {} THEN Rest ELSE rest]
      \/ sender' = [sender EXCEPT ![w] = held] /\ status' = status
  BY DEF take
<1> HIDE DEF rest, held
<1>6. CASE sender' = [sender EXCEPT ![w] = Rest] /\ status' = status
  BY <1>1, <1>6, RestTyped
<1>7. CASE /\ status' = [status EXCEPT ![s] = "SKIPPED"]
           /\ sender' = [sender EXCEPT ![w] = IF rest.todo = {} THEN Rest ELSE rest]
  <2>1. CASE rest.todo = {}
    BY <1>1, <1>7, <2>1, RestTyped
  <2>2. CASE rest.todo # {}
    BY <1>1, <1>3, <1>7, <2>2
  <2> QED
    BY <2>1, <2>2
<1>8. CASE sender' = [sender EXCEPT ![w] = held] /\ status' = status
  BY <1>1, <1>4, <1>8
<1> QED
  BY <1>1, <1>5, <1>6, <1>7, <1>8

LEMMA TakeQueue ==
    ASSUME QueueInv, NEW w \in Senders, NEW s \in Steps, take(w, s)
    PROVE  QueueInv'
<1>1. s \in sender[w].todo
  BY Taken
<1>2. PICK r \in Run :
        /\ sender' = [sender EXCEPT ![w] = r]
        /\ r.outcome = "none" /\ r.todo \subseteq sender[w].todo \ {s}
        /\ \/ r.now = NoStep /\ status' = status
           \/ r.now = NoStep /\ status' = [status EXCEPT ![s] = "SKIPPED"]
           \/ r.now = s /\ status' = status
  BY Taken
<1>3. UNCHANGED <<attempts, due, active, quiet, told, retried, stops>>
  BY DEF take
<1>4. sender[w].todo \subseteq Steps /\ NoStep \notin r.todo /\ r.now \notin r.todo
  BY <1>2, SenderTyped, StepIsSome DEF QueueInv
<1>5. /\ status' \in [Steps -> {"NONE", "PENDING", "SENT", "FAILED", "SKIPPED", "DELETED"}]
      /\ \A q \in Steps : status'[q] = "NONE" => status[q] = "NONE" /\ q # s
  BY <1>1, <1>2 DEF QueueInv, TypeOK, Unscheduled
<1>6. \A q \in Steps : status'[q] = "NONE" =>
        told'[q] = 0 /\ retried'[q] = 0 /\ q \notin r.todo /\ r.now # q
  BY <1>2, <1>3, <1>5, StepIsSome DEF QueueInv, Unscheduled
<1>7. /\ attempts' \in [Steps -> Nat] /\ due' \in [Steps -> BOOLEAN]
      /\ told' \in [Steps -> Nat] /\ retried' \in [Steps -> Nat]
  BY <1>3 DEF QueueInv, TypeOK
<1>8. /\ sender' = [sender EXCEPT ![w] = r] /\ r.outcome = "none"
      /\ \A q \in Steps : status'[q] = "NONE" => status[q] = "NONE"
  BY <1>2, <1>5
<1> QED
  BY <1>3, <1>4, <1>5, <1>6, <1>7, <1>8, RunWritten

LEMMA DeliverQueue ==
    ASSUME QueueInv, NEW w \in Senders, deliver(w)
    PROVE  QueueInv'
<1>1. /\ sender[w].now \in Steps /\ sender[w].outcome = "none"
      /\ sender[w] \in Run
  BY SenderTyped DEF deliver, QueueInv
<1>2. PICK o \in {"sent", "failed"} : sender' = [sender EXCEPT ![w].outcome = o]
  BY DEF deliver
<1> DEFINE r == [sender[w] EXCEPT !.outcome = o]
<1>3. /\ r \in Run /\ r.now = sender[w].now /\ r.todo = sender[w].todo
      /\ sender' = [sender EXCEPT ![w] = r]
  BY <1>1, <1>2 DEF Run, QueueInv, TypeOK
<1> HIDE DEF r
<1>4. /\ told' \in [Steps -> Nat]
      /\ \A s \in Steps : s # sender[w].now => told'[s] = told[s]
      /\ UNCHANGED <<status, attempts, due, active, quiet, retried, stops>>
  BY <1>1 DEF deliver, QueueInv, TypeOK
<1>5. r.now # NoStep /\ r.now \notin r.todo
  BY <1>1, <1>3, StepIsSome DEF QueueInv, RunsOrdered
<1>6. \A s \in Steps : status'[s] = "NONE" =>
        told'[s] = 0 /\ retried'[s] = 0 /\ s \notin r.todo /\ r.now # s
  BY <1>1, <1>3, <1>4 DEF QueueInv, Unscheduled
<1>7. /\ status' \in [Steps -> {"NONE", "PENDING", "SENT", "FAILED", "SKIPPED", "DELETED"}]
      /\ attempts' \in [Steps -> Nat] /\ due' \in [Steps -> BOOLEAN]
      /\ retried' \in [Steps -> Nat]
      /\ \A s \in Steps : status'[s] = "NONE" => status[s] = "NONE"
  BY <1>4 DEF QueueInv, TypeOK
<1> QED
  BY <1>3, <1>4, <1>5, <1>6, <1>7, RunWritten

\* What a run that settles its step becomes: it stops, or goes on to the rest.
LEMMA Settled ==
    ASSUME QueueInv, NEW w \in Senders, settle(w)
    PROVE  /\ sender[w].now \in Steps /\ sender[w].outcome # "none"
           /\ \E r \in Run :
                /\ sender' = [sender EXCEPT ![w] = r]
                /\ r.now = NoStep /\ r.outcome = "none" /\ r.todo \subseteq sender[w].todo
           /\ \/ status[sender[w].now] = "DELETED" /\ status' = status /\ attempts' = attempts
              \/ /\ \E t \in {"SENT", "FAILED"} :
                      status' = [status EXCEPT ![sender[w].now] = t]
                 /\ attempts' = [attempts EXCEPT ![sender[w].now] = @ + 1]
<1>1. sender[w].now \in Steps /\ sender[w].outcome # "none" /\ sender[w] \in Run
  BY SenderTyped DEF settle, QueueInv
<1> DEFINE next == [sender[w] EXCEPT !.now = NoStep, !.outcome = "none"]
<1>2. /\ next \in Run /\ next.now = NoStep /\ next.outcome = "none"
      /\ next.todo = sender[w].todo
  BY <1>1 DEF Run
<1>3. \/ /\ status[sender[w].now] = "DELETED"
         /\ sender' = [sender EXCEPT ![w] = Rest] /\ UNCHANGED <<status, attempts>>
      \/ /\ \E t \in {"SENT", "FAILED"} : status' = [status EXCEPT ![sender[w].now] = t]
         /\ attempts' = [attempts EXCEPT ![sender[w].now] = @ + 1]
         /\ sender' = [sender EXCEPT ![w] = IF sender[w].todo = {} THEN Rest ELSE next]
  BY DEF settle, After
<1> HIDE DEF next
<1> QED
  BY <1>1, <1>2, <1>3, RestTyped

LEMMA SettleQueue ==
    ASSUME QueueInv, NEW w \in Senders, settle(w)
    PROVE  QueueInv'
<1>1. sender[w].now \in Steps /\ status[sender[w].now] # "NONE"
  BY Settled DEF QueueInv, Unscheduled
<1>2. PICK r \in Run :
        /\ sender' = [sender EXCEPT ![w] = r]
        /\ r.now = NoStep /\ r.outcome = "none" /\ r.todo \subseteq sender[w].todo
  BY Settled
<1>3. UNCHANGED <<due, active, quiet, told, retried, stops>>
  BY DEF settle
<1>4. NoStep \notin r.todo
  BY <1>2, SenderTyped, StepIsSome DEF QueueInv
<1>5. /\ status' \in [Steps -> {"NONE", "PENDING", "SENT", "FAILED", "SKIPPED", "DELETED"}]
      /\ \A q \in Steps : status'[q] = "NONE" => status[q] = "NONE"
      /\ attempts' \in [Steps -> Nat]
  <2>1. /\ status \in [Steps -> {"NONE", "PENDING", "SENT", "FAILED", "SKIPPED", "DELETED"}]
        /\ attempts \in [Steps -> Nat]
    BY DEF QueueInv, TypeOK
  <2>2. PICK s \in Steps : s = sender[w].now
    BY <1>1
  <2>3. \/ status' = status /\ attempts' = attempts
        \/ /\ \E t \in {"SENT", "FAILED"} : status' = [status EXCEPT ![s] = t]
           /\ attempts' = [attempts EXCEPT ![s] = @ + 1]
    BY <2>2, Settled
  <2> QED
    BY <2>1, <2>3
<1>6. \A q \in Steps : status'[q] = "NONE" =>
        told'[q] = 0 /\ retried'[q] = 0 /\ q \notin r.todo /\ r.now # q
  BY <1>2, <1>3, <1>5, StepIsSome DEF QueueInv, Unscheduled
<1> QED
  BY <1>2, <1>3, <1>4, <1>5, <1>6, RunWritten DEF QueueInv, TypeOK

-----------------------------------------------------------------------------
(* Retries and stops                                                       *)

LEMMA RetryQueue ==
    ASSUME QueueInv, NEW c \in Clerks, NEW s \in Steps, retryQueueItem(c, s)
    PROVE  QueueInv'
<1> DEFINE r == [Rest EXCEPT !.now = s]
<1>1. r \in Run /\ r.todo = {} /\ r.now = s /\ r.outcome = "none"
  BY Singled
<1>2. /\ sender' = [sender EXCEPT ![c] = r] /\ status[s] # "NONE"
      /\ status' = [status EXCEPT ![s] = "PENDING"] /\ due' = [due EXCEPT ![s] = TRUE]
      /\ retried' = [retried EXCEPT ![s] = @ + 1]
      /\ UNCHANGED <<attempts, active, quiet, told, stops>>
  BY DEF retryQueueItem
<1> HIDE DEF r
<1>3. \A q \in Steps : status'[q] = "NONE" => status[q] = "NONE" /\ q # s
  BY <1>2 DEF QueueInv, TypeOK
<1>4. \A q \in Steps : status'[q] = "NONE" =>
        told'[q] = 0 /\ retried'[q] = 0 /\ q \notin r.todo /\ r.now # q
  BY <1>1, <1>2, <1>3 DEF QueueInv, TypeOK, Unscheduled
<1>5. /\ status' \in [Steps -> {"NONE", "PENDING", "SENT", "FAILED", "SKIPPED", "DELETED"}]
      /\ attempts' \in [Steps -> Nat] /\ due' \in [Steps -> BOOLEAN]
      /\ told' \in [Steps -> Nat] /\ retried' \in [Steps -> Nat]
  BY <1>2 DEF QueueInv, TypeOK
<1>6. r.now # NoStep /\ r.now \notin r.todo /\ c \in Senders
  BY <1>1, StepIsSome DEF Senders
<1> QED
  BY <1>1, <1>2, <1>3, <1>4, <1>5, <1>6, RunWritten

LEMMA StopQueue ==
    ASSUME QueueInv, stop
    PROVE  QueueInv' /\ \A w \in Senders : sender'[w] = Rest
<1>1. /\ sender' = [w \in Senders |-> Rest] /\ stops' = stops + 1
      /\ UNCHANGED <<status, attempts, due, active, quiet, told, retried>>
  BY DEF stop
<1>2. TypeOK'
  BY <1>1, RestTyped DEF QueueInv, TypeOK, Run
<1>3. RunsOrdered'
  BY <1>1, RestTyped DEF RunsOrdered
<1>4. Unscheduled'
  BY <1>1, RestTyped, StepIsSome DEF QueueInv, Unscheduled
<1> QED
  BY <1>1, <1>2, <1>3, <1>4 DEF QueueInv

LEMMA QueueInductive == QueueInv /\ [Next]_vars => QueueInv'
<1> SUFFICES ASSUME QueueInv, [Next]_vars PROVE QueueInv'
  OBVIOUS
<1>1. ASSUME NEW r \in Rows, enqueueForIncomplete(r) \/ skipRemaining(r) \/ removeRow(r)
      PROVE  QueueInv'
  <2>1. \A s \in Steps : status'[s] = "NONE" => status[s] = "NONE"
    BY <1>1 DEF QueueInv, TypeOK, enqueueForIncomplete, skipRemaining, removeRow
  <2>2. UNCHANGED <<attempts, due, active, quiet, sender, told, retried, stops>>
    BY <1>1 DEF enqueueForIncomplete, skipRemaining, removeRow
  <2> QED
    BY <1>1, <2>1, <2>2, StatusSteps, StatusWritten DEF QueueInv
<1>2. ASSUME NEW s \in Steps, cancelQueueItem(s) PROVE QueueInv'
  <2>1. \A q \in Steps : status'[q] = "NONE" => status[q] = "NONE"
    BY <1>2 DEF QueueInv, TypeOK, cancelQueueItem
  <2>2. UNCHANGED <<attempts, due, active, quiet, sender, told, retried, stops>>
    BY <1>2 DEF cancelQueueItem
  <2> QED
    BY <1>2, <2>1, <2>2, StatusSteps, StatusWritten DEF QueueInv
<1>3. ASSUME NEW w \in Senders, work(w) PROVE QueueInv'
  BY <1>3, TakeQueue, DeliverQueue, SettleQueue DEF work
<1>4. CASE UNCHANGED vars
  BY <1>4 DEF vars, QueueInv, TypeOK, RunsOrdered, Unscheduled
<1> QED
  BY <1>1, <1>2, <1>3, <1>4, Around, TickQueue, RetryQueue, StopQueue DEF Next

\* Every value stays of its type, a run holds a step once, and a step is in no
\* run before it is scheduled: for every choice of what may overlap.
THEOREM QueueTyped == Spec => []QueueInv
<1>1. Init => QueueInv
  BY Initially DEF SendInv
<1> QED
  BY <1>1, QueueInductive, PTL DEF Spec

-----------------------------------------------------------------------------
(* A message goes out once unless it is asked for                          *)

LEMMA Alone ==
    ASSUME RunsApart, NEW w \in Senders, Busy(w)
    PROVE  \A v \in Senders \ {w} : sender[v] = Rest
BY DEF RunsApart, Busy

\* A step of the only run there is: nothing is owed that was not, and what was
\* sent is not owed again.
LEMMA RunOwes ==
    ASSUME SendInv, NEW w \in Senders, NEW r \in Run, sender' = [sender EXCEPT ![w] = r],
           \A v \in Senders \ {w} : sender[v] = Rest,
           UNCHANGED <<told, retried, stops>>,
           \A s \in Steps : s \in r.todo => Owed(s),
           \A s \in Steps : r.now = s /\ r.outcome = "none" => Owed(s),
           \A s \in Steps : status'[s] = "PENDING" /\ r.now # s => Owed(s)
    PROVE  RunsApart' /\ NoDoubleSend' /\ OweLittle'
<1>1. sender'[w] = r /\ \A v \in Senders \ {w} : sender'[v] = Rest
  BY DEF SendInv, QueueInv, TypeOK
<1>2. RunsApart'
  BY <1>1 DEF RunsApart, Busy
<1>3. NoDoubleSend'
  BY DEF SendInv, NoDoubleSend
<1>4. ASSUME NEW s \in Steps, Owed(s)' PROVE Owed(s)
  <2>1. \A v \in Senders \ {w} : ~Holds(v, s)' /\ sender'[v].now # s
    BY <1>1, RestTyped, StepIsSome DEF Holds
  <2>2. CASE Holds(w, s)'
    BY <1>1, <2>2 DEF Holds
  <2>3. CASE ~Holds(w, s)'
    <3>1. status'[s] = "PENDING" /\ sender'[w].now # s
      BY <1>4, <2>1, <2>3 DEF Owed
    <3> QED
      BY <1>1, <3>1
  <2> QED
    BY <2>2, <2>3
<1>5. OweLittle'
  BY <1>4 DEF SendInv, OweLittle
<1> QED
  BY <1>2, <1>3, <1>5

LEMMA TakeSends ==
    ASSUME SendInv, NEW w \in Senders, NEW s \in Steps, take(w, s)
    PROVE  RunsApart' /\ NoDoubleSend' /\ OweLittle'
<1>1. s \in sender[w].todo /\ sender[w].now = NoStep
  BY Taken DEF SendInv
<1>2. PICK r \in Run :
        /\ sender' = [sender EXCEPT ![w] = r]
        /\ r.outcome = "none" /\ r.todo \subseteq sender[w].todo \ {s}
        /\ \/ r.now = NoStep /\ status' = status
           \/ r.now = NoStep /\ status' = [status EXCEPT ![s] = "SKIPPED"]
           \/ r.now = s /\ status' = status
  BY Taken DEF SendInv
<1>3. \A v \in Senders \ {w} : sender[v] = Rest
  BY <1>1, RestTyped, Alone DEF SendInv, Busy
<1>4. \A q \in Steps : q \in r.todo => Owed(q)
  BY <1>2 DEF Owed, Holds
<1>5. \A q \in Steps : r.now = q /\ r.outcome = "none" => Owed(q)
  BY <1>1, <1>2, StepIsSome DEF Owed, Holds
<1>6. ASSUME NEW q \in Steps, status'[q] = "PENDING", r.now # q PROVE Owed(q)
  <2>1. status[q] = "PENDING"
    BY <1>2, <1>6 DEF SendInv, QueueInv, TypeOK
  <2>2. \A v \in Senders : sender[v].now # q
    BY <1>1, <1>3, RestTyped, StepIsSome
  <2> QED
    BY <2>1, <2>2 DEF Owed
<1>7. UNCHANGED <<told, retried, stops>>
  BY DEF take
<1> QED
  BY <1>2, <1>3, <1>4, <1>5, <1>6, <1>7, RunOwes

LEMMA SettleSends ==
    ASSUME SendInv, NEW w \in Senders, settle(w)
    PROVE  RunsApart' /\ NoDoubleSend' /\ OweLittle'
<1>1. sender[w].now \in Steps
  BY Settled DEF SendInv
<1>2. PICK r \in Run :
        /\ sender' = [sender EXCEPT ![w] = r]
        /\ r.now = NoStep /\ r.outcome = "none" /\ r.todo \subseteq sender[w].todo
  BY Settled DEF SendInv
<1>3. \A v \in Senders \ {w} : sender[v] = Rest
  BY <1>1, RestTyped, StepIsSome, Alone DEF SendInv, Busy
<1>4. \A q \in Steps : q \in r.todo => Owed(q)
  BY <1>2 DEF Owed, Holds
<1>5. \A q \in Steps : r.now # q
  BY <1>2, StepIsSome
<1>6. ASSUME NEW q \in Steps, status'[q] = "PENDING" PROVE Owed(q)
  <2>1. status[q] = "PENDING" /\ q # sender[w].now
    BY <1>1, <1>6, Settled DEF SendInv, QueueInv, TypeOK
  <2>2. \A v \in Senders : sender[v].now # q
    BY <1>3, <2>1, RestTyped, StepIsSome
  <2> QED
    BY <2>1, <2>2 DEF Owed
<1>7. UNCHANGED <<told, retried, stops>>
  BY DEF settle
<1> QED
  BY <1>2, <1>3, <1>4, <1>5, <1>6, <1>7, RunOwes

\* The message goes out: it was owed, and now is not.
LEMMA DeliverSends ==
    ASSUME SendInv, NEW w \in Senders, deliver(w)
    PROVE  RunsApart' /\ NoDoubleSend' /\ OweLittle'
<1>0. PICK s \in Steps : s = sender[w].now
  BY SenderTyped DEF deliver, SendInv, QueueInv
<1>1. s = sender[w].now /\ sender[w].outcome = "none" /\ s \notin sender[w].todo
  BY <1>0 DEF deliver, SendInv, QueueInv, RunsOrdered
<1>2. PICK o \in {"sent", "failed"} : sender' = [sender EXCEPT ![w].outcome = o]
  BY DEF deliver
<1>3. /\ sender'[w].now = s /\ sender'[w].outcome # "none"
      /\ sender'[w].todo = sender[w].todo
      /\ \A v \in Senders \ {w} : sender'[v] = sender[v]
  BY <1>1, <1>2, SenderTyped DEF SendInv, QueueInv, TypeOK, Run
<1>4. \A v \in Senders \ {w} : sender[v] = Rest
  BY <1>1, RestTyped, StepIsSome, Alone DEF SendInv, Busy
<1>5. Owed(s) /\ told[s] <= retried[s] + stops
  BY <1>1 DEF Owed, Holds, SendInv, OweLittle
<1>6. /\ told'[s] \in {told[s], told[s] + 1}
      /\ \A q \in Steps \ {s} : told'[q] = told[q]
      /\ UNCHANGED <<status, retried, stops>>
  BY <1>1 DEF deliver, SendInv, QueueInv, TypeOK
<1>7. RunsApart'
  BY <1>3, <1>4 DEF RunsApart, Busy
<1>8. NoDoubleSend'
  BY <1>1, <1>5, <1>6 DEF SendInv, NoDoubleSend, QueueInv, TypeOK
<1>9. ~Owed(s)'
  BY <1>1, <1>3, <1>4, RestHoldsNothing, RestTyped, StepIsSome DEF Owed, Holds
<1>10. ASSUME NEW q \in Steps \ {s}, Owed(q)' PROVE Owed(q)
  BY <1>1, <1>3, <1>6, <1>10 DEF Owed, Holds
<1>11. OweLittle'
  BY <1>6, <1>9, <1>10 DEF SendInv, OweLittle
<1> QED
  BY <1>7, <1>8, <1>11

\* Nothing is owed after a step of no run that brings nothing back to PENDING.
LEMMA OthersOwe ==
    ASSUME SendInv,
           UNCHANGED <<sender, told, retried, stops>>,
           \A s \in Steps : status'[s] = "PENDING" => status[s] = "PENDING" \/ told[s] = 0
    PROVE  RunsApart' /\ NoDoubleSend' /\ OweLittle'
<1>1. RunsApart' /\ NoDoubleSend'
  BY DEF SendInv, RunsApart, Busy, NoDoubleSend
<1>2. ASSUME NEW s \in Steps, Owed(s)' PROVE told'[s] <= retried'[s] + stops'
  <2>1. CASE Owed(s)
    BY <2>1 DEF SendInv, OweLittle
  <2>2. CASE ~Owed(s)
    <3>1. told[s] = 0
      BY <1>2, <2>2 DEF Owed, Holds
    <3> QED
      BY <3>1 DEF SendInv, QueueInv, TypeOK
  <2> QED
    BY <2>1, <2>2
<1> QED
  BY <1>1, <1>2 DEF OweLittle

LEMMA TickSends ==
    ASSUME Practices = {}, SendInv, NEW w \in Ticks, tick(w)
    PROVE  RunsApart' /\ NoDoubleSend' /\ OweLittle'
<1>1. PICK S \in SUBSET DueNow :
        sender' = [sender EXCEPT ![w] =
          [Rest EXCEPT !.todo = S, !.off = {s \in S : s[2] \notin active}]]
  BY DEF tick
<1> DEFINE r == [Rest EXCEPT !.todo = S, !.off = {s \in S : s[2] \notin active}]
<1>2. S \subseteq Steps /\ \A s \in S : status[s] = "PENDING"
  BY DEF DueNow
<1>3. r \in Run /\ r.todo = S /\ r.now = NoStep /\ r.outcome = "none"
  BY <1>2, Batched
<1>4. UNCHANGED <<status, told, retried, stops>> /\ sender' = [sender EXCEPT ![w] = r]
  BY <1>1 DEF tick
<1> HIDE DEF r
<1>5. \A v \in Senders : sender[v] = Rest
  BY DEF tick, Busy, Senders
<1>6. \A s \in Steps : status[s] = "PENDING" => Owed(s)
  BY <1>5, RestTyped, StepIsSome DEF Owed
<1>7. \A s \in Steps : r.now # s
  BY <1>3, StepIsSome
<1>8. \A s \in Steps : s \in r.todo => Owed(s)
  BY <1>2, <1>3, <1>6
<1> QED
  BY <1>3, <1>4, <1>5, <1>6, <1>7, <1>8, RunOwes DEF Senders

LEMMA RetrySends ==
    ASSUME Practices = {}, SendInv, NEW c \in Clerks, NEW s \in Steps, retryQueueItem(c, s)
    PROVE  RunsApart' /\ NoDoubleSend' /\ OweLittle'
<1> DEFINE r == [Rest EXCEPT !.now = s]
<1>1. r \in Run /\ r.todo = {} /\ r.now = s /\ r.outcome = "none"
  BY Singled
<1>2. \A v \in Senders : sender[v] = Rest
  BY DEF retryQueueItem, Busy
<1>3. /\ sender' = [sender EXCEPT ![c] = r]
      /\ status' = [status EXCEPT ![s] = "PENDING"]
      /\ retried' = [retried EXCEPT ![s] = @ + 1]
      /\ UNCHANGED <<told, stops>>
  BY DEF retryQueueItem
<1> HIDE DEF r
<1>4. sender'[c] = r /\ \A v \in Senders \ {c} : sender'[v] = Rest
  BY <1>2, <1>3 DEF SendInv, QueueInv, TypeOK, Senders
<1>5. RunsApart'
  BY <1>4 DEF RunsApart, Busy
<1>6. /\ retried'[s] = retried[s] + 1 /\ told[s] <= 1 + retried[s] + stops
      /\ retried[s] \in Nat /\ told[s] \in Nat /\ stops \in Nat
      /\ \A q \in Steps \ {s} : retried'[q] = retried[q] /\ status'[q] = status[q]
  BY <1>3 DEF SendInv, QueueInv, TypeOK, NoDoubleSend
<1>7. told'[s] <= retried'[s] + stops'
  BY <1>3, <1>6
<1>8. NoDoubleSend'
  <2> SUFFICES ASSUME NEW q \in Steps PROVE told'[q] <= 1 + retried'[q] + stops'
    BY DEF NoDoubleSend
  <2>1. CASE q = s
    BY <1>3, <1>6, <2>1
  <2>2. CASE q # s
    BY <1>3, <1>6, <2>2 DEF SendInv, NoDoubleSend
  <2> QED
    BY <2>1, <2>2
<1>9. ASSUME NEW q \in Steps \ {s}, Owed(q)' PROVE Owed(q)
  <2>1. ~Holds(c, q)' /\ \A v \in Senders \ {c} : ~Holds(v, q)'
    BY <1>1, <1>4, RestTyped, StepIsSome DEF Holds
  <2>2. status[q] = "PENDING"
    BY <1>6, <1>9, <2>1 DEF Owed
  <2> QED
    BY <1>2, <2>2, RestTyped, StepIsSome DEF Owed
<1>10. OweLittle'
  <2> SUFFICES ASSUME NEW q \in Steps, Owed(q)' PROVE told'[q] <= retried'[q] + stops'
    BY DEF OweLittle
  <2>1. CASE q = s
    BY <1>7, <2>1
  <2>2. CASE q # s
    BY <1>3, <1>6, <1>9, <2>2 DEF SendInv, OweLittle
  <2> QED
    BY <2>1, <2>2
<1> QED
  BY <1>5, <1>8, <1>10

\* A stop takes every run with it and is allowed for.
LEMMA StopSends ==
    ASSUME SendInv, stop
    PROVE  RunsApart' /\ NoDoubleSend' /\ OweLittle'
<1>1. /\ stops' = stops + 1 /\ UNCHANGED <<told, retried>>
      /\ \A w \in Senders : sender'[w] = Rest
  BY StopQueue DEF stop, SendInv
<1>2. RunsApart'
  BY <1>1 DEF RunsApart, Busy
<1>3. \A s \in Steps : told'[s] <= retried'[s] + stops'
  <2> TAKE s \in Steps
  <2>1. told[s] <= 1 + retried[s] + stops /\ retried[s] \in Nat /\ told[s] \in Nat /\ stops \in Nat
    BY DEF SendInv, QueueInv, TypeOK, NoDoubleSend
  <2> QED
    BY <1>1, <2>1
<1>4. \A s \in Steps : told'[s] <= 1 + retried'[s] + stops'
  <2> TAKE s \in Steps
  <2>1. told[s] <= 1 + retried[s] + stops /\ retried[s] \in Nat /\ told[s] \in Nat /\ stops \in Nat
    BY DEF SendInv, QueueInv, TypeOK, NoDoubleSend
  <2> QED
    BY <1>1, <2>1
<1> QED
  BY <1>2, <1>3, <1>4 DEF NoDoubleSend, OweLittle

LEMMA SendInductive == Practices = {} /\ SendInv /\ [Next]_vars => SendInv'
<1> SUFFICES ASSUME Practices = {}, SendInv, [Next]_vars
             PROVE  RunsApart' /\ NoDoubleSend' /\ OweLittle'
  BY QueueInductive DEF SendInv
<1>1. ASSUME NEW r \in Rows, enqueueForIncomplete(r) \/ skipRemaining(r) \/ removeRow(r)
      PROVE  RunsApart' /\ NoDoubleSend' /\ OweLittle'
  <2>1. UNCHANGED <<sender, told, retried, stops>>
    BY <1>1 DEF enqueueForIncomplete, skipRemaining, removeRow
  <2>2. \A s \in Steps : status'[s] = "PENDING" => status[s] = "PENDING" \/ status[s] = "NONE"
    BY <1>1 DEF enqueueForIncomplete, skipRemaining, removeRow
  <2>3. \A s \in Steps : status'[s] = "PENDING" => status[s] = "PENDING" \/ told[s] = 0
    BY <2>2 DEF SendInv, QueueInv, Unscheduled
  <2> QED
    BY <2>1, <2>3, OthersOwe
<1>2. ASSUME NEW s \in Steps, cancelQueueItem(s)
      PROVE  RunsApart' /\ NoDoubleSend' /\ OweLittle'
  <2>1. UNCHANGED <<sender, told, retried, stops>>
    BY <1>2 DEF cancelQueueItem
  <2>2. \A q \in Steps : status'[q] = "PENDING" => status[q] = "PENDING"
    BY <1>2 DEF cancelQueueItem, SendInv, QueueInv, TypeOK
  <2> QED
    BY <2>1, <2>2, OthersOwe
<1>3. ASSUME \/ \E s \in Steps : becomeDue(s)
             \/ \E t \in Templates : switchTemplate(t)
             \/ dayPasses
      PROVE  RunsApart' /\ NoDoubleSend' /\ OweLittle'
  BY <1>3, Around, OthersOwe DEF SendInv
<1>4. ASSUME NEW w \in Senders, work(w) PROVE RunsApart' /\ NoDoubleSend' /\ OweLittle'
  BY <1>4, TakeSends, DeliverSends, SettleSends DEF work
<1>5. CASE UNCHANGED vars
  BY <1>5, OthersOwe DEF vars
<1> QED
  BY <1>1, <1>2, <1>3, <1>4, <1>5, TickSends, RetrySends, StopSends DEF Next

\* While runs and retries do not overlap, a shopper gets a step's message once,
\* once more for each retry and once more for each stop of the server.
THEOREM SentOnce == ASSUME Practices = {} PROVE Spec => []NoDoubleSend
<1>1. SendInv => NoDoubleSend
  BY DEF SendInv
<1>2. SendInv /\ [Next]_vars => SendInv'
  BY SendInductive
<1> QED
  BY <1>1, <1>2, Initially, PTL DEF Spec

-----------------------------------------------------------------------------
(* The refinement                                                          *)

seen == [s \in Steps |-> Seen(s)]

\* How a step's status is seen; only PENDING is a step that waits.
LEMMA SeenAs ==
    ASSUME QueueInv, NEW s \in Steps
    PROVE  /\ Seen(s) = "none" <=> status[s] = "NONE"
           /\ Seen(s) = "deleted" <=> status[s] = "DELETED"
           /\ Seen(s) \in {"waiting", "again"} <=> status[s] = "PENDING"
           /\ Seen(s) = "settled" <=> status[s] \in {"SENT", "FAILED", "SKIPPED"}
BY DEF QueueInv, TypeOK, Seen

\* Writing one status is one step's change, or none that is seen.
LEMMA OneSeen ==
    ASSUME QueueInv, NEW q \in Steps, NEW t, status' = [status EXCEPT ![q] = t],
           \A s \in Steps \ {q} : retried'[s] = retried[s]
    PROVE  seen' = [seen EXCEPT ![q] = seen'[q]]
<1>1. status'[q] = t /\ \A s \in Steps \ {q} : status'[s] = status[s]
  BY DEF QueueInv, TypeOK
<1>2. \A s \in Steps \ {q} : seen'[s] = seen[s]
  BY <1>1 DEF seen, Seen
<1> QED
  BY <1>2 DEF seen

LEMMA Refines == QueueInv /\ [Next]_vars
                 => [Promised!QueueStep \/ Promised!RecoveryStep]_seen
<1> SUFFICES ASSUME QueueInv, [Next]_vars
             PROVE  Promised!QueueStep \/ Promised!RecoveryStep \/ UNCHANGED seen
  OBVIOUS
<1>0. QueueInv'
  BY QueueInductive
<1>1. ASSUME UNCHANGED <<status, retried>> PROVE UNCHANGED seen
  BY <1>1 DEF seen, Seen
<1>2. ASSUME NEW r \in Rows, enqueueForIncomplete(r) PROVE Promised!RecoveryStep
  <2>1. PICK T \in SUBSET active :
          status' = [s \in Steps |-> IF s \in {r} \X T /\ status[s] = "NONE"
                                    THEN "PENDING" ELSE status[s]]
    BY <1>2 DEF enqueueForIncomplete
  <2>2. retried' = retried /\ T \in SUBSET Templates
    BY <1>2, <2>1 DEF enqueueForIncomplete, QueueInv, TypeOK
  <2>3. ASSUME NEW s \in Steps
        PROVE  seen'[s] = IF s \in {r} \X T /\ seen[s] = "none" THEN "waiting" ELSE seen[s]
    <3>1. CASE s \in {r} \X T /\ status[s] = "NONE"
      <4>1. status'[s] = "PENDING" /\ retried'[s] = 0
        BY <2>1, <2>2, <3>1 DEF QueueInv, Unscheduled
      <4>2. seen'[s] = "waiting" /\ seen[s] = "none"
        BY <3>1, <4>1 DEF seen, Seen
      <4> QED
        BY <3>1, <4>2
    <3>2. CASE ~(s \in {r} \X T /\ status[s] = "NONE")
      <4>1. status'[s] = status[s]
        BY <2>1, <3>2
      <4>2. seen'[s] = seen[s]
        BY <2>2, <4>1 DEF seen, Seen
      <4>3. seen[s] = "none" => status[s] = "NONE"
        BY SeenAs DEF seen
      <4> QED
        BY <3>2, <4>2, <4>3
    <3> QED
      BY <3>1, <3>2
  <2>4. seen' = [s \in Steps |-> IF s \in {r} \X T /\ seen[s] = "none"
                                THEN "waiting" ELSE seen[s]]
    BY <2>3 DEF seen
  <2> QED
    BY <2>2, <2>4 DEF Promised!RecoveryStep, Promised!Enqueued, Promised!Steps, seen, Steps
<1>3. ASSUME NEW r \in Rows, skipRemaining(r) PROVE Promised!RecoveryStep
  <2>1. /\ status' = [s \in Steps |-> IF s[1] = r /\ status[s] = "PENDING"
                                     THEN "SKIPPED" ELSE status[s]]
        /\ retried' = retried
    BY <1>3 DEF skipRemaining
  <2>2. ASSUME NEW s \in Steps
        PROVE  seen'[s] = IF s[1] = r /\ seen[s] \in {"waiting", "again"}
                          THEN "settled" ELSE seen[s]
    <3>1. seen[s] \in {"waiting", "again"} <=> status[s] = "PENDING"
      BY SeenAs DEF seen
    <3>2. CASE s[1] = r /\ status[s] = "PENDING"
      <4>1. status'[s] = "SKIPPED"
        BY <2>1, <3>2
      <4>2. seen'[s] = "settled"
        BY <4>1 DEF seen, Seen
      <4> QED
        BY <3>1, <3>2, <4>2
    <3>3. CASE ~(s[1] = r /\ status[s] = "PENDING")
      <4>1. status'[s] = status[s]
        BY <2>1, <3>3
      <4>2. seen'[s] = seen[s]
        BY <2>1, <4>1 DEF seen, Seen
      <4> QED
        BY <3>1, <3>3, <4>2
    <3> QED
      BY <3>2, <3>3
  <2>3. seen' = [s \in Steps |-> IF s[1] = r /\ seen[s] \in {"waiting", "again"}
                                THEN "settled" ELSE seen[s]]
    BY <2>2 DEF seen
  <2> QED
    BY <2>3 DEF Promised!RecoveryStep, Promised!Skipped, Promised!Steps, seen, Steps
<1>4. ASSUME NEW r \in Rows, removeRow(r) PROVE Promised!RecoveryStep
  <2>1. /\ status' = [s \in Steps |-> IF s[1] = r /\ status[s] # "NONE"
                                     THEN "DELETED" ELSE status[s]]
        /\ retried' = retried
    BY <1>4 DEF removeRow
  <2>2. ASSUME NEW s \in Steps
        PROVE  seen'[s] = IF s[1] = r /\ seen[s] # "none" THEN "deleted" ELSE seen[s]
    <3>1. seen[s] = "none" <=> status[s] = "NONE"
      BY SeenAs DEF seen
    <3>2. CASE s[1] = r /\ status[s] # "NONE"
      <4>1. status'[s] = "DELETED"
        BY <2>1, <3>2
      <4>2. seen'[s] = "deleted"
        BY <4>1 DEF seen, Seen
      <4> QED
        BY <3>1, <3>2, <4>2
    <3>3. CASE ~(s[1] = r /\ status[s] # "NONE")
      <4>1. status'[s] = status[s]
        BY <2>1, <3>3
      <4>2. seen'[s] = seen[s]
        BY <2>1, <4>1 DEF seen, Seen
      <4> QED
        BY <3>1, <3>3, <4>2
    <3> QED
      BY <3>2, <3>3
  <2>3. seen' = [s \in Steps |-> IF s[1] = r /\ seen[s] # "none" THEN "deleted" ELSE seen[s]]
    BY <2>2 DEF seen
  <2> QED
    BY <2>3 DEF Promised!RecoveryStep, Promised!Deleted, Promised!Steps, seen, Steps
<1>5. ASSUME NEW s \in Steps, NEW t \in {"SENT", "FAILED", "SKIPPED"},
             status' = [status EXCEPT ![s] = t], retried' = retried,
             status[s] \notin {"NONE", "DELETED"}
      PROVE  Promised!QueueStep \/ UNCHANGED seen
  <2>1. status'[s] = t
    BY <1>5 DEF QueueInv, TypeOK
  <2>2. seen'[s] = "settled" /\ s \in DOMAIN seen
    BY <2>1 DEF seen, Seen
  <2>3. seen' = [seen EXCEPT ![s] = "settled"]
    BY <1>5, <2>2, OneSeen
  <2>4. seen[s] \in {"waiting", "again"} \/ seen[s] = "settled"
    BY <1>5, SeenAs DEF seen, QueueInv, TypeOK
  <2>5. CASE seen[s] \in {"waiting", "again"}
    BY <2>3, <2>5 DEF Promised!QueueStep, Promised!settleStep, Promised!Steps, seen, Steps
  <2>6. CASE seen[s] = "settled"
    BY <2>2, <2>3, <2>6 DEF seen
  <2> QED
    BY <2>4, <2>5, <2>6
<1>6. ASSUME NEW s \in Steps, cancelQueueItem(s) PROVE Promised!QueueStep \/ UNCHANGED seen
  BY <1>5, <1>6 DEF cancelQueueItem
<1>7. ASSUME NEW w \in Senders, NEW s \in Steps, take(w, s)
      PROVE  Promised!QueueStep \/ UNCHANGED seen
  <2>1. s \in sender[w].todo /\ retried' = retried
    BY <1>7 DEF take
  <2>2. \/ status' = status
        \/ status' = [status EXCEPT ![s] = "SKIPPED"] /\ status[s] # "DELETED"
    BY <1>7 DEF take
  <2>3. status[s] # "NONE"
    BY <2>1 DEF QueueInv, Unscheduled
  <2> QED
    BY <1>1, <1>5, <2>1, <2>2, <2>3
<1>8. ASSUME NEW w \in Senders, settle(w) PROVE Promised!QueueStep \/ UNCHANGED seen
  <2>1. PICK s \in Steps : s = sender[w].now
    BY <1>8, Settled
  <2>2. retried' = retried /\ status[s] # "NONE"
    BY <1>8, <2>1 DEF settle, QueueInv, Unscheduled
  <2>3. \/ status' = status
        \/ \E t \in {"SENT", "FAILED"} :
             status' = [status EXCEPT ![s] = t] /\ status[s] # "DELETED"
    BY <1>8, <2>1 DEF settle
  <2> QED
    BY <1>1, <1>5, <2>2, <2>3
<1>9. ASSUME NEW c \in Clerks, NEW s \in Steps, retryQueueItem(c, s) PROVE Promised!QueueStep
  <2>1. /\ status' = [status EXCEPT ![s] = "PENDING"]
        /\ retried' = [retried EXCEPT ![s] = @ + 1]
        /\ status[s] \notin {"NONE", "DELETED"}
    BY <1>9 DEF retryQueueItem
  <2>2. /\ status'[s] = "PENDING" /\ retried'[s] > 0
        /\ \A q \in Steps \ {s} : retried'[q] = retried[q]
    BY <2>1 DEF QueueInv, TypeOK
  <2>3. seen'[s] = "again"
    BY <2>2 DEF seen, Seen
  <2>4. seen' = [seen EXCEPT ![s] = "again"]
    BY <2>1, <2>2, <2>3, OneSeen
  <2>5. seen[s] \in {"waiting", "again", "settled"}
    BY <2>1, SeenAs DEF seen, QueueInv, TypeOK
  <2> QED
    BY <2>4, <2>5 DEF Promised!QueueStep, Promised!retryStep, Promised!Steps, seen, Steps
<1>10. ASSUME \/ \E w \in Ticks : tick(w)
              \/ \E w \in Senders : deliver(w)
              \/ \E s \in Steps : becomeDue(s)
              \/ \E t \in Templates : switchTemplate(t)
              \/ dayPasses
              \/ stop
              \/ UNCHANGED vars
       PROVE  UNCHANGED <<status, retried>>
  BY <1>10 DEF tick, deliver, becomeDue, switchTemplate, dayPasses, stop, vars
<1> QED
  BY <1>1, <1>2, <1>3, <1>4, <1>6, <1>7, <1>8, <1>9, <1>10 DEF Next, work

\* The queue keeps the promises Recovery is built on, whatever overlaps: a step
\* is scheduled once, and only staff bring one back that was settled.
THEOREM QueueImplementsCampaignSteps == Spec => StepsKept
<1>1. Init => Promised!StepsInit
  BY DEF Init, Promised!StepsInit, Promised!Steps, Seen, Steps
<1> QED
  BY <1>1, Initially, QueueInductive, Refines, PTL
     DEF Spec, SendInv, StepsKept, Promised!StepsSpec, seen
=============================================================================
