----------------------------- MODULE CampaignQueue -----------------------------
(***************************************************************************)
(* The win-back messages scheduled for abandoned carts                     *)
(* (CartCampaignsService).  A step is one message of one template for one  *)
(* abandoned cart: a row of cart_campaign_queue.                           *)
(*                                                                         *)
(* Every five minutes the worker reads a batch of due steps and handles    *)
(* them one by one; a member of staff may send a step again at once.       *)
(* Neither looks at the step's status again before the message goes out,   *)
(* and the status is written after it: read, delivery and writing are      *)
(* steps of their own.  The server may stop between any two of them.       *)
(***************************************************************************)
EXTENDS Integers, FiniteSets

CONSTANTS
    Rows,           \* incomplete_orders rows
    Templates,      \* cart_campaign_templates
    MaxAttempts,    \* settings.maxAttempts
    Batch,          \* how many due steps a tick reads (take: 50)
    Ticks,          \* runs of the worker that may be in progress at a time
    Clerks,         \* retries by staff that may be in progress at a time
    MaxRetries,     \* bound on the retries of one step
    MaxStops,       \* bound on the server's stops
    Practices       \* what may overlap, see below

\* "retry_during_tick": staff retry while the worker runs.
\* "ticks_overlap": a tick starts while the last one is still busy.
AllPractices == {"retry_during_tick", "ticks_overlap"}

ASSUME QueueAssumption ==
    /\ MaxAttempts \in Nat /\ Batch \in Nat \ {0}
    /\ MaxRetries \in Nat /\ MaxStops \in Nat
    /\ Ticks \cap Clerks = {} /\ Practices \subseteq AllPractices

Steps == Rows \X Templates
NoStep == <<>>
Senders == Ticks \cup Clerks

VARIABLES
    status,         \* of each step, "NONE" before and "DELETED" after its row
    attempts,
    due,            \* scheduled_at has come
    active,         \* templates with status ACTIVE
    quiet,          \* it is within the quiet hours
    sender,         \* what each worker run and each retry is doing
    told,           \* messages the shopper got for a step (history)
    retried,        \* retries by staff (history)
    stops           \* how often the server stopped (history)

vars == <<status, attempts, due, active, quiet, sender, told, retried, stops>>

\* todo: what is left of the batch; off: those of it whose template was not
\* active when the batch was read; now: the step being sent, and how it went.
Rest == [todo |-> {}, off |-> {}, now |-> NoStep, outcome |-> "none"]

TypeOK ==
    /\ status \in [Steps -> {"NONE", "PENDING", "SENT", "FAILED", "SKIPPED", "DELETED"}]
    /\ attempts \in [Steps -> Nat]
    /\ due \in [Steps -> BOOLEAN]
    /\ active \subseteq Templates
    /\ quiet \in BOOLEAN
    /\ sender \in [Senders -> [todo : SUBSET Steps, off : SUBSET Steps,
                               now : Steps \cup {NoStep},
                               outcome : {"none", "sent", "failed"}]]
    /\ told \in [Steps -> Nat] /\ retried \in [Steps -> Nat] /\ stops \in Nat

Init ==
    /\ status = [s \in Steps |-> "NONE"]
    /\ attempts = [s \in Steps |-> 0]
    /\ due = [s \in Steps |-> FALSE]
    /\ active = Templates
    /\ quiet = FALSE
    /\ sender = [w \in Senders |-> Rest]
    /\ told = [s \in Steps |-> 0]
    /\ retried = [s \in Steps |-> 0]
    /\ stops = 0

Busy(w) == sender[w] # Rest

-----------------------------------------------------------------------------
(* RecoveryService, at any moment (Recovery shows when)                    *)

\* Mutant: no unique key on the step, so a settled one is written again.
enqueueAgain(r) ==
    /\ \E T \in SUBSET active :
          status' = [s \in Steps |-> IF s \in {r} \X T /\ status[s] # "DELETED"
                                    THEN "PENDING" ELSE status[s]]
    /\ UNCHANGED <<attempts, due, active, quiet, sender, told, retried, stops>>

\* Steps for the active templates whose channel has an address; the upsert
\* leaves existing steps alone.
enqueueForIncomplete(r) ==
    /\ \E T \in SUBSET active :
          status' = [s \in Steps |-> IF s \in {r} \X T /\ status[s] = "NONE"
                                    THEN "PENDING" ELSE status[s]]
    /\ UNCHANGED <<attempts, due, active, quiet, sender, told, retried, stops>>

skipRemaining(r) ==
    /\ status' = [s \in Steps |-> IF s[1] = r /\ status[s] = "PENDING"
                                  THEN "SKIPPED" ELSE status[s]]
    /\ UNCHANGED <<attempts, due, active, quiet, sender, told, retried, stops>>

\* The row is deleted and its steps with it (onDelete: Cascade).
removeRow(r) ==
    /\ status' = [s \in Steps |-> IF s[1] = r /\ status[s] # "NONE"
                                  THEN "DELETED" ELSE status[s]]
    /\ UNCHANGED <<attempts, due, active, quiet, sender, told, retried, stops>>

-----------------------------------------------------------------------------
(* The worker                                                              *)

DueNow == {s \in Steps : status[s] = "PENDING" /\ due[s] /\ attempts[s] < MaxAttempts}
Smaller(m, n) == IF m < n THEN m ELSE n

\* processQueue, up to the read of the batch.
tick(w) ==
    /\ ~Busy(w) /\ ~quiet
    /\ "ticks_overlap" \in Practices \/ \A v \in Ticks : ~Busy(v)
    /\ "retry_during_tick" \in Practices \/ \A c \in Clerks : ~Busy(c)
    /\ DueNow # {}
    /\ \E S \in SUBSET DueNow :
          /\ Cardinality(S) = Smaller(Batch, Cardinality(DueNow))
          /\ sender' = [sender EXCEPT ![w] =
               [Rest EXCEPT !.todo = S, !.off = {s \in S : s[2] \notin active}]]
    /\ UNCHANGED <<status, attempts, due, active, quiet, told, retried, stops>>

\* The end of a step: the next of the batch, or the end of the run.
After(w) ==
    IF sender[w].todo = {} THEN Rest
    ELSE [sender[w] EXCEPT !.now = NoStep, !.outcome = "none"]

\* The next step of the batch: skipped when its template was not active, read
\* again without a look at its status otherwise.  A deleted step throws and
\* ends the run.
take(w, s) ==
    /\ sender[w].now = NoStep /\ s \in sender[w].todo
    /\ LET rest == [sender[w] EXCEPT !.todo = @ \ {s}]
       IN  IF status[s] = "DELETED"
           THEN sender' = [sender EXCEPT ![w] = Rest] /\ UNCHANGED status
           ELSE IF s \in sender[w].off
           THEN /\ status' = [status EXCEPT ![s] = "SKIPPED"]
                /\ sender' = [sender EXCEPT ![w] = IF rest.todo = {} THEN Rest ELSE rest]
           ELSE /\ sender' = [sender EXCEPT ![w] = [rest EXCEPT !.now = s]]
                /\ UNCHANGED status
    /\ UNCHANGED <<attempts, due, active, quiet, told, retried, stops>>

\* The provider takes the message or reports a failure; neither throws.
deliver(w) ==
    LET s == sender[w].now
    IN  /\ s # NoStep /\ sender[w].outcome = "none"
        /\ \/ /\ sender' = [sender EXCEPT ![w].outcome = "sent"]
              /\ told' = [told EXCEPT ![s] = @ + 1]
           \/ /\ sender' = [sender EXCEPT ![w].outcome = "failed"]
              /\ UNCHANGED told
        /\ UNCHANGED <<status, attempts, due, active, quiet, retried, stops>>

\* Mutant: a failure is left to the next tick.
settleFailedLater(w) ==
    LET s == sender[w].now
    IN  /\ s # NoStep /\ sender[w].outcome # "none"
        /\ IF status[s] = "DELETED"
           THEN sender' = [sender EXCEPT ![w] = Rest] /\ UNCHANGED <<status, attempts>>
           ELSE /\ status' = [status EXCEPT ![s] =
                     IF sender[w].outcome = "sent" THEN "SENT" ELSE @]
                /\ attempts' = attempts
                /\ sender' = [sender EXCEPT ![w] = After(w)]
        /\ UNCHANGED <<due, active, quiet, told, retried, stops>>

\* Mutant: only the attempt is counted.
settleCountOnly(w) ==
    LET s == sender[w].now
    IN  /\ s # NoStep /\ sender[w].outcome # "none"
        /\ IF status[s] = "DELETED"
           THEN sender' = [sender EXCEPT ![w] = Rest] /\ UNCHANGED <<status, attempts>>
           ELSE /\ attempts' = [attempts EXCEPT ![s] = @ + 1]
                /\ sender' = [sender EXCEPT ![w] = After(w)]
                /\ UNCHANGED status
        /\ UNCHANGED <<due, active, quiet, told, retried, stops>>

\* The outcome is written over whatever the status has become.
settle(w) ==
    LET s == sender[w].now
    IN  /\ s # NoStep /\ sender[w].outcome # "none"
        /\ IF status[s] = "DELETED"
           THEN sender' = [sender EXCEPT ![w] = Rest] /\ UNCHANGED <<status, attempts>>
           ELSE /\ status' = [status EXCEPT ![s] =
                     IF sender[w].outcome = "sent" THEN "SENT" ELSE "FAILED"]
                /\ attempts' = [attempts EXCEPT ![s] = @ + 1]
                /\ sender' = [sender EXCEPT ![w] = After(w)]
        /\ UNCHANGED <<due, active, quiet, told, retried, stops>>

-----------------------------------------------------------------------------
(* Staff, the clock and the server                                         *)

\* retryQueueItem: due at once, and sent by the request itself.
retryQueueItem(c, s) ==
    /\ ~Busy(c) /\ status[s] \notin {"NONE", "DELETED"}
    /\ "retry_during_tick" \in Practices \/ \A w \in Senders : ~Busy(w)
    /\ retried[s] < MaxRetries
    /\ status' = [status EXCEPT ![s] = "PENDING"]
    /\ due' = [due EXCEPT ![s] = TRUE]
    /\ retried' = [retried EXCEPT ![s] = @ + 1]
    /\ sender' = [sender EXCEPT ![c] = [Rest EXCEPT !.now = s]]
    /\ UNCHANGED <<attempts, active, quiet, told, stops>>

cancelQueueItem(s) ==
    /\ status[s] \notin {"NONE", "DELETED"}
    /\ status' = [status EXCEPT ![s] = "SKIPPED"]
    /\ UNCHANGED <<attempts, due, active, quiet, sender, told, retried, stops>>

\* updateTemplate, as far as the worker looks.
switchTemplate(t) ==
    /\ active' = IF t \in active THEN active \ {t} ELSE active \cup {t}
    /\ UNCHANGED <<status, attempts, due, quiet, sender, told, retried, stops>>

becomeDue(s) ==
    /\ status[s] = "PENDING" /\ ~due[s]
    /\ due' = [due EXCEPT ![s] = TRUE]
    /\ UNCHANGED <<status, attempts, active, quiet, sender, told, retried, stops>>

\* The quiet hours begin or end.
dayPasses ==
    /\ quiet' = ~quiet
    /\ UNCHANGED <<status, attempts, due, active, sender, told, retried, stops>>

\* The server stops: every run ends where it is.
stop ==
    /\ stops < MaxStops /\ stops' = stops + 1
    /\ sender' = [w \in Senders |-> Rest]
    /\ UNCHANGED <<status, attempts, due, active, quiet, told, retried>>

work(w) == (\E s \in Steps : take(w, s)) \/ deliver(w) \/ settle(w)

Next ==
    \/ \E r \in Rows : enqueueForIncomplete(r) \/ skipRemaining(r) \/ removeRow(r)
    \/ \E w \in Ticks : tick(w)
    \/ \E w \in Senders : work(w)
    \/ \E s \in Steps : becomeDue(s) \/ cancelQueueItem(s)
    \/ \E s \in Steps, c \in Clerks : retryQueueItem(c, s)
    \/ \E t \in Templates : switchTemplate(t)
    \/ dayPasses
    \/ stop

\* The queue runs every five minutes for as long as the server is up, and the
\* quiet hours end every day; a run that has started goes on to its end.
Fairness ==
    /\ \A s \in Steps : WF_vars(becomeDue(s))
    /\ SF_vars(\E w \in Ticks : tick(w))
    /\ \A w \in Senders : WF_vars(work(w))
    /\ WF_vars(quiet /\ dayPasses)

Spec == Init /\ [][Next]_vars /\ Fairness

-----------------------------------------------------------------------------
(* Properties                                                              *)

\* A step that staff never retried is sent once, and once more per retry; a
\* stop of the server between the message and its record may add one (the
\* comment on locked_at in the schema, for runs that do not overlap).
NoDoubleSend == \A s \in Steps : told[s] <= 1 + retried[s] + stops

\* Every step that waits and may still be tried is sent, fails, is skipped or
\* goes with its cart; none is forgotten, however the batches fall.
DueStepsSettle ==
    \A s \in Steps :
        (status[s] = "PENDING" /\ attempts[s] < MaxAttempts) ~> (status[s] # "PENDING")

\* The promises Recovery is built on: a step is scheduled once, and only staff
\* bring one back that has been sent, has failed or was skipped.
Seen(s) ==
    CASE status[s] = "NONE"    -> "none"
      [] status[s] = "PENDING" -> IF retried[s] > 0 THEN "again" ELSE "waiting"
      [] status[s] = "DELETED" -> "deleted"
      [] OTHER                 -> "settled"

Promised == INSTANCE CampaignSteps WITH step <- [s \in Steps |-> Seen(s)]

StepsKept == Promised!StepsSpec
=============================================================================
