----------------------------- MODULE CampaignSteps -----------------------------
(***************************************************************************)
(* What the rest of the program may count on of the win-back messages.  A  *)
(* step is one message of one template for one abandoned cart: a row of    *)
(* cart_campaign_queue.  RecoveryService schedules and skips steps; the    *)
(* queue settles them, and only staff bring one back.  CampaignQueue       *)
(* shows how, and implements this; Recovery is built on it.                *)
(***************************************************************************)

CONSTANTS
    Rows,           \* incomplete_orders rows
    Templates       \* cart_campaign_templates

Steps == Rows \X Templates

VARIABLE
    step            \* of each step: "none" before its row is written, "waiting",
                    \* "again" when staff asked for it once more, "settled" when
                    \* it was sent, failed or was skipped, "deleted"

StepsTyped == step \in [Steps -> {"none", "waiting", "again", "settled", "deleted"}]

StepsInit == step = [s \in Steps |-> "none"]

\* enqueueForIncomplete; the upsert leaves existing steps alone.
Enqueued(r, T) ==
    [s \in Steps |-> IF s \in {r} \X T /\ step[s] = "none" THEN "waiting" ELSE step[s]]

\* skipRemaining.
Skipped(r) ==
    [s \in Steps |-> IF s[1] = r /\ step[s] \in {"waiting", "again"} THEN "settled" ELSE step[s]]

\* The row is deleted and its steps with it (onDelete: Cascade).
Deleted(r) ==
    [s \in Steps |-> IF s[1] = r /\ step[s] # "none" THEN "deleted" ELSE step[s]]

\* The worker's run, or cancelQueueItem.
settleStep(s) ==
    /\ step[s] \in {"waiting", "again"}
    /\ step' = [step EXCEPT ![s] = "settled"]

\* retryQueueItem.
retryStep(s) ==
    /\ step[s] \in {"waiting", "again", "settled"}
    /\ step' = [step EXCEPT ![s] = "again"]

QueueStep == \E s \in Steps : settleStep(s) \/ retryStep(s)

RecoveryStep ==
    \/ \E r \in Rows, T \in SUBSET Templates : step' = Enqueued(r, T)
    \/ \E r \in Rows : step' = Skipped(r) \/ step' = Deleted(r)

StepsSpec == StepsInit /\ [][QueueStep \/ RecoveryStep]_step
=============================================================================
