---------------------------- MODULE MCCampaignQueue ----------------------------
(* Instances of CampaignQueue: two abandoned carts and one template, batches   *)
(* of two so that a run holds one step it has read while it sends the other.   *)
EXTENDS CampaignQueue

CONSTANTS w1, c1, sms

\* A run ends before the next begins, and staff retry between runs.
Apart == {}
=============================================================================
