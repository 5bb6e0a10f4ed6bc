----------------------------- MODULE MCCampaign -----------------------------
(* Instances of Campaign for TLC. *)
EXTENDS Campaign
=============================================================================
