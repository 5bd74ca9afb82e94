---------------------------- MODULE MCCampaigns -----------------------------
(* Two campaigns that want one vehicle, created by x; x and y both hold    *)
(* every permission.                                                       *)
EXTENDS Fleet, TLC

CONSTANTS x, y

Everything == CampaignIds \X Vehicles

CreatedByX == [c \in CampaignIds |-> x]

Alike == Permutations(Requests) \cup Permutations(CampaignIds)
=============================================================================
