------------------------------ MODULE MCRaces -------------------------------
(***************************************************************************)
(* What holds although everything overlaps: any phone, whose uploads are   *)
(* any part of its buffer and run at the same time (Ingest), and two       *)
(* requests of the back office on one campaign that may die anywhere       *)
(* (Campaigns). A behaviour follows the one `focus` names, the other rests.*)
(***************************************************************************)
EXTENDS MCIngest, MCCampaigns

VARIABLE focus

racesVars == <<ingestVars, vars, focus>>

RacesInit == IngestInit /\ Init /\ focus \in {"uploads", "office"}

OnUploads == focus = "uploads" /\ IngestNext /\ UNCHANGED <<vars, focus>>
OnOffice == focus = "office" /\ Next /\ UNCHANGED <<ingestVars, focus>>

RacesNext == OnUploads \/ OnOffice

RacesSpec == RacesInit /\ [][RacesNext]_racesVars

EveryoneAlike == CallsAlike \cup Alike
=============================================================================
