------------------------------ MODULE Odometer ------------------------------
(***************************************************************************)
(* What the tracking module promises about a session, with no phone, no    *)
(* network and no database: every stretch of driving is priced at most     *)
(* once, and what it was priced as never changes.                          *)
(* ("... so a reviewer looking at a disputed kilometre a month later has   *)
(* to be able to re-run this ... and get the identical answer.")           *)
(***************************************************************************)
CONSTANTS Stretches, Verdicts, Open

VARIABLE verdict

Init == verdict = [s \in Stretches |-> Open]

(* Any number of open stretches are priced; a priced one is final.         *)
Next ==
    /\ verdict' \in [Stretches -> Verdicts \cup {Open}]
    /\ \A s \in Stretches : verdict[s] # Open => verdict'[s] = verdict[s]

Spec == Init /\ [][Next]_verdict
=============================================================================
