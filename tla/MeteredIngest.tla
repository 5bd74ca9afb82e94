--------------------------- MODULE MeteredIngest ---------------------------
(***************************************************************************)
(* Ingest with a memory: which fixes were captured while the AC-07 gate    *)
(* stood open. The variable only records; it never restricts a step.       *)
(***************************************************************************)
EXTENDS Ingest

VARIABLE drivenOn   \* history: the fixes captured while the meter ran

meteredVars == <<ingestVars, drivenOn>>

MeteredInit == IngestInit /\ drivenOn = {}

MeteredNext ==
    /\ IngestNext
    /\ drivenOn' = IF meter THEN drivenOn \cup (taken' \ taken) ELSE drivenOn

MeteredSpec == MeteredInit /\ [][MeteredNext]_meteredVars

(* AC-07.3 and AC-07.4: the gate is "evaluated now, for this stretch of    *)
(* driving", and "a campaign paused mid-shift stops the meter from that    *)
(* moment". Driving done wholly while the meter was off is never billed.   *)
PausedIsNotBilled ==
    \A s \in segments : s.state = "BILLABLE" => {s.from, s.to} \cap drivenOn # {}
=============================================================================
