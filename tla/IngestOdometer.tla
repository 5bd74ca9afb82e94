--------------------------- MODULE IngestOdometer ---------------------------
(***************************************************************************)
(* Ingest, uploads and retries and all, implements Odometer.               *)
(***************************************************************************)
EXTENDS Ingest

(* The stretches of the session: its usable fixes taken in order, two by   *)
(* two, where the gap is one the pipeline bridges.                         *)
Stretches ==
    {p \in Usable(Fixes) \X Usable(Fixes) :
        /\ Bridgeable(p[1], p[2])
        /\ \A h \in Usable(Fixes) :
            ~ (RecordedAt[p[1]] < RecordedAt[h] /\ RecordedAt[h] < RecordedAt[p[2]])}

(* The segments that charge for some of a stretch.                         *)
Covering(p) ==
    {s \in segments : /\ RecordedAt[s.from] < RecordedAt[p[2]]
                      /\ RecordedAt[p[1]] < RecordedAt[s.to]}

(* What a stretch was priced as: the one state of the segments built from  *)
(* exactly this pair. Anything else is a verdict the promise does not know.*)
VerdictOf(p) ==
    IF Covering(p) = {} THEN "open"
    ELSE IF /\ \A s \in Covering(p) : s.from = p[1] /\ s.to = p[2]
            /\ \A s, t \in Covering(p) : s.state = t.state
         THEN (CHOOSE s \in Covering(p) : TRUE).state
         ELSE "priced twice"

Odo == INSTANCE Odometer WITH
           Verdicts <- States, Open <- "open",
           verdict <- [p \in Stretches |-> VerdictOf(p)]

(* Each stretch is priced at most once and for good (AC-12.6, AC-16.10).   *)
PricedOnce == Odo!Spec
=============================================================================
