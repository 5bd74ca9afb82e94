------------------------------ MODULE Pipeline ------------------------------
(***************************************************************************)
(* Raw fixes in, priced segments out: the pure half of the tracking module *)
(* (src/src/modules/tracking/tracking.pipeline.ts and the zone splitter of *)
(* src/src/shared/geo.ts).                                                 *)
(*                                                                         *)
(* The map is one road cut into unit cells, numbered RoadStart ..          *)
(* RoadEnd - 1; a place is a cell border, the distance of two places is    *)
(* the number of cells between them, and every cell lies in one zone.      *)
(* That keeps what the pipeline's decisions depend on (order, gaps,        *)
(* distance, zone crossings, quality) and leaves the geometry out.         *)
(***************************************************************************)
EXTENDS Integers, FiniteSets

CONSTANTS
    Fixes,              \* the fixes a phone takes in one session, by client id
    RecordedAt,         \* [Fixes -> Nat] capture time, in seconds
    Place,              \* [Fixes -> Int] where on the road
    AccuracyM,          \* [Fixes -> Nat] claimed accuracy, in metres
    Mock,               \* the fixes the handset flags as mocked
    RoadStart, RoadEnd, \* the ends of the road
    ZoneAt,             \* [RoadStart .. RoadEnd - 1 -> Zones]
    Rate,               \* [Zones -> Nat] the campaign's advertiser rate per cell
    EligibleAccuracyM,  \* config.tracking.eligibleAccuracyM
    RejectAccuracyM,    \* config.tracking.rejectAccuracyM
    MaxBridgeSeconds,   \* config.tracking.maxBridgeSeconds
    MaxPlausible        \* config.tracking.maxPlausibleKmh, in cells per second

Zones == {"PRIME", "SECONDARY", "NETWORK"}

States == {"BILLABLE", "PENDING_REVIEW", "NON_BILLABLE"}

ASSUME PipelineAssumption ==
    /\ IsFiniteSet(Fixes)
    /\ RecordedAt \in [Fixes -> Nat]
    /\ RoadStart \in Int /\ RoadEnd \in Int
    /\ Place \in [Fixes -> RoadStart .. RoadEnd]
    /\ AccuracyM \in [Fixes -> Nat]
    /\ Mock \subseteq Fixes
    /\ ZoneAt \in [RoadStart .. RoadEnd - 1 -> Zones]
    /\ Rate \in [Zones -> Nat]
    /\ EligibleAccuracyM \in Nat /\ RejectAccuracyM \in Nat
    /\ MaxBridgeSeconds \in Nat /\ MaxPlausible \in Nat

-----------------------------------------------------------------------------
(* Grading one fix.                                                        *)

QualityOf(f) ==
    IF AccuracyM[f] <= EligibleAccuracyM THEN "ELIGIBLE"
    ELSE IF AccuracyM[f] <= RejectAccuracyM THEN "QUESTIONABLE" ELSE "REJECTED"

Usable(S) == {f \in S : QualityOf(f) # "REJECTED"}

(* The orders the fixes may be read back in: by recordedAt, with nothing   *)
(* to separate two fixes of the same instant (the query has no second      *)
(* ORDER BY column, and the sort that follows it is stable).               *)
Orders ==
    {ord \in [Fixes -> 1 .. Cardinality(Fixes)] :
        \A f, g \in Fixes :
            /\ RecordedAt[f] < RecordedAt[g] => ord[f] < ord[g]
            /\ f # g => ord[f] # ord[g]}

-----------------------------------------------------------------------------
(* One pair of fixes.                                                      *)

Seconds(f, g) == RecordedAt[g] - RecordedAt[f]

DistanceKm(f, g) ==
    IF Place[f] <= Place[g] THEN Place[g] - Place[f] ELSE Place[f] - Place[g]

(* Whether the pair has to wait for a person to look at it.                *)
HeldBecause(f, g) ==
    \/ f \in Mock \/ g \in Mock
    \/ QualityOf(f) = "QUESTIONABLE" \/ QualityOf(g) = "QUESTIONABLE"
    \/ DistanceKm(f, g) > MaxPlausible * Seconds(f, g)

(* The cells driven through between two fixes.                             *)
Cells(f, g) ==
    {c \in RoadStart .. RoadEnd - 1 :
        \/ Place[f] <= c /\ c < Place[g]
        \/ Place[g] <= c /\ c < Place[f]}

(* The zone parts of the pair: the maximal runs <<a, b>> of driven cells   *)
(* that lie in one zone. A part is named by its first cell, which stands   *)
(* for its part_index: the two number the parts of one pair alike.         *)
ZoneParts(f, g) ==
    {r \in Cells(f, g) \X Cells(f, g) :
        /\ r[1] <= r[2]
        /\ \A c \in r[1] .. r[2] : c \in Cells(f, g) /\ ZoneAt[c] = ZoneAt[r[1]]
        /\ r[1] - 1 \in Cells(f, g) => ZoneAt[r[1] - 1] # ZoneAt[r[1]]
        /\ r[2] + 1 \in Cells(f, g) => ZoneAt[r[2] + 1] # ZoneAt[r[1]]}

-----------------------------------------------------------------------------
(* Pairing the fixes and pricing what happened between them.               *)

Consecutive(S, ord) ==
    {p \in S \X S :
        /\ ord[p[1]] < ord[p[2]]
        /\ \A h \in S : ~ (ord[p[1]] < ord[h] /\ ord[h] < ord[p[2]])}

Bridgeable(f, g) ==
    /\ 0 < Seconds(f, g)
    /\ Seconds(f, g) <= MaxBridgeSeconds
    /\ DistanceKm(f, g) # 0

Pairs(S, ord) == {p \in Consecutive(Usable(S), ord) : Bridgeable(p[1], p[2])}

Bridged(S, f, g) ==
    \E h \in S :
        /\ QualityOf(h) = "REJECTED"
        /\ RecordedAt[f] < RecordedAt[h] /\ RecordedAt[h] < RecordedAt[g]

(* Ineligibility outranks a review flag.                                   *)
StateOf(f, g, billable) ==
    IF ~billable THEN "NON_BILLABLE"
    ELSE IF HeldBecause(f, g) THEN "PENDING_REVIEW" ELSE "BILLABLE"

SegmentOf(S, f, g, r, billable) ==
    [from    |-> f,
     to      |-> g,
     part    |-> r[1],
     km      |-> r[2] - r[1] + 1,
     zone    |-> ZoneAt[r[1]],
     state   |-> StateOf(f, g, billable),
     charge  |-> IF StateOf(f, g, billable) = "BILLABLE"
                 THEN (r[2] - r[1] + 1) * Rate[ZoneAt[r[1]]] ELSE 0,
     bridged |-> Bridged(S, f, g)]

BuildSegments(S, ord, billable) ==
    UNION {{SegmentOf(S, p[1], p[2], r, billable) : r \in ZoneParts(p[1], p[2])} :
              p \in Pairs(S, ord)}
=============================================================================
