---------------------------- MODULE IngestProofs ----------------------------
(***************************************************************************)
(* What holds of Ingest for every set of fixes, every road and any number  *)
(* of concurrent uploads.                                                  *)
(*                                                                         *)
(* Deliveries is inductive for any phone; with Pricing it gives that the   *)
(* schema's unique key consumes a pair of fixes once. That no moment of    *)
(* driving is priced twice needs more: a phone that sends its oldest fixes *)
(* first and waits for the answer (SerialPhone), and a clock that never    *)
(* stamps two fixes alike (DistinctTimes). Then everything the server has  *)
(* stored is at all times a prefix of the drive (Prefixes).                *)
(***************************************************************************)
EXTENDS IngestOdometer, FiniteSetTheorems, TLAPS

DistinctTimes == \A f, g \in Fixes : RecordedAt[f] = RecordedAt[g] => f = g

-----------------------------------------------------------------------------
(* The pipeline.                                                           *)

(* Two zone parts of one pair that start at the same cell are the same     *)
(* part, and two that do not have no cell in common: part_index names a    *)
(* part of the pair and the parts do not overlap (splitSegmentByZone).     *)
LEMMA PartsDisjoint ==
    ASSUME NEW f \in Fixes, NEW g \in Fixes,
           NEW q \in ZoneParts(f, g), NEW r \in ZoneParts(f, g)
    PROVE  /\ q[1] \in Int /\ q[2] \in Int /\ q[1] <= q[2] /\ q = <<q[1], q[2]>>
           /\ q[1] = r[1] => q = r
           /\ q[1] < r[1] => q[2] < r[1]
<1>1. Cells(f, g) \subseteq Int
    BY PipelineAssumption DEF Cells
<1>2. \A p \in ZoneParts(f, g) :
          /\ p = <<p[1], p[2]>> /\ p[1] \in Int /\ p[2] \in Int /\ p[1] <= p[2]
          /\ \A c \in p[1] .. p[2] : c \in Cells(f, g) /\ ZoneAt[c] = ZoneAt[p[1]]
          /\ p[1] - 1 \in Cells(f, g) => ZoneAt[p[1] - 1] # ZoneAt[p[1]]
          /\ p[2] + 1 \in Cells(f, g) => ZoneAt[p[2] + 1] # ZoneAt[p[1]]
    BY <1>1 DEF ZoneParts
<1>3. ASSUME NEW p \in ZoneParts(f, g), NEW s \in ZoneParts(f, g),
             p[1] <= s[1], s[1] <= p[2]
      PROVE  p[1] = s[1]
    <2>1. SUFFICES ASSUME p[1] # s[1] PROVE FALSE
        OBVIOUS
    <2>2. s[1] \in p[1] .. p[2] /\ s[1] - 1 \in p[1] .. p[2]
        BY <1>2, <1>3, <2>1
    <2>3. QED
        BY <1>2, <2>2
<1>4. ASSUME NEW p \in ZoneParts(f, g), NEW s \in ZoneParts(f, g),
             p[1] = s[1], p[2] < s[2]
      PROVE  FALSE
    <2>1. p[2] + 1 \in s[1] .. s[2] /\ p[2] \in s[1] .. s[2]
        BY <1>2, <1>4
    <2>2. QED
        BY <1>2, <1>4, <2>1
<1>5. q[1] = r[1] => q[2] = r[2]
    BY <1>2, <1>4
<1>6. QED
    BY <1>2, <1>3, <1>5

(* What a batch is turned into: typed segments, each a zone part of a      *)
(* bridgeable pair of usable fixes, with the verdict of that pair.         *)
LEMMA BuiltSegments ==
    ASSUME NEW S \in SUBSET Fixes, NEW ord \in Orders, NEW gate \in BOOLEAN,
           NEW s \in BuildSegments(S, ord, gate)
    PROVE  /\ s \in Segment
           /\ <<s.from, s.to>> \in Pairs(S, ord)
           /\ s.from \in Usable(S) /\ s.to \in Usable(S)
           /\ s.state = StateOf(s.from, s.to, gate)
           /\ \E r \in ZoneParts(s.from, s.to) :
                 s = SegmentOf(S, s.from, s.to, r, gate)
<1>1. PICK p \in Pairs(S, ord) : \E r \in ZoneParts(p[1], p[2]) :
                                     s = SegmentOf(S, p[1], p[2], r, gate)
    BY DEF BuildSegments
<1>2. PICK r \in ZoneParts(p[1], p[2]) : s = SegmentOf(S, p[1], p[2], r, gate)
    BY <1>1
<1>3. /\ p = <<p[1], p[2]>> /\ p[1] \in Usable(S) /\ p[2] \in Usable(S)
      /\ p[1] \in Fixes /\ p[2] \in Fixes
    BY DEF Pairs, Consecutive, Usable
<1>4. s.from = p[1] /\ s.to = p[2] /\ s.state = StateOf(p[1], p[2], gate)
    BY <1>2 DEF SegmentOf
<1>5. s \in Segment
    <2>1. r[1] \in Int /\ r[2] \in Int /\ r[1] <= r[2]
        BY <1>3, PartsDisjoint
    <2>2. r[1] \in RoadStart .. RoadEnd - 1
        BY DEF ZoneParts, Cells
    <2>3. ZoneAt[r[1]] \in Zones /\ Rate[ZoneAt[r[1]]] \in Nat
        BY <2>2, PipelineAssumption
    <2>4. StateOf(p[1], p[2], gate) \in States
        BY DEF StateOf, States
    <2>5. s.charge \in Int
        BY <1>2, <2>1, <2>3 DEF SegmentOf
    <2>6. Bridged(S, p[1], p[2]) \in BOOLEAN
        BY DEF Bridged
    <2>7. QED
        BY <1>2, <1>3, <2>1, <2>3, <2>4, <2>5, <2>6 DEF SegmentOf, Segment
<1>6. QED
    BY <1>1, <1>2, <1>3, <1>4, <1>5

(* Every zone part of every pair is built.                                 *)
LEMMA AllPartsBuilt ==
    ASSUME NEW S \in SUBSET Fixes, NEW ord \in Orders, NEW gate \in BOOLEAN,
           NEW p \in Pairs(S, ord), NEW r \in ZoneParts(p[1], p[2])
    PROVE  \E s \in BuildSegments(S, ord, gate) : Key(s) = <<p[1], p[2], r[1]>>
<1>1. SegmentOf(S, p[1], p[2], r, gate) \in BuildSegments(S, ord, gate)
    BY DEF BuildSegments
<1>2. Key(SegmentOf(S, p[1], p[2], r, gate)) = <<p[1], p[2], r[1]>>
    BY DEF SegmentOf, Key
<1>3. QED
    BY <1>1, <1>2

(* Consecutive fixes are adjacent in time once no two share an instant,    *)
(* whatever order the database hands them over in.                         *)
LEMMA ConsecutiveInTime ==
    ASSUME DistinctTimes, NEW S \in SUBSET Fixes, NEW ord \in Orders,
           NEW f \in S, NEW g \in S
    PROVE  <<f, g>> \in Consecutive(S, ord) <=>
              /\ RecordedAt[f] < RecordedAt[g]
              /\ \A h \in S : ~ (RecordedAt[f] < RecordedAt[h] /\ RecordedAt[h] < RecordedAt[g])
<1>1. Cardinality(Fixes) \in Nat
    BY PipelineAssumption, FS_CardinalityType
<1>2. \A h \in Fixes : ord[h] \in Int /\ RecordedAt[h] \in Int
    BY <1>1, PipelineAssumption DEF Orders
<1>3. \A h, k \in Fixes : RecordedAt[h] < RecordedAt[k] <=> ord[h] < ord[k]
    <2>1. SUFFICES ASSUME NEW h \in Fixes, NEW k \in Fixes
                   PROVE  RecordedAt[h] < RecordedAt[k] <=> ord[h] < ord[k]
        OBVIOUS
    <2>2. RecordedAt[h] < RecordedAt[k] => ord[h] < ord[k]
        BY DEF Orders
    <2>3. RecordedAt[k] < RecordedAt[h] => ord[k] < ord[h]
        BY DEF Orders
    <2>4. RecordedAt[h] = RecordedAt[k] => h = k
        BY DEF DistinctTimes
    <2>5. QED
        BY <1>2, <2>2, <2>3, <2>4
<1>4. QED
    BY <1>3 DEF Consecutive

-----------------------------------------------------------------------------
(* For any phone: nothing is lost on the way.                              *)

(* A batch under way was taken by the phone; an answered one is stored;    *)
(* so is everything the phone has deleted.                                 *)
Deliveries ==
    /\ \A c \in Calls : calls[c].batch \subseteq taken
    /\ \A c \in Calls : calls[c].at = "answered" => calls[c].batch \subseteq points
    /\ DeletedIsStored

LEMMA NoCallType == NoCall \in Call
BY DEF NoCall, Call

LEMMA DeliveriesInit == IngestInit => IngestTypeOK /\ Deliveries
BY NoCallType DEF IngestInit, IngestTypeOK, Deliveries, DeletedIsStored, NoCall

LEMMA DeliveriesStep ==
    IngestTypeOK /\ Deliveries /\ [IngestNext]_ingestVars => (IngestTypeOK /\ Deliveries)'
<1> SUFFICES ASSUME IngestTypeOK, Deliveries, [IngestNext]_ingestVars
             PROVE  (IngestTypeOK /\ Deliveries)'
    OBVIOUS
<1> USE DEF IngestTypeOK, Deliveries, DeletedIsStored
<1>1. ASSUME NEW f \in Fixes, Take(f) PROVE (IngestTypeOK /\ Deliveries)'
    BY <1>1 DEF Take
<1>2. ASSUME NEW c \in Calls, Send(c) PROVE (IngestTypeOK /\ Deliveries)'
    <2>1. PICK b \in SUBSET buffer :
              calls' = [calls EXCEPT ![c] = [NoCall EXCEPT !.at = "sent", !.batch = b]]
        BY <1>2 DEF Send
    <2>2. [NoCall EXCEPT !.at = "sent", !.batch = b] \in Call
        BY DEF NoCall, Call
    <2>3. [NoCall EXCEPT !.at = "sent", !.batch = b].batch = b
        BY DEF NoCall
    <2>4. [NoCall EXCEPT !.at = "sent", !.batch = b].at = "sent"
        BY DEF NoCall
    <2>5. UNCHANGED <<taken, buffer, meter, points, segments>> /\ waiting' \subseteq Calls
        BY <1>2 DEF Send
    <2>6. IngestTypeOK'
        BY <2>1, <2>2, <2>5
    <2>7. QED
        BY <2>1, <2>3, <2>4, <2>5, <2>6
<1>3. ASSUME NEW c \in Calls, Answer(c) PROVE (IngestTypeOK /\ Deliveries)'
    BY <1>3, NoCallType DEF Answer, NoCall
<1>4. ASSUME NEW c \in Calls, Timeout(c) PROVE (IngestTypeOK /\ Deliveries)'
    BY <1>4 DEF Timeout
<1>5. ASSUME NEW c \in Calls, Lose(c) PROVE (IngestTypeOK /\ Deliveries)'
    BY <1>5, NoCallType DEF Lose, NoCall
<1>6. ASSUME NEW c \in Calls, Evaluate(c) PROVE (IngestTypeOK /\ Deliveries)'
    <2>1. calls'[c] = [calls[c] EXCEPT !.at = "evaluated", !.gate = meter]
        BY <1>6 DEF Evaluate
    <2>2. calls'[c] \in Call /\ calls'[c].batch = calls[c].batch /\ calls'[c].at = "evaluated"
        BY <2>1 DEF Call
    <2>3. calls' \in [Calls -> Call]
        BY <1>6, <2>2 DEF Evaluate
    <2>4. QED
        BY <1>6, <2>2, <2>3 DEF Evaluate
<1>7. ASSUME NEW c \in Calls, Insert(c) PROVE (IngestTypeOK /\ Deliveries)'
    <2>1. PICK w \in SUBSET Fixes :
              calls' = [calls EXCEPT ![c].at = "inserted", ![c].seen = w]
        BY <1>7 DEF Insert, Window
    <2>2. calls'[c] = [calls[c] EXCEPT !.at = "inserted", !.seen = w]
        BY <2>1
    <2>3. calls'[c] \in Call /\ calls'[c].batch = calls[c].batch /\ calls'[c].at = "inserted"
        BY <2>2 DEF Call
    <2>4. calls' \in [Calls -> Call]
        BY <1>7, <2>3 DEF Insert
    <2>5. QED
        BY <1>7, <2>3, <2>4 DEF Insert
<1>8. ASSUME NEW c \in Calls, Commit(c) PROVE (IngestTypeOK /\ Deliveries)'
    <2>1. calls'[c] = [calls[c] EXCEPT !.at = "answered", !.seen = {}]
        BY <1>8 DEF Commit
    <2>2. calls'[c] \in Call /\ calls'[c].batch = calls[c].batch /\ calls'[c].at = "answered"
        BY <2>1 DEF Call
    <2>3. calls' \in [Calls -> Call]
        BY <1>8, <2>2 DEF Commit
    <2>4. PICK ord \in Orders :
              segments' = segments \cup
                  Unstored(BuildSegments(calls[c].seen, ord, calls[c].gate))
        BY <1>8 DEF Commit
    <2>5. calls[c].seen \in SUBSET Fixes /\ calls[c].gate \in BOOLEAN
        BY DEF Call
    <2>6. BuildSegments(calls[c].seen, ord, calls[c].gate) \subseteq Segment
        BY <2>5, BuiltSegments
    <2>7. segments' \subseteq Segment
        BY <2>4, <2>6 DEF Unstored
    <2>8. QED
        BY <1>8, <2>2, <2>3, <2>7 DEF Commit
<1>9. CASE MeterChanges
    BY <1>9 DEF MeterChanges
<1>10. CASE UNCHANGED ingestVars
    BY <1>10 DEF ingestVars
<1>11. QED
    BY <1>1, <1>2, <1>3, <1>4, <1>5, <1>6, <1>7, <1>8, <1>9, <1>10
       DEF IngestNext, Phone, Server

(* Every state is well typed, and every call's batch accounted for.        *)
THEOREM Typed == IngestSpec => [](IngestTypeOK /\ Deliveries)
BY DeliveriesInit, DeliveriesStep, PTL DEF IngestSpec

(* For any phone, network and interleaving: a fix leaves the phone's       *)
(* buffer only once gps_points holds it.                                   *)
THEOREM NoFixIsLost == IngestSpec => []DeletedIsStored
<1>1. IngestTypeOK /\ Deliveries => DeletedIsStored
    BY DEF Deliveries
<1>2. QED
    BY <1>1, Typed, PTL

-----------------------------------------------------------------------------
(* For any phone: the unique key consumes a pair of fixes once.            *)

(* A segment is a zone part of its pair, named by its key, and the pair is *)
(* stored whole and with one verdict.                                      *)
Pricing ==
    /\ \A s \in segments : \E r \in ZoneParts(s.from, s.to) :
           s.part = r[1] /\ s.km = r[2] - r[1] + 1
    /\ \A s, t \in segments : Key(s) = Key(t) => s = t
    /\ \A s, t \in segments : s.from = t.from /\ s.to = t.to => s.state = t.state
    /\ \A s \in segments : \A r \in ZoneParts(s.from, s.to) :
           \E t \in segments : Key(t) = <<s.from, s.to, r[1]>>

(* A stored pair gains no segment: what a commit adds is of new pairs only.*)
LEMMA NewPairs ==
    ASSUME IngestTypeOK, Pricing,
           NEW S \in SUBSET Fixes, NEW ord \in Orders, NEW gate \in BOOLEAN,
           NEW s \in Unstored(BuildSegments(S, ord, gate)), NEW t \in segments
    PROVE  ~ (s.from = t.from /\ s.to = t.to)
<1>0. s \in BuildSegments(S, ord, gate)
    BY DEF Unstored
<1>1. PICK r \in ZoneParts(s.from, s.to) : s = SegmentOf(S, s.from, s.to, r, gate)
    BY <1>0, BuiltSegments
<1>2. Key(s) = <<s.from, s.to, r[1]>>
    BY <1>1 DEF SegmentOf, Key
<1>3. QED
    BY <1>1, <1>2 DEF Pricing, Unstored

LEMMA PricingCommit ==
    ASSUME IngestTypeOK, Pricing, NEW c \in Calls, Commit(c)
    PROVE  Pricing'
<1>1. PICK ord \in Orders :
          segments' = segments \cup
              Unstored(BuildSegments(calls[c].seen, ord, calls[c].gate))
    BY DEF Commit
<1> DEFINE S == calls[c].seen
           gate == calls[c].gate
           new == Unstored(BuildSegments(S, ord, gate))
<1>2. S \in SUBSET Fixes /\ gate \in BOOLEAN
    BY DEF IngestTypeOK, Call
<1>3. \A s \in new : /\ s \in BuildSegments(S, ord, gate)
                     /\ \A t \in segments : Key(t) # Key(s)
    BY DEF Unstored
<1>4. \A s \in new :
          /\ s \in Segment
          /\ <<s.from, s.to>> \in Pairs(S, ord)
          /\ s.state = StateOf(s.from, s.to, gate)
          /\ \E r \in ZoneParts(s.from, s.to) : s = SegmentOf(S, s.from, s.to, r, gate)
    <2>1. SUFFICES ASSUME NEW s \in BuildSegments(S, ord, gate)
                   PROVE  /\ s \in Segment
                          /\ <<s.from, s.to>> \in Pairs(S, ord)
                          /\ s.state = StateOf(s.from, s.to, gate)
                          /\ \E r \in ZoneParts(s.from, s.to) :
                                 s = SegmentOf(S, s.from, s.to, r, gate)
        BY <1>3
    <2> HIDE DEF S, gate
    <2>2. QED
        BY <1>2, BuiltSegments
<1>5. \A s \in new : \A t \in segments : ~ (s.from = t.from /\ s.to = t.to)
    BY <1>2, NewPairs
<1>6. ASSUME NEW s \in new
      PROVE  \E r \in ZoneParts(s.from, s.to) : s.part = r[1] /\ s.km = r[2] - r[1] + 1
    <2>1. PICK r \in ZoneParts(s.from, s.to) : s = SegmentOf(S, s.from, s.to, r, gate)
        BY <1>4
    <2>2. s.part = r[1] /\ s.km = r[2] - r[1] + 1
        BY <2>1 DEF SegmentOf
    <2>3. QED
        BY <2>2
<1>7. ASSUME NEW s \in new, NEW t \in new, Key(s) = Key(t)
      PROVE  s = t
    <2>1. s.from = t.from /\ s.to = t.to /\ s.part = t.part
        BY <1>7 DEF Key
    <2>2. PICK r \in ZoneParts(s.from, s.to) : s = SegmentOf(S, s.from, s.to, r, gate)
        BY <1>4
    <2>3. PICK q \in ZoneParts(s.from, s.to) : t = SegmentOf(S, s.from, s.to, q, gate)
        BY <1>4, <2>1
    <2>4. s.part = r[1] /\ t.part = q[1]
        BY <2>2, <2>3 DEF SegmentOf
    <2>5. s.from \in Fixes /\ s.to \in Fixes
        BY <1>4 DEF Segment
    <2>6. r[1] = q[1] => r = q
        BY <2>5, PartsDisjoint
    <2>7. QED
        BY <2>1, <2>2, <2>3, <2>4, <2>6
<1>8. ASSUME NEW s \in new, NEW r \in ZoneParts(s.from, s.to)
      PROVE  \E t \in new : Key(t) = <<s.from, s.to, r[1]>>
    <2>1. PICK t \in BuildSegments(S, ord, gate) : Key(t) = <<s.from, s.to, r[1]>>
        BY <1>2, <1>4, AllPartsBuilt
    <2>2. \A u \in segments : Key(u) # Key(t)
        BY <1>5, <2>1 DEF Key
    <2>3. QED
        BY <2>1, <2>2 DEF Unstored
<1>9. segments' = segments \cup new
    BY <1>1
<1> HIDE DEF new
<1>10. \A s \in segments' : \E r \in ZoneParts(s.from, s.to) :
          s.part = r[1] /\ s.km = r[2] - r[1] + 1
    BY <1>6, <1>9 DEF Pricing
<1>11. \A s, t \in segments' : Key(s) = Key(t) => s = t
    BY <1>3, <1>7, <1>9 DEF Pricing
<1>12. \A s, t \in segments' : s.from = t.from /\ s.to = t.to => s.state = t.state
    <2>1. \A s, t \in new : s.from = t.from /\ s.to = t.to => s.state = t.state
        BY <1>4
    <2>2. QED
        BY <1>5, <1>9, <2>1 DEF Pricing
<1>13. \A s \in segments' : \A r \in ZoneParts(s.from, s.to) :
           \E t \in segments' : Key(t) = <<s.from, s.to, r[1]>>
    BY <1>8, <1>9 DEF Pricing
<1>14. QED
    BY <1>10, <1>11, <1>12, <1>13 DEF Pricing

LEMMA PricingStep == IngestTypeOK /\ Pricing /\ [IngestNext]_ingestVars => Pricing'
<1> SUFFICES ASSUME IngestTypeOK, Pricing, [IngestNext]_ingestVars PROVE Pricing'
    OBVIOUS
<1>1. ASSUME NEW c \in Calls, Commit(c) PROVE Pricing'
    BY <1>1, PricingCommit
<1>2. ASSUME UNCHANGED segments PROVE Pricing'
    BY <1>2 DEF Pricing
<1>3. QED
    BY <1>1, <1>2
       DEF IngestNext, Phone, Server, Take, Send, Answer, Timeout, Lose, MeterChanges,
           Evaluate, Insert, ingestVars

(* Two stored parts of one pair have one verdict and no cell in common.    *)
LEMMA PricingSuffices == IngestTypeOK /\ Pricing => PairConsumed
<1> SUFFICES ASSUME IngestTypeOK, Pricing, NEW s \in segments, NEW t \in segments,
                    s # t, s.from = t.from, s.to = t.to
             PROVE  s.state = t.state /\ ~Overlap(s, t)
    BY DEF PairConsumed
<1>1. s.from \in Fixes /\ s.to \in Fixes
    BY DEF IngestTypeOK, Segment
<1>2. PICK r \in ZoneParts(s.from, s.to) : s.part = r[1] /\ s.km = r[2] - r[1] + 1
    BY DEF Pricing
<1>3. PICK q \in ZoneParts(s.from, s.to) : t.part = q[1] /\ t.km = q[2] - q[1] + 1
    BY DEF Pricing
<1>4. s.part # t.part
    BY DEF Pricing, Key
<1>5. /\ r[1] \in Int /\ r[2] \in Int /\ q[1] \in Int /\ q[2] \in Int
      /\ r[1] < q[1] => r[2] < q[1]
      /\ q[1] < r[1] => q[2] < r[1]
    BY <1>1, PartsDisjoint
<1>6. ~Overlap(s, t)
    BY <1>2, <1>3, <1>4, <1>5 DEF Overlap
<1>7. QED
    BY <1>6 DEF Pricing

(* AC-16.3 for any phone, any number of uploads at once, any road: a pair  *)
(* of fixes is turned into segments once, all with one verdict.            *)
THEOREM PairsConsumedOnce == IngestSpec => []PairConsumed
<1>1. IngestInit => Pricing
    BY DEF IngestInit, Pricing
<1>2. IngestSpec => []Pricing
    BY <1>1, PricingStep, Typed, PTL DEF IngestSpec
<1>3. QED
    BY <1>2, Typed, PricingSuffices, PTL

-----------------------------------------------------------------------------
(* For a phone that sends its oldest fixes first and waits.                *)

Prefix(S) == \A f \in S, g \in Fixes : RecordedAt[g] < RecordedAt[f] => g \in S

(* No hole between two fixes of S.                                         *)
Convex(S) ==
    \A f, g \in S, h \in Fixes :
        RecordedAt[f] < RecordedAt[h] /\ RecordedAt[h] < RecordedAt[g] => h \in S

(* Nothing bridgeable before a fix of b is missing from S.                 *)
Reaches(S, b) ==
    \A g \in b, f \in Fixes :
        RecordedAt[f] < RecordedAt[g] /\ Seconds(f, g) <= MaxBridgeSeconds => f \in S

(* What the phone took, what it deleted, what is stored, and what will be  *)
(* stored or deleted once a call is through: each starts at the first fix  *)
(* of the drive and has no hole. So what a handler read back has no hole   *)
(* and reaches far enough behind its batch.                                *)
Prefixes ==
    /\ Prefix(taken) /\ Prefix(taken \ buffer) /\ Prefix(points)
    /\ \A c \in Calls : calls[c].at # "idle" =>
           Prefix((taken \ buffer) \cup calls[c].batch)
    /\ \A c \in Calls : calls[c].at = "inserted" =>
           /\ calls[c].batch \subseteq calls[c].seen
           /\ calls[c].seen \subseteq points \cup calls[c].batch
           /\ Convex(calls[c].seen)
           /\ Reaches(calls[c].seen, calls[c].batch)

LEMMA TimesAreNumbers == \A f \in Fixes : RecordedAt[f] \in Nat
BY PipelineAssumption

LEMMA PrefixUnion ==
    ASSUME NEW S \in SUBSET Fixes, NEW T \in SUBSET Fixes, Prefix(S), Prefix(T)
    PROVE  Prefix(S \cup T)
BY DEF Prefix

(* The window the handler reads, out of a prefix.                          *)
LEMMA WindowOfPrefix ==
    ASSUME NEW Q \in SUBSET Fixes, NEW b \in SUBSET Q, Prefix(Q)
    PROVE  /\ b \subseteq Window(b, Q)
           /\ Convex(Window(b, Q))
           /\ Reaches(Window(b, Q), b)
<1> USE TimesAreNumbers
<1>1. MaxBridgeSeconds \in Nat
    BY PipelineAssumption
<1>2. \A f \in b : InWindow(b, f)
    BY <1>1 DEF InWindow
<1>3. b \subseteq Window(b, Q)
    BY <1>2 DEF Window
<1>4. Convex(Window(b, Q))
    <2>1. SUFFICES ASSUME NEW f \in Window(b, Q), NEW g \in Window(b, Q), NEW h \in Fixes,
                          RecordedAt[f] < RecordedAt[h], RecordedAt[h] < RecordedAt[g]
                   PROVE  h \in Window(b, Q)
        BY DEF Convex
    <2>2. h \in Q
        BY <2>1 DEF Window, Prefix
    <2>3. PICK k \in b : RecordedAt[f] >= RecordedAt[k] - MaxBridgeSeconds
        BY DEF Window, InWindow
    <2>4. f \in Fixes /\ k \in Fixes
        BY DEF Window
    <2>5. RecordedAt[h] >= RecordedAt[k] - MaxBridgeSeconds
        BY <1>1, <2>1, <2>3, <2>4
    <2>6. QED
        BY <2>2, <2>5 DEF Window, InWindow
<1>5. Reaches(Window(b, Q), b)
    <2>1. SUFFICES ASSUME NEW g \in b, NEW f \in Fixes, RecordedAt[f] < RecordedAt[g],
                          Seconds(f, g) <= MaxBridgeSeconds
                   PROVE  f \in Window(b, Q)
        BY DEF Reaches
    <2>2. f \in Q
        BY <2>1 DEF Prefix
    <2>3. RecordedAt[f] >= RecordedAt[g] - MaxBridgeSeconds
        BY <1>1, <2>1 DEF Seconds
    <2>4. QED
        BY <2>2, <2>3 DEF Window, InWindow
<1>6. QED
    BY <1>3, <1>4, <1>5

LEMMA PrefixesStep ==
    ASSUME SerialPhone, IngestTypeOK, Deliveries, Prefixes, [IngestNext]_ingestVars
    PROVE  Prefixes'
<1> DEFINE gone == taken \ buffer
<1>0. /\ \A c \in Calls : calls[c].batch \in SUBSET Fixes
      /\ taken \subseteq Fixes /\ points \subseteq Fixes /\ gone \subseteq points
    BY DEF IngestTypeOK, Call, Deliveries, DeletedIsStored
<1>1. ASSUME NEW f \in Fixes, Take(f) PROVE Prefixes'
    <2>1. taken' = taken \cup {f} /\ taken' \ buffer' = taken \ buffer
        BY <1>1 DEF Take, IngestTypeOK
    <2>2. Prefix(taken')
        BY <1>1, <2>1 DEF Take, Prefixes, Prefix
    <2>3. UNCHANGED <<calls, points>>
        BY <1>1 DEF Take
    <2>4. QED
        BY <2>1, <2>2, <2>3 DEF Prefixes
<1>2. ASSUME NEW c \in Calls, Send(c) PROVE Prefixes'
    <2>1. PICK b \in SUBSET buffer :
              /\ calls' = [calls EXCEPT ![c] = [NoCall EXCEPT !.at = "sent", !.batch = b]]
              /\ \A f \in b, g \in buffer : RecordedAt[g] < RecordedAt[f] => g \in b
        BY <1>2 DEF Send
    <2>2. calls'[c].batch = b /\ calls'[c].at = "sent"
        BY <2>1 DEF NoCall, IngestTypeOK
    <2>3. Prefix(gone \cup b)
        <3>1. SUFFICES ASSUME NEW f \in gone \cup b, NEW g \in Fixes,
                              RecordedAt[g] < RecordedAt[f]
                       PROVE  g \in gone \cup b
            BY DEF Prefix
        <3>2. g \in taken
            BY <3>1 DEF Prefixes, Prefix, IngestTypeOK
        <3>3. CASE f \in gone
            BY <3>1, <3>3 DEF Prefixes, Prefix
        <3>4. CASE f \in b
            BY <2>1, <3>1, <3>2, <3>4
        <3>5. QED
            BY <3>3, <3>4
    <2>4. \A d \in Calls \ {c} : calls'[d] = calls[d]
        BY <2>1 DEF IngestTypeOK
    <2>5. UNCHANGED <<taken, buffer, points>>
        BY <1>2 DEF Send
    <2>6. QED
        BY <2>2, <2>3, <2>4, <2>5 DEF Prefixes
<1>3. ASSUME NEW c \in Calls, Answer(c) PROVE Prefixes'
    <2>1. /\ calls'[c].at = "idle" /\ \A d \in Calls \ {c} : calls'[d] = calls[d]
          /\ UNCHANGED <<taken, points>>
        BY <1>3 DEF Answer, NoCall, IngestTypeOK
    <2>2. taken' \ buffer' = gone \/ taken' \ buffer' = gone \cup calls[c].batch
        BY <1>3 DEF Answer, Deliveries
    <2>3. Prefix(taken' \ buffer')
        BY <1>3, <2>2 DEF Answer, Prefixes
    <2>4. ASSUME NEW d \in Calls, calls'[d].at # "idle"
          PROVE  Prefix((taken' \ buffer') \cup calls'[d].batch)
        <3>1. d # c /\ calls'[d] = calls[d] /\ Prefix(gone \cup calls[d].batch)
            BY <2>1, <2>4 DEF Prefixes
        <3>2. (taken' \ buffer') \cup calls'[d].batch
                  = (taken' \ buffer') \cup (gone \cup calls[d].batch)
            BY <2>2, <3>1
        <3>3. Prefix((taken' \ buffer') \cup (gone \cup calls[d].batch))
            BY <1>0, <2>1, <2>3, <3>1, PrefixUnion
        <3>4. QED
            BY <3>2, <3>3
    <2>5. QED
        BY <2>1, <2>3, <2>4 DEF Prefixes
<1>4. ASSUME NEW c \in Calls, Timeout(c) PROVE Prefixes'
    BY <1>4 DEF Timeout, Prefixes
<1>5. ASSUME NEW c \in Calls, Lose(c) PROVE Prefixes'
    BY <1>5 DEF Lose, NoCall, Prefixes, IngestTypeOK
<1>6. ASSUME NEW c \in Calls, Evaluate(c) PROVE Prefixes'
    <2>1. calls'[c] = [calls[c] EXCEPT !.at = "evaluated", !.gate = meter]
        BY <1>6 DEF Evaluate, IngestTypeOK
    <2>2. calls'[c].batch = calls[c].batch /\ calls'[c].at = "evaluated"
        BY <2>1 DEF IngestTypeOK, Call
    <2>3. \A d \in Calls \ {c} : calls'[d] = calls[d]
        BY <1>6 DEF Evaluate, IngestTypeOK
    <2>4. calls[c].at # "idle" /\ UNCHANGED <<taken, buffer, points>>
        BY <1>6 DEF Evaluate
    <2>5. QED
        BY <2>2, <2>3, <2>4 DEF Prefixes
<1>7. ASSUME NEW c \in Calls, Insert(c) PROVE Prefixes'
    <2> DEFINE Q == points \cup calls[c].batch
    <2>1. Prefix(Q)
        <3>1. Q = points \cup (gone \cup calls[c].batch)
            BY <1>0
        <3>2. Prefix(points) /\ Prefix(gone \cup calls[c].batch)
            BY <1>7 DEF Insert, Prefixes
        <3>3. QED
            BY <1>0, <3>1, <3>2, PrefixUnion
    <2>2. PICK w \in SUBSET Fixes :
              /\ w = Window(calls[c].batch, Q)
              /\ calls' = [calls EXCEPT ![c].at = "inserted", ![c].seen = w]
        BY <1>0, <1>7 DEF Insert, Window
    <2>3. calls'[c] = [calls[c] EXCEPT !.at = "inserted", !.seen = w]
        BY <2>2 DEF IngestTypeOK
    <2>4. /\ calls'[c].batch = calls[c].batch /\ calls'[c].at = "inserted"
          /\ calls'[c].seen = w
        BY <2>3 DEF IngestTypeOK, Call
    <2>5. /\ calls[c].batch \subseteq w /\ Convex(w) /\ Reaches(w, calls[c].batch)
        BY <1>0, <2>1, <2>2, WindowOfPrefix
    <2>9. w \subseteq Q
        BY <2>2 DEF Window
    <2>6. \A d \in Calls \ {c} : calls'[d] = calls[d]
        BY <2>2 DEF IngestTypeOK
    <2>7. calls[c].at # "idle" /\ UNCHANGED <<taken, buffer, points>>
        BY <1>7 DEF Insert
    <2>8. QED
        BY <2>4, <2>5, <2>6, <2>7, <2>9 DEF Prefixes
<1>8. ASSUME NEW c \in Calls, Commit(c) PROVE Prefixes'
    <2>1. calls'[c] = [calls[c] EXCEPT !.at = "answered", !.seen = {}]
        BY <1>8 DEF Commit, IngestTypeOK
    <2>2. calls'[c].batch = calls[c].batch /\ calls'[c].at = "answered"
        BY <2>1 DEF IngestTypeOK, Call
    <2>3. \A d \in Calls \ {c} : calls'[d] = calls[d]
        BY <1>8 DEF Commit, IngestTypeOK
    <2>4. /\ calls[c].at # "idle" /\ UNCHANGED <<taken, buffer>>
          /\ points' = points \cup calls[c].batch
        BY <1>8 DEF Commit
    <2>5. Prefix(points')
        <3>1. points' = points \cup (gone \cup calls[c].batch)
            BY <1>0, <2>4
        <3>2. Prefix(points) /\ Prefix(gone \cup calls[c].batch)
            BY <2>4 DEF Prefixes
        <3>3. QED
            BY <1>0, <3>1, <3>2, PrefixUnion
    <2>6. QED
        BY <2>2, <2>3, <2>4, <2>5 DEF Prefixes
<1>9. CASE MeterChanges
    BY <1>9 DEF MeterChanges, Prefixes
<1>10. CASE UNCHANGED ingestVars
    BY <1>10 DEF ingestVars, Prefixes
<1>11. QED
    BY <1>1, <1>2, <1>3, <1>4, <1>5, <1>6, <1>7, <1>8, <1>9, <1>10
       DEF IngestNext, Phone, Server

-----------------------------------------------------------------------------
(* A hole-free window pairs only fixes that are neighbours in the whole    *)
(* drive, and pairs all of those it holds.                                 *)
LEMMA PairsAreStretches ==
    ASSUME DistinctTimes, NEW S \in SUBSET Fixes, Convex(S), NEW ord \in Orders,
           NEW p \in Pairs(S, ord)
    PROVE  p \in Stretches /\ p[1] \in S /\ p[2] \in S
<1>1. /\ p = <<p[1], p[2]>> /\ p[1] \in Usable(S) /\ p[2] \in Usable(S)
      /\ Bridgeable(p[1], p[2]) /\ <<p[1], p[2]>> \in Consecutive(Usable(S), ord)
    BY DEF Pairs, Consecutive
<1>2. Usable(S) \in SUBSET Fixes
    BY DEF Usable
<1>3. \A h \in Usable(S) :
          ~ (RecordedAt[p[1]] < RecordedAt[h] /\ RecordedAt[h] < RecordedAt[p[2]])
    BY <1>1, <1>2, ConsecutiveInTime
<1>4. ASSUME NEW h \in Usable(Fixes),
             RecordedAt[p[1]] < RecordedAt[h], RecordedAt[h] < RecordedAt[p[2]]
      PROVE  FALSE
    <2>1. h \in S
        BY <1>1, <1>4 DEF Convex, Usable
    <2>2. QED
        BY <1>3, <1>4, <2>1 DEF Usable
<1>5. p[1] \in Usable(Fixes) /\ p[2] \in Usable(Fixes) /\ p[1] \in S /\ p[2] \in S
    BY <1>1 DEF Usable
<1>6. QED
    BY <1>1, <1>4, <1>5 DEF Stretches

LEMMA StretchesArePairs ==
    ASSUME DistinctTimes, NEW S \in SUBSET Fixes, NEW ord \in Orders,
           NEW p \in Stretches, p[1] \in S, p[2] \in S
    PROVE  p \in Pairs(S, ord)
<1>1. /\ p = <<p[1], p[2]>> /\ p[1] \in Usable(Fixes) /\ p[2] \in Usable(Fixes)
      /\ Bridgeable(p[1], p[2])
      /\ \A h \in Usable(Fixes) :
            ~ (RecordedAt[p[1]] < RecordedAt[h] /\ RecordedAt[h] < RecordedAt[p[2]])
    BY DEF Stretches
<1>2. p[1] \in Usable(S) /\ p[2] \in Usable(S) /\ Usable(S) \in SUBSET Fixes
    BY <1>1 DEF Usable
<1>3. RecordedAt[p[1]] < RecordedAt[p[2]]
    BY <1>1, <1>2, TimesAreNumbers DEF Bridgeable, Seconds
<1>4. \A h \in Usable(S) :
          ~ (RecordedAt[p[1]] < RecordedAt[h] /\ RecordedAt[h] < RecordedAt[p[2]])
    BY <1>1 DEF Usable
<1>5. <<p[1], p[2]>> \in Consecutive(Usable(S), ord)
    BY <1>2, <1>3, <1>4, ConsecutiveInTime
<1>6. QED
    BY <1>1, <1>5 DEF Pairs

(* The segments are those of neighbouring fixes, and no two neighbours     *)
(* that are both stored lack any of theirs.                                *)
Metered ==
    /\ \A s \in segments : <<s.from, s.to>> \in Stretches
    /\ \A p \in Stretches : p[1] \in points /\ p[2] \in points =>
          \A r \in ZoneParts(p[1], p[2]) :
              \E s \in segments : Key(s) = <<p[1], p[2], r[1]>>

LEMMA MeteredCommit ==
    ASSUME DistinctTimes, IngestTypeOK, Deliveries, Prefixes, Metered,
           NEW c \in Calls, Commit(c)
    PROVE  Metered'
<1>1. PICK ord \in Orders :
          segments' = segments \cup
              Unstored(BuildSegments(calls[c].seen, ord, calls[c].gate))
    BY DEF Commit
<1>2. PICK S, gate, b : S = calls[c].seen /\ gate = calls[c].gate /\ b = calls[c].batch
    OBVIOUS
<1>3. /\ S \in SUBSET Fixes /\ gate \in BOOLEAN /\ b \subseteq Fixes
      /\ points \subseteq Fixes
    BY <1>2 DEF IngestTypeOK, Call
<1>4. b \subseteq S /\ Convex(S) /\ Reaches(S, b)
    BY <1>2 DEF Commit, Prefixes
<1>5. points' = points \cup b /\ Prefix(points)
    BY <1>2 DEF Commit, Prefixes
<1>6. segments' = segments \cup Unstored(BuildSegments(S, ord, gate))
    BY <1>1, <1>2
<1>7. ASSUME NEW s \in segments'
      PROVE  <<s.from, s.to>> \in Stretches
    <2>1. CASE s \in segments
        BY <2>1 DEF Metered
    <2>2. CASE s \in BuildSegments(S, ord, gate)
        <3>1. <<s.from, s.to>> \in Pairs(S, ord)
            BY <1>3, <2>2, BuiltSegments
        <3>2. QED
            BY <1>3, <1>4, <3>1, PairsAreStretches
    <2>3. QED
        BY <1>6, <2>1, <2>2 DEF Unstored
<1>8. ASSUME NEW p \in Stretches, p[1] \in points', p[2] \in points',
             NEW r \in ZoneParts(p[1], p[2])
      PROVE  \E s \in segments' : Key(s) = <<p[1], p[2], r[1]>>
    <2>1. CASE p[1] \in points /\ p[2] \in points
        BY <1>6, <2>1 DEF Metered
    <2>2. CASE ~ (p[1] \in points /\ p[2] \in points)
        <3>1. /\ p[1] \in Fixes /\ p[2] \in Fixes /\ Bridgeable(p[1], p[2])
              /\ RecordedAt[p[1]] < RecordedAt[p[2]]
            BY TimesAreNumbers DEF Stretches, Usable, Bridgeable, Seconds
        <3>2. p[2] \in b
            BY <1>5, <1>8, <2>2, <3>1 DEF Prefix
        <3>3. p[1] \in S /\ p[2] \in S
            BY <1>4, <3>1, <3>2 DEF Reaches, Bridgeable
        <3>4. p \in Pairs(S, ord)
            BY <1>3, <3>3, StretchesArePairs
        <3>5. PICK t \in BuildSegments(S, ord, gate) : Key(t) = <<p[1], p[2], r[1]>>
            BY <1>3, <1>8, <3>4, AllPartsBuilt
        <3>6. CASE t \in Unstored(BuildSegments(S, ord, gate))
            BY <1>6, <3>5, <3>6
        <3>7. CASE t \notin Unstored(BuildSegments(S, ord, gate))
            BY <1>6, <3>5, <3>7 DEF Unstored
        <3>8. QED
            BY <3>6, <3>7
    <2>3. QED
        BY <2>1, <2>2
<1>9. QED
    BY <1>7, <1>8 DEF Metered

LEMMA MeteredStep ==
    ASSUME DistinctTimes, IngestTypeOK, Deliveries, Prefixes, Metered, [IngestNext]_ingestVars
    PROVE  Metered'
<1>1. ASSUME NEW c \in Calls, Commit(c) PROVE Metered'
    BY <1>1, MeteredCommit
<1>2. ASSUME UNCHANGED <<segments, points>> PROVE Metered'
    BY <1>2 DEF Metered
<1>3. QED
    BY <1>1, <1>2
       DEF IngestNext, Phone, Server, Take, Send, Answer, Timeout, Lose, MeterChanges,
           Evaluate, Insert, ingestVars

(* The inductive invariant, and what it implies.                           *)
IInv == IngestTypeOK /\ Deliveries /\ Pricing /\ Prefixes /\ Metered

LEMMA Inductive ==
    ASSUME SerialPhone, DistinctTimes
    PROVE  IngestSpec => []IInv
<1>1. IngestInit => IInv
    <2>1. IngestInit => Pricing /\ Metered
        BY DEF IngestInit, Pricing, Metered
    <2>2. IngestInit => Prefixes
        BY DEF IngestInit, Prefixes, Prefix, NoCall
    <2>3. QED
        BY <2>1, <2>2, DeliveriesInit DEF IInv
<1>2. IInv /\ [IngestNext]_ingestVars => IInv'
    BY DeliveriesStep, PricingStep, PrefixesStep, MeteredStep DEF IInv
<1>3. QED
    BY <1>1, <1>2, PTL DEF IngestSpec

(* Two segments whose times overlap are of one pair: the pairs are         *)
(* neighbours in the drive.                                                *)
LEMMA StretchesApart ==
    ASSUME DistinctTimes, NEW p \in Stretches, NEW q \in Stretches,
           RecordedAt[p[1]] < RecordedAt[q[2]], RecordedAt[q[1]] < RecordedAt[p[2]]
    PROVE  p = q
<1>1. \A x \in Stretches :
          /\ x = <<x[1], x[2]>> /\ x[1] \in Usable(Fixes) /\ x[2] \in Usable(Fixes)
          /\ x[1] \in Fixes /\ x[2] \in Fixes
          /\ \A h \in Usable(Fixes) :
                ~ (RecordedAt[x[1]] < RecordedAt[h] /\ RecordedAt[h] < RecordedAt[x[2]])
    BY DEF Stretches, Usable
<1>2. RecordedAt[p[1]] = RecordedAt[q[1]]
    BY <1>1, TimesAreNumbers
<1>3. RecordedAt[p[2]] = RecordedAt[q[2]]
    BY <1>1, <1>2, TimesAreNumbers
<1>4. QED
    BY <1>1, <1>2, <1>3 DEF DistinctTimes

(* AC-16 with a serial phone: no moment of driving is in two segments.     *)
THEOREM NothingIsBilledTwice ==
    ASSUME SerialPhone, DistinctTimes
    PROVE  IngestSpec => []NothingTwice
<1>1. IInv => NothingTwice
    <2>1. SUFFICES ASSUME IInv, NEW s \in segments, NEW t \in segments, s # t
                   PROVE  ~Overlap(s, t)
        BY DEF NothingTwice
    <2>2. CASE s.from = t.from /\ s.to = t.to
        BY <2>1, <2>2, PricingSuffices DEF IInv, PairConsumed
    <2>3. CASE ~ (s.from = t.from /\ s.to = t.to)
        <3>1. <<s.from, s.to>> \in Stretches /\ <<t.from, t.to>> \in Stretches
            BY <2>1 DEF IInv, Metered
        <3>2. ~ (RecordedAt[s.from] < RecordedAt[t.to] /\ RecordedAt[t.from] < RecordedAt[s.to])
            BY <2>3, <3>1, StretchesApart
        <3>3. QED
            BY <2>3, <3>2 DEF Overlap
    <2>4. QED
        BY <2>2, <2>3
<1>2. QED
    BY <1>1, Inductive, PTL

(* With a serial phone no kilometre falls between two batches: every       *)
(* bridgeable pair of neighbouring stored fixes has all its segments.      *)
THEOREM NoKilometreIsMissed ==
    ASSUME SerialPhone, DistinctTimes
    PROVE  IngestSpec => []NothingMissed
<1>1. IInv => NothingMissed
    <2>1. SUFFICES ASSUME IInv, NEW ord \in Orders, NEW p \in Pairs(points, ord),
                          NEW r \in ZoneParts(p[1], p[2])
                   PROVE  \E s \in segments : Key(s) = <<p[1], p[2], r[1]>>
        BY DEF NothingMissed
    <2>2. points \in SUBSET Fixes /\ Convex(points)
        BY <2>1 DEF IInv, IngestTypeOK, Prefixes, Prefix, Convex
    <2>3. p \in Stretches /\ p[1] \in points /\ p[2] \in points
        BY <2>2, PairsAreStretches
    <2>4. QED
        BY <2>1, <2>3 DEF IInv, Metered
<1>2. QED
    BY <1>1, Inductive, PTL

(* AC-16.10 with a serial phone: a batch that already landed changes       *)
(* nothing when it is committed again.                                     *)
THEOREM ResendingIsSafe ==
    ASSUME SerialPhone, DistinctTimes
    PROVE  IngestSpec => ResendIsNoOp
<1>1. ASSUME IInv, [IngestNext]_ingestVars, NEW c \in Calls,
             calls[c].at = "inserted", calls'[c].at = "answered",
             calls[c].batch \subseteq points
      PROVE  segments' = segments
    <2>1. CASE \E d \in Calls : Commit(d)
        <3>1. PICK d \in Calls : Commit(d)
            BY <2>1
        <3>2. d = c
            BY <1>1, <3>1 DEF Commit, IInv, IngestTypeOK
        <3>3. PICK ord \in Orders :
                  segments' = segments \cup
                      Unstored(BuildSegments(calls[c].seen, ord, calls[c].gate))
            BY <3>1, <3>2 DEF Commit
        <3>4. PICK S, gate : S = calls[c].seen /\ gate = calls[c].gate
            OBVIOUS
        <3>5. /\ S \in SUBSET Fixes /\ gate \in BOOLEAN
              /\ Convex(S) /\ S \subseteq points
            BY <1>1, <3>4 DEF IInv, IngestTypeOK, Call, Prefixes
        <3>6. ASSUME NEW s \in BuildSegments(S, ord, gate)
              PROVE  \E t \in segments : Key(t) = Key(s)
            <4>1. PICK r \in ZoneParts(s.from, s.to) :
                      s = SegmentOf(S, s.from, s.to, r, gate)
                BY <3>5, BuiltSegments
            <4>2. Key(s) = <<s.from, s.to, r[1]>>
                BY <4>1 DEF Key, SegmentOf
            <4>3. <<s.from, s.to>> \in Pairs(S, ord)
                BY <3>5, BuiltSegments
            <4>4. <<s.from, s.to>> \in Stretches /\ s.from \in points /\ s.to \in points
                BY <3>5, <4>3, PairsAreStretches
            <4>5. QED
                BY <1>1, <4>2, <4>4 DEF IInv, Metered
        <3>7. QED
            BY <3>3, <3>4, <3>6 DEF Unstored
    <2>2. CASE UNCHANGED segments
        BY <2>2
    <2>3. QED
        BY <1>1, <2>1, <2>2
           DEF IngestNext, Phone, Server, Take, Send, Answer, Timeout, Lose, MeterChanges,
               Evaluate, Insert, ingestVars
<1>2. IInv /\ [IngestNext]_ingestVars =>
          [\A c \in Calls :
              (/\ calls[c].at = "inserted" /\ calls'[c].at = "answered"
               /\ calls[c].batch \subseteq points) => segments' = segments]_ingestVars
    BY <1>1
<1>3. QED
    BY <1>2, Inductive, PTL DEF IngestSpec, ResendIsNoOp

-----------------------------------------------------------------------------
(* The refinement.                                                         *)

(* A stretch is covered by its own segments only, all of one verdict.      *)
VerdictKnown(p) ==
    /\ \A s \in Covering(p) : VerdictOf(p) = s.state
    /\ VerdictOf(p) \in States \cup {"open"}
    /\ VerdictOf(p) # "open" => Covering(p) # {}

LEMMA VerdictIsKnown ==
    ASSUME DistinctTimes, IInv, NEW p \in Stretches
    PROVE  VerdictKnown(p)
<1>1. \A s \in Covering(p) :
          s \in segments /\ s.state \in States /\ s.from = p[1] /\ s.to = p[2]
    <2>1. SUFFICES ASSUME NEW s \in Covering(p)
                   PROVE  s \in segments /\ s.state \in States /\ s.from = p[1] /\ s.to = p[2]
        OBVIOUS
    <2>2. /\ s \in segments /\ s.state \in States /\ <<s.from, s.to>> \in Stretches
          /\ RecordedAt[s.from] < RecordedAt[p[2]] /\ RecordedAt[p[1]] < RecordedAt[s.to]
        BY DEF Covering, IInv, Metered, IngestTypeOK, Segment
    <2>3. <<s.from, s.to>> = p
        BY <2>2, StretchesApart
    <2>4. QED
        BY <2>2, <2>3
<1>2. \A s, t \in Covering(p) : s.state = t.state
    BY <1>1 DEF IInv, Pricing
<1>3. Covering(p) = {} => VerdictOf(p) = "open"
    BY DEF VerdictOf
<1>4. Covering(p) # {} => VerdictOf(p) = (CHOOSE s \in Covering(p) : TRUE).state
    BY <1>1, <1>2 DEF VerdictOf
<1>5. Covering(p) # {} => (CHOOSE s \in Covering(p) : TRUE) \in Covering(p)
    OBVIOUS
<1>6. QED
    BY <1>1, <1>2, <1>3, <1>4, <1>5 DEF VerdictKnown

(* Uploads, retries and races of a serial phone implement the promise that *)
(* each stretch of driving is priced at most once and for good (AC-12.6).  *)
THEOREM IngestImplementsOdometer ==
    ASSUME SerialPhone, DistinctTimes
    PROVE  IngestSpec => PricedOnce
<1>1. IngestInit => Odo!Init
    BY DEF IngestInit, Odo!Init, VerdictOf, Covering
<1>2. IInv => \A p \in Stretches : VerdictKnown(p)
    BY VerdictIsKnown
<1>3. IInv' => (\A p \in Stretches : VerdictKnown(p))'
    BY <1>2, PTL
<1>4. ASSUME IInv, IInv', [IngestNext]_ingestVars
      PROVE  Odo!Next
    <2>1. segments \subseteq segments'
        BY <1>4
           DEF IngestNext, Phone, Server, Take, Send, Answer, Timeout, Lose, MeterChanges,
               Evaluate, Insert, Commit, ingestVars
    <2>2. ASSUME NEW p \in Stretches
          PROVE  /\ VerdictOf(p)' \in States \cup {"open"}
                 /\ VerdictOf(p) # "open" => VerdictOf(p)' = VerdictOf(p)
        <3>1. /\ \A s \in Covering(p) : VerdictOf(p) = s.state
              /\ VerdictOf(p) # "open" => Covering(p) # {}
            BY <1>2, <1>4 DEF VerdictKnown
        <3>2. /\ \A s \in Covering(p)' : VerdictOf(p)' = s.state
              /\ VerdictOf(p)' \in States \cup {"open"}
            BY <1>3, <1>4 DEF VerdictKnown
        <3>3. Covering(p) \subseteq Covering(p)'
            BY <2>1 DEF Covering
        <3>4. QED
            BY <3>1, <3>2, <3>3
    <2>3. QED
        BY <2>2 DEF Odo!Next
<1>5. QED
    BY <1>1, <1>4, Inductive, PTL DEF IngestSpec, PricedOnce, Odo!Spec
=============================================================================
