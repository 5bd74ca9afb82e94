------------------------------- MODULE Ingest -------------------------------
(***************************************************************************)
(* One tracking session's fixes on their way from the phone to the bill:   *)
(* ingestPoints of src/src/modules/tracking/tracking.service.ts, the two   *)
(* tables it writes (gps_points, trip_segments) with their unique keys,    *)
(* and the phone that calls it, whose code is not in the repository.       *)
(*                                                                         *)
(* An upload runs in the steps the database sees. The handler reads the    *)
(* session, the campaign and the AC-07 gate outside any transaction        *)
(* (Evaluate); its transaction inserts the batch and reads the window back *)
(* (Insert), then inserts the segments and commits (Commit). Under read    *)
(* committed a transaction sees what was committed when it read and its    *)
(* own rows, and an insert that meets another open transaction's           *)
(* uncommitted key waits for it.                                           *)
(***************************************************************************)
EXTENDS Pipeline

CONSTANTS
    Calls,      \* upload requests that can be under way at once
    SerialPhone, \* TRUE: the phone sends its oldest fixes and one batch at a time
    MaxBatch    \* MAX_POINTS_PER_BATCH

ASSUME IngestAssumption ==
    /\ SerialPhone \in BOOLEAN
    /\ MaxBatch \in Nat \ {0}

VARIABLES
    taken,      \* fixes the phone has captured
    buffer,     \* the ones it has not yet deleted from its local buffer
    waiting,    \* the calls whose answer it is waiting for
    calls,      \* [Calls -> Call] the uploads under way
    meter,      \* what eligibility(driver) answers now
    points,     \* gps_points of the session, committed
    segments    \* trip_segments of the session, committed

ingestVars == <<taken, buffer, waiting, calls, meter, points, segments>>

Segment == [from: Fixes, to: Fixes, part: Int, km: Int, zone: Zones,
            state: States, charge: Int, bridged: BOOLEAN]

Call == [at: {"idle", "sent", "evaluated", "inserted", "answered"},
         batch: SUBSET Fixes, gate: BOOLEAN, seen: SUBSET Fixes]

NoCall == [at |-> "idle", batch |-> {}, gate |-> FALSE, seen |-> {}]

(* Faulty: the verdict in the key.                                         *)
KeyWithState(s) == <<s.from, s.to, s.part, s.state>>

(* The key of uq_trip_segment_part.                                        *)
Key(s) == <<s.from, s.to, s.part>>

IngestTypeOK ==
    /\ taken \subseteq Fixes
    /\ buffer \subseteq taken
    /\ waiting \subseteq Calls
    /\ calls \in [Calls -> Call]
    /\ meter \in BOOLEAN
    /\ points \subseteq taken
    /\ segments \subseteq Segment

IngestInit ==
    /\ taken = {} /\ buffer = {} /\ waiting = {}
    /\ calls = [c \in Calls |-> NoCall]
    /\ meter = TRUE
    /\ points = {} /\ segments = {}

-----------------------------------------------------------------------------
(* The phone.                                                              *)

(* It captures its fixes in the order of its clock.                        *)
Take(f) ==
    /\ f \in Fixes \ taken
    /\ \A g \in Fixes : RecordedAt[g] < RecordedAt[f] => g \in taken
    /\ taken' = taken \cup {f}
    /\ buffer' = buffer \cup {f}
    /\ UNCHANGED <<waiting, calls, meter, points, segments>>

(* A batch out of the buffer. A serial phone sends its oldest fixes, and   *)
(* only when it waits for nothing.                                         *)
Send(c) ==
    /\ calls[c].at = "idle"
    /\ c \notin waiting
    /\ SerialPhone => waiting = {}
    /\ \E b \in SUBSET buffer :
        /\ b # {} /\ Cardinality(b) <= MaxBatch
        /\ SerialPhone => \A f \in b, g \in buffer :
                        RecordedAt[g] < RecordedAt[f] => g \in b
        /\ calls' = [calls EXCEPT ![c] = [NoCall EXCEPT !.at = "sent", !.batch = b]]
    /\ waiting' = waiting \cup {c}
    /\ UNCHANGED <<taken, buffer, meter, points, segments>>

(* A 2xx arrives: the phone deletes the batch, unless it had given up.     *)
Answer(c) ==
    /\ calls[c].at = "answered"
    /\ buffer' = IF c \in waiting THEN buffer \ calls[c].batch ELSE buffer
    /\ waiting' = waiting \ {c}
    /\ calls' = [calls EXCEPT ![c] = NoCall]
    /\ UNCHANGED <<taken, meter, points, segments>>

(* The phone stops waiting while the server is still at work.              *)
Timeout(c) ==
    /\ c \in waiting
    /\ waiting' = waiting \ {c}
    /\ UNCHANGED <<taken, buffer, calls, meter, points, segments>>

(* The request or the response is lost, or the handler fails before its    *)
(* commit (the transaction rolls back): the phone keeps its buffer.        *)
Lose(c) ==
    /\ calls[c].at # "idle"
    /\ calls' = [calls EXCEPT ![c] = NoCall]
    /\ waiting' = waiting \ {c}
    /\ UNCHANGED <<taken, buffer, meter, points, segments>>

-----------------------------------------------------------------------------
(* The platform.                                                           *)

(* The campaign is paused or resumed, consent withdrawn or granted, a wrap *)
(* check runs overdue: the gate changes under the session.                 *)
MeterChanges ==
    /\ meter' = ~meter
    /\ UNCHANGED <<taken, buffer, waiting, calls, points, segments>>

(* The handler's reads before its transaction; the gate is kept.           *)
Evaluate(c) ==
    /\ calls[c].at = "sent"
    /\ calls' = [calls EXCEPT ![c].at = "evaluated", ![c].gate = meter]
    /\ UNCHANGED <<taken, buffer, waiting, meter, points, segments>>

(* Faulty: the window starts with the batch.                               *)
InWindowOfBatch(b, f) == \E g \in b : RecordedAt[f] >= RecordedAt[g]

(* From maxBridgeSeconds before the earliest fix of the batch.             *)
InWindow(b, f) == \E g \in b : RecordedAt[f] >= RecordedAt[g] - MaxBridgeSeconds

Window(b, S) == {f \in S : InWindow(b, f)}

(* Faulty: a fix that is already stored is an error.                       *)
UnblockedWhenNew(c) == calls[c].batch \cap points = {}

(* ON CONFLICT DO NOTHING on (session, client_point_id) waits while        *)
(* another open transaction holds one of the batch's ids uncommitted.      *)
Unblocked(c) ==
    \A d \in Calls \ {c} :
        calls[d].at = "inserted" => calls[c].batch \cap calls[d].batch \subseteq points

Insert(c) ==
    /\ calls[c].at = "evaluated"
    /\ Unblocked(c)
    /\ calls' = [calls EXCEPT
                    ![c].at = "inserted",
                    ![c].seen = Window(calls[c].batch, points \cup calls[c].batch)]
    /\ UNCHANGED <<taken, buffer, waiting, meter, points, segments>>

(* Faulty: nothing refuses a segment.                                      *)
UnstoredOrNot(built) == built

(* The segments whose key is not already stored.                           *)
Unstored(built) == {s \in built : \A t \in segments : Key(t) # Key(s)}

(* Faulty: the rejected fixes are not kept.                                *)
CommitUsable(c) ==
    /\ calls[c].at = "inserted"
    /\ points' = points \cup Usable(calls[c].batch)
    /\ \E ord \in Orders :
        segments' = segments \cup
                    Unstored(BuildSegments(calls[c].seen, ord, calls[c].gate))
    /\ calls' = [calls EXCEPT ![c].at = "answered", ![c].seen = {}]
    /\ UNCHANGED <<taken, buffer, waiting, meter>>

(* Faulty: a segment that meets its key replaces the stored one.           *)
CommitReplaces(c) ==
    /\ calls[c].at = "inserted"
    /\ points' = points \cup calls[c].batch
    /\ \E ord \in Orders :
        LET built == BuildSegments(calls[c].seen, ord, calls[c].gate)
        IN  segments' = built \cup {s \in segments : \A t \in built : Key(t) # Key(s)}
    /\ calls' = [calls EXCEPT ![c].at = "answered", ![c].seen = {}]
    /\ UNCHANGED <<taken, buffer, waiting, meter>>

Commit(c) ==
    /\ calls[c].at = "inserted"
    /\ points' = points \cup calls[c].batch
    /\ \E ord \in Orders :
        segments' = segments \cup
                    Unstored(BuildSegments(calls[c].seen, ord, calls[c].gate))
    /\ calls' = [calls EXCEPT ![c].at = "answered", ![c].seen = {}]
    /\ UNCHANGED <<taken, buffer, waiting, meter>>

-----------------------------------------------------------------------------
Phone(c) == Send(c) \/ Answer(c) \/ Timeout(c) \/ Lose(c)

Server(c) == Evaluate(c) \/ Insert(c) \/ Commit(c)

IngestNext ==
    \/ \E f \in Fixes : Take(f)
    \/ \E c \in Calls : Phone(c) \/ Server(c)
    \/ MeterChanges

IngestSpec == IngestInit /\ [][IngestNext]_ingestVars

(* The phone keeps trying, the server finishes what it started, and from   *)
(* some moment on nothing is lost and nobody gives up waiting: the retry   *)
(* of the phone can do nothing about a network that never recovers. Nobody *)
(* has to drive, and the gate may do what it likes.                        *)
Faulty == \E c \in Calls : Timeout(c) \/ Lose(c)

Fairness ==
    /\ \A c \in Calls :
          /\ WF_ingestVars(Send(c)) /\ WF_ingestVars(Server(c)) /\ WF_ingestVars(Answer(c))
    /\ <>[][~Faulty]_ingestVars

FairSpec == IngestSpec /\ Fairness

-----------------------------------------------------------------------------
(* Properties.                                                             *)

(* Two segments that charge for the same driving: of the same pair with a  *)
(* cell in common, or of two pairs whose time overlaps.                    *)
Overlap(s, t) ==
    IF s.from = t.from /\ s.to = t.to
    THEN s.part < t.part + t.km /\ t.part < s.part + s.km
    ELSE /\ RecordedAt[s.from] < RecordedAt[t.to]
         /\ RecordedAt[t.from] < RecordedAt[s.to]

(* AC-16: no moment of driving is allocated to two segments, whatever is   *)
(* lost, timed out or sent again. (README: "A kilometre cannot be billed   *)
(* twice".) It covers NON_BILLABLE segments too: a stretch refused by the  *)
(* gate cannot come back as a billed one (AC-07.7).                        *)
NothingTwice == \A s, t \in segments : s # t => ~Overlap(s, t)

(* The half of it the schema carries on its own, for any phone: a pair of  *)
(* fixes is consumed once, by one upload and one verdict (AC-16.3).        *)
PairConsumed ==
    \A s, t \in segments :
        (s # t /\ s.from = t.from /\ s.to = t.to) =>
            s.state = t.state /\ ~Overlap(s, t)

(* The pair spanning two batches is a real kilometre: every bridgeable     *)
(* pair of fixes adjacent among the stored ones has all its zone parts.    *)
NothingMissed ==
    \A ord \in Orders : \A p \in Pairs(points, ord) :
        \A r \in ZoneParts(p[1], p[2]) :
            \E s \in segments : Key(s) = <<p[1], p[2], r[1]>>

(* The phone deletes a fix only once it is stored: no fix is lost for good *)
(* to a lost response, a timeout or a rolled-back transaction.             *)
DeletedIsStored == taken \ buffer \subseteq points

(* A batch that already landed is a no-op (AC-16.10, AC-19.4): committing  *)
(* it again adds no fix and no segment.                                    *)
ResendIsNoOp ==
    [][\A c \in Calls :
        (/\ calls[c].at = "inserted" /\ calls'[c].at = "answered"
         /\ calls[c].batch \subseteq points) => segments' = segments]_ingestVars

(* Again and again every fix the phone has taken is stored: whatever was   *)
(* lost or timed out on the way, none is left behind for good.             *)
EventuallyStored == []<>(taken \subseteq points)
=============================================================================
