-------------------------------- MODULE Trips -------------------------------
(***************************************************************************)
(* What the screens make of trip_segments: the wallet, the day and the     *)
(* trip feed of a driver, the trip page behind a row, the campaign's and   *)
(* operations' dashboards, and the figures of a report.                    *)
(*                                                                         *)
(* No total is stored. Every screen sums the segments again, under its own *)
(* scope and grouping: tracking.service.ts (from earningsFor on),          *)
(* dashboards.service.ts, visibility.service.ts and reports.service.ts.    *)
(*                                                                         *)
(* A hop is a pair of consecutive fixes the pipeline priced; its parts,    *)
(* one for each zone it runs through, are the rows of trip_segments and    *)
(* share its state. Time is in whole units and starts with day 0. Money    *)
(* is left out: each rupee is a sum over the same rows as its kilometre.   *)
(***************************************************************************)
EXTENDS Integers, FiniteSets, Sequences, SequencesExt, FiniteSetsExt

CONSTANTS
    Shifts,         \* tracking sessions
    ShiftDriver, ShiftCampaign, ShiftVehicle,   \* functions on Shifts
    Hops,           \* numbers, in the order they are driven
    HopShift,       \* [Hops -> Shifts]
    HopStart, HopEnd,   \* [Hops -> Nat] the times of the two fixes
    HopParts,       \* [Hops -> Seq([zone, km])] the zone parts, in order
    DayLength,
    TripGap,        \* config.tracking.tripGapSeconds
    PageSize,       \* the limit a feed is read with
    HighBelow, MediumBelow, MinKm,      \* V1 of bands.ts
    ParkedBelow, ParkedMin,             \* the same, for a parked vehicle
    PhoneInOrder    \* TRUE: while a feed is read, each phone uploads in order

SegmentStates == {"BILLABLE", "PENDING_REVIEW", "NON_BILLABLE"}

SegmentZones == {"PRIME", "SECONDARY", "NETWORK"}

ASSUME TripsAssumption ==
    /\ IsFiniteSet(Shifts) /\ IsFiniteSet(Hops) /\ Hops \subseteq Nat
    /\ HopShift \in [Hops -> Shifts]
    /\ HopStart \in [Hops -> Nat] /\ HopEnd \in [Hops -> Nat]
    /\ \A h \in Hops : HopStart[h] < HopEnd[h]
    /\ HopParts \in [Hops -> Seq([zone : SegmentZones, km : Nat \ {0}])]
    /\ DayLength \in Nat \ {0} /\ TripGap \in Nat /\ PageSize \in Nat \ {0}
    /\ PhoneInOrder \in BOOLEAN

VARIABLES
    ledger,     \* [Hops -> the state of its segments, NONE before the upload]
    feed        \* the trip feed somebody is scrolling through

tripsVars == <<ledger, feed>>

-----------------------------------------------------------------------------
(* The rows of trip_segments.                                              *)

PartsOf(h) == {<<h, i>> : i \in DOMAIN HopParts[h]}

Part == UNION {PartsOf(h) : h \in Hops}

Km(p) == HopParts[p[1]][p[2]].km

ZoneOf(p) == HopParts[p[1]][p[2]].zone

SumOver(f) == MapThenSumSet(LAMBDA x : f[x], DOMAIN f)

KmOf(S) == SumOver([p \in S |-> Km(p)])

(* A hop's time is given to its parts in proportion to their distance, so  *)
(* that they meet end to end.                                              *)
AfterKm(h, km) == HopStart[h] + (km * (HopEnd[h] - HopStart[h])) \div KmOf(PartsOf(h))

StartedAt == [p \in Part |-> AfterKm(p[1], KmOf({q \in PartsOf(p[1]) : q[2] < p[2]}))]

EndedAt == [p \in Part |-> AfterKm(p[1], KmOf({q \in PartsOf(p[1]) : q[2] <= p[2]}))]

StateOfPart(p) == ledger[p[1]]

Rows == {p \in Part : StateOfPart(p) # "NONE"}

Billable(S) == {p \in S : StateOfPart(p) = "BILLABLE"}

ShiftOf(p) == HopShift[p[1]]

DriverOf(p) == ShiftDriver[ShiftOf(p)]

CampaignOf(p) == ShiftCampaign[ShiftOf(p)]

VehicleOf(p) == ShiftVehicle[ShiftOf(p)]

(* Faulty: a shift is filed whole under the day it began on.               *)
DayOfShift(p) ==
    StartedAt[CHOOSE q \in Part : ShiftOf(q) = ShiftOf(p)
                  /\ \A r \in Part : ShiftOf(r) = ShiftOf(p) => StartedAt[q] <= StartedAt[r]]
        \div DayLength

(* istDate: the day the part was driven on, not the day of the upload.     *)
DayOf(p) == StartedAt[p] \div DayLength

Drivers == {ShiftDriver[s] : s \in Shifts}

CampaignsDriven == {ShiftCampaign[s] : s \in Shifts}

Days == {DayOf(p) : p \in Part}

(* totalsFor: only what is billable counts as distance, and as money.      *)
TotalsFor(S) == KmOf(Billable(S))

OfDriver(d) == {p \in Rows : DriverOf(p) = d}

OfCampaign(c) == {p \in Rows : CampaignOf(p) = c}

OnDay(S, day) == {p \in S : DayOf(p) = day}

-----------------------------------------------------------------------------
(* Drives: the cut the SQL makes over whatever rows are in scope.          *)

(* The parts of the shift before p: ORDER BY started_at, part_index.       *)
Earlier ==
    [p \in Part |->
        {q \in Part : /\ ShiftOf(q) = ShiftOf(p)
                      /\ \/ StartedAt[q] < StartedAt[p]
                         \/ StartedAt[q] = StartedAt[p] /\ q[2] < p[2]}]

Lag(S, p) == {q \in S \cap Earlier[p] : S \cap Earlier[p] \subseteq Earlier[q] \cup {q}}

(* Faulty: the window runs over the billable rows alone.                   *)
BreaksOfBillable(S, p) ==
    \A q \in Lag(Billable(S), p) : StartedAt[p] - EndedAt[q] > TripGap

Breaks(S, p) == \A q \in Lag(S, p) : StartedAt[p] - EndedAt[q] > TripGap

(* The first row of p's drive, which names the trip.                       *)
LastOf(firsts) == CHOOSE a \in firsts : firsts \subseteq Earlier[a] \cup {a}

TripId(S, p) == LastOf({a \in S \cap (Earlier[p] \cup {p}) : Breaks(S, a)})

StatusOf(S) ==
    IF \E p \in S : StateOfPart(p) = "PENDING_REVIEW" THEN "pending_review"
    ELSE IF Billable(S) # {} THEN "verified" ELSE "rejected"

(* DRIVE_COLUMNS, grouped by trip.                                         *)
Trip(id, drive) ==
    [id |-> id, parts |-> drive, startedAt |-> StartedAt[id],
     endedAt |-> Max({EndedAt[p] : p \in drive}),
     km |-> TotalsFor(drive), status |-> StatusOf(drive)]

Grouped(tripId) ==
    {Trip(id, {p \in DOMAIN tripId : tripId[p] = id}) : id \in Range(tripId)}

TripsIn(S) == Grouped([p \in S |-> TripId(S, p)])

(* IDLE_SECONDS: the wait since the trip before, of the same shift; none   *)
(* before the first one.                                                   *)
NoWait == -1

WaitIn(trips, t) ==
    LET before == {u \in trips : ShiftOf(u.id) = ShiftOf(t.id) /\ u.startedAt < t.startedAt}
    IN  IF before = {} THEN NoWait
        ELSE t.startedAt - (CHOOSE u \in before :
                               \A w \in before : w.startedAt <= u.startedAt).endedAt

-----------------------------------------------------------------------------
(* One trip, opened up: the cut made again in Node, over the whole shift.  *)

SegmentsOf(s) ==
    LET S == {p \in Rows : ShiftOf(p) = s}
    IN  [i \in 1 .. Cardinality(S) |->
            CHOOSE p \in S : Cardinality(S \cap Earlier[p]) = i - 1]

DrivesOf(s) ==
    FoldLeft(LAMBDA drives, p :
                 IF drives = <<>> \/ StartedAt[p] - EndedAt[Last(Last(drives))] > TripGap
                 THEN Append(drives, <<p>>)
                 ELSE Append(Front(drives), Append(Last(drives), p)),
             <<>>, SegmentsOf(s))

(* driveOf: the index of the drive that holds the segment a trip is named  *)
(* after.                                                                  *)
DriveIndex(drives, id) == CHOOSE i \in DOMAIN drives : id \in Range(drives[i])

DriveOf(id) == CHOOSE drive \in Range(DrivesOf(ShiftOf(id))) : id \in Range(drive)

(* parkedBefore, and the pin only for a wait that took time.               *)
WaitBefore(drives, i) ==
    IF i = 1 THEN NoWait ELSE StartedAt[drives[i][1]] - EndedAt[Last(drives[i - 1])]

ParkedBefore(drives, id) == WaitBefore(drives, DriveIndex(drives, id))

(* intoLegs: the runs of parts that say the same thing about the journey.  *)
LegStarts(drive) ==
    {i \in DOMAIN drive : i = 1 \/ ZoneOf(drive[i]) # ZoneOf(drive[i - 1])
                                \/ StateOfPart(drive[i]) # StateOfPart(drive[i - 1])}

LegFrom(drive, i) ==
    {drive[j] : j \in {k \in i .. Len(drive) : ~\E l \in LegStarts(drive) : i < l /\ l <= k}}

(* driverTrip and tripDetail: a trip's totals are those of its drive.      *)
LegsKm(drive) ==
    SumOver([i \in {j \in LegStarts(drive) : StateOfPart(drive[j]) = "BILLABLE"} |->
                KmOf(LegFrom(drive, i))])

-----------------------------------------------------------------------------
(* The figures of the other screens.                                       *)

(* earningsFor and achievedFor.                                            *)
WalletKm(d) == TotalsFor(OfDriver(d))

AchievedKm(d, c) == TotalsFor(OfDriver(d) \cap OfCampaign(c))

(* Faulty: a day's row in the history is its shift's.                      *)
HistoryKmByShift(d, day) ==
    KmOf({p \in Billable(OfDriver(d)) : DayOfShift(p) = day})

(* dailyHistory: billable rows grouped by their own day.                   *)
HistoryKm(d, day) == KmOf({p \in Billable(OfDriver(d)) : DayOf(p) = day})

(* dayOf: the zones of one trip, those that earned.                        *)
ZoneBreakdown(t) ==
    [z \in {ZoneOf(p) : p \in Billable(t.parts)} |->
        KmOf({p \in Billable(t.parts) : ZoneOf(p) = z})]

(* campaignTotals, and the roster's kilometres of one driver.              *)
CampaignKm(c) == TotalsFor(OfCampaign(c))

RosterKm(c, d) == KmOf(Billable({p \in OfCampaign(c) : DriverOf(p) = d}))

(* A range is its two days, both included.                                 *)
InRange(S, from, to) == {p \in S : from <= DayOf(p) /\ DayOf(p) <= to}

(* kmSummary: all the distance, and the billable part of it by zone.       *)
KmSummary(S) ==
    [total    |-> KmOf(S),
     zones    |-> [z \in SegmentZones |-> KmOf({p \in Billable(S) : ZoneOf(p) = z})],
     rejected |-> KmOf({p \in S : StateOfPart(p) = "NON_BILLABLE"}),
     pending  |-> KmOf({p \in S : StateOfPart(p) = "PENDING_REVIEW"})]

ZonesKm(summary) == SumOver(summary.zones)

(* dailyRevenue: one point per day of the range, driven or not.            *)
DailyKm(S, from, to) == [day \in from .. to |-> TotalsFor(OnDay(S, day))]

(* topVehicles and vehiclesOf: billable rows grouped by vehicle.           *)
VehicleKm(S) ==
    [v \in {VehicleOf(p) : p \in Billable(S)} |->
        KmOf({p \in Billable(S) : VehicleOf(p) = v})]

(* precedingRange: as long, and it ends the day before this one starts.    *)
PrecedingRange(from, to) == <<from - 1 - (to - from), from - 1>>

-----------------------------------------------------------------------------
(* How readable the wrap was. Speeds are compared without dividing.        *)

BandOf(km, seconds) ==
    IF km < MinKm \/ seconds <= 0 \/ (km < ParkedBelow * seconds /\ seconds > ParkedMin)
    THEN "none"
    ELSE IF km < HighBelow * seconds THEN "high"
    ELSE IF km < MediumBelow * seconds THEN "medium" ELSE "low"

(* visibility.service.ts: the hop's distance over the hop's whole time.    *)
BarBand(h) ==
    BandOf(KmOf(PartsOf(h)), Max({EndedAt[p] : p \in PartsOf(h)})
                             - Min({StartedAt[p] : p \in PartsOf(h)}))

(* classify: the hop's distance over the time of its first part.           *)
MapBand(h) == BandOf(KmOf(PartsOf(h)), EndedAt[<<h, 1>>] - StartedAt[<<h, 1>>])

-----------------------------------------------------------------------------
(* Uploads, and a reader who scrolls through a feed.                       *)

NoCursor == -1

Closed == [at |-> "closed"]

FeedSubjects == {<<"driver", d>> : d \in Drivers} \cup {<<"campaign", c>> : c \in CampaignsDriven}

FeedRows(of) == IF of[1] = "driver" THEN OfDriver(of[2]) ELSE OfCampaign(of[2])

TripsTypeOK ==
    /\ ledger \in [Hops -> SegmentStates \cup {"NONE"}]
    /\ \/ feed = Closed
       \/ /\ feed.at \in {"open", "done"}
          /\ feed.of \in FeedSubjects
          /\ feed.before \in Nat \cup {NoCursor}
          /\ feed.shown \in Seq([id : Part, wait : Nat \cup {NoWait}])
          /\ feed.owed \subseteq Part

TripsInit ==
    /\ ledger = [h \in Hops |-> "NONE"]
    /\ feed = Closed

(* An upload commits a hop. Ingest shows in which states and why.          *)
UploadHop(h) ==
    /\ ledger[h] = "NONE"
    /\ PhoneInOrder /\ feed # Closed =>
          \A g \in Hops : g > h /\ HopShift[g] = HopShift[h] => ledger[g] = "NONE"
    /\ \E state \in SegmentStates : ledger' = [ledger EXCEPT ![h] = state]
    /\ UNCHANGED feed

OpenFeed ==
    /\ feed = Closed
    /\ \E of \in FeedSubjects :
          feed' = [at |-> "open", of |-> of, before |-> NoCursor, shown |-> <<>>,
                   owed |-> {t.id : t \in TripsIn(FeedRows(of))}]
    /\ UNCHANGED ledger

(* The page of recentTrips and of campaignTrips: newest first, older than  *)
(* the cursor.                                                             *)
BeforeCursor(trips) ==
    {t \in trips : feed.before = NoCursor \/ t.startedAt < feed.before}

FirstPage(trips) ==
    {t \in trips : Cardinality({u \in trips : u.startedAt > t.startedAt}) < PageSize}

(* Faulty: the page is cut before the waits are worked out.                *)
ShownAfterCut(trips, page) ==
    [i \in 1 .. Cardinality(page) |->
        LET t == CHOOSE u \in page :
                     Cardinality({w \in page : w.startedAt > u.startedAt}) = i - 1
        IN  [id |-> t.id, wait |-> WaitIn(page, t)]]

(* The rows of a page, each with the wait before it, which is worked out   *)
(* over the whole feed.                                                    *)
ShownRows(trips, page) ==
    [i \in 1 .. Cardinality(page) |->
        LET t == CHOOSE u \in page :
                     Cardinality({w \in page : w.startedAt > u.startedAt}) = i - 1
        IN  [id |-> t.id, wait |-> WaitIn(trips, t)]]

(* A driver's feed goes on when the page was full, a campaign's when rows  *)
(* remain.                                                                 *)
HasMore(rest, page) ==
    IF feed.of[1] = "driver" THEN Cardinality(page) = PageSize ELSE page # rest

TurnPage(trips, rest, page) ==
    [feed EXCEPT !.shown  = @ \o ShownRows(trips, page),
                 !.before = IF HasMore(rest, page)
                            THEN Min({t.startedAt : t \in page}) ELSE @,
                 !.at     = IF HasMore(rest, page) THEN "open" ELSE "done"]

ReadOf(trips, rest) == TurnPage(trips, rest, FirstPage(rest))

PageOf(trips) == ReadOf(trips, BeforeCursor(trips))

ReadPage ==
    /\ feed.at = "open"
    /\ feed' = PageOf(TripsIn(FeedRows(feed.of)))
    /\ UNCHANGED ledger

CloseFeed ==
    /\ feed.at = "done"
    /\ feed' = Closed
    /\ UNCHANGED ledger

TripsNext ==
    \/ \E h \in Hops : UploadHop(h)
    \/ OpenFeed
    \/ ReadPage
    \/ CloseFeed

TripsSpec == TripsInit /\ [][TripsNext]_tripsVars

-----------------------------------------------------------------------------
(* Premises some theorems need; nothing above does.                        *)

(* A phone records one hop after the other.                                *)
DrivenInOrder ==
    \A g, h \in Hops : g < h /\ HopShift[g] = HopShift[h] => HopEnd[g] <= HopStart[h]

(* No two shifts of a feed begin a part at one instant.                    *)
StartsApart ==
    \A p, q \in Part :
        /\ StartedAt[p] = StartedAt[q]
        /\ DriverOf(p) = DriverOf(q) \/ CampaignOf(p) = CampaignOf(q)
        => ShiftOf(p) = ShiftOf(q)

-----------------------------------------------------------------------------
(* Properties. What only reads the ledger is looked at while no feed is    *)
(* open and once something is in it: every ledger has such a state.        *)
OnTheLedger == feed = Closed /\ Rows # {}

(* The day screen, the history, the wallet, the campaign's totals, the     *)
(* dashboards' panels and a report's tables are separate statements over   *)
(* the same rows, and every one of them adds up to the others, whatever    *)
(* midnight, zone or hold falls inside a drive. "a driver who taps a row   *)
(* must not find the trips inside it adding up to something else"          *)
(* (tracking.service.ts); the preceding range has each earlier day once.   *)
(* A billed hop inside one zone has one band, on the map of its trip and   *)
(* in the campaign's bar; a hop into another zone may have two, since the  *)
(* map takes its whole distance over the time of its first part.           *)
ScreensAddUp ==
    LET DayAddsUp(km, rows, trips) ==
            /\ km = TotalsFor(rows)
            /\ km = SumOver([t \in trips |-> t.km])
            /\ \A t \in trips : SumOver(ZoneBreakdown(t)) = t.km
        RangeAddsUp(rows, summary, days, S, P) ==
            /\ ZonesKm(summary) = SumOver(days) /\ ZonesKm(summary) = SumOver(VehicleKm(S))
            /\ summary.total = ZonesKm(summary) + summary.rejected + summary.pending
            /\ P \cap S = {}
            /\ TotalsFor(P) + TotalsFor(S) = TotalsFor(rows)
    IN  OnTheLedger =>
        /\ \A d \in Drivers :
              /\ \A day \in Days : DayAddsUp(HistoryKm(d, day), OnDay(OfDriver(d), day),
                                             TripsIn(OnDay(OfDriver(d), day)))
              /\ WalletKm(d) = SumOver([day \in Days |-> HistoryKm(d, day)])
              /\ WalletKm(d) = SumOver([c \in CampaignsDriven |-> AchievedKm(d, c)])
              /\ WalletKm(d) = SumOver([t \in TripsIn(OfDriver(d)) |-> t.km])
        /\ \A h \in Hops : ledger[h] = "BILLABLE" /\ Len(HopParts[h]) = 1
                            => MapBand(h) = BarBand(h)
        /\ \A c \in CampaignsDriven :
              /\ CampaignKm(c) = SumOver([d \in Drivers |-> RosterKm(c, d)])
              /\ CampaignKm(c) = SumOver([t \in TripsIn(OfCampaign(c)) |-> t.km])
              /\ \A from, to \in Days : from <= to =>
                    RangeAddsUp(InRange(OfCampaign(c), PrecedingRange(from, to)[1], to),
                                KmSummary(InRange(OfCampaign(c), from, to)),
                                DailyKm(OfCampaign(c), from, to),
                                InRange(OfCampaign(c), from, to),
                                InRange(OfCampaign(c), PrecedingRange(from, to)[1],
                                        PrecedingRange(from, to)[2]))

(* A row of a trip list opens the drive it shows: "a trip id has to        *)
(* resolve to the same drive whichever list it was tapped in". The cut is  *)
(* made twice, in SQL over a list's rows and in Node over the shift. A     *)
(* feed's row is the whole drive, with its distance and its badge; a day's *)
(* row is that day's part of it, and two rows never open the same drive.   *)
RowOpensItsDrive ==
    LET Apart(trips) ==
            \A t, u \in trips : t # u => Range(DriveOf(t.id)) \cap Range(DriveOf(u.id)) = {}
        IsDrive(t, drive) ==
            /\ t.parts = Range(drive) /\ t.id = drive[1]
            /\ t.km = LegsKm(drive) /\ t.status = StatusOf(Range(drive))
        Opens(trips) == \A t \in trips :
            \E drive \in Range(DrivesOf(ShiftOf(t.id))) : t.id \in Range(drive)
        FeedOpens(trips) ==
            Opens(trips) /\ Apart(trips) /\ \A t \in trips : IsDrive(t, DriveOf(t.id))
        DayOpens(trips, day) ==
            Opens(trips) /\ Apart(trips)
                /\ \A t \in trips : t.parts = OnDay(Range(DriveOf(t.id)), day)
    IN  OnTheLedger =>
        /\ \A of \in FeedSubjects : FeedOpens(TripsIn(FeedRows(of)))
        /\ \A d \in Drivers, day \in Days :
              DayOpens(TripsIn(OnDay(OfDriver(d), day)), day)

(* Scrolling to the end of a feed shows every trip that was there when it  *)
(* was opened, and none twice, while uploads add to the top: "an offset    *)
(* would show the same trip twice". The wait printed above a row is the    *)
(* one its page pins, wherever the pages were cut.                         *)
FeedShowsEveryTripOnce ==
    feed # Closed =>
        LET shown == feed.shown
        IN  /\ \A i, j \in DOMAIN shown : shown[i].id = shown[j].id => i = j
            /\ \A i \in DOMAIN shown :
                  shown[i].wait = ParkedBefore(DrivesOf(ShiftOf(shown[i].id)), shown[i].id)
            /\ feed.at = "done" => feed.owed \subseteq {shown[i].id : i \in DOMAIN shown}
=============================================================================
