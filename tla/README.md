# Specifications of the MoveAd backend

TLA+ models of this backend: how a kilometre is measured, priced and shown; how
campaigns, vehicles, drivers, companies and accounts come to be and change; and
what the portals, the app and the nightly worker do with all of it. TLC checks
the models on small instances; TLAPS proves every safety guarantee the runs
check, of every component, for all values of their constants.

All paths below are relative to the repository; the program is in `src/`.

## 1. The system

An advertiser books a campaign. The back office approves it, sends it to the
printer and assigns vehicles. The wraps are installed, photographed and signed
off. The driver's phone uploads GPS fixes, and the server pairs them into
segments, splits these at zone borders, prices them, and bills the advertiser
and credits the driver. Everything is one Node process per entry point over one
Postgres database; there are several instances of it and almost no handler
holds a transaction across its reads and writes.

| Component | State | Operations | What is hard about it |
|---|---|---|---|
| GPS pipeline (`modules/tracking/tracking.pipeline.ts`, `shared/geo.ts`) | none | `qualityOf`, `buildSegments`, `splitSegmentByZone` | order and ties of fixes, bridging, borders; the result must not depend on how a session was cut into batches |
| Point ingestion (`tracking.service.ts` `ingestPoints`) | `gps_points`, `trip_segments` | one transaction per batch | lost answers, resends, overlapping and reordered batches, stale gate |
| Sessions (`startSession`, `stopSession`) | `tracking_sessions` | start, stop | check-then-insert, retries, two phones |
| Consent (`modules/drivers/consent.ts`) | `driver_consents` | grant, withdraw | three steps without a transaction, racing starts and releases |
| AC-07 gate (`modules/installations/eligibility.ts`) | none | `eligibility` | reads five tables, at upload time |
| Campaigns (`modules/campaigns/campaigns.service.ts`) | `campaigns` | create, correct, eight steps | check-then-update by primary key, then releases; budgets from copied rates |
| Assignment and installation (`modules/installations/installations.service.ts`) | `campaign_vehicles`, `installations`, photos | assign, unassign, accept, photo, submit, approve, reject; queues and pickers | stale copies, partial unique index, two actors |
| Branding proofs (`modules/brandingProofs`) | `branding_proofs` | request, photo, submit, `earningHold` | stale status written over a submission; two checks open at once |
| Identity (`modules/identity`), HTTP guards (`shared/http/middleware/auth.ts`) | `users`, `user_sessions` | sign-in, second factor, refresh, sign-out, bootstrap, staff | failure counts, token rotation, three portals' cookies in one browser |
| Invitations (`modules/invitations`) | `user_invitations` | issue, resend, replace, accept | one link, many acceptances |
| Onboarding (`modules/drivers/drivers.service.ts`) | `drivers`, `vehicles`, `documents`, `vehicle_status_events`, pictures | create, review, suspend, upload, edit, remove | derived states recomputed over decided ones; columns written from old copies |
| Advertisers, rate cards | `advertisers`, `advertiser_rate_cards` | create, edit, set rates | rates are copied into a campaign at creation |
| Notifications, budget warning | `notifications` | send once, read | check-then-insert without a key |
| Impressions, traffic, worker (`modules/impressions`, `modules/traffic`, `queue`, `entrypoints/worker.ts`) | `segment_impressions`, `speed_baselines`, two queues | nightly recomputation, `computeMissing` from jobs and requests | a job overlapping requests, retries, shutdown |
| Reads: trips, feeds, dashboards, visibility (`tracking.service.ts`, `dashboards.service.ts`, `visibility.service.ts`) | none | sums and groupings over `trip_segments` | one ledger cut by day, trip, zone, session and page, in SQL and in Node |
| Reports (`modules/reports`) | `report_exports`, objects | export, list, download | several statements in one file, a file before its row |
| Audit, mail | external | output | not modelled |

How they meet: `ingestPoints` and `startSession` call `eligibility`, which
reads consent, driver, vehicle, assignment, campaign and wrap checks;
`withdraw` calls `stopSession` and then `unassign` for each live assignment;
`runStep` ends assignments, `approveInstallation` moves assignment and campaign
together, and `assignVehicles` ends holds of campaigns that are over; an
activation opens a wrap check; an export and every list with an audience call
`computeMissing` first; a change of an address replaces the invitation and ends
the sessions. All of this is shared database state, with unique indexes and
checks as the last line of defence.

What makes each component correct: a stretch of driving is priced once, for
good, and never lost (ingestion); one session per driver and vehicle, none
after a withdrawal (sessions, consent); one live campaign per vehicle, two
people behind every wrap, nothing approved by its creator, a finished campaign
stays finished and holds nothing (campaigns, installation); every screen adds
up to every other (reads); a figure told stays told and every billed kilometre
gets one (impressions); what was published stays and what is held is released
(wrap checks); one link, one proof, one token opens an account (identity,
invitations); what is on file, and its history, agree with the state derived
from it (onboarding); a budget is at the campaign's own rates (commerce).

## 2. Modules

| Module | Models | Variables |
|---|---|---|
| `Pipeline` | the pure pipeline on a road of unit cells | none |
| `Ingest` | the phone's buffer, uploads under way, both tables; EXTENDS `Pipeline` | `taken buffer waiting calls meter points segments` |
| `Odometer` | what ingestion promises: each stretch gets one verdict, which never changes | `verdict` |
| `IngestOdometer` | the refinement mapping from `Ingest` to `Odometer` | |
| `MeteredIngest` | `Ingest` with a history of when the gate stood open | `drivenOn` |
| `Sessions` | sessions, consent, the gate, and operations underneath | `consented campaign hold sessions requests charged` |
| `Campaigns` | campaign steps, assignments, installations | `campaign hold installation photographed submittedBy reviewedBy lapsed requests approvedBy` |
| `Fleet` | the screens over the rows of `Campaigns`, which it EXTENDS | none of its own |
| `BrandingProofs` | wrap checks and the hold on earnings | `assignment proofs asks phones` |
| `Commerce` | rate cards, budgets, the budget warning and inboxes | `rateCards setter order buyers edits spend active openings inbox` |
| `Trips` | what the screens make of `trip_segments` | `ledger feed` |
| `Figures` | audiences, baselines, queues and the worker | `billed figure baselines recompute runs queue process faults` |
| `Reports` | exports from request to download | `billedParts figured exports objects exporters asked` |
| `Accounts` | one account: invitations, sign-in, second factor, app tokens | `audience user invitations logins tabs clerks claims appToken proven wrong` |
| `NewAccounts` | the forms that create accounts, and a driver's removal | `sent counter tables removed welcomed` |
| `Doors` | the guards of the three portals | `issued barred jar header` |
| `Onboarding` | a driver's and vehicles' review, papers, removal | `driver vehicles vehicleEvents documents desks uploads turns overruled` |
| `Records` | rows edited by hand and pictures | `fields locked editing album` |
| `IngestProofs`, `SessionsProofs` | theorems about `Ingest` and `Sessions` | |
| `CampaignsProofs` | theorems about `Campaigns` and `Fleet` | |
| `TripsProofs` | theorems about `Trips` | |
| `FiguresProofs` | theorems about `Figures`, `Reports` and `Commerce` | |
| `AccountsProofs` | theorems about `Accounts`, `Doors` and `NewAccounts` | |
| `OnboardingProofs` | theorems about `Onboarding`, `Records` and `BrandingProofs` | |
| `PlatformProofs` | theorems about `MCPlatform`: the components beside each other | |
| `MCIngest`, `MCMetered`, `MCSessions`, `MCCampaigns` | values for TLC | |
| `MCPlatform`, `MCLive`, `MCRaces` | several components in one run | `focus` |

`MCPlatform` puts the ten components around the ledger side by side, `MCLive`
the three with a liveness property, and `MCRaces` the uploads of any phone and
the overlapping requests of the back office. They share no variable: what one
writes and another reads (the billed segments, the life of a campaign, the
state of an assignment) is an input of the reader's model that may change in
every way the writer's can. `focus` names the component a behaviour moves, and
the others rest, so the states of the run are the sum of theirs and not the
product.

Definitions whose comment begins with *Faulty* are variants of the definition
after them with one plausible mistake in it. Nothing uses them; they document
which mistake each property would find, and each property was seen to fail
with the variant that `PROJECT.json` names in place of the original.

### Pipeline and Ingest

The map is a road of unit cells, each in one zone; a place is a cell border.
Distances, crossings and zone parts are then exact, and `ZoneParts` returns what
`splitSegmentByZone` returns up to geometry: the maximal runs of one zone along
the way. A part is identified by its first cell instead of its index; both
determine each other for one pair of fixes. Charges are whole numbers.
The driver's earning follows the same branch as the charge and is left out.

An upload has the steps the database can tell apart: `Evaluate` (the reads
before the transaction), `Insert` (rows in, window back; it waits for another
transaction that holds one of its ids uncommitted) and `Commit` (segments in,
commit). `calls[c].seen` is the window as it was read. The transaction's own
rows appear in `points` at `Commit`. The order in which equal timestamps come
back is any order in `Orders`.

The phone is not in this repository. Its actions follow what the server's
comments and `contracts/tracking.ts` say of it: it deletes its buffer after a
2xx only, and sends again. `SerialPhone` is the assumption under which the strong
properties hold: the phone uploads its oldest fixes first and starts no upload
while it waits for one. It may give up waiting at any time, so its uploads still
overlap in the server.

`meter` is the answer of `eligibility`; it flips at any time. `Sessions` models
what is behind it.

### Sessions

Every read and write of `startSession`, `stopSession`, `withdraw` is a step of
a request; `requests[r].next` is the step it takes next. `StopEnd` saves by
primary key whatever happened to the row since it was read. Uploads are reduced
to the question which campaign they charge. `BOOKED` stands for ASSIGNED,
ACCEPTED and INSTALLING, `OVER` for ENDED and WITHDRAWN, `COMPLETED` for every
campaign that is over or past its last day. The checks on driver, vehicle and
wrap may fail at any time. `Patient` drivers' phones wait for each answer and
their requests are not cut off; the others' requests may overlap and die
between any two steps.

### Campaigns

A request loads its rows and passes its checks in `Begin...`, remembers in
`saw` what it uses later, and writes by primary key in `Write...`, one step per
statement or transaction. Sequelize writes a column only if it differs from the
copy the handler loaded, which the model follows for statuses and user columns.
The unique indexes and checks refuse a write where they would
(`MayBeLive`, `ReasonFits`, `SeparateActors`). `lapsed` holds the campaigns
whose last day has passed. One request assigns one vehicle; a request for
several is the same transaction for all of them or none. The rows `releaseVehicles`
updates one by one are updated together, since nothing looks in between that
could tell. Photos are one set: `WritePhoto` is the photo that completes it, and
saves it with the statuses that follow it. DRAFT, PENDING_CONFIRMATION and
BUDGET_WARNING are never written by the code and have no transition here. No
code assigns a campaign's id twice, and no code deletes campaigns.

### Fleet

Each screen (`portalCampaign`, `eligibility`, the fitters' and reviewers' queues,
the advertiser's vehicle picker) is an operator of the state of `Campaigns`.
The queries of one screen are taken together; where one picks the newest of
several rows, any of them may be it. `RequestedIds` are the assignments some
advertiser asked for.

### BrandingProofs

`requestProof` (by operations, by the driver, at activation), `uploadPhoto` and
`submitProof`, one statement per step. A handler keeps the status it loaded and
writes by primary key. The unique index over a vehicle's open checks is
`MayOpen`. APPROVED and REJECTED are in the enum and never written. Files and
positions are left out.

### Trips

A hop is a pair of fixes, its parts the rows of `trip_segments`. Each screen is
an operator with the scope, the grouping and the cut of its query: the cut by
`TripGap` is written twice in the code, over rows in SQL (`Breaks`, `TripsIn`)
and over a session in Node (`DrivesOf`), and twice here. `StartedAt` and
`EndedAt` of a part are those the pipeline stores. Money is left out: every rupee
is a sum over the same rows as its kilometre. The ledger and the feed are the
state; `OpenFeed`, `ReadPage` and uploads between them are the only steps. A row's
`flag_reason`, which tells two runs of one drive apart on a screen (`sameRun`) and
adds nothing up, is left out.
`HistoryKm` ignores the `LIMIT 30` of the history, and where a screen reads one
campaign its operator does too. A part has a length: `splitSegmentByZone`
(`shared/geo.ts`) returns no part for a hop of no distance and skips the pieces
that end where they begin. `km` stands for that length before it is rounded.
`DrivenInOrder` and `StartsApart` are premises of theorems and not assumptions of
the module; the run's instance satisfies both (`TripsPremises` in `MCPlatform`).

### Figures

One transaction or statement per step of `computeMissing` and
`recomputeBaselines`. A baseline is the set of segments behind it, a figure the
rung of the ladder it was measured from and how many samples there were. A
reader asks for the segments of all campaigns, which is the more demanding
case. `process` follows `shutdown` in the order the code registers its tasks.

### Reports

The statements of an export that `Promise.all` starts together are answered in any
order (`Read`), with bills between them. A file is the set of parts each of its
sections counted. `PutBytes` and `PutMeta` are the two writes of the local
store. `Expire` is `TTL_MS`.

The last section of a proof pack, its sample, is not one of the whole period: it is
the workings of the `SAMPLE_DAYS` busiest days (`Busiest`), ranked by the table by
day that the same export has read (impressions, then kilometres, then the earlier
day), each of them priced again (`PriceDay`) and then worked (`WorkDay`,
`forCampaignDay`), side by side. So a part has a distance and the impressions it is
given; the ranks are of exact sums, where the code rounds a day to a tenth of a
kilometre and a whole impression first, and the second statement of
`forCampaignDay`, for the medians, is left out. `ListedReportIsWhole` claims of the
sample that it is of the busiest days by its own file's table, and leaves out
nothing that table has for them; of the other sections, that each counts all of the
period.

### Accounts, NewAccounts, Doors

`Accounts` follows one account of any portal: a sign-in loads the row, judges the
password or the code, and saves the columns that differ from its copy. Hashes and
one-time codes are right or wrong. `proven` and `wrong` are history. A challenge
token is good until it expires (`ChallengeExpires`): after a wrong code the sign-in
is back at the challenge (`Replied`), and codes are judged without a look at the
lock. `lockedUntil` is null, to come, or past and still in the row (`Locking`),
since only a sign-in, a reset or an acceptance clears it. A clerk's request holds
only what it uses again of the row (`Copy`). `DisableDriver` ends the sessions on a
connection of its own, `CommitDisabled` is the transaction around it. `NewAccounts`
has one form as one transaction of several inserts; an insert whose key another open
transaction has taken waits. `Doors` takes a whole request as one step, as the guard
changes nothing but the sessions it revokes. `requireAnyAuth` is a set of six turns,
one for the cookie and one for the bearer token of each portal in the order of the
code; the first that lets the caller in is the last one made.

### Onboarding, Records

`Onboarding` keeps the states and the papers, `Records` the columns that hold
text, money's destination and pictures. A state derived from papers
(`refreshSubmissionState`) is worked out after the upload has committed, in three
reads and one save. `vehicleEvents` are the rows of `vehicle_status_events`. In
`Records` a save writes the columns where the form differs from the row as it
was loaded; audit rows are left out.

### Commerce

One campaign, its advertiser's cards and logins. `LAPSED` stands for every
status in which nothing is sold any more. Prices are whole rupees and distances
whole kilometres, so that a budget is a product without rounding. Rates and distances
may be zero, as the contracts allow; of a budget of nothing nobody is warned.

## 3. Runs

| Run | Configuration | Shows |
|---|---|---|
| `ingest` | `MCIngest.cfg` | four fixes, one REJECTED and one QUESTIONABLE, three zones, two uploads, serial phone: `NothingTwice NothingMissed DeletedIsStored ResendIsNoOp PricedOnce` |
| `races` | `MCRaces.cfg` | one campaign, two concurrent requests that may die: `SeparationOfDuties AssignedWasApproved`; three fixes, any phone: `PairConsumed`, what the unique keys alone guarantee of prices |
| `ingest_twice` | `MCIngestTwice.cfg` | violation: see 6.1 |
| `ingest_metered` | `MCMetered.cfg` | violation: see 6.2 |
| `sessions` | `MCSessions.cfg` | a patient and an impatient driver, two requests, two sessions: `OneSessionAtATime WithdrawnMeansStopped WithdrawalStops` |
| `sessions_charged` | `MCSessionsCharged.cfg` | violation: see 6.3 |
| `campaigns_serial` | `MCCampaignsSerial.cfg` | two campaigns, one vehicle, one request at a time: `OneLivePerVehicle FinishedHoldsNothing OnTheRoadIsLaunched FinishedIsFinal`, and the screens of `Fleet`: `ScreensAgree EveryWrapHasAScreen NoCampaignVanishes` |
| `campaigns_evidence` | `MCCampaignsEvidence.cfg` | violation: see 6.4 |
| `platform` | `MCPlatform.cfg` | ten components, 17 invariants and 2 action properties, below |
| `live` | `MCLive.cfg` | liveness: `EventuallyStored` (`Ingest`), `EveryBilledGetsAFigure` (`Figures`), `HoldIsReleased` (`BrandingProofs`) |
| `onboarding_reinstated` | `OnboardingReinstated.cfg` | violation: see 6.5 |
| `sign_in_locked` | `AccountsLocked.cfg` | one account of the back office that needs a second factor, one sign-in, two attempts; violation: see 6.6 |

What `platform` shows of each component, beside its types:

| Component | Property | Holds although |
|---|---|---|
| `Trips` | `ScreensAddUp`, `RowOpensItsDrive` | midnight, a zone border or a held part falls inside a drive |
| `Trips` | `FeedShowsEveryTripOnce` | uploads arrive between two pages |
| `Figures` | `FigureIsFinal`, `AnswerIsComplete` | a request, the job and a recomputation overlap and fail |
| `BrandingProofs` | `PublishedStays` | two requests of operations are under way beside the one of the driver's phone |
| `Accounts` | `OneLinkWorks`, `SignInIsEarned`, `RefreshTokenWorks` | links are replaced under an acceptance, answers are lost, secrets change, a challenge is used over and over |
| `Onboarding` | `CompleteSetIsNoticed`, `VehicleHistoryAgrees` | two papers arrive at once, papers lapse, drivers are suspended and removed |
| `Commerce` | `BudgetAtItsRates`, `WarnedOnce` | cards change between quote and correction, logins come and go |
| `Reports` | `ListedReportIsWhole` | parts are billed between the statements, and between the table by day and the sample that is chosen from it; the process dies between file and row |
| `Records` | `PictureIsThere`, `OneWayToBePaid` | operations edit at the same time, uploads die halfway |
| `NewAccounts` | `OnboardedWhole` | two forms want the same address, and the API dies between two rows |
| `Doors` | `DoorsAgree` | a browser carries live and dead cookies of three portals |

### Bounds

Four fixes are a pair that bridges a rejected fix, a pair after it and
the join of two batches between them, with batches of two; gaps of 10 s and
`MaxBridgeSeconds` = 25 put two gaps within reach and three out of it. Two calls
are enough for an abandoned upload to overtake its retry. The short session has
its middle fix within reach of both others, and those within reach of each
other, which is the shape every double pairing has. Two sessions and two
requests give the races of two starts and of a start and a withdrawal. Two
campaigns and one vehicle are the smallest contest for a vehicle; two users are
the smallest with two actors. Symmetry (calls; requests and campaigns; the
acceptances of links in `platform`) is used in safety runs only, over constants no other constant tells apart: all
campaigns have the same creator.

In `platform`: five hops in three shifts of two drivers, two campaigns and two
vehicles hold a drive over midnight, one over a zone border, a parked gap and two
trips of a shift, with pages of one trip, so that every page is a cut. Two segments,
batches of one and `MinSamples` = 1 make the job and a request meet in every batch
and each rung of the ladder be used; one fault and two attempts let a job fail,
retry and be interrupted. One wrap with two angles, two requests of operations that
overlap, and a phone that waits, so that with one wrap it has one request under way.
Two links and two acceptances race over one account with two secrets and two wrong
attempts to its lock; a third would only repeat the second. One kind of paper of the
driver and one of the vehicle, two uploads, three requests of the back office: the
two papers that complete the set arrive at once, and there is still a suspension, a
reinstatement and a removal after it. Two cards beside the default, one correction,
and spending up to four rupees around a warning at 80%; one card sells a zone for
nothing. Two parts on two days and three periods, one of them upside down and one too
long, with a sample of one day: it leaves out a day of a file, and either day may be
the busiest by the table, according to what is billed and priced when it is read.
Three forms, two words and two pictures in `Records`; two forms and two clerks over
two addresses, one mobile and one plate in `NewAccounts`; two sign-ins over three
portals in `Doors`. `sign_in_locked` has the same two attempts, and one of
everything else. The counters that start with `Max` bound how often something
happens in a behaviour and are guards of the actions they count.

`CHECK_DEADLOCK FALSE` is set in `campaigns*` and `races`, where every campaign is
over and its vehicle has been on each of them in the end, and in `platform`, `live`,
`onboarding_reinstated` and `sign_in_locked`, where the bounded events run out and
the work they caused is done.

### Assumptions

`campaigns_serial` assumes `Serial` (one request of the back office at a time),
`~MayCrash` (a request may die before its first write, not between two of its
writes), and `LiveWorkOnly`: installers and reviewers work from queues, and
photograph, submit and review only assignments that are live. The code enforces
none of these. Without them TLC finds, and the hazards in `PROJECT.json`
describe: an approval and a rejection that both pass their check, the later one
winning; a submission after the end of a campaign, which makes its ENDED
assignment INSTALLING, hence live, again; a crash between the status and the
release. `races` makes none of these assumptions. Of the theorems of
`CampaignsProofs` the first four make none, two make `Serial` alone, which shows
that the properties they state survive crashes and dead work, and four make all
three.

In `platform` some kinds of request come one at a time, because two of a kind
break what is checked of them, each time by a save computed from a stale copy:
sign-ins and refreshes of one account (`Tabs`), requests of the back office about one
account (`Clerks`) and about one driver (`Reviewers`), corrections of one
campaign (`Buyers`), openings of one campaign (`Openings`), screens of one
driver (`Screens`), and the phone of a driver who waits for an answer
(`PatientDriver`, `PhoneInOrder`). The requests of different kinds, and those of
the kinds not named here, interleave freely. Where the code or a comment claims
more, the findings of `PROJECT.json` quote it (section 6). The theorems about
these components name the same premise (`OneTab`, `OneClerk`, `OneDesk`,
`OneBuyer`, `OneOpening`, `OneScreen`, `Patient`, `PhoneInOrder`) and only those that
need it do.

### Fairness

`Ingest!FairSpec`: the phone sends when it can, the server finishes
the steps of a request, an answer is delivered, and from some moment on nothing
is lost and nobody gives up waiting. A phone that retries cannot do more about
a network that never recovers, and a fix is not stored if every answer and
request is lost forever. No fairness on driving or on the gate.

`Sessions!FairSpec`: a request that was received is worked on until it is
answered; patient drivers' requests are not cut off. No fairness on asking.

`Figures!FiguresFairness`: the scheduler fires every night; a worker that is up
takes its jobs and works on them; one that is closing down closes, exits and is
started again by its orchestrator. Jobs and processes fail, `MaxFaults` times.
No fairness on advertisers, so the figures come from the worker alone.

`BrandingProofs!ProofsFairness`: what the phone asked for is worked on (weak), and
the driver does what his app shows him (strong, since another request may keep
disabling the next photo). Nothing forces operations to ask.

`LiveSpec` of `MCLive` states each of these under its focus.

## 4. Proofs

`tlapm` (Z3, Zenon, LS4) checks eight modules. No theorem bounds a set of
requests, sessions, campaigns or fixes beyond what its module's assumption says,
and where two requests of a kind break a property, the premise that they come one at a
time is a hypothesis of that theorem, with a name and a comment, and not an
assumption of the module. The theorems that have such a hypothesis are:

| Premise | Meaning | Theorems |
|---|---|---|
| `SerialPhone`, `DistinctTimes` | the phone uploads its oldest fixes first and waits; no two usable fixes of one instant | four of `IngestProofs` |
| `OneByOne` | one request of the back office at a time, which may die, and be about dead work | `EndIsFinal OneAnswer` |
| `OneAtATime` | one at a time, about live work, not dying between two writes | `EndReleases RoadIsLaunched WrapsHaveAScreen ScreenOutlivesTheEnd` |
| `Patient` | the app waits for an answer about a wrap check | `PublishedIsFinal` |
| `OneClerk` | one request of the back office about an account at a time | `LinkWorks` |
| `OneTab` | one sign-in or refresh of an account at a time | `SignInEarned TokenWorks` |
| `OneDesk` | one request of the back office about a driver at a time | `HistoryAgrees` |
| `OneScreen` | the driver saves from one screen at a time | `OneWay` |
| `OneBuyer`, `OneOpening` | one correction, one opening of a campaign at a time | `BudgetHolds`, `WarnsOnce` |
| `DrivenInOrder` | the priced hops of a shift follow one another in time | `RowsOpenTheirDrives TripsTyped FeedShowsAll` |
| `StartsApart`, `PhoneInOrder` | no two shifts of a feed begin a part at one instant; while a feed is read no phone uploads a hop older than one it has uploaded | `TripsTyped FeedShowsAll` |

The code enforces none of them. The premises about requests stand for a handler that
reads a row, computes and saves without a lock or a condition on what it read,
and the comment of the property says what two of them do. Requests of every other kind
overlap freely under each.

`DrivenInOrder` is what `NothingIsBilledTwice` proves of the hops of a serial
phone; where it fails (6.1), hops lie inside each other and the two cuts of a
drive need not agree. `StartsApart` is about instants as they are stored: the
cursor of a feed is the time a trip began, and `recentTrips` and `campaignTrips`
go on strictly before it, so of two trips of one campaign that begin at the same
instant, on either side of the end of a page, the second is never shown.
`PhoneInOrder` excludes a phone that comes back into reach and
uploads an older stretch while the feed is read, which may join two trips already
shown.

### IngestProofs

For every finite set of fixes, any road, zones, rates and thresholds, and any
set of calls.

- For any phone: `Typed`, `NoFixIsLost` (`DeletedIsStored`), `PairsConsumedOnce`
  (`PairConsumed`).
- For a serial phone (`SerialPhone`) and distinct capture times of usable fixes
  (`DistinctTimes`): `NothingIsBilledTwice` (`NothingTwice`),
  `NoKilometreIsMissed` (`NothingMissed`), `ResendingIsSafe` (`ResendIsNoOp`),
  `IngestImplementsOdometer` (`PricedOnce`). Both are hypotheses of these
  theorems, not of the module: `NothingTwice` fails without the first (6.1), and
  two fixes of one instant come back in an unspecified order.

The inductive invariant is
`IInv == IngestTypeOK /\ Deliveries /\ Pricing /\ Prefixes /\ Metered`.
`Deliveries`: an answered batch is stored. `Pricing`: every stored segment is a
zone part of the pair it names, and such pairs are adjacent among *all* usable
fixes, not only among the stored ones; that is what makes two of them disjoint
in time. `Prefixes` is why: a serial phone keeps what is stored, and what an
open upload will have stored, a time-prefix of what was taken, so no later fix
can fall between two that were paired. `Metered`: all parts of a stored pair
are stored. `NothingTwice` alone is not inductive: nothing in it says that a fix
to come lies after those paired already.

### SessionsProofs

For any drivers, vehicles and campaigns and any finite set of requests; the
drivers in `Patient` are any of them. `Typed`, `NoSecondSession`
(`OneSessionAtATime`), `WithdrawalIsAStop` (`WithdrawnMeansStopped`).

`OneSessionAtATime` is almost inductive: the row is inserted under two partial
unique indexes. `WithdrawnMeansStopped` is not. The start that could break it has
passed the gate and not yet inserted; `StartsConsented` says that a patient
driver who has such a start under way has still consented, `OneRequest` why (his
phone waits, so no withdrawal is under way beside it), and `BeingStopped` that a
withdrawal past its first write is about to end the session that is open.
`Shaped` ties what a request remembers to the step it is at.

### CampaignsProofs

For any campaigns, vehicles and users, whoever created what, in three groups.

*Requests that overlap without limit and die between any two writes.* `Typed`,
`NoVehicleTwice` (`OneLivePerVehicle`), `TwoPeopleSign` (`SeparationOfDuties`),
`NoWorkBeforeApproval` (`AssignedWasApproved`). The first three hold by what each
single write compares, row by row. `AssignedWasApproved` does not: the
assignment is written by a request that read the campaign earlier, and a
campaign may leave the review, or be written back into another status, by a
request that read it earlier still. `PastReview` (whatever left the review other
than by a rejection was approved by somebody else), `WorkIsApproved` (so was
whatever has an assignment or the plan of a wrap) and `Founded` (so was whatever
a request under way has in hand, and an approval under way is somebody else's)
are inductive together, because an approval is never taken back
(`ApprovedStays`).

*One request at a time, which may die anywhere* (`OneByOne`). `EndIsFinal`
(`FinishedIsFinal`) and `OneAnswer` (`ScreensAgree`). Work on an assignment that is over
and the death of a request half-way leave wraps and assignments behind that belong
nowhere, and the run assumes them away. The proofs show that these two do not
need it: `TurnIInv` says of the one request under way only that the
campaign is what it read (`StillStands`), and that a campaign in review has no
vehicles.

*One request at a time, about live work, that does not die half-way*
(`OneAtATime`; it may die before its first write).
`EndReleases` (`FinishedHoldsNothing`), `RoadIsLaunched` (`OnTheRoadIsLaunched`),
`WrapsHaveAScreen` (`EveryWrapHasAScreen`), `ScreenOutlivesTheEnd`
(`NoCampaignVanishes`). None of these is inductive, since a request leaves campaign
and assignment out of step between its writes. `OnCourse` says for each live
assignment where it may be *while* a request is at it: a campaign that is over
still has it only while the release is pending, and one that is APPROVED only while
the step to AWAITING_INSTALLATION is. `Current` says that what the request holds is
what is there.

### FiguresProofs

For any finite set of drivings, any requests, jobs, batch size and number of
attempts. `AnswersAreWhole` (`AnswerIsComplete`): `AnswerIInv` says that once a batch
came back short, whatever the request had asked for is in the batch or has its figure.
That a short batch is all there was (`ShortBatch`) is the order of the
query: the batch is the first `BatchSize` of what is missing, by an argument on
cardinalities. Other requests and jobs only make what is missing smaller; a
recomputation changes baselines, and no figure. `FigureStays` (`FigureIsFinal`) is
the action property and needs no invariant: no step writes over a row.

`ReportsAreWhole` (`ListedReportIsWhole`), for any parts, periods and exports that
overlap and die between any two steps, and any length of the sample. `Fit` follows
one export through its steps: after pricing, all that was billed when it was asked
for is priced; each section that has been answered is whole; the file is written
before its metadata and both before the row. `InSample` follows a proof pack through
its sample: what the table by day counted is billed; what it counted for a day that
has been priced again is priced, although the table itself may have counted parts
without a figure; and the days worked leave nothing of it out. The pieces survive
what other exports do, because `billedParts` and `figured` only grow and no two
exports write one object.

For any rates, buyers, openings, inboxes and bounds. `CommerceTyped` whatever
overlaps; `BudgetHolds` (`BudgetAtItsRates`) with `SeenIsCurrent`, that a correction
holds the rates the campaign has, which no later card changes; `WarnsOnce`
(`WarnedOnce`) with `WarnIInv`, that an opening past its check has found every inbox
empty and they still are.

### AccountsProofs

For any tabs, clerks, links, callers, forms and bounds.

- `LinkWorks` (`OneLinkWorks`). That no link sets two passwords, and none does after
  it was replaced, needs no premise (`LinkUses`, `LinkUsesStep`): an acceptance
  claims the row under a condition. That an invited account has exactly one live
  link, to its present address, does: `InvitedIInv` has it, or a clerk who is about
  to insert the next one, with the address as it is and all the live links on his
  list.
- `SignInEarned` (`SignInIsEarned`): `EarnedIInv` says that a sign-in writes back a
  count no lower than the row's, so no wrong password and no wrong code goes uncounted,
  however often a challenge is used. It does not say that a locked account
  stays shut, which is false (6.6).
  The type of `Accounts` is part of this theorem, as `wrong` is bounded only by it.
- `TokenWorks` (`RefreshTokenWorks`): the new token is in the row before it is sent,
  so between two refreshes the app's and the row's agree unless an answer was lost.
- `DoorsLetInAlike` (`DoorsAgree`): a statement about every state of the
  types, by the order of the turns; the guard needs no history.
- `WholeForms` (`OnboardedWhole`): `OpenIInv` says of each open transaction that none
  of its rows are visible, and that none clash with a live row or with those of
  another open one (an insert waits for them); `LeftIInv` that what was committed
  is all of a form or nothing.

### OnboardingProofs

For any kinds of papers, uploads, requests, screens and bounds.

- `OnboardingTyped`, whatever overlaps.
- `CompleteIsNoticed` (`CompleteSetIsNoticed`), which needs no premise. It speaks of
  moments without an upload and says nothing of the reads of one. `SomeoneNotices`
  says that while a complete set waits, some upload has still to look at the part of
  it that came last: of two that commit at once, the later reads both.
- `HistoryAgrees` (`VehicleHistoryAgrees`): `FreshCopies` says that what the request at
  work has read is what is there, and each event it appends starts where the last ended.
- `PicturesAreThere` (`PictureIsThere`): `BytesFirst` says that an upload about to
  save a row has its file in the store already; no file is ever removed.
- `OneWay` (`OneWayToBePaid`): `WholePayout` says that the row *as a request under way
  will leave it* is one form of payout, whole. The request holds only the columns
  that differ from its copy, and the requests of operations at the same time
  touch none of these.

Of the wrap checks, for any assignments, angles and requests of operations and of
drivers: `OneOpen`, that no vehicle has two open checks, however requests of
operations, of the driver and activations overlap; the unique index sees to that,
and no run repeats it. `PublishedIsFinal` (`PublishedStays`) rests on it: a driver's
requests are, by `PublishedIInv`, about one check that is not yet sent, and the
request that is about to send it has counted its photos. The step that could break
it is a photo saved from a copy loaded before the submission; without `Patient` it
does.

### TripsProofs

For any shifts, hops, parts and times, and any length of a day, gap and page. The
screens are sums over sets, folds over sequences and pages of a given size, and the
induction theorems of the library cannot be instantiated, so induction is
stated of sets (`NatInduct`, `SetInduct`: a set of numbers, or of subsets of a
finite set, with the first and the next of each has all). From it come the function
a recursive definition over sets denotes (`FoldExists`), what a sum is whatever
order it is taken in (`SumIs`), and the sum by groups (`SumGrouped`).

- `LedgerAddsUp` (`ScreensAddUp`), without premise and for every ledger: each screen
  groups the rows by a function of the row (`TotalsGrouped`): the day, the
  campaign, the driver, the vehicle, the zone, the state or the trip. `TripsAreRows` is
  what makes the trips of a list such a grouping, wherever the cuts fall.
- `RowsOpenTheirDrives` (`RowOpensItsDrive`). The parts of a hop meet end to end
  (`PartTimes`), so rows of a shift are ordered as they were driven (`EarlierIs`) and
  have places (`Ranked`, `SegmentsInOrder`). `CutInto` says of the fold in Node which
  run of places each drive has; it holds of no drives and `CutGrows` keeps it row by
  row. In SQL a row's trip is named after the last opener up to it (`TripIdIs`). Both
  cut at the openers of the shift, unless the list has a hole, and no list has
  (`ListsHaveNoHoles`): a feed has whole shifts, and a day is an interval of each.
- `FeedShowsAll` (`FeedShowsEveryTripOnce`) and `TripsTyped`. `FeedState` is the
  inductive invariant: each row shown is a trip not older than the cursor, with
  its wait and at one place only; each trip owed is a trip still, and shown if
  it is not older than the cursor, or once the feed is read. The property alone is
  not inductive: it says nothing of where the cursor is. `PageKept` is the step of a
  page, on `PageIs` (a page is the newest of what is left) and `ShownIs`;
  `UploadKeeps` the step of an upload, which adds nothing before a row there is
  (`UploadAdds`); `ParkedIs` and `WaitIs` give both texts of the wait the same value.

### PlatformProofs

`PlatformIsEach`: a behaviour of `MCPlatform` is one of each component, so the
theorems above hold of the specification the run checks; the facts about `Figures` and
`BrandingProofs` are stated without their fairness for this. `PlatformTyped`
(`PlatformTypeOK`), `PlatformKeeps` (the properties without a premise) and
`PlatformKeepsInTurn` (the others) say so of all 19 properties of the run.

### What proving changed

Four places of the models were wrong for a reader, though not for TLC's order of
evaluation: overlapping `CASE` arms in `PaperStatus` and `AfterReads`, whose value is
any arm that applies; the bound `MaxVehicles`, which `AddVehicle` did not respect;
an assumption of `Accounts` that let a first invitation not exist; and the tries of
`requireAnyAuth`, which were a sequence filtered by a recursive operator and are now
a set of numbered turns. `Trips` said nothing of a part's zone and length: one
without a length would start when the next does, and its row would not be named.

### Model-checked only

- Liveness (`EventuallyStored`, `WithdrawalStops`, `EveryBilledGetsAFigure`,
  `HoldIsReleased`): it rests on fairness, hence `ENABLED`, beyond `tlapm`.

This is all: every invariant and every action property of the passing runs is
the subject of a theorem.

The types of `Ingest`, `Sessions` and `Campaigns` are proved and no run repeats them.

## 5. Not modelled

- Audit: append-only rows nothing in the program reads. Mail and the object
  store are external; what the code does before and after a call is modelled.
- Formatting of files, wording, validation, OpenAPI, routing, configuration:
  data formats. Roles, permissions and password strength: tables of constants.
- Polygon and decimal arithmetic: the zone splitter's geometry (a cut on a vertex,
  a path along an edge), rounding to six and four digits, the impression and
  traffic formulas. The models say nothing about sums of rounded parts.
- Session timestamps (`boundaryFrom`) and the fact that `ingestPoints` accepts
  fixes outside a session's bounds, or after its end, are in `Sessions` only as
  an upload to a session of any status.
- The live vehicle state of the dashboards (a cache of the newest fix), places and
  OSM data (static lists), creatives and zones of a campaign, searches and lists
  that select rows and derive nothing from them.
- Closing an advertiser, and notices other than the budget warning: single writes
  without a reader that decides anything by them.

## 6. What the violations show

1. `ingest_twice`: with A and C stored and paired, a batch with B between them
   adds (A,B) and (B,C); the key `(from, to, part)` is satisfied and the
   driving is charged twice, against `README.md:460`. Reached when a phone does
   not upload its oldest fixes first or has two uploads under way.
2. `ingest_metered`: the gate is applied when a batch arrives. Driving captured
   during a pause and uploaded after the resume is billed, against
   `contracts/tracking.ts:723`.
3. `sessions_charged`: a campaign is completed, its vehicle goes on the road
   for another, and the session opened for the first is still ACTIVE: uploads
   pass the gate of the second and charge the first.
4. `campaigns_evidence`: `submitInstallation` writes INSTALLING over ACTIVE.
5. `onboarding_reinstated`: `suspendDriver` takes a driver in any status and
   `reinstateDriver` always answers with APPROVED: a driver suspended while
   PENDING is approved with nothing on file.
6. `sign_in_locked`: with a challenge in hand, a wrong code, then another: the
   account is locked (`registerFailure`), and the challenge goes on to a right
   code, a session and a row without its lock, against `README.md:297` and
   `identity.service.ts:866`. A password is refused during a lock; a code is
   not, for the 300 s the token lasts. The wrong codes are all counted
   (`SignInIsEarned`), but the count stops nobody who holds a challenge.

Met while modelling, listed as findings without a run of their own since the
models assume them away or leave the data out: the map's band of a pair that
crosses a zone border divides by the first part's time; the worker closes Redis
and the database before the job that uses them; the billing statement prints a
column nothing writes; two openings of a list both send the budget warning; an
upload of a photo reopens a submitted check; two bootstraps both succeed; an old
copy brings a replaced bank account back; a dead cookie vetoes a live bearer
token at the door of one portal.

## 7. Plan

1. The mapping from `Ingest` to the abstract odometer is proved for a serial phone;
   the corresponding promise of the campaigns (a vehicle's calendar of
   campaigns) would tie `OneLivePerVehicle` to `FinishedHoldsNothing`.
2. Composition of `Sessions` and `BrandingProofs`: the gate with the hold of an
   overdue check in place of its chance.
