------------------------------ MODULE Sessions ------------------------------
(***************************************************************************)
(* Who is being measured, and for whom: tracking sessions, the consent     *)
(* that has to stand behind them and the assignments they bill.            *)
(* startSession, stopSession and the gate of ingestPoints                  *)
(* (tracking.service.ts, installations/eligibility.ts), grant and withdraw *)
(* (drivers/consent.ts), and what operations does to campaigns and         *)
(* assignments underneath (installations.service.ts, campaigns.service.ts).*)
(*                                                                         *)
(* No handler here runs in a transaction: each of its reads and writes is  *)
(* a step of its own, and the steps of several requests interleave. The    *)
(* reads of one call of eligibility are taken together. Fixes and segments *)
(* are in Ingest; here an upload only decides whether it charges.          *)
(***************************************************************************)
EXTENDS Integers, Sequences, FiniteSets

CONSTANTS
    Drivers, Vehicles, Campaigns,
    OwnerOf,        \* [Vehicles -> Drivers]
    Requests,       \* requests that can be under way at once
    MaxSessions,    \* bound on the rows of tracking_sessions
    Patient         \* drivers whose phone waits for each answer before it asks
                    \* again, and whose requests never die half-way

ASSUME SessionsAssumption ==
    /\ OwnerOf \in [Vehicles -> Drivers]
    /\ MaxSessions \in Nat
    /\ IsFiniteSet(Requests)
    /\ Patient \subseteq Drivers

VARIABLES
    consented,  \* [Drivers -> BOOLEAN] action of the latest driver_consents row
    campaign,   \* [Campaigns -> status], as the meter tells them apart
    hold,       \* [Assignments -> status], one campaign_vehicles row per pair
    sessions,   \* tracking_sessions, in the order of their creation
    requests,   \* [Requests -> Request]
    charged     \* history: what the campaigns were that some upload charged

vars == <<consented, campaign, hold, sessions, requests, charged>>

Assignments == Campaigns \X Vehicles

(* COMPLETED stands for every campaign that is over: COMPLETED, STOPPED,   *)
(* CANCELLED, or past its last day.                                        *)
CampaignStatus == {"ACTIVE", "PAUSED", "COMPLETED"}

(* BOOKED stands for ASSIGNED, ACCEPTED and INSTALLING, OVER for ENDED and *)
(* WITHDRAWN.                                                              *)
HoldStatus == {"NONE", "BOOKED", "ACTIVE", "OVER"}

Session == [driver: Drivers, vehicle: Vehicles, campaign: Campaigns,
            status: {"ACTIVE", "ENDED"}]

Kinds == {"start", "stop", "withdraw"}

(* How far a request has come: the step it takes next.                     *)
Steps == {"gate", "assignment", "existing", "create",
          "record", "find", "end", "list", "release"}

Request == [kind: Kinds, driver: Drivers, next: Steps,
            picks: SUBSET Assignments, session: 0 .. MaxSessions]

Idle == [next |-> "idle"]

TypeOK ==
    /\ consented \in [Drivers -> BOOLEAN]
    /\ campaign \in [Campaigns -> CampaignStatus]
    /\ hold \in [Assignments -> HoldStatus]
    /\ sessions \in Seq(Session) /\ Len(sessions) <= MaxSessions
    /\ requests \in [Requests -> Request \cup {Idle}]
    /\ charged \subseteq CampaignStatus

Init ==
    /\ consented = [d \in Drivers |-> FALSE]
    /\ campaign = [c \in Campaigns |-> "ACTIVE"]
    /\ hold = [a \in Assignments |-> "NONE"]
    /\ sessions = <<>>
    /\ requests = [r \in Requests |-> Idle]
    /\ charged = {}

-----------------------------------------------------------------------------
(* What the handlers look up.                                              *)

LIVE_ASSIGNMENT == {"BOOKED", "ACTIVE"}

LiveOf(d) == {a \in Assignments : OwnerOf[a[2]] = d /\ hold[a] \in LIVE_ASSIGNMENT}

ActiveSessions(d) ==
    {i \in 1 .. Len(sessions) : sessions[i].driver = d /\ sessions[i].status = "ACTIVE"}

(* Faulty: nobody looks at the consent.                                    *)
PassesUnasked(d, a) == hold[a] = "ACTIVE" /\ campaign[a[1]] = "ACTIVE"

(* Consent stands, and the assignment it found is on the road for a        *)
(* running campaign. A driver with two vehicles can have two live          *)
(* assignments, and the query asks for one of them in no order. The checks *)
(* on driver, vehicle and wrap are left out: they may fail at any time.    *)
Passes(d, a) == consented[d] /\ hold[a] = "ACTIVE" /\ campaign[a[1]] = "ACTIVE"

MayPass(d) == \E a \in LiveOf(d) : Passes(d, a)

-----------------------------------------------------------------------------
Advance(r, step) == requests' = [requests EXCEPT ![r].next = step]

Finish(r) == requests' = [requests EXCEPT ![r] = Idle]

At(r, step) == requests[r].next = step

MayAsk(d) ==
    d \in Patient => \A q \in Requests : requests[q] # Idle => requests[q].driver # d

Ask(r, kind, d, first) ==
    /\ requests[r] = Idle
    /\ MayAsk(d)
    /\ requests' = [requests EXCEPT ![r] =
           [kind |-> kind, driver |-> d, next |-> first, picks |-> {}, session |-> 0]]
    /\ UNCHANGED <<consented, campaign, hold, sessions, charged>>

Starting == {r \in Requests : requests[r] # Idle /\ requests[r].kind = "start"}

AskStart(r, d) ==
    /\ Len(sessions) + Cardinality(Starting) < MaxSessions
    /\ Ask(r, "start", d, "gate")

AskStop(r, d) == Ask(r, "stop", d, "find")

AskWithdraw(r, d) == Ask(r, "withdraw", d, "record")

-----------------------------------------------------------------------------
(* startSession.                                                           *)

StartGate(r) ==
    /\ At(r, "gate")
    /\ \/ MayPass(requests[r].driver) /\ Advance(r, "assignment")
       \/ Finish(r)
    /\ UNCHANGED <<consented, campaign, hold, sessions, charged>>

StartAssignment(r) ==
    /\ At(r, "assignment")
    /\ \/ \E a \in LiveOf(requests[r].driver) :
            requests' = [requests EXCEPT ![r].next = "existing", ![r].picks = {a}]
       \/ LiveOf(requests[r].driver) = {} /\ Finish(r)
    /\ UNCHANGED <<consented, campaign, hold, sessions, charged>>

(* A second start is answered with the session the driver already has; a   *)
(* first one may claim a starting time that is refused.                    *)
StartExisting(r) ==
    /\ At(r, "existing")
    /\ \/ ActiveSessions(requests[r].driver) = {} /\ Advance(r, "create")
       \/ Finish(r)
    /\ UNCHANGED <<consented, campaign, hold, sessions, charged>>

(* Faulty: no index, only the look-up of StartExisting.                    *)
RefusedByNothing(d, v) == FALSE

(* uq_driver_active_session and uq_vehicle_active_session.                 *)
RefusedByIndex(d, v) ==
    \E i \in 1 .. Len(sessions) :
        sessions[i].status = "ACTIVE" /\ (sessions[i].driver = d \/ sessions[i].vehicle = v)

StartCreate(r) ==
    /\ At(r, "create")
    /\ \E a \in requests[r].picks :
        sessions' = IF RefusedByIndex(requests[r].driver, a[2]) THEN sessions
                    ELSE Append(sessions, [driver |-> requests[r].driver, vehicle |-> a[2],
                                           campaign |-> a[1], status |-> "ACTIVE"])
    /\ Finish(r)
    /\ UNCHANGED <<consented, campaign, hold, charged>>

-----------------------------------------------------------------------------
(* stopSession, and withdraw, which records the answer, stops the session  *)
(* and then releases the assignments.                                      *)

WithdrawRecord(r) ==
    /\ At(r, "record")
    /\ consented' = [consented EXCEPT ![requests[r].driver] = FALSE]
    /\ Advance(r, "find")
    /\ UNCHANGED <<campaign, hold, sessions, charged>>

(* The step after the stop: a withdrawal goes on, a stop is done.          *)
Stopped(r) == IF requests[r].kind = "withdraw" THEN Advance(r, "list") ELSE Finish(r)

StopFind(r) ==
    /\ At(r, "find")
    /\ \/ \E i \in ActiveSessions(requests[r].driver) :
            requests' = [requests EXCEPT ![r].next = "end", ![r].session = i]
       \/ ActiveSessions(requests[r].driver) = {} /\ Stopped(r)
    /\ UNCHANGED <<consented, campaign, hold, sessions, charged>>

(* Faulty: the status is not among the columns it saves.                   *)
StopEndUnsaved(r) ==
    /\ At(r, "end")
    /\ Stopped(r)
    /\ UNCHANGED <<consented, campaign, hold, sessions, charged>>

(* An update by primary key, whatever became of the row since it was read. *)
StopEnd(r) ==
    /\ At(r, "end")
    /\ sessions' = [sessions EXCEPT ![requests[r].session].status = "ENDED"]
    /\ Stopped(r)
    /\ UNCHANGED <<consented, campaign, hold, charged>>

ReleaseList(r) ==
    /\ At(r, "list")
    /\ requests' = [requests EXCEPT ![r].next = "release",
                                    ![r].picks = LiveOf(requests[r].driver)]
    /\ UNCHANGED <<consented, campaign, hold, sessions, charged>>

(* unassign, one listed assignment at a time: it refuses one that is no    *)
(* longer live, and the refusal ends the whole request.                    *)
ReleaseOne(r) ==
    /\ At(r, "release")
    /\ \/ \E a \in requests[r].picks :
            IF hold[a] \in LIVE_ASSIGNMENT
            THEN /\ hold' = [hold EXCEPT ![a] = "OVER"]
                 /\ requests' = [requests EXCEPT ![r].picks = @ \ {a}]
            ELSE Finish(r) /\ UNCHANGED hold
       \/ requests[r].picks = {} /\ Finish(r) /\ UNCHANGED hold
    /\ UNCHANGED <<consented, campaign, sessions, charged>>

Crash(r) ==
    /\ requests[r] # Idle
    /\ requests[r].driver \notin Patient
    /\ Finish(r)
    /\ UNCHANGED <<consented, campaign, hold, sessions, charged>>

-----------------------------------------------------------------------------
(* Requests of one step.                                                   *)

Grant(d) ==
    /\ MayAsk(d)
    /\ consented' = [consented EXCEPT ![d] = TRUE]
    /\ UNCHANGED <<campaign, hold, sessions, requests, charged>>

(* A batch for session i, whatever its status. The gate is that of the     *)
(* driver, the bill goes to the session's campaign.                        *)
Upload(i) ==
    /\ MayPass(sessions[i].driver)
    /\ charged' = charged \cup {campaign[sessions[i].campaign]}
    /\ UNCHANGED <<consented, campaign, hold, sessions, requests>>

(* assignVehicles, as far as the hold goes: a campaign takes a vehicle     *)
(* once, and a vehicle carries one live campaign; the hold of a finished   *)
(* one is ended on the way.                                                *)
Assign(c, v) ==
    /\ campaign[c] = "ACTIVE"
    /\ hold[<<c, v>>] = "NONE"
    /\ \A b \in Campaigns :
        hold[<<b, v>>] \in LIVE_ASSIGNMENT => campaign[b] = "COMPLETED"
    /\ hold' = [a \in Assignments |->
                    IF a = <<c, v>> THEN "BOOKED"
                    ELSE IF a[2] = v /\ hold[a] \in LIVE_ASSIGNMENT THEN "OVER" ELSE hold[a]]
    /\ UNCHANGED <<consented, campaign, sessions, requests, charged>>

(* markInstalledForAdmin or approveInstallation.                           *)
PutOnTheRoad(a) ==
    /\ hold[a] = "BOOKED"
    /\ hold' = [hold EXCEPT ![a] = "ACTIVE"]
    /\ UNCHANGED <<consented, campaign, sessions, requests, charged>>

Unassign(a) ==
    /\ hold[a] \in LIVE_ASSIGNMENT
    /\ hold' = [hold EXCEPT ![a] = "OVER"]
    /\ UNCHANGED <<consented, campaign, sessions, requests, charged>>

PauseOrResume(c) ==
    /\ campaign[c] \in {"ACTIVE", "PAUSED"}
    /\ campaign' = [campaign EXCEPT ![c] = IF @ = "ACTIVE" THEN "PAUSED" ELSE "ACTIVE"]
    /\ UNCHANGED <<consented, hold, sessions, requests, charged>>

(* The status moves first; the assignments follow one by one (Release), as *)
(* far as nothing fails in between.                                        *)
Complete(c) ==
    /\ campaign[c] \in {"ACTIVE", "PAUSED"}
    /\ campaign' = [campaign EXCEPT ![c] = "COMPLETED"]
    /\ UNCHANGED <<consented, hold, sessions, requests, charged>>

Release(a) ==
    /\ campaign[a[1]] = "COMPLETED"
    /\ hold[a] \in LIVE_ASSIGNMENT
    /\ hold' = [hold EXCEPT ![a] = "OVER"]
    /\ UNCHANGED <<consented, campaign, sessions, requests, charged>>

-----------------------------------------------------------------------------
Handler(r) ==
    \/ StartGate(r) \/ StartAssignment(r) \/ StartExisting(r) \/ StartCreate(r)
    \/ WithdrawRecord(r) \/ StopFind(r) \/ StopEnd(r) \/ ReleaseList(r) \/ ReleaseOne(r)

Phone(d) ==
    \/ \E r \in Requests : AskStart(r, d) \/ AskStop(r, d) \/ AskWithdraw(r, d)
    \/ Grant(d)

Operations ==
    \/ \E c \in Campaigns : PauseOrResume(c) \/ Complete(c)
    \/ \E c \in Campaigns, v \in Vehicles : Assign(c, v)
    \/ \E a \in Assignments : PutOnTheRoad(a) \/ Unassign(a) \/ Release(a)

Next ==
    \/ \E r \in Requests : Handler(r) \/ Crash(r)
    \/ \E d \in Drivers : Phone(d)
    \/ \E i \in 1 .. Len(sessions) : Upload(i)
    \/ Operations

Spec == Init /\ [][Next]_vars

(* A request that was received is worked on until it is answered.          *)
FairSpec == Spec /\ \A r \in Requests : WF_vars(Handler(r))

-----------------------------------------------------------------------------
(* AC-08.6: two starts that both found no session, for one driver or for   *)
(* two drivers of one vehicle, cannot both open one.                       *)
OneSessionAtATime ==
    \A i, j \in 1 .. Len(sessions) :
        (i # j /\ sessions[i].status = "ACTIVE" /\ sessions[j].status = "ACTIVE") =>
            /\ sessions[i].driver # sessions[j].driver
            /\ sessions[i].vehicle # sessions[j].vehicle

Withdrawing(d) ==
    \E r \in Requests : /\ requests[r] # Idle
                        /\ requests[r].kind = "withdraw" /\ requests[r].driver = d

(* AC-04.5, "withdrawal is not a preference, it is a stop": once the       *)
(* withdrawal has been answered, nothing measures the driver.              *)
WithdrawnMeansStopped ==
    \A d \in Patient : ~consented[d] /\ ~Withdrawing(d) => ActiveSessions(d) = {}

(* A recorded withdrawal ends the session sooner or later.                 *)
WithdrawalStops ==
    \A d \in Patient : ~consented[d] ~> (ActiveSessions(d) = {} \/ consented[d])

(* "A paused or finished campaign still fails here. That is what stops the *)
(* meter": no upload charges the advertiser of a campaign that is not      *)
(* running at that moment.                                                 *)
OnlyRunningCharged == charged \subseteq {"ACTIVE"}
=============================================================================
