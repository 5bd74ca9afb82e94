----------------------------- MODULE Campaigns ------------------------------
(***************************************************************************)
(* A campaign's way from review to its end, the vehicles assigned to it    *)
(* and the installation of its wrap on each of them: runStep and STEPS of  *)
(* campaigns.service.ts, the writing handlers of installations.service.ts, *)
(* and the unique indexes and checks of the tables they share.             *)
(*                                                                         *)
(* Almost no handler here runs in a transaction. Each loads its rows and   *)
(* decides (Begin...), and then writes by primary key, whatever became of  *)
(* the rows meanwhile; a column whose value the handler's own copy already *)
(* has is not written. A request remembers what it saw.                    *)
(***************************************************************************)
EXTENDS Integers, FiniteSets

CONSTANTS
    CampaignIds, Vehicles,
    Users,          \* the back office
    CreatedBy,      \* who created each campaign; perhaps one of Users
    Requests,       \* requests that can be under way at once
    Nobody,         \* the null of a user column
    Serial,         \* TRUE: the back office makes one request at a time
    LiveWorkOnly,   \* TRUE: installers and reviewers only touch live assignments
    MayCrash        \* TRUE: a request may die between two of its writes, too

ASSUME CampaignsAssumption ==
    /\ Nobody \notin Users
    /\ Serial \in BOOLEAN /\ LiveWorkOnly \in BOOLEAN /\ MayCrash \in BOOLEAN

VARIABLES
    campaign,       \* [CampaignIds -> campaigns.status]
    hold,           \* [Assignments -> campaign_vehicles.status, NONE without a row]
    installation,   \* [Assignments -> installations.status, NONE without a row]
    photographed,   \* the assignments with all their required photos
    submittedBy,    \* [Assignments -> installations.submitted_by]
    reviewedBy,     \* [Assignments -> installations.reviewed_by]
    lapsed,         \* the campaigns whose last day has passed
    requests,       \* [Requests -> Request]
    approvedBy      \* history: who approved the campaign

rows == <<campaign, hold, installation, photographed, submittedBy, reviewedBy,
          lapsed, approvedBy>>

vars == <<rows, requests>>

(* uq_campaign_vehicle: one row for a campaign and a vehicle.              *)
Assignments == CampaignIds \X Vehicles

CampaignStatus == {"PENDING_APPROVAL", "APPROVED", "AWAITING_INSTALLATION", "ACTIVE",
                   "PAUSED", "COMPLETED", "STOPPED", "CANCELLED"}

AssignmentStatus == {"NONE", "ASSIGNED", "ACCEPTED", "INSTALLING", "ACTIVE",
                     "ENDED", "WITHDRAWN"}

InstallationStatus == {"NONE", "SCHEDULED", "IN_PROGRESS", "SUBMITTED", "APPROVED",
                       "REJECTED"}

LIVE_ASSIGNMENT == {"ASSIGNED", "ACCEPTED", "INSTALLING", "ACTIVE"}

FINISHED_CAMPAIGN == {"COMPLETED", "STOPPED", "CANCELLED"}

ASSIGNABLE_CAMPAIGN == {"APPROVED", "AWAITING_INSTALLATION", "ACTIVE"}

(* BUDGET_WARNING, DRAFT and PENDING_CONFIRMATION are in the enum, but no  *)
(* code writes them.                                                       *)
STEPS == [
    approve    |-> [from |-> {"PENDING_APPROVAL"}, to |-> "APPROVED"],
    printReady |-> [from |-> {"APPROVED"}, to |-> "AWAITING_INSTALLATION"],
    installed  |-> [from |-> {"AWAITING_INSTALLATION"}, to |-> "ACTIVE"],
    reject     |-> [from |-> {"PENDING_APPROVAL"}, to |-> "CANCELLED"],
    pause      |-> [from |-> {"ACTIVE"}, to |-> "PAUSED"],
    resume     |-> [from |-> {"PAUSED"}, to |-> "ACTIVE"],
    complete   |-> [from |-> {"ACTIVE", "PAUSED"}, to |-> "COMPLETED"],
    stop       |-> [from |-> {"ACTIVE", "PAUSED"}, to |-> "STOPPED"]]

(* Faulty: a stop leaves the vehicles where they are.                      *)
ReleasesOnEnd == {"reject", "complete"}

Releases == {"reject", "complete", "stop"}

VehicleOps == {"assign", "unassign", "accept", "photo", "submit", "sign", "refuse"}

(* An idle request has no next write; a busy one keeps of what it read     *)
(* what it uses again later.                                               *)
Unused == "UNUSED"

Request == [op: DOMAIN STEPS \cup VehicleOps \cup {"edit"}, by: Users \cup {Nobody},
            on: Assignments,
            next: {"dates", "status", "vehicles", "rows", "awaiting", "installation", "hold"},
            saw: [campaign: CampaignStatus \cup {Unused},
                  hold: AssignmentStatus \cup {Unused},
                  installation: InstallationStatus \cup {Unused},
                  actor: Users \cup {Nobody}]]

Idle == [next |-> "none"]

TypeOK ==
    /\ campaign \in [CampaignIds -> CampaignStatus]
    /\ hold \in [Assignments -> AssignmentStatus]
    /\ installation \in [Assignments -> InstallationStatus]
    /\ photographed \subseteq Assignments
    /\ submittedBy \in [Assignments -> Users \cup {Nobody}]
    /\ reviewedBy \in [Assignments -> Users \cup {Nobody}]
    /\ lapsed \subseteq CampaignIds
    /\ requests \in [Requests -> Request \cup {Idle}]
    /\ approvedBy \in [CampaignIds -> Users \cup {Nobody}]

(* createForAdvertiser: a campaign starts in review.                       *)
Init ==
    /\ campaign = [c \in CampaignIds |-> "PENDING_APPROVAL"]
    /\ hold = [a \in Assignments |-> "NONE"]
    /\ installation = [a \in Assignments |-> "NONE"]
    /\ photographed = {}
    /\ submittedBy = [a \in Assignments |-> Nobody]
    /\ reviewedBy = [a \in Assignments |-> Nobody]
    /\ lapsed = {}
    /\ requests = [r \in Requests |-> Idle]
    /\ approvedBy = [c \in CampaignIds |-> Nobody]

-----------------------------------------------------------------------------
Live(a) == hold[a] \in LIVE_ASSIGNMENT

(* uq_vehicle_live_assignment lets a become live.                          *)
MayBeLive(a) == \A c \in CampaignIds \ {a[1]} : ~Live(<<c, a[2]>>)

(* ck_installation_rejection: a handler that did not see the rejection     *)
(* leaves its reason in place, and then no other status fits.              *)
ReasonFits(r) ==
    LET a == requests[r].on
    IN  installation[a] = "REJECTED" => requests[r].saw.installation = "REJECTED"

Finish(r) == requests' = [requests EXCEPT ![r] = Idle]

Continue(r, step) == requests' = [requests EXCEPT ![r].next = step]

Writes(r, step) == requests[r].next = step

Seen(op, ops, value) == IF op \in ops THEN value ELSE Unused

(* A request has loaded its rows and passed its checks. Nobody asks where  *)
(* it makes no difference who does.                                        *)
Begin(r, op, u, a, first) ==
    /\ requests[r] = Idle
    /\ Serial => \A q \in Requests : requests[q] = Idle
    /\ requests' = [requests EXCEPT ![r] =
           [op |-> op, by |-> u, on |-> a, next |-> first,
            saw |-> [campaign |-> Seen(op, {"assign", "sign"}, campaign[a[1]]),
                     hold |-> Seen(op, {"unassign", "photo", "submit", "sign"}, hold[a]),
                     installation |-> Seen(op, {"photo", "submit", "sign"}, installation[a]),
                     actor |-> CASE op = "submit" -> submittedBy[a]
                                 [] op \in {"sign", "refuse"} -> reviewedBy[a]
                                 [] OTHER -> Nobody]]]
    /\ UNCHANGED rows

-----------------------------------------------------------------------------
(* The steps of a campaign.                                                *)

(* Faulty: who created the campaign may approve it.                        *)
BeginStepByAnyone(r, op, u, a) ==
    /\ campaign[a[1]] \in STEPS[op].from
    /\ IF op = "approve" THEN u \in Users ELSE u = Nobody
    /\ op = "installed" => \E v \in Vehicles : Live(<<a[1], v>>)
    /\ Begin(r, op, u, a, "status")

(* Faulty: any step from any status.                                       *)
BeginStepAnyTime(r, op, u, a) ==
    /\ IF op = "approve" THEN u \in Users /\ u # CreatedBy[a[1]] ELSE u = Nobody
    /\ op = "installed" => \E v \in Vehicles : Live(<<a[1], v>>)
    /\ Begin(r, op, u, a, "status")

BeginStep(r, op, u, a) ==
    /\ campaign[a[1]] \in STEPS[op].from
    /\ IF op = "approve" THEN u \in Users /\ u # CreatedBy[a[1]] ELSE u = Nobody
    /\ op = "installed" => \E v \in Vehicles : Live(<<a[1], v>>)
    /\ Begin(r, op, u, a, "status")

WriteStatus(r) ==
    /\ Writes(r, "status")
    /\ LET c == requests[r].on[1]
           op == requests[r].op
       IN /\ campaign' = [campaign EXCEPT ![c] = STEPS[op].to]
          /\ approvedBy' = IF op = "approve"
                           THEN [approvedBy EXCEPT ![c] = requests[r].by] ELSE approvedBy
          /\ IF op \in Releases \cup {"installed"} THEN Continue(r, "vehicles") ELSE Finish(r)
    /\ UNCHANGED <<hold, installation, photographed, submittedBy, reviewedBy, lapsed>>

(* releaseVehicles ends what is live now; the bulk update of               *)
(* markInstalledForAdmin puts it on the road.                              *)
WriteVehicles(r) ==
    /\ Writes(r, "vehicles")
    /\ hold' = [a \in Assignments |->
                   IF a[1] = requests[r].on[1] /\ Live(a)
                   THEN IF requests[r].op = "installed" THEN "ACTIVE" ELSE "ENDED"
                   ELSE hold[a]]
    /\ Finish(r)
    /\ UNCHANGED <<campaign, installation, photographed, submittedBy, reviewedBy,
                   lapsed, approvedBy>>

(* updateForAdvertiser, as far as its dates go: only a campaign in review  *)
(* is edited, and the new last day may have passed as well.                *)
BeginEdit(r, a) ==
    /\ campaign[a[1]] = "PENDING_APPROVAL"
    /\ Begin(r, "edit", Nobody, a, "dates")

WriteDates(r) ==
    /\ Writes(r, "dates")
    /\ \E over \in SUBSET {requests[r].on[1]} :
        lapsed' = (lapsed \ {requests[r].on[1]}) \cup over
    /\ Finish(r)
    /\ UNCHANGED <<campaign, hold, installation, photographed, submittedBy,
                   reviewedBy, approvedBy>>

DayPasses(c) ==
    /\ lapsed' = lapsed \cup {c}
    /\ UNCHANGED <<campaign, hold, installation, photographed, submittedBy, reviewedBy,
                   requests, approvedBy>>

-----------------------------------------------------------------------------
(* Assignment.                                                             *)

(* A hold of this campaign no longer blocks a new assignment.              *)
HoldHasEnded(c) == campaign[c] \in FINISHED_CAMPAIGN \/ c \in lapsed

BeginAssign(r, a) ==
    /\ campaign[a[1]] \in ASSIGNABLE_CAMPAIGN
    /\ Begin(r, "assign", Nobody, a, "rows")

(* Faulty: the vehicle's other holds are not looked at.                    *)
WriteRowsUnchecked(r) ==
    /\ Writes(r, "rows")
    /\ LET a == requests[r].on
       IN /\ hold' = [hold EXCEPT ![a] = "ASSIGNED"]
          /\ installation' = [installation EXCEPT ![a] = "SCHEDULED"]
          /\ IF requests[r].saw.campaign = "APPROVED"
             THEN Continue(r, "awaiting") ELSE Finish(r)
    /\ UNCHANGED <<campaign, photographed, submittedBy, reviewedBy, lapsed, approvedBy>>

(* The one transaction: a hold that has ended is closed on the way, any    *)
(* other hold refuses the request. The vehicle is on the campaign at most  *)
(* once, so one that came off it cannot come back.                         *)
WriteRows(r) ==
    /\ Writes(r, "rows")
    /\ LET a == requests[r].on
           others == {b \in Assignments : b[2] = a[2] /\ b # a /\ Live(b)}
       IN IF hold[a] = "NONE" /\ \A b \in others : HoldHasEnded(b[1])
          THEN /\ hold' = [b \in Assignments |->
                              IF b = a THEN "ASSIGNED"
                              ELSE IF b \in others THEN "ENDED" ELSE hold[b]]
               /\ installation' = [installation EXCEPT ![a] = "SCHEDULED"]
               /\ IF requests[r].saw.campaign = "APPROVED"
                  THEN Continue(r, "awaiting") ELSE Finish(r)
          ELSE Finish(r) /\ UNCHANGED <<hold, installation>>
    /\ UNCHANGED <<campaign, photographed, submittedBy, reviewedBy, lapsed, approvedBy>>

(* By the status read before the transaction.                              *)
WriteAwaiting(r) ==
    /\ Writes(r, "awaiting")
    /\ campaign' = [campaign EXCEPT ![requests[r].on[1]] = "AWAITING_INSTALLATION"]
    /\ Finish(r)
    /\ UNCHANGED <<hold, installation, photographed, submittedBy, reviewedBy, lapsed,
                   approvedBy>>

BeginUnassign(r, a) ==
    /\ Live(a)
    /\ Begin(r, "unassign", Nobody, a, "hold")

BeginAccept(r, a) ==
    /\ hold[a] = "ASSIGNED"
    /\ Begin(r, "accept", Nobody, a, "hold")

-----------------------------------------------------------------------------
(* Installation.                                                           *)

Workable(a) == LiveWorkOnly => Live(a)

(* The photo that completes the set.                                       *)
BeginPhoto(r, a) ==
    /\ installation[a] \notin {"NONE", "APPROVED"}
    /\ Workable(a)
    /\ Begin(r, "photo", Nobody, a, "installation")

BeginSubmit(r, u, a) ==
    /\ installation[a] \notin {"NONE", "SUBMITTED", "APPROVED"}
    /\ a \in photographed
    /\ Workable(a)
    /\ Begin(r, "submit", u, a, "installation")

BeginApprove(r, u, a) ==
    /\ installation[a] = "SUBMITTED"
    /\ submittedBy[a] # u
    /\ Workable(a)
    /\ Begin(r, "sign", u, a, "installation")

BeginReject(r, u, a) ==
    /\ installation[a] = "SUBMITTED"
    /\ Workable(a)
    /\ Begin(r, "refuse", u, a, "installation")

(* uploadPhoto: the photo is kept whatever happens to the statuses.        *)
WritePhoto(r) ==
    /\ Writes(r, "installation") /\ requests[r].op = "photo"
    /\ LET a == requests[r].on
           saw == requests[r].saw
       IN /\ photographed' = photographed \cup {a}
          /\ IF saw.installation \in {"SCHEDULED", "REJECTED"} /\ ReasonFits(r)
             THEN /\ installation' = [installation EXCEPT ![a] = "IN_PROGRESS"]
                  /\ IF saw.hold = "ACCEPTED" THEN Continue(r, "hold") ELSE Finish(r)
             ELSE Finish(r) /\ UNCHANGED installation
    /\ UNCHANGED <<campaign, hold, submittedBy, reviewedBy, lapsed, approvedBy>>

(* What a user column holds after the write.                               *)
Signed(r, old) == IF requests[r].saw.actor = requests[r].by THEN old ELSE requests[r].by

(* ck_installation_separate_actors: whoever reviewed it once may not       *)
(* submit it, and whoever submitted it may not review it.                  *)
WriteSubmitted(r) ==
    /\ Writes(r, "installation") /\ requests[r].op = "submit"
    /\ LET a == requests[r].on
       IN IF ReasonFits(r) /\ reviewedBy[a] # Signed(r, submittedBy[a])
          THEN /\ installation' = [installation EXCEPT ![a] = "SUBMITTED"]
               /\ submittedBy' = [submittedBy EXCEPT ![a] = Signed(r, @)]
               /\ IF requests[r].saw.hold = "INSTALLING" THEN Finish(r) ELSE Continue(r, "hold")
          ELSE Finish(r) /\ UNCHANGED <<installation, submittedBy>>
    /\ UNCHANGED <<campaign, hold, photographed, reviewedBy, lapsed, approvedBy>>

(* Faulty: no check on the two actors.                                     *)
SeparateActorsOrNot(r) == TRUE

SeparateActors(r) ==
    submittedBy[requests[r].on] # Signed(r, reviewedBy[requests[r].on])

(* Faulty: a sign-off does not launch the campaign.                        *)
LaunchedNever(r) == campaign

(* The first sign-off of a campaign that awaits installation launches it.  *)
Launched(r) ==
    IF requests[r].saw.campaign = "AWAITING_INSTALLATION"
    THEN [campaign EXCEPT ![requests[r].on[1]] = "ACTIVE"] ELSE campaign

(* One transaction for the installation, the assignment and the campaign.  *)
WriteApproved(r) ==
    /\ Writes(r, "installation") /\ requests[r].op = "sign"
    /\ LET a == requests[r].on
           saw == requests[r].saw
       IN IF SeparateActors(r) /\ ReasonFits(r) /\ (saw.hold = "ACTIVE" \/ MayBeLive(a))
          THEN /\ installation' = [installation EXCEPT ![a] = "APPROVED"]
               /\ reviewedBy' = [reviewedBy EXCEPT ![a] = Signed(r, @)]
               /\ hold' = IF saw.hold = "ACTIVE" THEN hold ELSE [hold EXCEPT ![a] = "ACTIVE"]
               /\ campaign' = Launched(r)
          ELSE UNCHANGED <<installation, reviewedBy, hold, campaign>>
    /\ Finish(r)
    /\ UNCHANGED <<photographed, submittedBy, lapsed, approvedBy>>

WriteRejected(r) ==
    /\ Writes(r, "installation") /\ requests[r].op = "refuse"
    /\ LET a == requests[r].on
       IN IF SeparateActors(r)
          THEN /\ installation' = [installation EXCEPT ![a] = "REJECTED"]
               /\ reviewedBy' = [reviewedBy EXCEPT ![a] = Signed(r, @)]
          ELSE UNCHANGED <<installation, reviewedBy>>
    /\ Finish(r)
    /\ UNCHANGED <<campaign, hold, photographed, submittedBy, lapsed, approvedBy>>

(* What the handler writes to the assignment row last.                     *)
NextHold(r) ==
    CASE requests[r].op = "unassign" -> IF requests[r].saw.hold = "ACTIVE" THEN "ENDED"
                                        ELSE "WITHDRAWN"
      [] requests[r].op = "accept" -> "ACCEPTED"
      [] OTHER -> "INSTALLING"

WriteHold(r) ==
    /\ Writes(r, "hold")
    /\ LET a == requests[r].on
       IN hold' = IF NextHold(r) \in LIVE_ASSIGNMENT /\ ~MayBeLive(a) THEN hold
                  ELSE [hold EXCEPT ![a] = NextHold(r)]
    /\ Finish(r)
    /\ UNCHANGED <<campaign, installation, photographed, submittedBy, reviewedBy,
                   lapsed, approvedBy>>

-----------------------------------------------------------------------------
(* The request has not written anything yet.                               *)
Unwritten(r) ==
    \/ requests[r].next \in {"dates", "status", "rows", "installation"}
    \/ requests[r].op \in {"unassign", "accept"}

(* The process dies under a request.                                       *)
Crash(r) ==
    /\ requests[r] # Idle
    /\ MayCrash \/ Unwritten(r)
    /\ Finish(r)
    /\ UNCHANGED rows

Asked(r) ==
    \E a \in Assignments :
        \/ \E op \in DOMAIN STEPS, u \in Users \cup {Nobody} : BeginStep(r, op, u, a)
        \/ BeginEdit(r, a)
        \/ BeginAssign(r, a) \/ BeginUnassign(r, a) \/ BeginAccept(r, a) \/ BeginPhoto(r, a)
        \/ \E u \in Users :
              BeginSubmit(r, u, a) \/ BeginApprove(r, u, a) \/ BeginReject(r, u, a)

Write(r) ==
    \/ WriteStatus(r) \/ WriteVehicles(r) \/ WriteDates(r)
    \/ WriteRows(r) \/ WriteAwaiting(r) \/ WriteHold(r)
    \/ WritePhoto(r) \/ WriteSubmitted(r) \/ WriteApproved(r) \/ WriteRejected(r)

Next ==
    \/ \E r \in Requests : Asked(r) \/ Write(r) \/ Crash(r)
    \/ \E c \in CampaignIds : DayPasses(c)

Spec == Init /\ [][Next]_vars

-----------------------------------------------------------------------------
(* AC-22.6 and AC-16: "a vehicle is on at most one live campaign at a      *)
(* time", whatever stale copies the handlers write back.                   *)
OneLivePerVehicle ==
    \A a, b \in Assignments : (a[2] = b[2] /\ Live(a) /\ Live(b)) => a = b

(* AC-06.12: the person who submitted a wrap is not the one who signed it  *)
(* off or sent it back, through any number of rejections and resubmissions.*)
SeparationOfDuties ==
    \A a \in Assignments : submittedBy[a] # Nobody => submittedBy[a] # reviewedBy[a]

(* A vehicle is only ever assigned to a campaign that somebody other than  *)
(* its creator has approved.                                               *)
AssignedWasApproved ==
    \A a \in Assignments : hold[a] # "NONE" => approvedBy[a[1]] \notin {Nobody, CreatedBy[a[1]]}

(* A finished campaign stays finished: neither a late resume, nor an       *)
(* installation signed off after the end, starts it again.                 *)
FinishedIsFinal ==
    [][\A c \in CampaignIds : campaign[c] \in FINISHED_CAMPAIGN => campaign'[c] = campaign[c]]_vars

(* "A finished campaign that leaves them live holds its vehicles booked    *)
(* forever": with no request under way it holds none.                      *)
FinishedHoldsNothing ==
    (\A r \in Requests : requests[r] = Idle) =>
        \A a \in Assignments : campaign[a[1]] \in FINISHED_CAMPAIGN => ~Live(a)

(* AC-06.10: a vehicle is on the road only for a campaign that was         *)
(* launched, with no request under way.                                    *)
OnTheRoadIsLaunched ==
    (\A r \in Requests : requests[r] = Idle) =>
        \A a \in Assignments : hold[a] = "ACTIVE" => campaign[a[1]] \in {"ACTIVE", "PAUSED"}

(* "The wrap photos are still collected, but as evidence after the fact    *)
(* rather than as the gate": what is on the road leaves it by an end of    *)
(* the assignment only.                                                    *)
EvidenceIsNoGate ==
    [][\A a \in Assignments :
          hold[a] = "ACTIVE" => hold'[a] \in {"ACTIVE", "ENDED", "WITHDRAWN"}]_vars
=============================================================================
