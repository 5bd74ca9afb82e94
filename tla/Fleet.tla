-------------------------------- MODULE Fleet --------------------------------
(***************************************************************************)
(* What the screens make of the rows of Campaigns: the driver's campaign   *)
(* and the gate of the meter (installations.service.ts, eligibility.ts),   *)
(* the two queues of the people who fit and review wraps, and the fleet an *)
(* advertiser picks from (drivers.service.ts, drivers.repository.ts).      *)
(*                                                                         *)
(* Each screen derives its own answer from the same rows, so here each is  *)
(* an operator of the state of Campaigns. A driver has one vehicle, and    *)
(* stands for it. The queries of one screen are taken together; where one  *)
(* picks the newest of several rows, every one of them may be it. No       *)
(* campaign has been over for CLOSING_VIEW_DAYS yet.                       *)
(***************************************************************************)
EXTENDS Campaigns

CONSTANT
    RequestedIds    \* the assignments some advertiser asked for

ASSUME FleetAssumption == RequestedIds \subseteq Assignments

-----------------------------------------------------------------------------
(* The driver's screen.                                                    *)
OPEN_TO_REQUESTS == {"PENDING_APPROVAL", "APPROVED", "AWAITING_INSTALLATION", "ACTIVE"}

CAMPAIGN_OVERRIDES == [PAUSED |-> "paused", COMPLETED |-> "completed",
                       STOPPED |-> "completed", CANCELLED |-> "completed"]

(* Faulty: the assignment has the first word.                              *)
DriverStatusByHold(a) ==
    CASE hold[a] = "ASSIGNED" -> "assigned"
      [] hold[a] \in {"ACCEPTED", "INSTALLING"} -> "installation_pending"
      [] hold[a] = "ACTIVE" -> "active"
      [] OTHER -> "completed"

(* driverStatus: "the campaign has the final word".                        *)
DriverStatus(a) ==
    LET status == campaign[a[1]]
    IN  IF a[1] \in lapsed THEN "completed"
        ELSE IF status \in DOMAIN CAMPAIGN_OVERRIDES THEN CAMPAIGN_OVERRIDES[status]
        ELSE IF hold[a] = "ASSIGNED" THEN "assigned"
        ELSE IF hold[a] \notin {"ACCEPTED", "INSTALLING"} /\ status = "ACTIVE" THEN "active"
        ELSE "installation_pending"

CarriedBy(v) == {a \in Assignments : a[2] = v /\ Live(a)}

(* requestedCampaign: nothing operations has ruled on already.             *)
Offered(v) ==
    {c \in CampaignIds : /\ campaign[c] \in OPEN_TO_REQUESTS
                         /\ <<c, v>> \in RequestedIds
                         /\ hold[<<c, v>>] = "NONE"}

(* Faulty: an assignment that is over is gone.                             *)
ClosedNever(v) == {}

(* closedCampaign: the campaign is over, not this assignment only.         *)
Closed(v) ==
    {a \in Assignments : /\ a[2] = v
                         /\ hold[a] = "ENDED"
                         /\ campaign[a[1]] \in FINISHED_CAMPAIGN}

(* currentCampaign and driverCampaign: what the driver may be shown.       *)
Screen(v) ==
    IF CarriedBy(v) # {} THEN {<<a[1], DriverStatus(a)>> : a \in CarriedBy(v)}
    ELSE IF Offered(v) # {} THEN {<<c, "requested">> : c \in Offered(v)}
    ELSE {<<a[1], DriverStatus(a)>> : a \in Closed(v)}

-----------------------------------------------------------------------------
(* The gate of the meter.                                                  *)

(* Check `ad_installed`, as far as the campaign goes: branding proofs are  *)
(* in BrandingProofs.                                                      *)
AdInstalled(a) ==
    hold[a] = "ACTIVE" /\ campaign[a[1]] = "ACTIVE" /\ a[1] \notin lapsed

(* adInstalledRemedy: what a driver who may not drive is told.             *)
Remedy(a) ==
    LET status == campaign[a[1]]
        finished == status \in {"COMPLETED", "STOPPED"} \/ a[1] \in lapsed
    IN  IF hold[a] = "ACTIVE" /\ status = "ACTIVE" /\ ~finished THEN "none"
        ELSE IF status = "PAUSED" /\ ~finished THEN "paused"
        ELSE IF finished THEN "finished"
        ELSE IF installation[a] = "REJECTED" THEN "fit it again"
        ELSE "not fitted yet"

-----------------------------------------------------------------------------
(* The queues of the back office.                                          *)

(* Faulty: a wrap that was sent back is nobody's work.                     *)
FittingQueueOfNew ==
    {a \in Assignments : installation[a] \in {"SCHEDULED", "IN_PROGRESS"} /\ Live(a)}

(* "REJECTED belongs here, not in review: it is a wrap to redo"; a vehicle *)
(* taken off its campaign is no work.                                      *)
FittingQueue ==
    {a \in Assignments : installation[a] \in {"SCHEDULED", "IN_PROGRESS", "REJECTED"}
                         /\ Live(a)}

(* It keeps the wraps of vehicles that were taken off.                     *)
ReviewQueue == {a \in Assignments : installation[a] = "SUBMITTED"}

-----------------------------------------------------------------------------
(* The fleet.                                                              *)

(* bookedUntilFor: the campaigns that hold the vehicle.                    *)
BookedBy(v) ==
    {c \in CampaignIds : /\ Live(<<c, v>>)
                         /\ c \notin lapsed
                         /\ campaign[c] \notin FINISHED_CAMPAIGN}

(* availabilityOf in selectableVehicles and listAvailableFleet, of a       *)
(* vehicle that has been approved.                                         *)
AvailabilityOf(v) == IF BookedBy(v) # {} THEN "booked" ELSE "available"

-----------------------------------------------------------------------------
(* Three places derive whether a vehicle earns (the driver's campaign      *)
(* card, the gate of the meter and the remedy shown beside the gate), and  *)
(* two whether it is taken (the fleet an advertiser picks from and the     *)
(* check inside the assignment). Of a campaign the driver carries, in      *)
(* every order of assignment, pause, sign-off, end and last day, each      *)
(* group gives one answer.                                                 *)
ScreensAgree ==
    /\ \A a \in Assignments : Live(a) =>
        /\ (DriverStatus(a) = "active") = AdInstalled(a)
        /\ (Remedy(a) = "none") = AdInstalled(a)
        /\ (DriverStatus(a) = "paused") = (Remedy(a) = "paused")
        /\ (DriverStatus(a) = "completed") = (Remedy(a) = "finished")
    /\ \A v \in Vehicles :
        (AvailabilityOf(v) = "available") =
            \A a \in CarriedBy(v) : HoldHasEnded(a[1])

(* "An installation before submission appeared on no screen at all [...]   *)
(* and the driver waited on a step nobody could see": with no request      *)
(* under way, a live assignment of a campaign that is not over is on the   *)
(* road or on exactly one of the two queues. Were requests to overlap, a   *)
(* submission that writes the assignment after the sign-off did would      *)
(* leave it on neither.                                                    *)
EveryWrapHasAScreen ==
    (\A r \in Requests : requests[r] = Idle) =>
        \A a \in Assignments : Live(a) /\ campaign[a[1]] \notin FINISHED_CAMPAIGN =>
            \/ hold[a] = "ACTIVE"
            \/ (a \in FittingQueue) # (a \in ReviewQueue)

(* Ending a campaign "would also have made the driver's campaign disappear *)
(* mid-shift with no explanation": the screen of a driver who carries a    *)
(* campaign empties only where that driver is taken off one that runs on.  *)
NoCampaignVanishes ==
    [][\A v \in Vehicles : CarriedBy(v) # {} /\ Screen(v)' = {} =>
          \E a \in CarriedBy(v) : ~Live(a)' /\ campaign'[a[1]] \notin FINISHED_CAMPAIGN]_vars
=============================================================================
