-------------------------- MODULE CampaignsProofs ---------------------------
(***************************************************************************)
(* Theorems about Campaigns and Fleet, for any campaigns, vehicles and     *)
(* users. The first group is of any requests, which may overlap and die    *)
(* between any two steps; the second of one request at a time, which may   *)
(* die; the third of one request at a time that does not die half-way.     *)
(***************************************************************************)
EXTENDS Fleet, TLAPS

(* Somebody other than its creator has approved the campaign.              *)
Approved(c) == approvedBy[c] \notin {Nobody, CreatedBy[c]}

(* Whatever left the review otherwise than by a rejection was approved.    *)
PastReview ==
    \A c \in CampaignIds : campaign[c] \notin {"PENDING_APPROVAL", "CANCELLED"} => Approved(c)

(* So was whatever has a vehicle, or the plan of a wrap.                   *)
WorkIsApproved ==
    \A a \in Assignments : hold[a] # "NONE" \/ installation[a] # "NONE" => Approved(a[1])

ReviewOps == {"approve", "reject", "edit"}

(* The writes each kind of request still has before it.                    *)
Shaped(q) ==
    /\ q.next = "status" => q.op \in DOMAIN STEPS
    /\ q.next \in {"rows", "awaiting"} => q.op = "assign"
    /\ q.next = "hold" => q.op \in VehicleOps

(* A request that has passed its checks remembers what they rested on,     *)
(* though the rows it read may have changed since.                         *)
Founded ==
    \A r \in Requests : requests[r] # Idle =>
        /\ Shaped(requests[r])
        /\ requests[r].op \notin ReviewOps => Approved(requests[r].on[1])
        /\ requests[r].op = "approve" =>
              requests[r].by \in Users /\ requests[r].by # CreatedBy[requests[r].on[1]]

IInv ==
    /\ TypeOK /\ OneLivePerVehicle /\ SeparationOfDuties
    /\ PastReview /\ WorkIsApproved /\ Founded

-----------------------------------------------------------------------------
LEMMA StepsTyped ==
    /\ DOMAIN STEPS = {"approve", "printReady", "installed", "reject", "pause", "resume",
                       "complete", "stop"}
    /\ \A op \in DOMAIN STEPS :
          /\ STEPS[op].to \in CampaignStatus
          /\ STEPS[op].to \in {"PENDING_APPROVAL", "CANCELLED"} => op = "reject"
          /\ op \notin ReviewOps => STEPS[op].from \cap {"PENDING_APPROVAL", "CANCELLED"} = {}
BY DEF STEPS, CampaignStatus, ReviewOps

LEMMA WritesTyped ==
    ASSUME TypeOK, NEW r \in Requests, NEW step, Writes(r, step), step # "none"
    PROVE  /\ requests[r] \in Request /\ requests[r] # Idle
           /\ requests[r].on \in Assignments
           /\ requests[r].on[1] \in CampaignIds /\ requests[r].on[2] \in Vehicles
BY DEF TypeOK, Writes, Idle, Request, Assignments

LEMMA BeginTyped ==
    ASSUME TypeOK, NEW r \in Requests, NEW op \in DOMAIN STEPS \cup VehicleOps \cup {"edit"},
           NEW u \in Users \cup {Nobody}, NEW a \in Assignments,
           NEW first \in {"dates", "status", "rows", "hold", "installation"},
           Begin(r, op, u, a, first)
    PROVE  /\ requests'[r] \in Request
           /\ TypeOK'
<1>1. a[1] \in CampaignIds
    BY DEF Assignments
<1>2. requests'[r] = [op |-> op, by |-> u, on |-> a, next |-> first,
            saw |-> [campaign |-> Seen(op, {"assign", "sign"}, campaign[a[1]]),
                     hold |-> Seen(op, {"unassign", "photo", "submit", "sign"}, hold[a]),
                     installation |-> Seen(op, {"photo", "submit", "sign"}, installation[a]),
                     actor |-> CASE op = "submit" -> submittedBy[a]
                                 [] op \in {"sign", "refuse"} -> reviewedBy[a]
                                 [] OTHER -> Nobody]]
    BY DEF Begin, TypeOK
<1>3. requests'[r].saw \in [campaign: CampaignStatus \cup {Unused},
                  hold: AssignmentStatus \cup {Unused},
                  installation: InstallationStatus \cup {Unused},
                  actor: Users \cup {Nobody}]
    BY <1>1, <1>2 DEF Seen, TypeOK
<1>4. requests'[r] \in Request
    BY <1>2, <1>3 DEF Request
<1> QED
    BY <1>4 DEF Begin, TypeOK, rows

(* A request that begins touches its own record alone; what it begins with.*)
LEMMA AskedBegins ==
    ASSUME TypeOK, NEW r \in Requests, Asked(r)
    PROVE  \E a \in Assignments, u \in Users \cup {Nobody} :
              \/ \E op \in DOMAIN STEPS :
                    /\ Begin(r, op, u, a, "status")
                    /\ campaign[a[1]] \in STEPS[op].from
                    /\ op = "approve" => u \in Users /\ u # CreatedBy[a[1]]
              \/ Begin(r, "edit", u, a, "dates")
              \/ Begin(r, "assign", u, a, "rows") /\ campaign[a[1]] \in ASSIGNABLE_CAMPAIGN
              \/ \E op \in {"unassign", "accept"} :
                    Begin(r, op, u, a, "hold") /\ hold[a] # "NONE"
              \/ \E op \in {"photo", "submit", "sign", "refuse"} :
                    Begin(r, op, u, a, "installation") /\ installation[a] # "NONE"
<1>1. PICK a \in Assignments :
        \/ \E op \in DOMAIN STEPS, u \in Users \cup {Nobody} : BeginStep(r, op, u, a)
        \/ BeginEdit(r, a)
        \/ BeginAssign(r, a) \/ BeginUnassign(r, a) \/ BeginAccept(r, a) \/ BeginPhoto(r, a)
        \/ \E u \in Users :
              BeginSubmit(r, u, a) \/ BeginApprove(r, u, a) \/ BeginReject(r, u, a)
    BY DEF Asked
<1>2. ASSUME NEW op \in DOMAIN STEPS, NEW u \in Users \cup {Nobody}, BeginStep(r, op, u, a)
      PROVE  /\ Begin(r, op, u, a, "status")
             /\ campaign[a[1]] \in STEPS[op].from
             /\ op = "approve" => u \in Users /\ u # CreatedBy[a[1]]
    BY <1>2 DEF BeginStep
<1>3. CASE BeginEdit(r, a) \/ BeginAssign(r, a)
    BY <1>3 DEF BeginEdit, BeginAssign
<1>4. CASE BeginUnassign(r, a) \/ BeginAccept(r, a)
    BY <1>4 DEF BeginUnassign, BeginAccept, Live, LIVE_ASSIGNMENT
<1>5. CASE BeginPhoto(r, a)
    BY <1>5 DEF BeginPhoto
<1>6. ASSUME NEW u \in Users,
             BeginSubmit(r, u, a) \/ BeginApprove(r, u, a) \/ BeginReject(r, u, a)
      PROVE  \E op \in {"photo", "submit", "sign", "refuse"} :
                Begin(r, op, u, a, "installation") /\ installation[a] # "NONE"
    BY <1>6 DEF BeginSubmit, BeginApprove, BeginReject
<1> QED
    BY <1>1, <1>2, <1>3, <1>4, <1>5, <1>6

(* What remains of a request after a write.                                *)
LEMMA WriteMoves ==
    ASSUME TypeOK, NEW r \in Requests, Write(r)
    PROVE  /\ requests[r] \in Request /\ requests[r] # Idle
           /\ requests[r].on[1] \in CampaignIds
           /\ \A q \in Requests \ {r} : requests'[q] = requests[q]
           /\ \/ requests'[r] = Idle
              \/ /\ requests'[r] \in Request
                 /\ requests'[r].op = requests[r].op /\ requests'[r].on = requests[r].on
                 /\ requests'[r].by = requests[r].by
                 /\ \/ requests[r].next = "status" /\ requests'[r].next = "vehicles"
                          /\ requests[r].op \in Releases \cup {"installed"}
                    \/ requests[r].next = "rows" /\ requests'[r].next = "awaiting"
                    \/ requests[r].next = "installation" /\ requests'[r].next = "hold"
                          /\ requests[r].op \in {"photo", "submit"}
<1>1. /\ requests[r] \in Request /\ requests[r] # Idle
      /\ requests[r].on \in Assignments /\ requests[r].on[1] \in CampaignIds
    BY WritesTyped
       DEF Write, WriteStatus, WriteVehicles, WriteDates, WriteRows, WriteAwaiting, WriteHold,
           WritePhoto, WriteSubmitted, WriteApproved, WriteRejected
<1>2. ASSUME Finish(r)
      PROVE  requests'[r] = Idle /\ \A q \in Requests \ {r} : requests'[q] = requests[q]
    BY <1>2 DEF Finish, TypeOK
<1>3. ASSUME NEW step \in {"vehicles", "awaiting", "hold"}, Continue(r, step)
      PROVE  /\ requests'[r] \in Request /\ requests'[r].next = step
             /\ requests'[r].op = requests[r].op /\ requests'[r].on = requests[r].on
             /\ requests'[r].by = requests[r].by
             /\ \A q \in Requests \ {r} : requests'[q] = requests[q]
    BY <1>1, <1>3 DEF Continue, TypeOK, Request
<1>4. CASE WriteStatus(r)
    BY <1>1, <1>2, <1>3, <1>4 DEF WriteStatus, Writes
<1>5. CASE WriteRows(r)
    BY <1>1, <1>2, <1>3, <1>5 DEF WriteRows, Writes
<1>6. CASE WritePhoto(r)
    BY <1>1, <1>2, <1>3, <1>6 DEF WritePhoto, Writes
<1>7. CASE WriteSubmitted(r)
    BY <1>1, <1>2, <1>3, <1>7 DEF WriteSubmitted, Writes
<1>8. CASE WriteVehicles(r) \/ WriteDates(r) \/ WriteAwaiting(r) \/ WriteHold(r)
             \/ WriteApproved(r) \/ WriteRejected(r)
    BY <1>1, <1>2, <1>8
       DEF WriteVehicles, WriteDates, WriteAwaiting, WriteHold, WriteApproved, WriteRejected
<1> QED
    BY <1>4, <1>5, <1>6, <1>7, <1>8 DEF Write

-----------------------------------------------------------------------------
LEMMA SignedTyped ==
    ASSUME TypeOK, NEW r \in Requests, requests[r] \in Request,
           NEW old \in Users \cup {Nobody}
    PROVE  Signed(r, old) \in Users \cup {Nobody}
BY DEF Signed, Request

(* Types.                                                                  *)
LEMMA NextTyped ==
    ASSUME TypeOK, Founded, [Next]_vars
    PROVE  TypeOK'
<1>1. CASE UNCHANGED vars
    BY <1>1 DEF vars, rows, TypeOK
<1>2. ASSUME NEW r \in Requests, Asked(r)
      PROVE  TypeOK'
    BY <1>2, AskedBegins, BeginTyped DEF VehicleOps
<1>3. ASSUME NEW r \in Requests, Write(r)
      PROVE  TypeOK'
    <2>1. requests' \in [Requests -> Request \cup {Idle}]
        <3>1. requests' = [requests EXCEPT ![r] = requests'[r]]
            BY <1>3
               DEF Write, WriteStatus, WriteVehicles, WriteDates, WriteRows, WriteAwaiting,
                   WriteHold, WritePhoto, WriteSubmitted, WriteApproved, WriteRejected,
                   Finish, Continue, TypeOK
        <3> QED
            BY <1>3, <3>1, WriteMoves DEF TypeOK
    <2>2. /\ requests[r] \in Request /\ requests[r] # Idle
          /\ requests[r].on \in Assignments /\ requests[r].on[1] \in CampaignIds
          /\ requests[r].by \in Users \cup {Nobody}
        BY <1>3, WriteMoves DEF Request
    <2>3. CASE WriteStatus(r)
        <3>1. requests[r].op \in DOMAIN STEPS
            BY <2>2, <2>3 DEF WriteStatus, Writes, Founded, Shaped
        <3>2. STEPS[requests[r].op].to \in CampaignStatus
            BY <3>1, StepsTyped
        <3>3. campaign' \in [CampaignIds -> CampaignStatus]
            BY <2>2, <2>3, <3>2 DEF WriteStatus, TypeOK
        <3>4. approvedBy' \in [CampaignIds -> Users \cup {Nobody}]
            BY <2>2, <2>3 DEF WriteStatus, TypeOK
        <3> QED
            BY <2>1, <2>3, <3>3, <3>4 DEF WriteStatus, TypeOK
    <2>4. CASE WriteVehicles(r)
        BY <2>1, <2>4 DEF WriteVehicles, TypeOK, AssignmentStatus
    <2>5. CASE WriteDates(r)
        BY <2>1, <2>2, <2>5 DEF WriteDates, TypeOK
    <2>6. CASE WriteRows(r)
        <3>1. /\ hold' \in [Assignments -> AssignmentStatus]
              /\ installation' \in [Assignments -> InstallationStatus]
            BY <2>2, <2>6 DEF WriteRows, TypeOK, AssignmentStatus, InstallationStatus
        <3> QED
            BY <2>1, <2>6, <3>1 DEF WriteRows, TypeOK
    <2>7. CASE WriteAwaiting(r)
        BY <2>1, <2>7 DEF WriteAwaiting, TypeOK, CampaignStatus
    <2>8. CASE WriteHold(r)
        <3>1. NextHold(r) \in AssignmentStatus
            BY DEF NextHold, AssignmentStatus
        <3> QED
            BY <2>1, <2>8, <3>1 DEF WriteHold, TypeOK
    <2>9. CASE WritePhoto(r)
        BY <2>1, <2>2, <2>9 DEF WritePhoto, TypeOK, InstallationStatus
    <2>10. CASE WriteSubmitted(r)
        <3>1. /\ installation' \in [Assignments -> InstallationStatus]
              /\ submittedBy' \in [Assignments -> Users \cup {Nobody}]
            BY <2>2, <2>10, SignedTyped DEF WriteSubmitted, TypeOK, InstallationStatus
        <3> QED
            BY <2>1, <2>10, <3>1 DEF WriteSubmitted, TypeOK
    <2>11. CASE WriteApproved(r)
        <3>1. /\ installation' \in [Assignments -> InstallationStatus]
              /\ hold' \in [Assignments -> AssignmentStatus]
            BY <2>2, <2>11 DEF WriteApproved, TypeOK, InstallationStatus, AssignmentStatus
        <3>2. reviewedBy' \in [Assignments -> Users \cup {Nobody}]
            BY <2>2, <2>11, SignedTyped DEF WriteApproved, TypeOK
        <3>3. campaign' \in [CampaignIds -> CampaignStatus]
            BY <2>11 DEF WriteApproved, Launched, TypeOK, CampaignStatus
        <3> QED
            BY <2>1, <2>11, <3>1, <3>2, <3>3 DEF WriteApproved, TypeOK
    <2>12. CASE WriteRejected(r)
        <3>1. /\ installation' \in [Assignments -> InstallationStatus]
              /\ reviewedBy' \in [Assignments -> Users \cup {Nobody}]
            BY <2>2, <2>12, SignedTyped DEF WriteRejected, TypeOK, InstallationStatus
        <3> QED
            BY <2>1, <2>12, <3>1 DEF WriteRejected, TypeOK
    <2> QED
        BY <1>3, <2>3, <2>4, <2>5, <2>6, <2>7, <2>8, <2>9, <2>10, <2>11, <2>12 DEF Write
<1>4. ASSUME NEW r \in Requests, Crash(r)
      PROVE  TypeOK'
    BY <1>4 DEF Crash, Finish, rows, TypeOK
<1>5. ASSUME NEW c \in CampaignIds, DayPasses(c)
      PROVE  TypeOK'
    BY <1>5 DEF DayPasses, TypeOK
<1> QED
    BY <1>1, <1>2, <1>3, <1>4, <1>5 DEF Next

-----------------------------------------------------------------------------
(* Nobody takes an approval back.                                          *)
LEMMA ApprovedStays ==
    ASSUME TypeOK, Founded, [Next]_vars, NEW c \in CampaignIds, Approved(c)
    PROVE  Approved(c)'
<1>1. CASE approvedBy' = approvedBy
    BY <1>1 DEF Approved
<1>2. ASSUME NEW r \in Requests, WriteStatus(r)
      PROVE  Approved(c)'
    <2>1. /\ requests[r] # Idle /\ requests[r].on[1] \in CampaignIds
        BY <1>2, WriteMoves DEF Write
    <2>2. requests[r].op = "approve" =>
              requests[r].by # Nobody /\ requests[r].by # CreatedBy[requests[r].on[1]]
        BY <2>1, CampaignsAssumption DEF Founded
    <2> QED
        BY <1>2, <2>1, <2>2 DEF WriteStatus, Approved, TypeOK
<1> QED
    BY <1>1, <1>2
       DEF Next, Asked, BeginStep, BeginEdit, BeginAssign, BeginUnassign, BeginAccept,
           BeginPhoto, BeginSubmit, BeginApprove, BeginReject, Begin, Write, WriteVehicles,
           WriteDates, WriteRows, WriteAwaiting, WriteHold, WritePhoto, WriteSubmitted,
           WriteApproved, WriteRejected, Crash, DayPasses, rows, vars

(* A request at work on a vehicle is on an approved campaign.              *)
LEMMA VehicleWorkIsFounded ==
    ASSUME Founded, NEW r \in Requests, requests[r] # Idle, requests[r].op \in VehicleOps
    PROVE  Approved(requests[r].on[1])
BY DEF Founded, VehicleOps, ReviewOps

(* Founded: what a request rests on when it begins stays true.             *)
LEMMA NextFounded ==
    ASSUME TypeOK, PastReview, WorkIsApproved, Founded, [Next]_vars
    PROVE  Founded'
<1> DEFINE ApprovedThen(c) == approvedBy'[c] \notin {Nobody, CreatedBy[c]}
           Sound(q) == q # Idle =>
               /\ Shaped(q)
               /\ q.op \notin ReviewOps => ApprovedThen(q.on[1])
               /\ q.op = "approve" => q.by \in Users /\ q.by # CreatedBy[q.on[1]]
<1>0. \A c \in CampaignIds : Approved(c) => ApprovedThen(c)
    BY ApprovedStays DEF Approved
<1>1. ASSUME NEW q \in Requests, requests'[q] = requests[q]
      PROVE  Sound(requests'[q])
    <2>1. requests[q] # Idle => requests[q].on[1] \in CampaignIds
        BY DEF TypeOK, Request, Assignments
    <2> QED
        BY <1>1, <2>1, <1>0 DEF Founded
<1>2. ASSUME NEW r \in Requests, Asked(r)
      PROVE  \A q \in Requests : Sound(requests'[q])
    <2>1. PICK a \in Assignments, u \in Users \cup {Nobody} :
              \/ \E op \in DOMAIN STEPS :
                    /\ Begin(r, op, u, a, "status")
                    /\ campaign[a[1]] \in STEPS[op].from
                    /\ op = "approve" => u \in Users /\ u # CreatedBy[a[1]]
              \/ Begin(r, "edit", u, a, "dates")
              \/ Begin(r, "assign", u, a, "rows") /\ campaign[a[1]] \in ASSIGNABLE_CAMPAIGN
              \/ \E op \in {"unassign", "accept"} :
                    Begin(r, op, u, a, "hold") /\ hold[a] # "NONE"
              \/ \E op \in {"photo", "submit", "sign", "refuse"} :
                    Begin(r, op, u, a, "installation") /\ installation[a] # "NONE"
        BY <1>2, AskedBegins
    <2>2. a[1] \in CampaignIds
        BY DEF Assignments
    <2>3. ASSUME NEW op, NEW first, Begin(r, op, u, a, first)
          PROVE  /\ requests'[r].op = op /\ requests'[r].by = u /\ requests'[r].on = a
                 /\ requests'[r].next = first
                 /\ \A q \in Requests \ {r} : requests'[q] = requests[q]
        BY <2>3 DEF Begin, TypeOK
    <2>4. ASSUME NEW op \in DOMAIN STEPS, Begin(r, op, u, a, "status"),
                 campaign[a[1]] \in STEPS[op].from,
                 op = "approve" => u \in Users /\ u # CreatedBy[a[1]]
          PROVE  \A q \in Requests : Sound(requests'[q])
        <3>1. op \notin ReviewOps => ApprovedThen(a[1])
            BY <2>2, <2>4, StepsTyped, <1>0 DEF PastReview
        <3>2. Sound(requests'[r])
            BY <2>3, <2>4, <3>1 DEF Shaped
        <3> QED
            BY <1>1, <2>3, <2>4, <3>2
    <2>5. CASE Begin(r, "edit", u, a, "dates")
        <3>1. Sound(requests'[r])
            BY <2>3, <2>5 DEF Shaped, ReviewOps
        <3> QED
            BY <1>1, <2>3, <2>5, <3>1
    <2>6. CASE Begin(r, "assign", u, a, "rows") /\ campaign[a[1]] \in ASSIGNABLE_CAMPAIGN
        <3>1. ApprovedThen(a[1])
            BY <1>0, <2>2, <2>6 DEF PastReview, ASSIGNABLE_CAMPAIGN
        <3>2. Sound(requests'[r])
            BY <2>3, <2>6, <3>1 DEF Shaped
        <3> QED
            BY <1>1, <2>3, <2>6, <3>2
    <2>7. ASSUME NEW op \in VehicleOps, NEW first \in {"hold", "installation"},
                 Begin(r, op, u, a, first), hold[a] # "NONE" \/ installation[a] # "NONE"
          PROVE  \A q \in Requests : Sound(requests'[q])
        <3>1. ApprovedThen(a[1])
            BY <1>0, <2>2, <2>7 DEF WorkIsApproved
        <3>2. Sound(requests'[r])
            BY <2>3, <2>7, <3>1 DEF Shaped, VehicleOps
        <3> QED
            BY <1>1, <2>3, <2>7, <3>2
    <2> QED
        BY <2>1, <2>4, <2>5, <2>6, <2>7 DEF VehicleOps
<1>3. ASSUME NEW r \in Requests, Write(r)
      PROVE  \A q \in Requests : Sound(requests'[q])
    <2>1. /\ requests[r] \in Request /\ requests[r] # Idle
          /\ requests[r].on[1] \in CampaignIds
          /\ \A q \in Requests \ {r} : requests'[q] = requests[q]
        BY <1>3, WriteMoves
    <2>2. Sound(requests[r])
        BY <2>1, <1>0 DEF Founded
    <2>3. Sound(requests'[r])
        BY <1>3, <2>1, <2>2, WriteMoves DEF Shaped, VehicleOps
    <2> QED
        BY <1>1, <2>1, <2>3
<1>4. ASSUME NEW r \in Requests, Crash(r)
      PROVE  \A q \in Requests : Sound(requests'[q])
    <2>1. requests'[r] = Idle /\ \A q \in Requests \ {r} : requests'[q] = requests[q]
        BY <1>4 DEF Crash, Finish, TypeOK
    <2> QED
        BY <1>1, <2>1
<1>5. \A q \in Requests : Sound(requests'[q])
    BY <1>1, <1>2, <1>3, <1>4 DEF Next, DayPasses, vars
<1> QED
    BY <1>5 DEF Founded, Idle, Shaped, ReviewOps, Approved

-----------------------------------------------------------------------------
(* PastReview.                                                             *)
LEMMA NextPastReview ==
    ASSUME TypeOK, PastReview, Founded, [Next]_vars
    PROVE  PastReview'
<1> SUFFICES ASSUME NEW c \in CampaignIds, campaign'[c] \notin {"PENDING_APPROVAL", "CANCELLED"}
             PROVE  Approved(c)'
    BY DEF PastReview, Approved
<1>1. CASE campaign'[c] = campaign[c]
    BY <1>1, ApprovedStays DEF PastReview
<1>2. ASSUME NEW r \in Requests, WriteStatus(r), campaign'[c] # campaign[c]
      PROVE  Approved(c)'
    <2>1. requests[r] # Idle /\ requests[r].on[1] \in CampaignIds
        BY <1>2, WriteMoves DEF Write
    <2>2. c = requests[r].on[1] /\ campaign'[c] = STEPS[requests[r].op].to
        BY <1>2, <2>1 DEF WriteStatus, TypeOK
    <2>3. requests[r].op \in DOMAIN STEPS
        BY <1>2, <2>1 DEF WriteStatus, Writes, Founded, Shaped
    <2>4. requests[r].op # "reject"
        BY <2>2 DEF STEPS
    <2>5. CASE requests[r].op = "approve"
        <3>1. requests[r].by # Nobody /\ requests[r].by # CreatedBy[c]
            BY <2>1, <2>2, <2>5, CampaignsAssumption DEF Founded
        <3> QED
            BY <1>2, <2>1, <2>2, <2>5, <3>1 DEF WriteStatus, Approved, TypeOK
    <2>6. CASE requests[r].op # "approve"
        <3>1. requests[r].op \notin ReviewOps
            BY <2>3, <2>4, <2>6, StepsTyped DEF ReviewOps
        <3> QED
            BY <2>1, <2>2, <3>1, ApprovedStays DEF Founded
    <2> QED
        BY <2>5, <2>6
<1>3. ASSUME NEW r \in Requests, WriteAwaiting(r) \/ WriteApproved(r),
             campaign'[c] # campaign[c]
      PROVE  Approved(c)'
    <2>1. requests[r] # Idle /\ requests[r].on[1] \in CampaignIds
        BY <1>3, WriteMoves DEF Write
    <2>2. c = requests[r].on[1]
        BY <1>3, <2>1 DEF WriteAwaiting, WriteApproved, Launched, TypeOK
    <2>3. requests[r].op \in VehicleOps
        BY <1>3, <2>1
           DEF WriteAwaiting, WriteApproved, Writes, Founded, Shaped, VehicleOps
    <2> QED
        BY <2>1, <2>2, <2>3, VehicleWorkIsFounded, ApprovedStays
<1> QED
    BY <1>1, <1>2, <1>3
       DEF Next, Asked, BeginStep, BeginEdit, BeginAssign, BeginUnassign, BeginAccept,
           BeginPhoto, BeginSubmit, BeginApprove, BeginReject, Begin, Write, WriteVehicles,
           WriteDates, WriteRows, WriteHold, WritePhoto, WriteSubmitted, WriteRejected,
           Crash, DayPasses, rows, vars

(* WorkIsApproved.                                                         *)
LEMMA NextWorkIsApproved ==
    ASSUME TypeOK, WorkIsApproved, Founded, [Next]_vars
    PROVE  WorkIsApproved'
<1> SUFFICES ASSUME NEW a \in Assignments, hold'[a] # "NONE" \/ installation'[a] # "NONE"
             PROVE  Approved(a[1])'
    BY DEF WorkIsApproved, Approved
<1>a. a[1] \in CampaignIds
    BY DEF Assignments
<1>1. CASE hold[a] # "NONE" \/ installation[a] # "NONE"
    BY <1>a, <1>1, ApprovedStays DEF WorkIsApproved
<1>2. ASSUME NEW r \in Requests, hold[a] = "NONE", installation[a] = "NONE",
             \/ WriteRows(r) \/ WriteHold(r) \/ WritePhoto(r) \/ WriteSubmitted(r)
             \/ WriteApproved(r) \/ WriteRejected(r)
      PROVE  Approved(a[1])'
    <2>1. requests[r] # Idle /\ requests[r].on \in Assignments
        BY <1>2, WriteMoves DEF Write, Request
    <2>2. requests[r].op \in VehicleOps
        BY <1>2, <2>1
           DEF WriteRows, WriteHold, WritePhoto, WriteSubmitted, WriteApproved, WriteRejected,
               Writes, Founded, Shaped, VehicleOps
    <2>3. a = requests[r].on
        BY <1>2, <2>1
           DEF WriteRows, WriteHold, WritePhoto, WriteSubmitted, WriteApproved, WriteRejected,
               TypeOK, Live, LIVE_ASSIGNMENT
    <2> QED
        BY <1>a, <2>1, <2>2, <2>3, VehicleWorkIsFounded, ApprovedStays
<1>3. ASSUME NEW r \in Requests, WriteVehicles(r), hold[a] = "NONE", installation[a] = "NONE"
      PROVE  FALSE
    BY <1>3 DEF WriteVehicles, Live, LIVE_ASSIGNMENT
<1> QED
    BY <1>1, <1>2, <1>3
       DEF Next, Asked, BeginStep, BeginEdit, BeginAssign, BeginUnassign, BeginAccept,
           BeginPhoto, BeginSubmit, BeginApprove, BeginReject, Begin, Write, WriteStatus,
           WriteDates, WriteAwaiting, Crash, DayPasses, rows, vars

-----------------------------------------------------------------------------
(* OneLivePerVehicle: only the writes of an assignment touch it.           *)
LEMMA NextOneLive ==
    ASSUME TypeOK, OneLivePerVehicle, Founded, [Next]_vars
    PROVE  OneLivePerVehicle'
<1>1. CASE \A a \in Assignments : Live(a)' => Live(a)
    BY <1>1 DEF OneLivePerVehicle
<1>2. ASSUME NEW b \in Assignments, \A a \in Assignments \ {b} : Live(a)' => Live(a),
             \A a \in Assignments \ {b} : a[2] = b[2] => ~Live(a)'
      PROVE  OneLivePerVehicle'
    BY <1>2 DEF OneLivePerVehicle
<1>3. ASSUME NEW b \in Assignments, MayBeLive(b),
             \A a \in Assignments \ {b} : hold'[a] = hold[a]
      PROVE  OneLivePerVehicle'
    <2>1. ASSUME NEW a \in Assignments \ {b}, a[2] = b[2]
          PROVE  ~Live(a)'
        <3>1. a[1] \in CampaignIds \ {b[1]} /\ a = <<a[1], b[2]>>
            BY <2>1 DEF Assignments
        <3> QED
            BY <1>3, <3>1 DEF MayBeLive, Live
    <2> QED
        BY <1>2, <1>3, <2>1 DEF Live
<1>4. ASSUME NEW r \in Requests, WriteVehicles(r)
      PROVE  \A a \in Assignments : Live(a)' => Live(a)
    BY <1>4 DEF WriteVehicles, Live, LIVE_ASSIGNMENT
<1>5. ASSUME NEW r \in Requests, WriteRows(r)
      PROVE  OneLivePerVehicle'
    <2>1. requests[r].on \in Assignments
        BY <1>5, WriteMoves DEF Write, Request
    <2>2. CASE UNCHANGED hold
        BY <1>1, <2>2 DEF Live
    <2>3. CASE ~UNCHANGED hold
        <3>1. \A a \in Assignments \ {requests[r].on} : Live(a)' => Live(a)
            BY <1>5, <2>3 DEF WriteRows, Live, LIVE_ASSIGNMENT
        <3>2. \A a \in Assignments \ {requests[r].on} :
                 a[2] = requests[r].on[2] => ~Live(a)'
            BY <1>5, <2>3 DEF WriteRows, Live, LIVE_ASSIGNMENT
        <3> QED
            BY <1>2, <2>1, <3>1, <3>2
    <2> QED
        BY <2>2, <2>3
<1>6. ASSUME NEW r \in Requests, WriteHold(r)
      PROVE  OneLivePerVehicle'
    <2>1. requests[r].on \in Assignments
        BY <1>6, WriteMoves DEF Write, Request
    <2>2. \A a \in Assignments \ {requests[r].on} : hold'[a] = hold[a]
        BY <1>6, <2>1 DEF WriteHold, TypeOK
    <2>3. CASE NextHold(r) \in LIVE_ASSIGNMENT /\ ~MayBeLive(requests[r].on)
        BY <1>1, <1>6, <2>3 DEF WriteHold, Live
    <2>4. CASE NextHold(r) \notin LIVE_ASSIGNMENT
        <3>1. hold'[requests[r].on] = NextHold(r)
            BY <1>6, <2>1, <2>4 DEF WriteHold, TypeOK
        <3> QED
            BY <1>1, <2>2, <2>4, <3>1 DEF Live
    <2>5. CASE MayBeLive(requests[r].on)
        BY <1>3, <2>1, <2>2, <2>5
    <2> QED
        BY <2>3, <2>4, <2>5
<1>7. ASSUME NEW r \in Requests, WriteApproved(r)
      PROVE  OneLivePerVehicle'
    <2>1. requests[r].on \in Assignments
        BY <1>7, WriteMoves DEF Write, Request
    <2>2. CASE UNCHANGED hold
        BY <1>1, <2>2 DEF Live
    <2>3. CASE ~UNCHANGED hold
        <3>1. MayBeLive(requests[r].on)
            BY <1>7, <2>3 DEF WriteApproved
        <3>2. \A a \in Assignments \ {requests[r].on} : hold'[a] = hold[a]
            BY <1>7, <2>1 DEF WriteApproved, TypeOK
        <3> QED
            BY <1>3, <2>1, <3>1, <3>2
    <2> QED
        BY <2>2, <2>3
<1>8. CASE UNCHANGED hold
    BY <1>1, <1>8 DEF Live
<1> QED
    BY <1>1, <1>4, <1>5, <1>6, <1>7, <1>8
       DEF Next, Asked, BeginStep, BeginEdit, BeginAssign, BeginUnassign, BeginAccept,
           BeginPhoto, BeginSubmit, BeginApprove, BeginReject, Begin, Write, WriteStatus,
           WriteDates, WriteAwaiting, WritePhoto, WriteSubmitted, WriteRejected, Crash,
           DayPasses, rows, vars

(* SeparationOfDuties: each of the two columns is written under the check  *)
(* of the table, which compares it with the other one as it is now.        *)
LEMMA NextSeparation ==
    ASSUME TypeOK, SeparationOfDuties, [Next]_vars
    PROVE  SeparationOfDuties'
<1>1. CASE UNCHANGED <<submittedBy, reviewedBy>>
    BY <1>1 DEF SeparationOfDuties
<1>2. ASSUME NEW r \in Requests,
             WriteSubmitted(r) \/ WriteApproved(r) \/ WriteRejected(r)
      PROVE  SeparationOfDuties'
    <2>1. requests[r].on \in Assignments
        BY <1>2, WriteMoves DEF Write, Request
    <2>2. CASE WriteSubmitted(r)
        BY <2>1, <2>2 DEF WriteSubmitted, SeparationOfDuties, TypeOK
    <2>3. CASE WriteApproved(r)
        BY <2>1, <2>3 DEF WriteApproved, SeparateActors, SeparationOfDuties, TypeOK
    <2>4. CASE WriteRejected(r)
        BY <2>1, <2>4 DEF WriteRejected, SeparateActors, SeparationOfDuties, TypeOK
    <2> QED
        BY <1>2, <2>2, <2>3, <2>4
<1> QED
    BY <1>1, <1>2
       DEF Next, Asked, BeginStep, BeginEdit, BeginAssign, BeginUnassign, BeginAccept,
           BeginPhoto, BeginSubmit, BeginApprove, BeginReject, Begin, Write, WriteStatus,
           WriteVehicles, WriteDates, WriteRows, WriteAwaiting, WriteHold, WritePhoto, Crash,
           DayPasses, rows, vars

-----------------------------------------------------------------------------
(* The strengthened invariant holds at first and no step breaks it.        *)
LEMMA InitIInv == Init => IInv
<1> SUFFICES ASSUME Init PROVE IInv
    OBVIOUS
<1>1. TypeOK
    BY DEF Init, TypeOK, CampaignStatus, AssignmentStatus, InstallationStatus
<1>2. OneLivePerVehicle /\ SeparationOfDuties /\ PastReview /\ WorkIsApproved /\ Founded
    BY DEF Init, OneLivePerVehicle, Live, LIVE_ASSIGNMENT, SeparationOfDuties, PastReview,
           WorkIsApproved, Founded
<1> QED
    BY <1>1, <1>2 DEF IInv

LEMMA NextIInv == IInv /\ [Next]_vars => IInv'
BY NextTyped, NextFounded, NextPastReview, NextWorkIsApproved, NextOneLive, NextSeparation
   DEF IInv

LEMMA Invariance == Spec => []IInv
BY InitIInv, NextIInv, PTL DEF Spec

(* Every row, and every copy of a row a request holds, has its type, in    *)
(* particular no status outside the database's enums is ever written.      *)
THEOREM Typed == Spec => []TypeOK
<1>1. IInv => TypeOK
    BY DEF IInv
<1> QED
    BY <1>1, Invariance, PTL

(* AC-16: however many requests overlap, on whatever stale copies, and     *)
(* wherever they die, no vehicle is on two live campaigns (assignVehicle's *)
(* transaction and uq_vehicle_live_assignment).                            *)
THEOREM NoVehicleTwice == Spec => []OneLivePerVehicle
<1>1. IInv => OneLivePerVehicle
    BY DEF IInv
<1> QED
    BY <1>1, Invariance, PTL

(* AC-06.12: whoever submitted a wrap is never its reviewer, through any   *)
(* rejections and resubmissions (submit, approve and reject of             *)
(* installations.service.ts, ck_installation_separate_actors).             *)
THEOREM TwoPeopleSign == Spec => []SeparationOfDuties
<1>1. IInv => SeparationOfDuties
    BY DEF IInv
<1> QED
    BY <1>1, Invariance, PTL

(* Every vehicle ever assigned is on a campaign that somebody other than   *)
(* its creator approved, though assignVehicle writes by a status it read   *)
(* earlier and no handler reads the approver again.                        *)
THEOREM NoWorkBeforeApproval == Spec => []AssignedWasApproved
<1>1. IInv => AssignedWasApproved
    BY DEF IInv, WorkIsApproved, Approved, AssignedWasApproved
<1> QED
    BY <1>1, Invariance, PTL

-----------------------------------------------------------------------------
(* One request at a time.                                                  *)

(* The premise of two of the theorems: the back office makes one request   *)
(* at a time; it may die anywhere, and be about work that is over.         *)
OneByOne == Serial = TRUE

(* A request is under way.                                                 *)
Busy(r) == requests[r] # Idle

(* Where a campaign cannot have a vehicle.                                 *)
InReview == {"PENDING_APPROVAL", "CANCELLED"}

(* Neither a row of the assignment nor one of its installation.            *)
Untouched(a) == hold[a] = "NONE" /\ installation[a] = "NONE"

(* What a request read of its campaign still stands.                       *)
StillStands(r) ==
    LET me == requests[r]
        status == campaign[me.on[1]]
    IN  /\ me.next = "status" => status \in STEPS[me.op].from
        /\ me.next = "rows" => status = me.saw.campaign /\ status \in ASSIGNABLE_CAMPAIGN
        /\ me.next = "awaiting" => status = "APPROVED"
        /\ me.next \in {"installation", "hold"} => ~Untouched(me.on)
        /\ me.next = "installation" /\ me.op = "sign" => me.saw.campaign = status

(* A campaign that is in review, or was refused there, has no vehicles.    *)
TurnIInv ==
    /\ \A q, r \in Requests : Busy(q) /\ Busy(r) => q = r
    /\ \A r \in Requests : Busy(r) => StillStands(r)
    /\ \A a \in Assignments : campaign[a[1]] \in InReview => Untouched(a)

(* The others are idle, before and after.                                  *)
LEMMA TurnGoesOn ==
    ASSUME NEW r \in Requests, \A q \in Requests \ {r} : requests'[q] = Idle,
           requests'[r] # Idle => StillStands(r)',
           \A a \in Assignments : campaign'[a[1]] \in InReview => Untouched(a)'
    PROVE  TurnIInv'
BY DEF TurnIInv, Busy

(* What a request reads when it begins is what is there.                   *)
LEMMA TurnBegins ==
    ASSUME OneByOne, TypeOK, TurnIInv, NEW r \in Requests, Asked(r)
    PROVE  TurnIInv'
<1>1. PICK a \in Assignments, u \in Users \cup {Nobody} :
          \/ \E op \in DOMAIN STEPS :
                /\ Begin(r, op, u, a, "status")
                /\ campaign[a[1]] \in STEPS[op].from
                /\ op = "approve" => u \in Users /\ u # CreatedBy[a[1]]
          \/ Begin(r, "edit", u, a, "dates")
          \/ Begin(r, "assign", u, a, "rows") /\ campaign[a[1]] \in ASSIGNABLE_CAMPAIGN
          \/ \E op \in {"unassign", "accept"} :
                Begin(r, op, u, a, "hold") /\ hold[a] # "NONE"
          \/ \E op \in {"photo", "submit", "sign", "refuse"} :
                Begin(r, op, u, a, "installation") /\ installation[a] # "NONE"
    BY AskedBegins
<1>2. ASSUME NEW op, NEW first, Begin(r, op, u, a, first)
      PROVE  /\ \A q \in Requests \ {r} : requests'[q] = Idle
             /\ UNCHANGED <<campaign, hold, installation>>
             /\ requests'[r].op = op /\ requests'[r].on = a /\ requests'[r].next = first
             /\ requests'[r].saw.campaign = Seen(op, {"assign", "sign"}, campaign[a[1]])
    BY <1>2 DEF OneByOne, Begin, TypeOK, rows
<1>3. ASSUME NEW op, NEW first, Begin(r, op, u, a, first), StillStands(r)' PROVE TurnIInv'
    <2>1. \A b \in Assignments : campaign'[b[1]] \in InReview => Untouched(b)'
        BY <1>2, <1>3 DEF TurnIInv, Untouched
    <2> QED
        BY <1>2, <1>3, <2>1, TurnGoesOn
<1>4. ASSUME NEW op \in DOMAIN STEPS, Begin(r, op, u, a, "status"),
             campaign[a[1]] \in STEPS[op].from
      PROVE  TurnIInv'
    <2>1. StillStands(r)'
        BY <1>2, <1>4 DEF StillStands
    <2> QED
        BY <1>3, <1>4, <2>1
<1>5. CASE Begin(r, "edit", u, a, "dates")
    <2>1. StillStands(r)'
        BY <1>2, <1>5 DEF StillStands
    <2> QED
        BY <1>3, <1>5, <2>1
<1>6. CASE Begin(r, "assign", u, a, "rows") /\ campaign[a[1]] \in ASSIGNABLE_CAMPAIGN
    <2>1. StillStands(r)'
        BY <1>2, <1>6 DEF StillStands, Seen
    <2> QED
        BY <1>3, <1>6, <2>1
<1>7. ASSUME NEW op \in {"unassign", "accept"}, Begin(r, op, u, a, "hold"), hold[a] # "NONE"
      PROVE  TurnIInv'
    <2>1. StillStands(r)'
        BY <1>2, <1>7 DEF StillStands, Untouched
    <2> QED
        BY <1>3, <1>7, <2>1
<1>8. ASSUME NEW op \in {"photo", "submit", "sign", "refuse"},
             Begin(r, op, u, a, "installation"), installation[a] # "NONE"
      PROVE  TurnIInv'
    <2>1. StillStands(r)'
        BY <1>2, <1>8 DEF StillStands, Untouched, Seen
    <2> QED
        BY <1>3, <1>8, <2>1
<1> QED
    BY <1>1, <1>4, <1>5, <1>6, <1>7, <1>8

(* What it writes rests on what it read, and never moves a campaign that   *)
(* has ended.                                                              *)
LEMMA TurnWrites ==
    ASSUME OneByOne, TypeOK, Founded, TurnIInv, NEW r \in Requests, Write(r)
    PROVE  /\ TurnIInv'
           /\ \A c \in CampaignIds :
                 campaign[c] \in FINISHED_CAMPAIGN => campaign'[c] = campaign[c]
<1>1. /\ requests[r] \in Request /\ Busy(r) /\ StillStands(r)
      /\ requests[r].on \in Assignments /\ requests[r].on[1] \in CampaignIds
      /\ \A q \in Requests \ {r} : requests'[q] = Idle
    BY WriteMoves DEF TurnIInv, Busy, Request
<1>2. PICK a : a = requests[r].on
    OBVIOUS
<1>3. PICK c : c = a[1]
    OBVIOUS
<1>4. c \in CampaignIds /\ a \in Assignments
    BY <1>1, <1>2, <1>3
<1>5. ASSUME NEW status, campaign' = [campaign EXCEPT ![c] = status]
      PROVE  campaign'[c] = status /\ \A d \in CampaignIds \ {c} : campaign'[d] = campaign[d]
    BY <1>4, <1>5 DEF TypeOK
<1>6. CASE WriteStatus(r)
    <2>1. requests[r].next = "status"
        BY <1>6 DEF WriteStatus, Writes
    <2>2. requests[r].op \in DOMAIN STEPS /\ campaign[c] \in STEPS[requests[r].op].from
        BY <1>1, <1>2, <1>3, <2>1 DEF StillStands, Founded, Shaped, Busy
    <2>3. campaign' = [campaign EXCEPT ![c] = STEPS[requests[r].op].to]
          /\ UNCHANGED <<hold, installation>>
        BY <1>2, <1>3, <1>6 DEF WriteStatus
    <2>4. campaign'[c] = STEPS[requests[r].op].to
          /\ \A d \in CampaignIds \ {c} : campaign'[d] = campaign[d]
        BY <1>5, <2>3
    <2>5. campaign[c] \notin FINISHED_CAMPAIGN
          /\ (campaign'[c] \in InReview => campaign[c] \in InReview)
        BY <2>2, <2>4 DEF STEPS, FINISHED_CAMPAIGN, InReview
    <2>6. requests'[r] # Idle => requests'[r].next = "vehicles"
        BY <1>1, <1>6 DEF WriteStatus, Finish, Continue, TypeOK, Request
    <2>7. requests'[r] # Idle => StillStands(r)'
        BY <2>6 DEF StillStands
    <2>8. \A b \in Assignments : campaign'[b[1]] \in InReview => Untouched(b)'
        <3>1. \A b \in Assignments : b[1] \in CampaignIds
            BY DEF Assignments
        <3> QED
            BY <2>3, <2>4, <2>5, <3>1 DEF TurnIInv, Untouched
    <2> QED
        BY <1>1, <2>4, <2>5, <2>7, <2>8, TurnGoesOn
<1>7. CASE WriteAwaiting(r)
    <2>1. campaign[c] = "APPROVED"
        BY <1>1, <1>2, <1>3, <1>7 DEF WriteAwaiting, Writes, StillStands
    <2>2. campaign' = [campaign EXCEPT ![c] = "AWAITING_INSTALLATION"]
          /\ UNCHANGED <<hold, installation>> /\ requests'[r] = Idle
        BY <1>2, <1>3, <1>7 DEF WriteAwaiting, Finish, TypeOK
    <2>3. campaign'[c] = "AWAITING_INSTALLATION"
          /\ \A d \in CampaignIds \ {c} : campaign'[d] = campaign[d]
        BY <1>5, <2>2
    <2>4. \A b \in Assignments : campaign'[b[1]] \in InReview => Untouched(b)'
        BY <2>2, <2>3 DEF TurnIInv, Untouched, InReview, Assignments
    <2> QED
        BY <1>1, <2>1, <2>2, <2>3, <2>4, TurnGoesOn DEF FINISHED_CAMPAIGN
<1>8. CASE WriteDates(r) \/ WriteVehicles(r)
    <2>1. UNCHANGED <<campaign, installation>> /\ requests'[r] = Idle
        BY <1>8 DEF WriteDates, WriteVehicles, Finish, TypeOK
    <2>2. \A b \in Assignments : hold[b] = "NONE" => hold'[b] = "NONE"
        BY <1>8 DEF WriteDates, WriteVehicles, Live, LIVE_ASSIGNMENT
    <2>3. \A b \in Assignments : campaign'[b[1]] \in InReview => Untouched(b)'
        BY <2>1, <2>2 DEF TurnIInv, Untouched
    <2> QED
        BY <1>1, <2>1, <2>3, TurnGoesOn
<1>9. CASE WriteRows(r)
    <2>1. /\ requests[r].next = "rows" /\ UNCHANGED campaign
          /\ \A b \in Assignments \ {a} : installation'[b] = installation[b]
          /\ \A b \in Assignments \ {a} : hold[b] = "NONE" => hold'[b] = "NONE"
        BY <1>2, <1>9 DEF WriteRows, Writes, TypeOK, Live, LIVE_ASSIGNMENT
    <2>2. campaign[c] = requests[r].saw.campaign /\ campaign[c] \in ASSIGNABLE_CAMPAIGN
        BY <1>1, <1>2, <1>3, <2>1 DEF StillStands
    <2>3. requests'[r] # Idle => /\ requests'[r].next = "awaiting" /\ requests'[r].on = a
                                 /\ requests[r].saw.campaign = "APPROVED"
        BY <1>1, <1>2, <1>9 DEF WriteRows, Finish, Continue, TypeOK, Request
    <2>4. requests'[r] # Idle => StillStands(r)'
        BY <1>3, <2>1, <2>2, <2>3 DEF StillStands
    <2>5. \A b \in Assignments : campaign'[b[1]] \in InReview => Untouched(b)'
        BY <1>3, <2>1, <2>2 DEF TurnIInv, Untouched, InReview, ASSIGNABLE_CAMPAIGN
    <2> QED
        BY <1>1, <2>1, <2>4, <2>5, TurnGoesOn
<1>10. CASE WriteHold(r) \/ WritePhoto(r) \/ WriteSubmitted(r) \/ WriteRejected(r)
              \/ WriteApproved(r)
    <2>1. requests[r].next \in {"hold", "installation"}
        BY <1>10 DEF WriteHold, WritePhoto, WriteSubmitted, WriteRejected, WriteApproved, Writes
    <2>2. ~Untouched(a)
        BY <1>1, <1>2, <2>1 DEF StillStands
    <2>3. campaign[c] \notin InReview
        BY <1>3, <1>4, <2>2 DEF TurnIInv
    <2>4. \A b \in Assignments \ {a} : hold'[b] = hold[b] /\ installation'[b] = installation[b]
        BY <1>2, <1>10
           DEF WriteHold, WritePhoto, WriteSubmitted, WriteRejected, WriteApproved, TypeOK
    <2>5. \/ UNCHANGED campaign
          \/ campaign[c] = "AWAITING_INSTALLATION"
             /\ campaign' = [campaign EXCEPT ![c] = "ACTIVE"]
        <3>1. CASE WriteApproved(r)
            <4>1. requests[r].saw.campaign = campaign[c]
                BY <1>1, <1>2, <1>3, <3>1 DEF WriteApproved, Writes, StillStands
            <4> QED
                BY <1>2, <1>3, <3>1, <4>1 DEF WriteApproved, Launched
        <3> QED
            BY <1>10, <3>1 DEF WriteHold, WritePhoto, WriteSubmitted, WriteRejected
    <2>6. /\ campaign'[c] \notin InReview
          /\ \A d \in CampaignIds \ {c} : campaign'[d] = campaign[d]
          /\ campaign[c] \in FINISHED_CAMPAIGN => UNCHANGED campaign
        BY <1>5, <2>3, <2>5 DEF InReview, FINISHED_CAMPAIGN
    <2>7. \A b \in Assignments : campaign'[b[1]] \in InReview => Untouched(b)'
        BY <1>3, <2>4, <2>6 DEF TurnIInv, Untouched, Assignments
    <2>8. requests'[r] # Idle => StillStands(r)'
        <3>1. ASSUME requests'[r] # Idle
              PROVE  /\ requests'[r].next = "hold" /\ requests'[r].on = a
                     /\ installation'[a] \in {"IN_PROGRESS", "SUBMITTED"}
            <4>1. CASE WritePhoto(r)
                BY <1>1, <1>2, <3>1, <4>1
                   DEF WritePhoto, Finish, Continue, TypeOK, Request
            <4>2. CASE WriteSubmitted(r)
                BY <1>1, <1>2, <3>1, <4>2
                   DEF WriteSubmitted, Finish, Continue, TypeOK, Request
            <4>3. CASE WriteHold(r) \/ WriteRejected(r) \/ WriteApproved(r)
                BY <3>1, <4>3 DEF WriteHold, WriteRejected, WriteApproved, Finish, TypeOK
            <4> QED
                BY <1>10, <4>1, <4>2, <4>3
        <3> QED
            BY <3>1 DEF StillStands, Untouched
    <2> QED
        BY <1>1, <1>4, <2>6, <2>7, <2>8, TurnGoesOn
<1> QED
    BY <1>6, <1>7, <1>8, <1>9, <1>10 DEF Write

(* A request that dies leaves what it has written, which is no less true.  *)
LEMMA TurnStep ==
    ASSUME OneByOne, TypeOK, Founded, TurnIInv, [Next]_vars
    PROVE  /\ TurnIInv'
           /\ \A c \in CampaignIds :
                 campaign[c] \in FINISHED_CAMPAIGN => campaign'[c] = campaign[c]
<1>1. CASE UNCHANGED <<campaign, hold, installation, requests>>
    BY <1>1 DEF TurnIInv, Busy, StillStands, Untouched
<1>2. ASSUME NEW r \in Requests, Crash(r)
      PROVE  TurnIInv' /\ UNCHANGED campaign
    <2>1. /\ UNCHANGED <<campaign, hold, installation>>
          /\ requests'[r] = Idle /\ \A q \in Requests \ {r} : requests'[q] = requests[q]
        BY <1>2 DEF Crash, Finish, TypeOK, rows
    <2>2. \A q \in Requests \ {r} : requests'[q] = Idle
        BY <1>2, <2>1 DEF Crash, TurnIInv, Busy
    <2>3. \A a \in Assignments : campaign'[a[1]] \in InReview => Untouched(a)'
        BY <2>1 DEF TurnIInv, Untouched
    <2> QED
        BY <2>1, <2>2, <2>3, TurnGoesOn
<1>3. ASSUME NEW r \in Requests, Asked(r) PROVE UNCHANGED campaign
    BY <1>3 DEF Asked, BeginStep, BeginEdit, BeginAssign, BeginUnassign, BeginAccept,
                BeginPhoto, BeginSubmit, BeginApprove, BeginReject, Begin, rows
<1> QED
    BY <1>1, <1>2, <1>3, TurnBegins, TurnWrites DEF Next, DayPasses, vars, rows

(* With one request at a time, however it ends.                            *)
LEMMA TurnInvariance == ASSUME OneByOne PROVE Spec => [](IInv /\ TurnIInv)
<1>1. Init => TurnIInv
    BY DEF Init, TurnIInv, Busy, Untouched
<1>2. IInv /\ TurnIInv /\ [Next]_vars => (IInv /\ TurnIInv)'
    BY NextIInv, TurnStep DEF IInv
<1> QED
    BY <1>1, <1>2, InitIInv, PTL DEF Spec

(* A finished campaign stays finished, wherever requests die: neither a    *)
(* late resume, nor the sign-off of an installation of work that is over,  *)
(* starts it again (runStep, installations.service.ts).                    *)
THEOREM EndIsFinal == ASSUME OneByOne PROVE Spec => FinishedIsFinal
<1> DEFINE Final ==
        \A c \in CampaignIds : campaign[c] \in FINISHED_CAMPAIGN => campaign'[c] = campaign[c]
<1>1. IInv /\ TurnIInv /\ [Next]_vars => [Final]_vars
    BY TurnStep DEF IInv
<1> QED
    BY <1>1, TurnInvariance, PTL DEF Spec, FinishedIsFinal

(* Of a campaign the driver carries, the driver's card, the gate of the    *)
(* meter and its remedy agree on whether the vehicle earns, and the fleet  *)
(* and the assignment on whether it is taken, in every order of            *)
(* assignment, pause, sign-off, end, last day and death of a request.      *)
THEOREM OneAnswer == ASSUME OneByOne PROVE Spec => []ScreensAgree
<1>1. ASSUME IInv, TurnIInv, NEW a \in Assignments, Live(a)
      PROVE  /\ (DriverStatus(a) = "active") = AdInstalled(a)
             /\ (Remedy(a) = "none") = AdInstalled(a)
             /\ (DriverStatus(a) = "paused") = (Remedy(a) = "paused")
             /\ (DriverStatus(a) = "completed") = (Remedy(a) = "finished")
    <2>1. campaign[a[1]] \in CampaignStatus \ {"CANCELLED"}
        BY <1>1 DEF IInv, TypeOK, Assignments, TurnIInv, InReview, Untouched, Live,
                    LIVE_ASSIGNMENT
    <2>2. DOMAIN CAMPAIGN_OVERRIDES = {"PAUSED", "COMPLETED", "STOPPED", "CANCELLED"}
          /\ CAMPAIGN_OVERRIDES["PAUSED"] = "paused"
          /\ CAMPAIGN_OVERRIDES["COMPLETED"] = "completed"
          /\ CAMPAIGN_OVERRIDES["STOPPED"] = "completed"
        BY DEF CAMPAIGN_OVERRIDES
    <2>3. DriverStatus(a) =
              IF a[1] \in lapsed \/ campaign[a[1]] \in {"COMPLETED", "STOPPED"} THEN "completed"
              ELSE IF campaign[a[1]] = "PAUSED" THEN "paused"
              ELSE IF hold[a] = "ASSIGNED" THEN "assigned"
              ELSE IF hold[a] = "ACTIVE" /\ campaign[a[1]] = "ACTIVE" THEN "active"
              ELSE "installation_pending"
        BY <1>1, <2>1, <2>2 DEF DriverStatus, Live, LIVE_ASSIGNMENT
    <2>4. Remedy(a) = "none" <=> AdInstalled(a)
        BY <2>1 DEF Remedy, AdInstalled
    <2>5. Remedy(a) = "paused" <=> campaign[a[1]] = "PAUSED" /\ a[1] \notin lapsed
        BY <2>1 DEF Remedy
    <2>6. Remedy(a) = "finished" <=>
              a[1] \in lapsed \/ campaign[a[1]] \in {"COMPLETED", "STOPPED"}
        BY <2>1 DEF Remedy
    <2>7. DriverStatus(a) = "active" <=> AdInstalled(a)
        BY <2>3 DEF AdInstalled
    <2> QED
        BY <2>3, <2>4, <2>5, <2>6, <2>7 DEF AdInstalled
<1>2. ASSUME NEW v \in Vehicles
      PROVE  (AvailabilityOf(v) = "available") = \A a \in CarriedBy(v) : HoldHasEnded(a[1])
    <2>1. BookedBy(v) = {} <=> \A a \in CarriedBy(v) : HoldHasEnded(a[1])
        BY DEF BookedBy, CarriedBy, HoldHasEnded, Assignments
    <2> QED
        BY <2>1 DEF AvailabilityOf
<1>3. IInv /\ TurnIInv => ScreensAgree
    BY <1>1, <1>2 DEF ScreensAgree
<1> QED
    BY <1>3, TurnInvariance, PTL

-----------------------------------------------------------------------------
(* One request at a time, that does not die half-way.                      *)

(* The premise of the rest: the back office makes one request at a time,   *)
(* about live work, and none dies half-way.                                *)
OneAtATime == Serial = TRUE /\ LiveWorkOnly = TRUE /\ MayCrash = FALSE

(* What a request read is what is there: nobody else writes.               *)
Current(r) ==
    LET me == requests[r]
        a == me.on
        status == campaign[a[1]]
    IN  /\ me.next = "status" => status \in STEPS[me.op].from
        /\ me.next = "vehicles" => /\ status = STEPS[me.op].to
                                   /\ me.op \in Releases \cup {"installed"}
        /\ me.next = "rows" => status = me.saw.campaign /\ status \in ASSIGNABLE_CAMPAIGN
        /\ me.next = "awaiting" => status = "APPROVED"
        /\ me.next = "installation" =>
              /\ Live(a)
              /\ me.op \in {"photo", "submit", "sign"} => me.saw.hold = hold[a]
              /\ me.op = "sign" => me.saw.campaign = status
        /\ me.next = "hold" =>
              /\ Live(a)
              /\ me.op \notin {"unassign", "accept"} =>
                    installation[a] \in {"IN_PROGRESS", "SUBMITTED"}
              /\ me.op = "accept" => hold[a] = "ASSIGNED"

(* A request is about to take a step of a campaign.                        *)
Pending(c, step) == \E r \in Requests : Writes(r, step) /\ requests[r].on[1] = c

(* A live assignment between the requests, or in the middle of one.        *)
OnCourse(a) ==
    LET status == campaign[a[1]]
    IN  /\ status \notin {"PENDING_APPROVAL", "CANCELLED"}
        /\ status = "APPROVED" => Pending(a[1], "awaiting")
        /\ status \in FINISHED_CAMPAIGN => Pending(a[1], "vehicles")
        /\ hold[a] # "ACTIVE" => installation[a] \notin {"NONE", "APPROVED"}
        /\ hold[a] = "ACTIVE" => status \in {"ACTIVE", "PAUSED"} \cup FINISHED_CAMPAIGN

(* Inductive for such an office.                                           *)
SerialIInv ==
    /\ \A q, r \in Requests : Busy(q) /\ Busy(r) => q = r
    /\ \A r \in Requests : Busy(r) => Current(r)
    /\ \A a \in Assignments : Live(a) => OnCourse(a)

(* Where a live assignment is between two requests.                        *)
UnderWay == {"AWAITING_INSTALLATION", "ACTIVE", "PAUSED"}

-----------------------------------------------------------------------------
(* An assignment no request is about to take along.                        *)
LEMMA NothingPending ==
    ASSUME TypeOK, SerialIInv, NEW a \in Assignments, Live(a),
           ~Pending(a[1], "awaiting"), ~Pending(a[1], "vehicles")
    PROVE  campaign[a[1]] \in UnderWay
<1>1. campaign[a[1]] \in CampaignStatus
    BY DEF TypeOK, Assignments
<1>2. OnCourse(a)
    BY DEF SerialIInv
<1> QED
    BY <1>1, <1>2 DEF OnCourse, CampaignStatus, FINISHED_CAMPAIGN, UnderWay

(* Of the one request that is under way.                                   *)
LEMMA OneIsAtWork ==
    ASSUME SerialIInv, NEW r \in Requests, Busy(r)
    PROVE  /\ \A q \in Requests \ {r} : requests[q] = Idle
           /\ \A c, step : step # "none" /\ Pending(c, step) =>
                  Writes(r, step) /\ requests[r].on[1] = c
BY DEF SerialIInv, Busy, Pending, Writes, Idle

(* Between two requests nothing is about to happen.                        *)
LEMMA NobodyAtWork ==
    ASSUME \A q \in Requests : requests[q] = Idle
    PROVE  \A c : ~Pending(c, "awaiting") /\ ~Pending(c, "vehicles")
BY DEF Pending, Writes, Idle

(* The others do not notice a step of one request.                         *)
LEMMA WorkGoesOn ==
    ASSUME SerialIInv, NEW r \in Requests, \A q \in Requests \ {r} : requests[q] = Idle,
           \A q \in Requests \ {r} : requests'[q] = requests[q],
           requests'[r] # Idle => Current(r)',
           \A a \in Assignments : Live(a)' => OnCourse(a)'
    PROVE  SerialIInv'
BY DEF SerialIInv, Busy

(* A live assignment the step leaves alone.                                *)
LEMMA StaysOnCourse ==
    ASSUME SerialIInv, NEW a \in Assignments, Live(a), campaign'[a[1]] \in UnderWay,
           hold'[a] = hold[a],
           installation'[a] = installation[a] \/ installation'[a] \notin {"NONE", "APPROVED"},
           hold[a] = "ACTIVE" => campaign'[a[1]] # "AWAITING_INSTALLATION"
    PROVE  OnCourse(a)'
BY DEF SerialIInv, OnCourse, UnderWay, FINISHED_CAMPAIGN

(* A request begins.                                                       *)
LEMMA SerialBegins ==
    ASSUME OneAtATime, TypeOK, SerialIInv, NEW r \in Requests, Asked(r)
    PROVE  SerialIInv'
<1>1. ASSUME NEW op, NEW u, NEW a, NEW first, Begin(r, op, u, a, first)
      PROVE  /\ \A q \in Requests : requests[q] = Idle
             /\ UNCHANGED <<campaign, hold, installation>>
             /\ \A q \in Requests \ {r} : requests'[q] = requests[q]
             /\ requests'[r].op = op /\ requests'[r].on = a /\ requests'[r].next = first
             /\ requests'[r].saw.campaign = Seen(op, {"assign", "sign"}, campaign[a[1]])
             /\ requests'[r].saw.hold =
                    Seen(op, {"unassign", "photo", "submit", "sign"}, hold[a])
    BY <1>1 DEF OneAtATime, Begin, TypeOK, rows
<1>2. ASSUME NEW op, NEW u, NEW a, NEW first, Begin(r, op, u, a, first), Current(r)'
      PROVE  SerialIInv'
    <2>1. ASSUME NEW b \in Assignments, Live(b)' PROVE OnCourse(b)'
        <3>1. Live(b) /\ UNCHANGED <<campaign, hold, installation>>
            BY <1>1, <1>2, <2>1 DEF Live
        <3>2. campaign[b[1]] \in UnderWay
            BY <1>1, <1>2, <3>1, NobodyAtWork, NothingPending
        <3>3. hold[b] = "ACTIVE" => campaign[b[1]] # "AWAITING_INSTALLATION"
            BY <3>1 DEF SerialIInv, OnCourse, FINISHED_CAMPAIGN
        <3> QED
            BY <3>1, <3>2, <3>3, StaysOnCourse
    <2> QED
        BY <1>1, <1>2, <2>1, WorkGoesOn
<1>3. PICK a \in Assignments :
        \/ \E op \in DOMAIN STEPS, u \in Users \cup {Nobody} : BeginStep(r, op, u, a)
        \/ BeginEdit(r, a)
        \/ BeginAssign(r, a) \/ BeginUnassign(r, a) \/ BeginAccept(r, a) \/ BeginPhoto(r, a)
        \/ \E u \in Users :
              BeginSubmit(r, u, a) \/ BeginApprove(r, u, a) \/ BeginReject(r, u, a)
    BY DEF Asked
<1>4. ASSUME NEW op \in DOMAIN STEPS, NEW u \in Users \cup {Nobody}, BeginStep(r, op, u, a)
      PROVE  SerialIInv'
    <2>1. Begin(r, op, u, a, "status") /\ campaign[a[1]] \in STEPS[op].from
        BY <1>4 DEF BeginStep
    <2>2. Current(r)'
        BY <1>1, <2>1 DEF Current
    <2> QED
        BY <1>2, <2>1, <2>2
<1>5. CASE BeginEdit(r, a)
    <2>1. Begin(r, "edit", Nobody, a, "dates")
        BY <1>5 DEF BeginEdit
    <2>2. Current(r)'
        BY <1>1, <2>1 DEF Current
    <2> QED
        BY <1>2, <2>1, <2>2
<1>6. CASE BeginAssign(r, a)
    <2>1. Begin(r, "assign", Nobody, a, "rows") /\ campaign[a[1]] \in ASSIGNABLE_CAMPAIGN
        BY <1>6 DEF BeginAssign
    <2>2. Current(r)'
        BY <1>1, <2>1 DEF Current, Seen
    <2> QED
        BY <1>2, <2>1, <2>2
<1>7. CASE BeginUnassign(r, a)
    <2>1. Begin(r, "unassign", Nobody, a, "hold") /\ Live(a)
        BY <1>7 DEF BeginUnassign
    <2>2. Current(r)'
        BY <1>1, <2>1 DEF Current, Live
    <2> QED
        BY <1>2, <2>1, <2>2
<1>8. CASE BeginAccept(r, a)
    <2>1. Begin(r, "accept", Nobody, a, "hold") /\ hold[a] = "ASSIGNED"
        BY <1>8 DEF BeginAccept
    <2>2. Current(r)'
        BY <1>1, <2>1 DEF Current, Live, LIVE_ASSIGNMENT
    <2> QED
        BY <1>2, <2>1, <2>2
<1>9. ASSUME NEW op \in {"photo", "submit", "sign", "refuse"}, NEW u,
             Begin(r, op, u, a, "installation"), Live(a)
      PROVE  SerialIInv'
    <2>1. Current(r)'
        BY <1>1, <1>9 DEF Current, Live, Seen
    <2> QED
        BY <1>2, <1>9, <2>1
<1>10. CASE BeginPhoto(r, a)
    BY <1>9, <1>10 DEF BeginPhoto, Workable, OneAtATime
<1>11. ASSUME NEW u \in Users, BeginSubmit(r, u, a) \/ BeginApprove(r, u, a) \/ BeginReject(r, u, a)
       PROVE  SerialIInv'
    BY <1>9, <1>11 DEF BeginSubmit, BeginApprove, BeginReject, Workable, OneAtATime
<1> QED
    BY <1>3, <1>4, <1>5, <1>6, <1>7, <1>8, <1>10, <1>11
-----------------------------------------------------------------------------
(* A write, by the one request under way.                                  *)
LEMMA WriterAlone ==
    ASSUME OneAtATime, TypeOK, SerialIInv, NEW r \in Requests, Write(r)
    PROVE  /\ requests[r] \in Request /\ Busy(r) /\ Current(r)
           /\ requests[r].on \in Assignments /\ requests[r].on[1] \in CampaignIds
           /\ \A q \in Requests \ {r} : requests[q] = Idle
           /\ \A q \in Requests \ {r} : requests'[q] = requests[q]
<1>1. /\ requests[r] \in Request /\ requests[r] # Idle /\ requests[r].on[1] \in CampaignIds
      /\ \A q \in Requests \ {r} : requests'[q] = requests[q]
    BY WriteMoves
<1>2. requests[r].on \in Assignments
    BY <1>1 DEF Request
<1> QED
    BY <1>1, <1>2, OneIsAtWork DEF Busy, SerialIInv

(* What a live assignment is like unless the request under way is the one  *)
(* its campaign waits for.                                                 *)
LEMMA WhileWriting ==
    ASSUME TypeOK, SerialIInv, NEW r \in Requests, Busy(r), NEW a \in Assignments, Live(a)
    PROVE  /\ requests[r].next \notin {"awaiting", "vehicles"} \/ requests[r].on[1] # a[1]
                  => campaign[a[1]] \in UnderWay
           /\ requests[r].next = "awaiting" => campaign[a[1]] \in UnderWay \cup {"APPROVED"}
           /\ hold[a] = "ACTIVE" => campaign[a[1]] # "AWAITING_INSTALLATION"
           /\ hold[a] = "ACTIVE" => campaign[a[1]] # "APPROVED"
           /\ hold[a] # "ACTIVE" => installation[a] \notin {"NONE", "APPROVED"}
<1>1. /\ Pending(a[1], "awaiting") => requests[r].next = "awaiting" /\ requests[r].on[1] = a[1]
      /\ Pending(a[1], "vehicles") => requests[r].next = "vehicles" /\ requests[r].on[1] = a[1]
    BY OneIsAtWork DEF Writes
<1>2. OnCourse(a)
    BY DEF SerialIInv
<1>3. campaign[a[1]] \in CampaignStatus
    BY DEF TypeOK, Assignments
<1>4. requests[r].next = "awaiting" => campaign[a[1]] \in UnderWay \cup {"APPROVED"}
    BY <1>1, <1>2, <1>3 DEF OnCourse, CampaignStatus, UnderWay, FINISHED_CAMPAIGN
<1>5. hold[a] = "ACTIVE" => campaign[a[1]] \notin {"AWAITING_INSTALLATION", "APPROVED"}
    BY <1>2 DEF OnCourse, FINISHED_CAMPAIGN
<1>6. hold[a] # "ACTIVE" => installation[a] \notin {"NONE", "APPROVED"}
    BY <1>2 DEF OnCourse
<1>7. requests[r].next \notin {"awaiting", "vehicles"} \/ requests[r].on[1] # a[1]
          => campaign[a[1]] \in UnderWay
    BY <1>1, NothingPending
<1> QED
    BY <1>4, <1>5, <1>6, <1>7

(* A step that moves a campaign.                                           *)
LEMMA StatusOK ==
    ASSUME OneAtATime, TypeOK, Founded, SerialIInv, NEW r \in Requests,
           WriteStatus(r) \/ WriteAwaiting(r)
    PROVE  SerialIInv'
<1>1. /\ requests[r] \in Request /\ Busy(r) /\ Current(r)
      /\ requests[r].on \in Assignments /\ requests[r].on[1] \in CampaignIds
      /\ \A q \in Requests \ {r} : requests[q] = Idle
      /\ \A q \in Requests \ {r} : requests'[q] = requests[q]
    BY WriterAlone DEF Write
<1>2. PICK me : me = requests[r]
    OBVIOUS
<1>3. PICK c : c = me.on[1]
    OBVIOUS
<1>4. CASE WriteStatus(r)
    <2>1. me.next = "status" /\ campaign[c] \in STEPS[me.op].from /\ me.op \in DOMAIN STEPS
        <3>1. requests[r].next = "status"
            BY <1>4 DEF WriteStatus, Writes
        <3>2. requests[r].op \in DOMAIN STEPS
            BY <1>1, <3>1 DEF Founded, Shaped, Busy
        <3>3. campaign[requests[r].on[1]] \in STEPS[requests[r].op].from
            BY <1>1, <3>1 DEF Current
        <3> QED
            BY <1>2, <1>3, <3>1, <3>2, <3>3
    <2>2. /\ UNCHANGED <<hold, installation>>
          /\ campaign' = [campaign EXCEPT ![c] = STEPS[me.op].to]
          /\ IF me.op \in Releases \cup {"installed"} THEN Continue(r, "vehicles") ELSE Finish(r)
        BY <1>2, <1>3, <1>4 DEF WriteStatus
    <2>3. campaign'[c] = STEPS[me.op].to /\ \A d \in CampaignIds \ {c} : campaign'[d] = campaign[d]
        BY <1>1, <1>2, <1>3, <2>2 DEF TypeOK
    <2>4. CASE me.op \in Releases \cup {"installed"}
        <3>1. /\ requests'[r].next = "vehicles" /\ requests'[r].op = me.op
              /\ requests'[r].on = me.on
            BY <1>1, <1>2, <2>2, <2>4 DEF Continue, TypeOK, Request
        <3>2. Current(r)'
            BY <1>3, <2>3, <2>4, <3>1 DEF Current
        <3>3. Pending(c, "vehicles")'
            BY <1>3, <3>1 DEF Pending, Writes
        <3>4. ASSUME NEW b \in Assignments, Live(b)' PROVE OnCourse(b)'
            <4>1. /\ Live(b) /\ UNCHANGED <<hold, installation>> /\ campaign[b[1]] \in UnderWay
                  /\ hold[b] = "ACTIVE" => campaign[b[1]] # "AWAITING_INSTALLATION"
                  /\ hold[b] # "ACTIVE" => installation[b] \notin {"NONE", "APPROVED"}
                BY <1>1, <1>2, <2>1, <2>2, <3>4, WhileWriting DEF Live
            <4>2. CASE b[1] # c
                <5>1. campaign'[b[1]] = campaign[b[1]]
                    BY <2>3, <4>2 DEF Assignments
                <5> QED
                    BY <4>1, <5>1, StaysOnCourse
            <4>3. CASE b[1] = c
                <5>1. campaign'[c] \in {"ACTIVE", "COMPLETED", "STOPPED"}
                    BY <2>1, <2>3, <2>4, <4>1, <4>3 DEF STEPS, UnderWay, Releases
                <5> QED
                    BY <3>3, <4>1, <4>3, <5>1 DEF OnCourse, FINISHED_CAMPAIGN
            <4> QED
                BY <4>2, <4>3
        <3> QED
            BY <1>1, <3>2, <3>4, WorkGoesOn
    <2>5. CASE me.op \notin Releases \cup {"installed"}
        <3>1. requests'[r] = Idle
            BY <2>2, <2>5 DEF Finish, TypeOK
        <3>2. ASSUME NEW b \in Assignments, Live(b)' PROVE OnCourse(b)'
            <4>1. /\ Live(b) /\ UNCHANGED <<hold, installation>> /\ campaign[b[1]] \in UnderWay
                  /\ hold[b] = "ACTIVE" => campaign[b[1]] # "AWAITING_INSTALLATION"
                BY <1>1, <1>2, <2>1, <2>2, <3>2, WhileWriting DEF Live
            <4>2. campaign'[b[1]] \in {"ACTIVE", "PAUSED"} \/ campaign'[b[1]] = campaign[b[1]]
                <5>1. CASE b[1] = c
                    BY <2>1, <2>3, <2>5, <4>1, <5>1 DEF STEPS, UnderWay, Releases
                <5>2. CASE b[1] # c
                    BY <2>3, <5>2 DEF Assignments
                <5> QED
                    BY <5>1, <5>2
            <4> QED
                BY <4>1, <4>2, StaysOnCourse DEF UnderWay
        <3> QED
            BY <1>1, <3>1, <3>2, WorkGoesOn
    <2> QED
        BY <2>4, <2>5
<1>5. CASE WriteAwaiting(r)
    <2>1. /\ me.next = "awaiting" /\ campaign' = [campaign EXCEPT ![c] = "AWAITING_INSTALLATION"]
          /\ UNCHANGED <<hold, installation>> /\ requests'[r] = Idle
        BY <1>2, <1>3, <1>5 DEF WriteAwaiting, Writes, Finish, TypeOK
    <2>2. campaign[c] = "APPROVED"
        BY <1>1, <1>2, <1>3, <2>1 DEF Current
    <2>3. ASSUME NEW b \in Assignments, Live(b)' PROVE OnCourse(b)'
        <3>1. /\ Live(b) /\ UNCHANGED <<hold, installation>>
              /\ hold[b] = "ACTIVE" => campaign[b[1]] # "AWAITING_INSTALLATION"
              /\ hold[b] = "ACTIVE" => campaign[b[1]] # "APPROVED"
              /\ b[1] # c => campaign[b[1]] \in UnderWay
            BY <1>1, <1>2, <1>3, <2>1, <2>3, WhileWriting DEF Live
        <3>2. CASE b[1] = c
            <4>1. campaign'[c] = "AWAITING_INSTALLATION"
                BY <1>1, <1>2, <1>3, <2>1 DEF TypeOK
            <4> QED
                BY <2>2, <3>1, <3>2, <4>1, StaysOnCourse DEF UnderWay
        <3>3. CASE b[1] # c
            <4>1. campaign'[b[1]] = campaign[b[1]]
                BY <2>1, <3>3 DEF TypeOK, Assignments
            <4> QED
                BY <3>1, <3>3, <4>1, StaysOnCourse
        <3> QED
            BY <3>2, <3>3
    <2> QED
        BY <1>1, <2>1, <2>3, WorkGoesOn
<1> QED
    BY <1>4, <1>5
(* A step that touches no live assignment but its own, and no campaign.    *)
LEMMA OwnRowsOK ==
    ASSUME OneAtATime, TypeOK, SerialIInv, NEW r \in Requests, Write(r), NEW a,
           requests[r].next \notin {"awaiting", "vehicles"},
           UNCHANGED campaign, requests'[r] # Idle => Current(r)',
           \A b \in Assignments : Live(b)' /\ b # a =>
               Live(b) /\ hold'[b] = hold[b] /\ installation'[b] = installation[b],
           Live(a)' => OnCourse(a)'
    PROVE  SerialIInv'
<1>1. /\ Busy(r) /\ \A q \in Requests \ {r} : requests[q] = Idle
      /\ \A q \in Requests \ {r} : requests'[q] = requests[q]
    BY WriterAlone
<1>2. ASSUME NEW b \in Assignments, Live(b)', b # a PROVE OnCourse(b)'
    <2>1. /\ Live(b) /\ campaign[b[1]] \in UnderWay
          /\ hold[b] = "ACTIVE" => campaign[b[1]] # "AWAITING_INSTALLATION"
        BY <1>1, <1>2, WhileWriting
    <2> QED
        BY <1>2, <2>1, StaysOnCourse
<1> QED
    BY <1>1, <1>2, WorkGoesOn

(* The dates, a refusal, and what is written to the assignment last.       *)
LEMMA QuietOK ==
    ASSUME OneAtATime, TypeOK, SerialIInv, NEW r \in Requests,
           WriteDates(r) \/ WriteRejected(r) \/ WriteHold(r)
    PROVE  SerialIInv'
<1>1. /\ Busy(r) /\ Current(r) /\ Write(r)
      /\ requests[r].next \in {"dates", "installation", "hold"}
      /\ requests[r].on \in Assignments /\ requests[r].on[1] \in CampaignIds
    BY WriterAlone DEF Write, WriteDates, WriteRejected, WriteHold, Writes
<1>2. PICK a : a = requests[r].on
    OBVIOUS
<1>3. UNCHANGED campaign /\ requests'[r] = Idle
    BY DEF WriteDates, WriteRejected, WriteHold, Finish, TypeOK
<1>4. Live(a) => /\ campaign[a[1]] \in UnderWay
                 /\ hold[a] = "ACTIVE" => campaign[a[1]] # "AWAITING_INSTALLATION"
                 /\ hold[a] # "ACTIVE" => installation[a] \notin {"NONE", "APPROVED"}
    BY <1>1, <1>2, WhileWriting
<1>5. CASE WriteDates(r)
    <2>1. UNCHANGED <<hold, installation>>
        BY <1>5 DEF WriteDates
    <2>2. Live(a)' => OnCourse(a)'
        BY <1>1, <1>2, <1>3, <1>4, <2>1, StaysOnCourse DEF Live
    <2> QED
        BY <1>1, <1>2, <1>3, <2>1, <2>2, OwnRowsOK DEF Live
<1>6. CASE WriteRejected(r)
    <2>1. /\ UNCHANGED hold
          /\ \A b \in Assignments \ {a} : installation'[b] = installation[b]
          /\ installation'[a] \in {"REJECTED", installation[a]}
        BY <1>1, <1>2, <1>6 DEF WriteRejected, TypeOK
    <2>2. Live(a)' => OnCourse(a)'
        BY <1>1, <1>2, <1>3, <1>4, <2>1, StaysOnCourse DEF Live
    <2> QED
        BY <1>1, <1>2, <1>3, <2>1, <2>2, OwnRowsOK DEF Live
<1>7. CASE WriteHold(r)
    <2>1. /\ UNCHANGED installation
          /\ \A b \in Assignments \ {a} : hold'[b] = hold[b]
          /\ hold'[a] \in {NextHold(r), hold[a]}
        BY <1>1, <1>2, <1>7 DEF WriteHold, TypeOK
    <2>2. requests[r].next = "hold"
        BY <1>7 DEF WriteHold, Writes
    <2>3. Live(a) /\ (requests[r].op = "accept" => hold[a] = "ASSIGNED")
          /\ (requests[r].op \notin {"unassign", "accept"} =>
                  installation[a] \in {"IN_PROGRESS", "SUBMITTED"})
        BY <1>1, <1>2, <2>2 DEF Current
    <2>4. ASSUME Live(a)', hold'[a] # hold[a] PROVE OnCourse(a)'
        <3>1. requests[r].op # "unassign" /\ hold'[a] \in {"ACCEPTED", "INSTALLING"}
              /\ (hold'[a] = "ACCEPTED" => requests[r].op = "accept")
            BY <2>1, <2>4 DEF NextHold, Live, LIVE_ASSIGNMENT
        <3>2. installation[a] \notin {"NONE", "APPROVED"}
            BY <1>4, <2>3, <3>1
        <3> QED
            BY <1>3, <1>4, <2>1, <2>3, <3>1, <3>2 DEF OnCourse, UnderWay, FINISHED_CAMPAIGN
    <2>5. ASSUME Live(a)', hold'[a] = hold[a] PROVE OnCourse(a)'
        BY <1>1, <1>2, <1>3, <1>4, <2>1, <2>3, <2>5, StaysOnCourse
    <2> QED
        BY <1>1, <1>2, <1>3, <2>1, <2>4, <2>5, OwnRowsOK DEF Live
<1> QED
    BY <1>5, <1>6, <1>7
(* The bulk update of an end, or of the launch.                            *)
LEMMA VehiclesOK ==
    ASSUME OneAtATime, TypeOK, SerialIInv, NEW r \in Requests, WriteVehicles(r)
    PROVE  SerialIInv'
<1>1. /\ Busy(r) /\ Current(r) /\ requests[r].next = "vehicles"
      /\ \A q \in Requests \ {r} : requests[q] = Idle
      /\ \A q \in Requests \ {r} : requests'[q] = requests[q]
    BY WriterAlone DEF Write, WriteVehicles, Writes
<1>2. PICK c : c = requests[r].on[1]
    OBVIOUS
<1>3. /\ campaign[c] = STEPS[requests[r].op].to
      /\ requests[r].op \in Releases \cup {"installed"}
    BY <1>1, <1>2 DEF Current
<1>4. UNCHANGED <<campaign, installation>> /\ requests'[r] = Idle
    BY DEF WriteVehicles, Finish, TypeOK
<1>5. ASSUME NEW b \in Assignments, Live(b)' PROVE OnCourse(b)'
    <2>1. hold'[b] = IF b[1] = c /\ Live(b)
                     THEN IF requests[r].op = "installed" THEN "ACTIVE" ELSE "ENDED"
                     ELSE hold[b]
        BY <1>2 DEF WriteVehicles
    <2>2. Live(b)
        BY <1>5, <2>1 DEF Live
    <2>3. CASE b[1] = c
        <3>1. requests[r].op = "installed" /\ hold'[b] = "ACTIVE"
            BY <1>5, <2>1, <2>2, <2>3 DEF Live, LIVE_ASSIGNMENT
        <3>2. campaign[c] = "ACTIVE"
            BY <1>3, <3>1 DEF STEPS
        <3> QED
            BY <1>4, <2>3, <3>1, <3>2 DEF OnCourse, FINISHED_CAMPAIGN
    <2>4. CASE b[1] # c
        <3>1. /\ hold'[b] = hold[b] /\ campaign[b[1]] \in UnderWay
              /\ hold[b] = "ACTIVE" => campaign[b[1]] # "AWAITING_INSTALLATION"
            BY <1>1, <1>2, <2>1, <2>2, <2>4, WhileWriting
        <3> QED
            BY <1>4, <2>2, <3>1, StaysOnCourse
    <2> QED
        BY <2>3, <2>4
<1> QED
    BY <1>1, <1>4, <1>5, WorkGoesOn

(* The transaction of an assignment.                                       *)
LEMMA RowsOK ==
    ASSUME OneAtATime, TypeOK, SerialIInv, NEW r \in Requests, WriteRows(r)
    PROVE  SerialIInv'
<1>1. /\ requests[r] \in Request /\ Busy(r) /\ Current(r) /\ Write(r)
      /\ requests[r].next = "rows"
      /\ requests[r].on \in Assignments /\ requests[r].on[1] \in CampaignIds
      /\ \A q \in Requests \ {r} : requests[q] = Idle
      /\ \A q \in Requests \ {r} : requests'[q] = requests[q]
    BY WriterAlone DEF Write, WriteRows, Writes
<1>2. PICK a : a = requests[r].on
    OBVIOUS
<1>3. PICK saw : saw = requests[r].saw.campaign
    OBVIOUS
<1>4. campaign[a[1]] = saw /\ campaign[a[1]] \in ASSIGNABLE_CAMPAIGN
    BY <1>1, <1>2, <1>3 DEF Current
<1>5. UNCHANGED campaign
    BY DEF WriteRows
<1>6. CASE Finish(r) /\ UNCHANGED <<hold, installation>>
    <2>1. requests'[r] = Idle
        BY <1>6 DEF Finish, TypeOK
    <2>2. ASSUME NEW b \in Assignments, Live(b)' PROVE OnCourse(b)'
        <3>1. /\ Live(b) /\ campaign[b[1]] \in UnderWay
              /\ hold[b] = "ACTIVE" => campaign[b[1]] # "AWAITING_INSTALLATION"
            BY <1>1, <1>6, <2>2, WhileWriting DEF Live
        <3> QED
            BY <1>5, <1>6, <3>1, StaysOnCourse
    <2> QED
        BY <1>1, <2>1, <2>2, WorkGoesOn
<1>7. CASE /\ \E others \in SUBSET Assignments :
                  hold' = [b \in Assignments |->
                              IF b = a THEN "ASSIGNED"
                              ELSE IF b \in others THEN "ENDED" ELSE hold[b]]
           /\ installation' = [installation EXCEPT ![a] = "SCHEDULED"]
           /\ IF saw = "APPROVED" THEN Continue(r, "awaiting") ELSE Finish(r)
    <2>1. /\ hold'[a] = "ASSIGNED" /\ installation'[a] = "SCHEDULED"
          /\ \A b \in Assignments \ {a} : /\ hold'[b] \in {"ENDED", hold[b]}
                                          /\ installation'[b] = installation[b]
        BY <1>1, <1>2, <1>7 DEF TypeOK
    <2>2. saw = "APPROVED" => /\ requests'[r].next = "awaiting" /\ requests'[r].on = a
        BY <1>1, <1>2, <1>7 DEF Continue, TypeOK, Request
    <2>3. saw # "APPROVED" => requests'[r] = Idle
        BY <1>7 DEF Finish, TypeOK
    <2>4. requests'[r] # Idle => Current(r)'
        BY <1>4, <1>5, <2>2, <2>3 DEF Current
    <2>5. saw = "APPROVED" => Pending(a[1], "awaiting")'
        BY <2>2 DEF Pending, Writes
    <2>6. OnCourse(a)'
        BY <1>4, <1>5, <2>1, <2>5 DEF OnCourse, ASSIGNABLE_CAMPAIGN, FINISHED_CAMPAIGN
    <2>7. ASSUME NEW b \in Assignments \ {a}, Live(b)' PROVE OnCourse(b)'
        <3>1. Live(b) /\ hold'[b] = hold[b]
            BY <2>1, <2>7 DEF Live, LIVE_ASSIGNMENT
        <3>2. /\ campaign[b[1]] \in UnderWay
              /\ hold[b] = "ACTIVE" => campaign[b[1]] # "AWAITING_INSTALLATION"
            BY <1>1, <3>1, WhileWriting
        <3> QED
            BY <1>5, <2>1, <3>1, <3>2, StaysOnCourse
    <2> QED
        BY <1>1, <2>4, <2>6, <2>7, WorkGoesOn
<1> QED
    <2>1. PICK others : others = {b \in Assignments : b[2] = a[2] /\ b # a /\ Live(b)}
        OBVIOUS
    <2>2. others \in SUBSET Assignments
        BY <2>1
    <2>3. CASE hold[a] = "NONE" /\ \A b \in others : HoldHasEnded(b[1])
        <3>1. /\ hold' = [b \in Assignments |->
                              IF b = a THEN "ASSIGNED"
                              ELSE IF b \in others THEN "ENDED" ELSE hold[b]]
              /\ installation' = [installation EXCEPT ![a] = "SCHEDULED"]
              /\ IF saw = "APPROVED" THEN Continue(r, "awaiting") ELSE Finish(r)
            BY <1>2, <1>3, <2>1, <2>3 DEF WriteRows
        <3> QED
            BY <1>7, <2>2, <3>1
    <2>4. CASE ~(hold[a] = "NONE" /\ \A b \in others : HoldHasEnded(b[1]))
        BY <1>2, <1>6, <2>1, <2>4 DEF WriteRows
    <2> QED
        BY <2>3, <2>4

(* What the driver's photo and the installer's submission write.           *)
LEMMA FittingOK ==
    ASSUME OneAtATime, TypeOK, SerialIInv, NEW r \in Requests,
           WritePhoto(r) \/ WriteSubmitted(r)
    PROVE  SerialIInv'
<1>1. /\ requests[r] \in Request /\ Busy(r) /\ Current(r) /\ Write(r)
      /\ requests[r].next = "installation" /\ requests[r].op \in {"photo", "submit"}
      /\ requests[r].on \in Assignments
    BY WriterAlone DEF Write, WritePhoto, WriteSubmitted, Writes
<1>2. PICK a : a = requests[r].on
    OBVIOUS
<1>3. UNCHANGED <<campaign, hold>>
    BY DEF WritePhoto, WriteSubmitted
<1>4. /\ \A b \in Assignments \ {a} : installation'[b] = installation[b]
      /\ \/ installation'[a] = installation[a] /\ Finish(r)
         \/ /\ installation'[a] \in {"IN_PROGRESS", "SUBMITTED"}
            /\ Finish(r) \/ Continue(r, "hold")
    <2>1. CASE WritePhoto(r)
        BY <1>1, <1>2, <2>1 DEF WritePhoto, TypeOK
    <2>2. CASE WriteSubmitted(r)
        BY <1>1, <1>2, <2>2 DEF WriteSubmitted, TypeOK
    <2> QED
        BY <2>1, <2>2
<1>5. Live(a) /\ campaign[a[1]] \in UnderWay
      /\ (hold[a] = "ACTIVE" => campaign[a[1]] # "AWAITING_INSTALLATION")
    <2>1. Live(a)
        BY <1>1, <1>2 DEF Current
    <2> QED
        BY <1>1, <1>2, <2>1, WhileWriting
<1>6. OnCourse(a)'
    BY <1>1, <1>2, <1>3, <1>4, <1>5, StaysOnCourse
<1>7. requests'[r] # Idle => Current(r)'
    <2>1. ASSUME requests'[r] # Idle PROVE Continue(r, "hold")
        BY <1>4, <2>1 DEF Finish, TypeOK
    <2>2. ASSUME Continue(r, "hold"), requests'[r] # Idle PROVE Current(r)'
        <3>1. requests'[r].next = "hold" /\ requests'[r].on = a
              /\ requests'[r].op \in {"photo", "submit"}
            BY <1>1, <1>2, <2>2 DEF Continue, TypeOK, Request
        <3>2. installation'[a] \in {"IN_PROGRESS", "SUBMITTED"}
            BY <1>4, <2>2 DEF Finish, TypeOK
        <3>3. Live(a)'
            BY <1>3, <1>5 DEF Live
        <3> QED
            BY <3>1, <3>2, <3>3 DEF Current
    <2> QED
        BY <2>1, <2>2
<1> QED
    BY <1>1, <1>3, <1>4, <1>6, <1>7, OwnRowsOK DEF Live

(* The sign-off, which may launch the campaign.                            *)
LEMMA SignOffOK ==
    ASSUME OneAtATime, TypeOK, SerialIInv, NEW r \in Requests, WriteApproved(r)
    PROVE  SerialIInv'
<1>1. /\ requests[r] \in Request /\ Busy(r) /\ Current(r) /\ Write(r)
      /\ requests[r].next = "installation" /\ requests[r].op = "sign"
      /\ requests[r].on \in Assignments /\ requests[r].on[1] \in CampaignIds
      /\ \A q \in Requests \ {r} : requests[q] = Idle
      /\ \A q \in Requests \ {r} : requests'[q] = requests[q]
    BY WriterAlone DEF Write, WriteApproved, Writes
<1>2. PICK a : a = requests[r].on
    OBVIOUS
<1>3. requests'[r] = Idle
    BY DEF WriteApproved, Finish, TypeOK
<1>4. Live(a) /\ requests[r].saw.hold = hold[a] /\ requests[r].saw.campaign = campaign[a[1]]
    BY <1>1, <1>2 DEF Current
<1>5. campaign[a[1]] \in UnderWay
    BY <1>1, <1>2, <1>4, WhileWriting
<1>6. /\ \A b \in Assignments \ {a} : hold'[b] = hold[b] /\ installation'[b] = installation[b]
      /\ \/ UNCHANGED <<hold, installation, campaign>>
         \/ hold'[a] = "ACTIVE" /\ campaign' = Launched(r)
    <2>1. \/ UNCHANGED <<hold, installation, campaign>>
          \/ /\ installation' = [installation EXCEPT ![a] = "APPROVED"]
             /\ hold' = IF hold[a] = "ACTIVE" THEN hold ELSE [hold EXCEPT ![a] = "ACTIVE"]
             /\ campaign' = Launched(r)
        BY <1>2, <1>4 DEF WriteApproved
    <2> QED
        BY <1>1, <1>2, <2>1 DEF TypeOK
<1>7. campaign' = Launched(r) =>
          /\ campaign'[a[1]] \in {"ACTIVE", "PAUSED"}
          /\ \A b \in Assignments : campaign'[b[1]] \in {"ACTIVE", campaign[b[1]]}
    BY <1>1, <1>2, <1>4, <1>5 DEF Launched, TypeOK, Assignments, UnderWay
<1>8. ASSUME NEW b \in Assignments, Live(b)' PROVE OnCourse(b)'
    <2>1. CASE hold'[b] = hold[b] /\ installation'[b] = installation[b]
        <3>1. /\ Live(b) /\ campaign[b[1]] \in UnderWay
              /\ hold[b] = "ACTIVE" => campaign[b[1]] # "AWAITING_INSTALLATION"
            BY <1>1, <1>8, <2>1, WhileWriting DEF Live
        <3>2. campaign'[b[1]] \in {"ACTIVE", campaign[b[1]]}
            BY <1>6, <1>7
        <3> QED
            BY <2>1, <3>1, <3>2, StaysOnCourse DEF UnderWay
    <2>2. CASE b = a /\ hold'[a] = "ACTIVE" /\ campaign' = Launched(r)
        BY <1>7, <2>2 DEF OnCourse, FINISHED_CAMPAIGN
    <2> QED
        BY <1>6, <2>1, <2>2
<1> QED
    BY <1>1, <1>3, <1>8, WorkGoesOn

(* Every step keeps live work on its course.                               *)
LEMMA SerialStep ==
    ASSUME OneAtATime, TypeOK, Founded, SerialIInv, [Next]_vars
    PROVE  SerialIInv'
<1>1. CASE UNCHANGED vars
    BY <1>1 DEF vars, rows, SerialIInv, Busy, Current, OnCourse, Pending, Writes, Live
<1>2. ASSUME NEW r \in Requests, Write(r) PROVE SerialIInv'
    BY <1>2, StatusOK, QuietOK, VehiclesOK, RowsOK, FittingOK, SignOffOK DEF Write
<1>3. ASSUME NEW r \in Requests, Crash(r) PROVE SerialIInv'
    <2>1. /\ Busy(r) /\ UNCHANGED <<campaign, hold, installation>>
          /\ \A q \in Requests \ {r} : requests'[q] = requests[q]
          /\ requests'[r] = Idle
        BY <1>3 DEF Crash, Finish, rows, Busy, TypeOK
    <2>2. Current(r) /\ requests[r] \in Request /\ Unwritten(r)
        BY <1>3, <2>1 DEF SerialIInv, Busy, TypeOK, Crash, OneAtATime
    <2>3. ~Writes(r, "awaiting") /\ ~Writes(r, "vehicles")
        BY <2>1, <2>2 DEF Unwritten, Writes, Current, Founded, Shaped, Busy, Releases
    <2>4. \A q \in Requests \ {r} : requests[q] = Idle
        BY <2>1, OneIsAtWork
    <2>5. \A c : ~Pending(c, "awaiting") /\ ~Pending(c, "vehicles")
        BY <2>1, <2>3, OneIsAtWork
    <2>6. ASSUME NEW a \in Assignments, Live(a)' PROVE OnCourse(a)'
        BY <2>1, <2>5, <2>6 DEF SerialIInv, OnCourse, Live
    <2> QED
        BY <2>1, <2>4, <2>6, WorkGoesOn
<1>4. ASSUME NEW c \in CampaignIds, DayPasses(c) PROVE SerialIInv'
    BY <1>4 DEF DayPasses, SerialIInv, Busy, Current, OnCourse, Pending, Writes, Live
<1> QED
    BY <1>1, <1>2, <1>3, <1>4, SerialBegins DEF Next

(* With one request at a time, about live work, that does not die half-way.*)
LEMMA SerialInvariance == ASSUME OneAtATime PROVE Spec => [](IInv /\ SerialIInv)
<1>1. Init => SerialIInv
    BY DEF Init, SerialIInv, Busy, Live, LIVE_ASSIGNMENT
<1>2. IInv /\ SerialIInv /\ [Next]_vars => (IInv /\ SerialIInv)'
    BY NextIInv, SerialStep DEF IInv
<1> QED
    BY <1>1, <1>2, InitIInv, PTL DEF Spec

-----------------------------------------------------------------------------
(* Live work between two requests.                                         *)
LEMMA IdleOnCourse ==
    ASSUME TypeOK, SerialIInv, \A r \in Requests : requests[r] = Idle,
           NEW a \in Assignments, Live(a)
    PROVE  /\ campaign[a[1]] \in UnderWay
           /\ hold[a] = "ACTIVE" => campaign[a[1]] # "AWAITING_INSTALLATION"
           /\ hold[a] # "ACTIVE" => installation[a] \notin {"NONE", "APPROVED"}
BY NobodyAtWork, NothingPending DEF SerialIInv, OnCourse, FINISHED_CAMPAIGN

(* A finished campaign holds no vehicle: whatever ended it,                *)
(* releaseVehicles took every live assignment along, and nothing becomes   *)
(* live on it afterwards.                                                  *)
THEOREM EndReleases == ASSUME OneAtATime PROVE Spec => []FinishedHoldsNothing
<1>1. IInv /\ SerialIInv => FinishedHoldsNothing
    BY IdleOnCourse DEF IInv, FinishedHoldsNothing, UnderWay, FINISHED_CAMPAIGN
<1> QED
    BY <1>1, SerialInvariance, PTL

(* AC-06.10: a vehicle on the road is on a campaign that was launched, by  *)
(* its own sign-off, by one before it or by markInstalledForAdmin.         *)
THEOREM RoadIsLaunched == ASSUME OneAtATime PROVE Spec => []OnTheRoadIsLaunched
<1>1. IInv /\ SerialIInv => OnTheRoadIsLaunched
    BY IdleOnCourse DEF IInv, OnTheRoadIsLaunched, UnderWay, Live, LIVE_ASSIGNMENT
<1> QED
    BY <1>1, SerialInvariance, PTL

(* A live assignment of a campaign that is not over is on the road or on   *)
(* exactly one of the two queues (fittingQueue, reviewQueue): no wrap      *)
(* waits on a step nobody can see.                                         *)
THEOREM WrapsHaveAScreen == ASSUME OneAtATime PROVE Spec => []EveryWrapHasAScreen
<1>1. ASSUME IInv, SerialIInv, \A r \in Requests : requests[r] = Idle,
             NEW a \in Assignments, Live(a), hold[a] # "ACTIVE"
      PROVE  (a \in FittingQueue) # (a \in ReviewQueue)
    <2>1. installation[a] \in {"SCHEDULED", "IN_PROGRESS", "SUBMITTED", "REJECTED"}
        BY <1>1, IdleOnCourse DEF IInv, TypeOK, InstallationStatus
    <2> QED
        BY <1>1, <2>1 DEF FittingQueue, ReviewQueue
<1>2. IInv /\ SerialIInv => EveryWrapHasAScreen
    BY <1>1 DEF EveryWrapHasAScreen
<1> QED
    BY <1>2, SerialInvariance, PTL

(* A driver leaves a campaign by its end, or is taken off one that is not  *)
(* over.                                                                   *)
LEMMA LeavesByTheEnd ==
    ASSUME OneAtATime, TypeOK, SerialIInv, [Next]_vars,
           NEW a \in Assignments, Live(a), ~Live(a)'
    PROVE  hold'[a] = "ENDED" \/ campaign'[a[1]] \notin FINISHED_CAMPAIGN
<1>1. CASE UNCHANGED hold
    BY <1>1 DEF Live
<1>2. ASSUME NEW r \in Requests, WriteVehicles(r) PROVE hold'[a] = "ENDED"
    <2>1. hold'[a] \in {"ACTIVE", "ENDED", hold[a]}
        BY <1>2 DEF WriteVehicles
    <2> QED
        BY <2>1 DEF Live, LIVE_ASSIGNMENT
<1>3. ASSUME NEW r \in Requests, WriteRows(r) PROVE hold'[a] = "ENDED"
    <2>1. hold'[a] \in {"ASSIGNED", "ENDED", hold[a]}
        BY <1>3 DEF WriteRows
    <2> QED
        BY <2>1 DEF Live, LIVE_ASSIGNMENT
<1>4. ASSUME NEW r \in Requests, WriteHold(r) PROVE campaign'[a[1]] \notin FINISHED_CAMPAIGN
    <2>1. Busy(r) /\ requests[r].next = "hold"
        BY <1>4, WriterAlone DEF Write, WriteHold, Writes
    <2>2. campaign[a[1]] \in UnderWay
        BY <2>1, WhileWriting
    <2> QED
        BY <1>4, <2>2 DEF WriteHold, UnderWay, FINISHED_CAMPAIGN
<1>5. ASSUME NEW r \in Requests, WriteApproved(r) PROVE FALSE
    <2>1. hold'[a] \in {"ACTIVE", hold[a]}
        BY <1>5 DEF WriteApproved, TypeOK
    <2> QED
        BY <2>1 DEF Live, LIVE_ASSIGNMENT
<1> QED
    BY <1>1, <1>2, <1>3, <1>4, <1>5
       DEF Next, Asked, BeginStep, BeginEdit, BeginAssign, BeginUnassign, BeginAccept,
           BeginPhoto, BeginSubmit, BeginApprove, BeginReject, Begin, Write, WriteStatus,
           WriteDates, WriteAwaiting, WritePhoto, WriteSubmitted, WriteRejected, Crash,
           DayPasses, rows, vars

(* The driver's screen empties only where the driver is taken off a        *)
(* campaign that runs on: a campaign that ends stays there as completed.   *)
THEOREM ScreenOutlivesTheEnd == ASSUME OneAtATime PROVE Spec => NoCampaignVanishes
<1> DEFINE Stays ==
        \A v \in Vehicles : CarriedBy(v) # {} /\ Screen(v)' = {} =>
            \E a \in CarriedBy(v) : ~Live(a)' /\ campaign'[a[1]] \notin FINISHED_CAMPAIGN
<1>1. ASSUME OneAtATime, IInv, SerialIInv, [Next]_vars PROVE Stays
    <2> SUFFICES ASSUME NEW v \in Vehicles, NEW a \in CarriedBy(v), Screen(v)' = {}
                 PROVE  ~Live(a)' /\ campaign'[a[1]] \notin FINISHED_CAMPAIGN
        OBVIOUS
    <2>1. a \in Assignments /\ a[2] = v /\ Live(a)
        BY DEF CarriedBy
    <2>2. CarriedBy(v)' = {} /\ Closed(v)' = {}
        BY DEF Screen
    <2>3. ~Live(a)'
        BY <2>1, <2>2 DEF CarriedBy
    <2>4. hold'[a] # "ENDED" \/ campaign'[a[1]] \notin FINISHED_CAMPAIGN
        BY <2>1, <2>2 DEF Closed
    <2> QED
        BY <1>1, <2>1, <2>3, <2>4, LeavesByTheEnd DEF IInv
<1>2. IInv /\ SerialIInv /\ [Next]_vars => [Stays]_vars
    BY <1>1
<1> QED
    BY <1>2, SerialInvariance, PTL DEF Spec, NoCampaignVanishes
=============================================================================
