----------------------------- MODULE Onboarding -----------------------------
(***************************************************************************)
(* Taking a driver on (drivers.service.ts): the driver's own state, the    *)
(* vehicles and the rows of their history, the papers of both, and the     *)
(* removal of the driver.                                                  *)
(*                                                                         *)
(* A request of the back office loads a row, decides, and saves what it    *)
(* changed on its copy; an upload files a paper in one transaction and     *)
(* then, after the commit, works out from every paper whether the driver   *)
(* has handed in the set. What a row describes (plates, names, pins,       *)
(* addresses, payouts, photos, reasons) is left out, and with it the calls *)
(* that change nothing else.                                               *)
(***************************************************************************)
EXTENDS Integers, Sequences

CONSTANTS
    OwnKinds,       \* required_documents with owner DRIVER
    VehicleKinds,   \* required_documents with owner VEHICLE
    Lapsing,        \* those with an expiry date
    Reviewers,      \* requests of the back office that can be under way at once
    Uploads,        \* uploads that can
    MaxVehicles, MaxPapers, MaxTurns   \* how often things happen

ASSUME OnboardingAssumption ==
    /\ OwnKinds \cap VehicleKinds = {}
    /\ Lapsing \subseteq OwnKinds \cup VehicleKinds
    /\ MaxVehicles \in Nat \ {0}
    /\ {MaxPapers, MaxTurns} \subseteq Nat

VARIABLES
    driver,         \* the row of drivers and the status of the driver's login
    vehicles,       \* the states of the rows of vehicles, oldest first
    vehicleEvents,  \* [vehicle -> its rows of vehicle_status_events]
    documents,      \* documents, in the order they were filed
    desks,          \* [Reviewers -> a request of the back office]
    uploads,        \* [Uploads -> an upload]
    turns,          \* how many requests of the back office and expiries there were
    overruled       \* history: operations sent the driver back, or took a
                    \* document they had refused

onboardingVars == <<driver, vehicles, vehicleEvents, documents, desks, uploads, turns, overruled>>

Kinds == OwnKinds \cup VehicleKinds

DriverStatus == {"PENDING", "DOCUMENTS_SUBMITTED", "APPROVED", "SUSPENDED"}

VehicleStatus == {"PENDING", "DOCUMENTS_VERIFIED", "APPROVED", "SUSPENDED", "REJECTED",
                  "REMOVED"}

PaperStates == {"UPLOADED", "VERIFIED", "REJECTED"}

(* of: 0 the driver, otherwise which vehicle.                              *)
Document == [kind : Kinds, of : 0 .. MaxVehicles, status : PaperStates, superseded : BOOLEAN,
             age : {"fresh", "expiring", "expired"}]

AtHome == [at |-> "home"]

DriverMoves == {"approve", "reject", "suspend", "reinstate"}
VehicleMoves == {"verify", "approve", "reject", "suspend", "reinstate"}

OnboardingTypeOK ==
    /\ driver \in [status : DriverStatus, deleted : BOOLEAN, login : {"ACTIVE", "DISABLED"}]
    /\ vehicles \in Seq(VehicleStatus) /\ Len(vehicles) <= MaxVehicles
    /\ DOMAIN vehicleEvents = DOMAIN vehicles
    /\ \A v \in DOMAIN vehicles :
          vehicleEvents[v] \in Seq([from : VehicleStatus \cup {"none"}, to : VehicleStatus])
    /\ documents \in Seq(Document) /\ Len(documents) <= MaxPapers
    /\ \A c \in Reviewers : desks[c] \in {AtHome} \cup
          [at : {"check", "save"}, of : {"driver"}, does : DriverMoves, saw : DriverStatus] \cup
          [at : {"check", "save"}, of : {"vehicle"}, does : VehicleMoves,
           vehicle : DOMAIN vehicles, saw : VehicleStatus] \cup
          [at : {"save"}, of : {"paper"}, does : {"verify", "reject"},
           paper : DOMAIN documents, saw : PaperStates] \cup
          [at : {"save"}, of : {"new"}] \cup
          [at : {"list"}, of : {"removal"}] \cup
          [at : {"save"}, of : {"removal"}, saw : Seq(VehicleStatus)]
    /\ \A u \in Uploads : uploads[u] \in {AtHome} \cup
          [at : {"insert"}, kind : Kinds, of : 0 .. MaxVehicles, saw : 0 .. MaxPapers] \cup
          [at : {"driver", "own", "save"}] \cup
          [at : {"vehicle"}, first : 0 .. MaxVehicles, complete : BOOLEAN]
    /\ turns \in 0 .. MaxTurns
    /\ overruled \in BOOLEAN

(* createDriver, with or without a vehicle, in one transaction.            *)
OnboardingInit ==
    /\ driver = [status |-> "PENDING", deleted |-> FALSE, login |-> "ACTIVE"]
    /\ \/ vehicles = << >> /\ vehicleEvents = << >>
       \/ /\ vehicles = <<"PENDING">>
          /\ vehicleEvents = << <<[from |-> "none", to |-> "PENDING"]>> >>
    /\ documents = << >>
    /\ desks = [c \in Reviewers |-> AtHome]
    /\ uploads = [u \in Uploads |-> AtHome]
    /\ turns = 0 /\ overruled = FALSE

-----------------------------------------------------------------------------
(* The papers.                                                             *)
Current(k, o) == {p \in DOMAIN documents :
                     documents[p].kind = k /\ documents[p].of = o /\ ~documents[p].superseded}

PaperStatus(k, o) ==
    IF Current(k, o) = {} THEN "missing"
    ELSE LET p == documents[CHOOSE p \in Current(k, o) : TRUE]
         IN  IF p.status = "REJECTED" THEN "rejected"
             ELSE IF p.status = "UPLOADED" THEN "uploaded"
             ELSE IF p.age # "fresh" THEN p.age ELSE "verified"

AllVerified(kinds, o) == \A k \in kinds : PaperStatus(k, o) = "verified"

HandedIn(kinds, o) == \A k \in kinds : PaperStatus(k, o) \notin {"missing", "rejected"}

(* vehiclesFor()[0].                                                       *)
FirstVehicle == IF vehicles = << >> THEN 0 ELSE 1

(* registerDocument, up to the current row it finds. The driver's app files*)
(* a vehicle's paper against the first vehicle, operations against any.    *)
BeginUpload(u, k, o) ==
    LET found == Current(k, o)
    IN  /\ uploads[u] = AtHome
        /\ Len(documents) < MaxPapers
        /\ IF k \in OwnKinds THEN o = 0 /\ ~driver.deleted ELSE o \in DOMAIN vehicles
        /\ uploads' = [uploads EXCEPT ![u] =
              [at |-> "insert", kind |-> k, of |-> o,
               saw |-> IF found = {} THEN 0 ELSE CHOOSE p \in found : TRUE]]
        /\ UNCHANGED <<driver, vehicles, vehicleEvents, documents, desks, turns, overruled>>

(* Faulty: a vehicle's paper counts for nobody.                            *)
OwnPapersOnly(o) == o = 0

(* owningDriverId: a vehicle's paper counts towards its driver's set.      *)
OwningDriver(o) == o = 0 \/ o \in DOMAIN vehicles

(* The row found is locked and only one row of an owner and a kind may be  *)
(* current: the insert of whoever comes second fails, the request with it. *)
Insert(u) ==
    LET me == uploads[u]
        old == [p \in DOMAIN documents |->
                  [documents[p] EXCEPT !.superseded = @ \/ p = me.saw]]
        new == [kind |-> me.kind, of |-> me.of, status |-> "UPLOADED", superseded |-> FALSE,
                age |-> "fresh"]
    IN  /\ me.at = "insert"
        /\ IF Current(me.kind, me.of) = {me.saw} \ {0} /\ Len(documents) < MaxPapers
           THEN /\ documents' = Append(old, new)
                /\ uploads' = [uploads EXCEPT ![u] =
                      IF OwningDriver(me.of) THEN [at |-> "driver"] ELSE AtHome]
           ELSE uploads' = [uploads EXCEPT ![u] = AtHome] /\ UNCHANGED documents
        /\ UNCHANGED <<driver, vehicles, vehicleEvents, desks, turns, overruled>>

(* refreshSubmissionState.                                                 *)
LoadDriver(u) ==
    /\ uploads[u].at = "driver"
    /\ uploads' = [uploads EXCEPT ![u] =
          IF driver.status = "PENDING" THEN [at |-> "own"] ELSE AtHome]
    /\ UNCHANGED <<driver, vehicles, vehicleEvents, documents, desks, turns, overruled>>

ReadOwn(u) ==
    /\ uploads[u].at = "own"
    /\ uploads' = [uploads EXCEPT ![u] =
          IF driver.deleted THEN AtHome
          ELSE [at |-> "vehicle", first |-> FirstVehicle, complete |-> HandedIn(OwnKinds, 0)]]
    /\ UNCHANGED <<driver, vehicles, vehicleEvents, documents, desks, turns, overruled>>

ReadVehicle(u) ==
    LET me == uploads[u]
        complete == me.complete /\ (me.first = 0 \/ HandedIn(VehicleKinds, me.first))
    IN  /\ me.at = "vehicle"
        /\ uploads' = [uploads EXCEPT ![u] = IF complete THEN [at |-> "save"] ELSE AtHome]
        /\ UNCHANGED <<driver, vehicles, vehicleEvents, documents, desks, turns, overruled>>

SaveSubmitted(u) ==
    /\ uploads[u].at = "save"
    /\ driver' = [driver EXCEPT !.status = "DOCUMENTS_SUBMITTED"]
    /\ uploads' = [uploads EXCEPT ![u] = AtHome]
    /\ UNCHANGED <<vehicles, vehicleEvents, documents, desks, turns, overruled>>

PaperAges(p) ==
    /\ documents[p].kind \in Lapsing /\ documents[p].age # "expired"
    /\ turns < MaxTurns
    /\ documents' = [documents EXCEPT ![p].age = IF @ = "fresh" THEN "expiring" ELSE "expired"]
    /\ turns' = turns + 1
    /\ UNCHANGED <<driver, vehicles, vehicleEvents, desks, uploads, overruled>>

-----------------------------------------------------------------------------
(* The review.                                                             *)
FreeClerk(c, request) ==
    /\ desks[c] = AtHome
    /\ turns < MaxTurns
    /\ desks' = [desks EXCEPT ![c] = request]
    /\ turns' = turns + 1
    /\ UNCHANGED <<driver, vehicles, vehicleEvents, documents, uploads, overruled>>

BeginPaper(c, does, p) ==
    /\ does = "verify" => ~documents[p].superseded /\ documents[p].age # "expired"
    /\ FreeClerk(c, [at |-> "save", of |-> "paper", does |-> does, paper |-> p,
                     saw |-> documents[p].status])

(* A column the copy already has at its new value is not written.          *)
SavePaper(c) ==
    LET me == desks[c]
        to == IF me.does = "verify" THEN "VERIFIED" ELSE "REJECTED"
    IN  /\ me.at = "save" /\ me.of = "paper"
        /\ documents' = [documents EXCEPT ![me.paper].status = IF to = me.saw THEN @ ELSE to]
        /\ overruled' =
              (overruled \/ (to = "VERIFIED" /\ documents[me.paper].status = "REJECTED"))
        /\ desks' = [desks EXCEPT ![c] = AtHome]
        /\ UNCHANGED <<driver, vehicles, vehicleEvents, uploads, turns>>

BeginDriver(c, does) ==
    /\ ~driver.deleted
    /\ does = "reinstate" => driver.status = "SUSPENDED"
    /\ FreeClerk(c, [at |-> IF does = "approve" THEN "check" ELSE "save", of |-> "driver",
                     does |-> does, saw |-> driver.status])

BeginVehicle(c, does, v) ==
    FreeClerk(c, [at |-> IF does = "verify" THEN "check" ELSE "save", of |-> "vehicle",
                  does |-> does, vehicle |-> v, saw |-> vehicles[v]])

(* The checklist of approveDriver and verifyVehicleDocuments.              *)
Checklist(me) == IF me.of = "driver" THEN AllVerified(OwnKinds, 0)
                 ELSE AllVerified(VehicleKinds, me.vehicle)

Check(c) ==
    /\ desks[c].at = "check"
    /\ desks' = [desks EXCEPT ![c] = IF Checklist(@) THEN [@ EXCEPT !.at = "save"]
                                       ELSE AtHome]
    /\ UNCHANGED <<driver, vehicles, vehicleEvents, documents, uploads, turns, overruled>>

Becomes == [approve |-> "APPROVED", reject |-> "PENDING", suspend |-> "SUSPENDED",
            reinstate |-> "APPROVED"]

SaveDriver(c) ==
    LET me == desks[c]
        to == Becomes[me.does]
    IN  /\ me.at = "save" /\ me.of = "driver"
        /\ driver' = [driver EXCEPT !.status = IF to = me.saw THEN @ ELSE to]
        /\ overruled' = (overruled \/ me.does = "reject")
        /\ desks' = [desks EXCEPT ![c] = AtHome]
        /\ UNCHANGED <<vehicles, vehicleEvents, documents, uploads, turns>>

-----------------------------------------------------------------------------
(* The vehicles.                                                           *)
Transitions ==
    [PENDING |-> {"DOCUMENTS_VERIFIED", "REJECTED"},
     DOCUMENTS_VERIFIED |-> {"APPROVED", "REJECTED", "PENDING"},
     APPROVED |-> {"SUSPENDED", "REJECTED", "PENDING"},
     SUSPENDED |-> {"APPROVED"}, REJECTED |-> {"PENDING"}, REMOVED |-> {}]

VehicleBecomes == [verify |-> "DOCUMENTS_VERIFIED", approve |-> "APPROVED",
                   reject |-> "REJECTED", suspend |-> "SUSPENDED", reinstate |-> "APPROVED"]

(* moveVehicle: judged and recorded by the copy the request loaded.        *)
MoveVehicle(c) ==
    LET me == desks[c]
        v == me.vehicle
        to == VehicleBecomes[me.does]
    IN  /\ me.at = "save" /\ me.of = "vehicle"
        /\ IF to \in Transitions[me.saw]
           THEN /\ vehicles' = [vehicles EXCEPT ![v] = to]
                /\ vehicleEvents' =
                      [vehicleEvents EXCEPT ![v] = Append(@, [from |-> me.saw, to |-> to])]
           ELSE UNCHANGED <<vehicles, vehicleEvents>>
        /\ desks' = [desks EXCEPT ![c] = AtHome]
        /\ UNCHANGED <<driver, documents, uploads, turns, overruled>>

BeginAdd(c) ==
    /\ ~driver.deleted
    /\ Len(vehicles) < MaxVehicles
    /\ FreeClerk(c, [at |-> "save", of |-> "new"])

AddVehicle(c) ==
    /\ desks[c].at = "save" /\ desks[c].of = "new"
    /\ Len(vehicles) < MaxVehicles
    /\ vehicles' = Append(vehicles, "PENDING")
    /\ vehicleEvents' = Append(vehicleEvents, <<[from |-> "none", to |-> "PENDING"]>>)
    /\ desks' = [desks EXCEPT ![c] = AtHome]
    /\ UNCHANGED <<driver, documents, uploads, turns, overruled>>

-----------------------------------------------------------------------------
(* The removal.                                                            *)
BeginRemoval(c) ==
    /\ ~driver.deleted
    /\ FreeClerk(c, [at |-> "list", of |-> "removal"])

ListVehicles(c) ==
    /\ desks[c].at = "list"
    /\ desks' = [desks EXCEPT ![c] = [at |-> "save", of |-> "removal",
          saw |-> vehicles]]
    /\ UNCHANGED <<driver, vehicles, vehicleEvents, documents, uploads, turns, overruled>>

(* Faulty: the state is read after it was overwritten.                     *)
WasRemoved(saw) == "REMOVED"

WasAt(saw) == saw

RemoveDriver(c) ==
    LET saw == desks[c].saw
        goes == {v \in DOMAIN saw : saw[v] # "REMOVED"}
    IN  /\ desks[c].at = "save" /\ desks[c].of = "removal"
        /\ vehicles' = [v \in DOMAIN vehicles |->
              IF v \in goes THEN "REMOVED" ELSE vehicles[v]]
        /\ vehicleEvents' = [v \in DOMAIN vehicleEvents |->
              IF v \in goes
              THEN Append(vehicleEvents[v], [from |-> WasAt(saw[v]), to |-> "REMOVED"])
              ELSE vehicleEvents[v]]
        /\ driver' = [driver EXCEPT !.deleted = TRUE, !.login = "DISABLED"]
        /\ desks' = [desks EXCEPT ![c] = AtHome]
        /\ UNCHANGED <<documents, uploads, turns, overruled>>

-----------------------------------------------------------------------------
OnboardingNext ==
    \/ \E u \in Uploads :
          \/ \E k \in Kinds, o \in 0 .. MaxVehicles : BeginUpload(u, k, o)
          \/ Insert(u)
          \/ LoadDriver(u) \/ ReadOwn(u) \/ ReadVehicle(u) \/ SaveSubmitted(u)
    \/ \E p \in DOMAIN documents : PaperAges(p)
    \/ \E c \in Reviewers :
          \/ \E does \in {"verify", "reject"}, p \in DOMAIN documents : BeginPaper(c, does, p)
          \/ \E does \in DriverMoves : BeginDriver(c, does)
          \/ \E does \in VehicleMoves, v \in DOMAIN vehicles :
                BeginVehicle(c, does, v)
          \/ BeginAdd(c) \/ BeginRemoval(c)
          \/ Check(c) \/ SavePaper(c) \/ SaveDriver(c) \/ MoveVehicle(c)
          \/ AddVehicle(c) \/ ListVehicles(c) \/ RemoveDriver(c)

OnboardingSpec == OnboardingInit /\ [][OnboardingNext]_onboardingVars

-----------------------------------------------------------------------------
(* AC-04.2: a driver moves out of PENDING once the whole set is in. With   *)
(* no upload under way, a driver nobody sent back is PENDING only while a  *)
(* paper is missing or refused: of two uploads that end at once the one    *)
(* that commits last sees both ("this runs after the insert has committed  *)
(* rather than inside it").                                                *)
CompleteSetIsNoticed ==
    driver.status = "PENDING" /\ ~driver.deleted /\ ~overruled
        /\ documents # << >> /\ (\A u \in Uploads : uploads[u] = AtHome)
        => \/ ~HandedIn(OwnKinds, 0)
           \/ vehicles # << >> /\ ~HandedIn(VehicleKinds, 1)

(* AC-05.3: "Disputes about when a vehicle became billable are settled by  *)
(* reading rows". The rows of every vehicle form one chain from its        *)
(* creation to the state it is in, through turns, suspensions and the      *)
(* removal of its driver. With two desks at once it is broken.             *)
VehicleHistoryAgrees ==
    \A v \in DOMAIN vehicles :
        LET events == vehicleEvents[v]
        IN  /\ events[1].from = "none"
            /\ \A e \in 2 .. Len(events) : events[e].from = events[e - 1].to
            /\ events[Len(events)].to = vehicles[v]

(* "Approval is refused unless the driver's own mandatory documents are    *)
(* verified" (the comment of approveDriver): of an APPROVED driver every   *)
(* mandatory document was at least handed in. Reinstating a driver who was *)
(* suspended while PENDING approves them with nothing on file.             *)
ApprovedHadPapers ==
    driver.status = "APPROVED" => \A k \in OwnKinds : PaperStatus(k, 0) # "missing"
=============================================================================
