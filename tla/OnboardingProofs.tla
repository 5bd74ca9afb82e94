-------------------------- MODULE OnboardingProofs --------------------------
(***************************************************************************)
(* Theorems about what drivers hand in and operations review: Onboarding,  *)
(* Records and BrandingProofs, for any papers, back-office requests,       *)
(* uploads, screens, desks, assignments, angles and bounds. They share no  *)
(* state.                                                                  *)
(***************************************************************************)
EXTENDS Onboarding, Records, BrandingProofs, SequenceTheorems, TLAPS

(* A row of vehicle_status_events.                                         *)
VehicleEvent == [from : VehicleStatus \cup {"none"}, to : VehicleStatus]

(* What a desk may be at: a request names rows that exist.                 *)
DeskStates == {AtHome} \cup
    [at : {"check", "save"}, of : {"driver"}, does : DriverMoves, saw : DriverStatus] \cup
    [at : {"check", "save"}, of : {"vehicle"}, does : VehicleMoves,
     vehicle : DOMAIN vehicles, saw : VehicleStatus] \cup
    [at : {"save"}, of : {"paper"}, does : {"verify", "reject"},
     paper : DOMAIN documents, saw : PaperStates] \cup
    [at : {"save"}, of : {"new"}] \cup
    [at : {"list"}, of : {"removal"}] \cup
    [at : {"save"}, of : {"removal"}, saw : Seq(VehicleStatus)]

(* What an upload may be at: it files for the driver or for a vehicle that *)
(* exists, and looks at no vehicle or at the first.                        *)
UploadStates == {AtHome} \cup
    [at : {"insert"}, kind : Kinds, of : {0} \cup DOMAIN vehicles, saw : 0 .. MaxPapers] \cup
    [at : {"driver", "own", "save"}] \cup
    [at : {"vehicle"}, first : {0} \cup ({1} \cap DOMAIN vehicles), complete : BOOLEAN]

(* The driver and the login as the tables hold them.                       *)
DriverRow == [status : DriverStatus, deleted : BOOLEAN, login : {"ACTIVE", "DISABLED"}]

(* Every row, and every copy of a row a request holds, is of the tables.   *)
OnboardingRows ==
    /\ driver \in DriverRow
    /\ vehicles \in Seq(VehicleStatus) /\ Len(vehicles) <= MaxVehicles
    /\ vehicleEvents \in Seq(Seq(VehicleEvent)) /\ Len(vehicleEvents) = Len(vehicles)
    /\ documents \in Seq(Document) /\ Len(documents) <= MaxPapers
    /\ turns \in 0 .. MaxTurns /\ overruled \in BOOLEAN
    /\ desks \in [Reviewers -> DeskStates]
    /\ uploads \in [Uploads -> UploadStates]

(* The bounds of the rows are those of the type invariant.                 *)
LEMMA OnboardingRowsTyped == OnboardingRows => OnboardingTypeOK
<1> SUFFICES ASSUME OnboardingRows PROVE OnboardingTypeOK
    OBVIOUS
<1>1. /\ DOMAIN vehicles = 1 .. Len(vehicles) /\ DOMAIN vehicleEvents = 1 .. Len(vehicles)
      /\ \A v \in DOMAIN vehicles : vehicleEvents[v] \in Seq(VehicleEvent)
    BY LenProperties, ElementOfSeq DEF OnboardingRows
<1>2. \A c \in Reviewers : desks[c] \in DeskStates
    BY DEF OnboardingRows
<1>3. {0} \cup DOMAIN vehicles \subseteq 0 .. MaxVehicles
    BY <1>1, OnboardingAssumption DEF OnboardingRows
<1>4. UploadStates \subseteq {AtHome} \cup
          [at : {"insert"}, kind : Kinds, of : 0 .. MaxVehicles, saw : 0 .. MaxPapers] \cup
          [at : {"driver", "own", "save"}] \cup
          [at : {"vehicle"}, first : 0 .. MaxVehicles, complete : BOOLEAN]
    BY <1>3 DEF UploadStates
<1>5. \A u \in Uploads : uploads[u] \in UploadStates
    BY DEF OnboardingRows
<1> QED
    BY <1>1, <1>2, <1>4, <1>5
       DEF OnboardingTypeOK, OnboardingRows, DriverRow, VehicleEvent, DeskStates

(* A driver is onboarded with a vehicle or without.                        *)
LEMMA OnboardingInitOK == OnboardingInit => OnboardingRows
<1> SUFFICES ASSUME OnboardingInit PROVE OnboardingRows
    OBVIOUS
<1>1. /\ driver \in DriverRow /\ documents = << >>
      /\ turns \in 0 .. MaxTurns /\ overruled \in BOOLEAN
      /\ desks \in [Reviewers -> DeskStates]
      /\ uploads \in [Uploads -> UploadStates]
    <2>1. driver \in DriverRow
        BY DEF OnboardingInit, DriverRow, DriverStatus
    <2>2. AtHome \in DeskStates /\ AtHome \in UploadStates
        BY DEF DeskStates, UploadStates
    <2>3. turns = 0 /\ 0 \in 0 .. MaxTurns
        BY OnboardingAssumption DEF OnboardingInit
    <2> QED
        BY <2>1, <2>2, <2>3 DEF OnboardingInit
<1>2. [from |-> "none", to |-> "PENDING"] \in VehicleEvent /\ "PENDING" \in VehicleStatus
    BY DEF VehicleEvent, VehicleStatus
<1>3. /\ vehicles \in Seq(VehicleStatus) /\ Len(vehicles) <= MaxVehicles
      /\ vehicleEvents \in Seq(Seq(VehicleEvent)) /\ Len(vehicleEvents) = Len(vehicles)
    <2> DEFINE first == [from |-> "none", to |-> "PENDING"]
    <2>1. first \in VehicleEvent
        BY <1>2
    <2> HIDE DEF first
    <2>2. << <<first>> >> \in Seq(Seq(VehicleEvent)) /\ Len(<< <<first>> >>) = 1
        BY <2>1
    <2>3. <<"PENDING">> \in Seq(VehicleStatus) /\ Len(<<"PENDING">>) = 1
        BY <1>2
    <2>4. \/ vehicles = << >> /\ vehicleEvents = << >>
          \/ vehicles = <<"PENDING">> /\ vehicleEvents = << <<first>> >>
        BY DEF OnboardingInit, first
    <2>5. << >> \in Seq(VehicleStatus) /\ << >> \in Seq(Seq(VehicleEvent)) /\ Len(<< >>) = 0
        BY EmptySeq
    <2>6. CASE vehicles = << >> /\ vehicleEvents = << >>
        BY <2>5, <2>6, OnboardingAssumption
    <2>7. CASE vehicles = <<"PENDING">> /\ vehicleEvents = << <<first>> >>
        BY <2>2, <2>3, <2>7, OnboardingAssumption
    <2> QED
        BY <2>4, <2>6, <2>7
<1> QED
    BY <1>1, <1>3, OnboardingAssumption DEF OnboardingRows

(* No row is deleted, so what a request names stays there.                 *)
LEMMA OnlyGrows ==
    ASSUME DOMAIN vehicles \subseteq DOMAIN vehicles', DOMAIN documents \subseteq DOMAIN documents'
    PROVE  DeskStates \subseteq DeskStates' /\ UploadStates \subseteq UploadStates'
BY DEF DeskStates, UploadStates

(* The steps of an upload, but for the one that files the paper.           *)
LEMMA UploadStepOK ==
    ASSUME OnboardingRows, NEW u \in Uploads,
           \/ \E k \in Kinds, o \in 0 .. MaxVehicles : BeginUpload(u, k, o)
           \/ LoadDriver(u) \/ ReadOwn(u) \/ ReadVehicle(u) \/ SaveSubmitted(u)
    PROVE  OnboardingRows'
<1>1. /\ UNCHANGED <<vehicles, vehicleEvents, documents, desks, turns, overruled>>
      /\ driver' \in DriverRow
    BY DEF BeginUpload, LoadDriver, ReadOwn, ReadVehicle, SaveSubmitted, OnboardingRows,
       DriverRow, DriverStatus
<1>2. DeskStates' = DeskStates /\ UploadStates' = UploadStates
    BY <1>1 DEF DeskStates, UploadStates
<1> SUFFICES \E x \in UploadStates : uploads' = [uploads EXCEPT ![u] = x]
    BY <1>1, <1>2 DEF OnboardingRows
<1> AtHome \in UploadStates
    BY DEF UploadStates
<1>3. ASSUME NEW k \in Kinds, NEW o \in 0 .. MaxVehicles, BeginUpload(u, k, o)
      PROVE  \E x \in UploadStates : uploads' = [uploads EXCEPT ![u] = x]
    <2> DEFINE found == Current(k, o)
               p == IF found = {} THEN 0 ELSE CHOOSE q \in found : TRUE
    <2>1. found \subseteq DOMAIN documents
        BY DEF Current
    <2>2. DOMAIN documents \subseteq 0 .. MaxPapers
        BY OnboardingAssumption DEF OnboardingRows
    <2>3. p \in 0 .. MaxPapers
        BY <2>1, <2>2, OnboardingAssumption
    <2>4. o \in {0} \cup DOMAIN vehicles
        BY <1>3 DEF BeginUpload
    <2>5. [at |-> "insert", kind |-> k, of |-> o, saw |-> p] \in UploadStates
        BY <2>3, <2>4 DEF UploadStates
    <2> QED
        BY <1>3, <2>5 DEF BeginUpload
<1>4. CASE LoadDriver(u)
    BY <1>4 DEF LoadDriver, UploadStates
<1>5. CASE ReadOwn(u)
    <2>1. FirstVehicle \in {0} \cup ({1} \cap DOMAIN vehicles)
        BY DEF FirstVehicle, OnboardingRows
    <2>2. HandedIn(OwnKinds, 0) \in BOOLEAN
        BY DEF HandedIn
    <2>3. [at |-> "vehicle", first |-> FirstVehicle, complete |-> HandedIn(OwnKinds, 0)]
              \in UploadStates
        BY <2>1, <2>2 DEF UploadStates
    <2> QED
        BY <1>5, <2>3 DEF ReadOwn
<1>6. CASE ReadVehicle(u) \/ SaveSubmitted(u)
    BY <1>6 DEF ReadVehicle, SaveSubmitted, UploadStates
<1> QED
    BY <1>3, <1>4, <1>5, <1>6

(* The step of an upload that files the paper.                             *)
LEMMA InsertOK == ASSUME OnboardingRows, NEW u \in Uploads, Insert(u) PROVE OnboardingRows'
<1> DEFINE me == uploads[u]
           new == [kind |-> me.kind, of |-> me.of, status |-> "UPLOADED", superseded |-> FALSE,
                   age |-> "fresh"]
           old == [p \in DOMAIN documents |->
                     [documents[p] EXCEPT !.superseded = @ \/ p = me.saw]]
<1>1. UNCHANGED <<driver, vehicles, vehicleEvents, desks, turns, overruled>>
    BY DEF Insert
<1>2. me \in UploadStates /\ me.at = "insert"
    BY DEF Insert, OnboardingRows
<1>3. me.kind \in Kinds /\ me.of \in {0} \cup DOMAIN vehicles
    BY <1>2 DEF UploadStates, AtHome
<1>4. new \in Document
    BY <1>3, OnboardingAssumption DEF Document, PaperStates, OnboardingRows
<1>5. old \in Seq(Document) /\ Len(old) = Len(documents)
    <2>1. DOMAIN documents = 1 .. Len(documents) /\ Len(documents) \in Nat
        BY DEF OnboardingRows
    <2>2. \A p \in DOMAIN documents : documents[p] \in Document
        BY <2>1 DEF OnboardingRows
    <2>3. \A p \in DOMAIN documents :
              [documents[p] EXCEPT !.superseded = @ \/ p = me.saw] \in Document
        BY <2>2 DEF Document
    <2>4. old \in [1 .. Len(documents) -> Document]
        BY <2>1, <2>3
    <2> QED
        BY <2>1, <2>4, SeqDef
<1>6. \/ UNCHANGED documents
      \/ documents' = Append(old, new) /\ Len(documents) < MaxPapers
    BY DEF Insert
<1>7. /\ documents' \in Seq(Document) /\ Len(documents') <= MaxPapers
      /\ DOMAIN documents \subseteq DOMAIN documents'
    <2>1. CASE UNCHANGED documents
        BY <2>1 DEF OnboardingRows
    <2> HIDE DEF new, old
    <2>2. CASE documents' = Append(old, new) /\ Len(documents) < MaxPapers
        <3>1. Append(old, new) \in Seq(Document) /\ Len(Append(old, new)) = Len(documents) + 1
            BY <1>4, <1>5
        <3>2. Len(documents) \in Nat /\ DOMAIN documents = 1 .. Len(documents)
            BY DEF OnboardingRows
        <3>3. DOMAIN Append(old, new) = 1 .. Len(documents) + 1
            BY <3>1
        <3> QED
            BY <2>2, <3>1, <3>2, <3>3, OnboardingAssumption
    <2> QED
        BY <1>6, <2>1, <2>2
<1>8. \E x \in UploadStates : uploads' = [uploads EXCEPT ![u] = x]
    BY DEF Insert, UploadStates
<1>9. DeskStates \subseteq DeskStates' /\ UploadStates \subseteq UploadStates'
    BY <1>1, <1>7, OnlyGrows
<1> QED
    BY <1>1, <1>7, <1>8, <1>9 DEF OnboardingRows

(* A verified paper expires.                                               *)
LEMMA PaperAgesOK ==
    ASSUME OnboardingRows, NEW p \in DOMAIN documents, PaperAges(p) PROVE OnboardingRows'
<1>1. UNCHANGED <<driver, vehicles, vehicleEvents, desks, uploads, overruled>>
    BY DEF PaperAges
<1>2. p \in 1 .. Len(documents) /\ documents[p] \in Document
    BY DEF OnboardingRows
<1>3. PICK d \in Document : documents' = [documents EXCEPT ![p] = d]
    BY <1>2 DEF PaperAges, Document
<1>4. documents' \in Seq(Document) /\ Len(documents') = Len(documents)
    BY <1>2, <1>3 DEF OnboardingRows
<1>5. DOMAIN documents = DOMAIN documents'
    BY <1>4 DEF OnboardingRows
<1>6. DeskStates' = DeskStates /\ UploadStates' = UploadStates
    BY <1>1, <1>5 DEF DeskStates, UploadStates
<1> QED
    BY <1>1, <1>4, <1>6, OnboardingAssumption DEF OnboardingRows, PaperAges

(* A request is taken.                                                     *)
LEMMA DeskTaken ==
    ASSUME OnboardingRows, NEW c \in Reviewers, NEW request \in DeskStates,
           FreeClerk(c, request)
    PROVE  OnboardingRows'
<1>1. UNCHANGED <<driver, vehicles, vehicleEvents, documents, uploads, overruled>>
    BY DEF FreeClerk
<1>2. DeskStates' = DeskStates /\ UploadStates' = UploadStates
    BY <1>1 DEF DeskStates, UploadStates
<1> QED
    BY <1>1, <1>2, OnboardingAssumption DEF OnboardingRows, FreeClerk

(* A back-office request arrives and loads its row.                        *)
LEMMA BeginOK ==
    ASSUME OnboardingRows, NEW c \in Reviewers,
           \/ \E does \in {"verify", "reject"}, p \in DOMAIN documents : BeginPaper(c, does, p)
           \/ \E does \in DriverMoves : BeginDriver(c, does)
           \/ \E does \in VehicleMoves, v \in DOMAIN vehicles : BeginVehicle(c, does, v)
           \/ BeginAdd(c) \/ BeginRemoval(c)
    PROVE  OnboardingRows'
<1> SUFFICES \E request \in DeskStates : FreeClerk(c, request)
    BY DeskTaken
<1>1. ASSUME NEW does \in {"verify", "reject"}, NEW p \in DOMAIN documents,
             BeginPaper(c, does, p)
      PROVE  \E request \in DeskStates : FreeClerk(c, request)
    <2>1. documents[p] \in Document
        BY DEF OnboardingRows
    <2> documents[p].status \in PaperStates
        BY <2>1 DEF Document
    <2>2. [at |-> "save", of |-> "paper", does |-> does, paper |-> p,
           saw |-> documents[p].status] \in DeskStates
        BY <2>1 DEF DeskStates
    <2> QED
        BY <1>1, <2>2 DEF BeginPaper
<1>2. ASSUME NEW does \in DriverMoves, BeginDriver(c, does)
      PROVE  \E request \in DeskStates : FreeClerk(c, request)
    <2>1. driver.status \in DriverStatus
        BY DEF OnboardingRows, DriverRow
    <2>2. [at |-> IF does = "approve" THEN "check" ELSE "save", of |-> "driver",
           does |-> does, saw |-> driver.status] \in DeskStates
        BY <2>1 DEF DeskStates
    <2> QED
        BY <1>2, <2>2 DEF BeginDriver
<1>3. ASSUME NEW does \in VehicleMoves, NEW v \in DOMAIN vehicles, BeginVehicle(c, does, v)
      PROVE  \E request \in DeskStates : FreeClerk(c, request)
    <2>1. vehicles[v] \in VehicleStatus
        BY DEF OnboardingRows
    <2>2. [at |-> IF does = "verify" THEN "check" ELSE "save", of |-> "vehicle",
           does |-> does, vehicle |-> v, saw |-> vehicles[v]] \in DeskStates
        BY <2>1 DEF DeskStates
    <2> QED
        BY <1>3, <2>2 DEF BeginVehicle
<1>4. CASE BeginAdd(c) \/ BeginRemoval(c)
    BY <1>4 DEF BeginAdd, BeginRemoval, DeskStates
<1> QED
    BY <1>1, <1>2, <1>3, <1>4

(* The reads and the saves of a request that leave the vehicles alone.     *)
LEMMA DeskStepOK ==
    ASSUME OnboardingRows, NEW c \in Reviewers,
           Check(c) \/ SavePaper(c) \/ SaveDriver(c) \/ ListVehicles(c)
    PROVE  OnboardingRows'
<1> DEFINE me == desks[c]
<1>1. /\ UNCHANGED <<vehicles, vehicleEvents, uploads, turns>>
      /\ me \in DeskStates
    BY DEF Check, SavePaper, SaveDriver, ListVehicles, OnboardingRows
<1> AtHome \in DeskStates
    BY DEF DeskStates
<1>2. /\ documents' \in Seq(Document) /\ Len(documents') = Len(documents)
      /\ DOMAIN documents' = DOMAIN documents
    <2>1. CASE SavePaper(c)
        <3>1. me.paper \in DOMAIN documents /\ me.saw \in PaperStates
            BY <1>1, <2>1 DEF SavePaper, DeskStates, AtHome
        <3>2. documents[me.paper] \in Document
            BY <3>1 DEF OnboardingRows
        <3>3. PICK s \in PaperStates : documents' = [documents EXCEPT ![me.paper].status = s]
            BY <2>1, <3>2 DEF SavePaper, Document, PaperStates
        <3>4. [documents[me.paper] EXCEPT !.status = s] \in Document
            BY <3>2 DEF Document
        <3>5. documents' =
                [documents EXCEPT ![me.paper] = [documents[me.paper] EXCEPT !.status = s]]
            BY <3>3
        <3> QED
            BY <3>1, <3>4, <3>5 DEF OnboardingRows
    <2>2. CASE ~SavePaper(c)
        BY <2>2 DEF Check, SaveDriver, ListVehicles, OnboardingRows
    <2> QED
        BY <2>1, <2>2
<1>3. driver' \in DriverRow /\ overruled' \in BOOLEAN
    <2>1. CASE SaveDriver(c)
        <3>1. me.does \in DriverMoves
            BY <1>1, <2>1 DEF SaveDriver, DeskStates, AtHome
        <3>2. Becomes[me.does] \in DriverStatus
            BY <3>1 DEF Becomes, DriverMoves, DriverStatus
        <3> QED
            BY <2>1, <3>2 DEF SaveDriver, OnboardingRows, DriverRow
    <2>2. CASE ~SaveDriver(c)
        BY <2>2 DEF Check, SavePaper, ListVehicles, OnboardingRows
    <2> QED
        BY <2>1, <2>2
<1>4. DeskStates' = DeskStates /\ UploadStates' = UploadStates
    BY <1>1, <1>2 DEF DeskStates, UploadStates
<1>5. \E x \in DeskStates : desks' = [desks EXCEPT ![c] = x]
    <2>1. CASE SavePaper(c) \/ SaveDriver(c)
        BY <2>1 DEF SavePaper, SaveDriver
    <2>2. CASE ListVehicles(c)
        BY <2>2 DEF ListVehicles, DeskStates, OnboardingRows
    <2>3. CASE Check(c)
        <3>1. [me EXCEPT !.at = "save"] \in DeskStates
            BY <1>1, <2>3 DEF Check, DeskStates, AtHome
        <3> QED
            BY <2>3, <3>1 DEF Check
    <2> QED
        BY <2>1, <2>2, <2>3
<1> QED
    BY <1>1, <1>2, <1>3, <1>4, <1>5 DEF OnboardingRows

(* A save that leaves as many vehicles, or one more.                       *)
LEMMA VehiclesSaved ==
    ASSUME OnboardingRows, NEW c \in Reviewers, desks' = [desks EXCEPT ![c] = AtHome],
           UNCHANGED <<documents, uploads, turns, overruled>>, driver' \in DriverRow,
           vehicles' \in Seq(VehicleStatus), Len(vehicles') <= MaxVehicles,
           Len(vehicles) <= Len(vehicles'),
           vehicleEvents' \in Seq(Seq(VehicleEvent)), Len(vehicleEvents') = Len(vehicles')
    PROVE  OnboardingRows'
<1>1. DOMAIN vehicles \subseteq DOMAIN vehicles'
    BY DEF OnboardingRows
<1>2. DeskStates \subseteq DeskStates' /\ UploadStates \subseteq UploadStates'
    BY <1>1, OnlyGrows
<1>3. AtHome \in DeskStates
    BY DEF DeskStates
<1> QED
    BY <1>2, <1>3 DEF OnboardingRows

(* What moveVehicle writes.                                                *)
LEMMA Moved ==
    ASSUME OnboardingRows, NEW c \in Reviewers, MoveVehicle(c)
    PROVE  \/ UNCHANGED <<vehicles, vehicleEvents>>
           \/ \E v \in DOMAIN vehicles, to \in VehicleStatus :
                 /\ desks[c].at = "save" /\ desks[c].of = "vehicle" /\ desks[c].vehicle = v
                 /\ desks[c].saw \in VehicleStatus
                 /\ vehicles' = [vehicles EXCEPT ![v] = to]
                 /\ vehicleEvents' = [vehicleEvents EXCEPT
                       ![v] = Append(vehicleEvents[v], [from |-> desks[c].saw, to |-> to])]
<1> DEFINE me == desks[c]
<1>1. me \in DeskStates /\ me.at = "save" /\ me.of = "vehicle"
    BY DEF MoveVehicle, OnboardingRows
<1>2. me.vehicle \in DOMAIN vehicles /\ me.saw \in VehicleStatus /\ me.does \in VehicleMoves
    BY <1>1 DEF DeskStates, AtHome
<1>3. VehicleBecomes[me.does] \in VehicleStatus
    BY <1>2 DEF VehicleBecomes, VehicleMoves, VehicleStatus
<1> QED
    BY <1>1, <1>2, <1>3 DEF MoveVehicle

(* A vehicle is moved, with the row that records it.                       *)
LEMMA MoveVehicleOK ==
    ASSUME OnboardingRows, NEW c \in Reviewers, MoveVehicle(c) PROVE OnboardingRows'
<1>1. /\ desks' = [desks EXCEPT ![c] = AtHome]
      /\ UNCHANGED <<driver, documents, uploads, turns, overruled>>
    BY DEF MoveVehicle
<1>2. CASE UNCHANGED <<vehicles, vehicleEvents>>
    <2>1. /\ driver' \in DriverRow /\ vehicles' \in Seq(VehicleStatus)
          /\ Len(vehicles') <= MaxVehicles /\ Len(vehicles) <= Len(vehicles')
          /\ vehicleEvents' \in Seq(Seq(VehicleEvent)) /\ Len(vehicleEvents') = Len(vehicles')
        BY <1>1, <1>2 DEF OnboardingRows
    <2> QED
        BY <1>1, <2>1, VehiclesSaved
<1>3. ASSUME NEW v \in DOMAIN vehicles, NEW to \in VehicleStatus,
             desks[c].saw \in VehicleStatus,
             vehicles' = [vehicles EXCEPT ![v] = to],
             vehicleEvents' = [vehicleEvents EXCEPT
                       ![v] = Append(vehicleEvents[v], [from |-> desks[c].saw, to |-> to])]
      PROVE  OnboardingRows'
    <2>1. v \in 1 .. Len(vehicles) /\ v \in 1 .. Len(vehicleEvents)
        BY DEF OnboardingRows
    <2>2. vehicles' \in Seq(VehicleStatus) /\ Len(vehicles') = Len(vehicles)
        BY <1>3, <2>1, ExceptSeq DEF OnboardingRows
    <2>3. [from |-> desks[c].saw, to |-> to] \in VehicleEvent
        BY <1>3 DEF VehicleEvent
    <2>4. vehicleEvents[v] \in Seq(VehicleEvent)
        BY <2>1, ElementOfSeq DEF OnboardingRows
    <2>5. Append(vehicleEvents[v], [from |-> desks[c].saw, to |-> to]) \in Seq(VehicleEvent)
        BY <2>3, <2>4, AppendProperties
    <2>6. vehicleEvents' \in Seq(Seq(VehicleEvent)) /\ Len(vehicleEvents') = Len(vehicleEvents)
        BY <1>3, <2>1, <2>5, ExceptSeq DEF OnboardingRows
    <2>7. /\ driver' \in DriverRow /\ vehicles' \in Seq(VehicleStatus)
          /\ Len(vehicles') <= MaxVehicles /\ Len(vehicles) <= Len(vehicles')
          /\ vehicleEvents' \in Seq(Seq(VehicleEvent)) /\ Len(vehicleEvents') = Len(vehicles')
        BY <1>1, <2>2, <2>6 DEF OnboardingRows
    <2> QED
        BY <1>1, <2>7, VehiclesSaved
<1> QED
    BY <1>2, <1>3, Moved

(* A second vehicle joins.                                                 *)
LEMMA AddVehicleOK ==
    ASSUME OnboardingRows, NEW c \in Reviewers, AddVehicle(c) PROVE OnboardingRows'
<1>1. /\ desks' = [desks EXCEPT ![c] = AtHome]
      /\ UNCHANGED <<driver, documents, uploads, turns, overruled>>
      /\ Len(vehicles) < MaxVehicles
      /\ vehicles' = Append(vehicles, "PENDING")
      /\ vehicleEvents' = Append(vehicleEvents, <<[from |-> "none", to |-> "PENDING"]>>)
    BY DEF AddVehicle
<1>2. <<[from |-> "none", to |-> "PENDING"]>> \in Seq(VehicleEvent)
    <2> DEFINE first == [from |-> "none", to |-> "PENDING"]
    <2>1. first \in VehicleEvent
        BY DEF VehicleEvent, VehicleStatus
    <2> HIDE DEF first
    <2>2. <<first>> \in Seq(VehicleEvent)
        BY <2>1
    <2> QED
        BY <2>2 DEF first
<1>3. vehicles' \in Seq(VehicleStatus) /\ Len(vehicles') = Len(vehicles) + 1
    BY <1>1, AppendProperties DEF OnboardingRows, VehicleStatus
<1>4. vehicleEvents' \in Seq(Seq(VehicleEvent)) /\ Len(vehicleEvents') = Len(vehicleEvents) + 1
    BY <1>1, <1>2, AppendProperties DEF OnboardingRows
<1>5. driver' \in DriverRow /\ Len(vehicles) \in Nat /\ Len(vehicleEvents) = Len(vehicles)
    BY <1>1 DEF OnboardingRows
<1>6. /\ Len(vehicles') <= MaxVehicles /\ Len(vehicles) <= Len(vehicles')
      /\ Len(vehicleEvents') = Len(vehicles')
    BY <1>1, <1>3, <1>4, <1>5, OnboardingAssumption
<1> QED
    BY <1>1, <1>3, <1>4, <1>5, <1>6, VehiclesSaved

(* A driver is removed, and the vehicles retired.                          *)
LEMMA RemoveDriverOK ==
    ASSUME OnboardingRows, NEW c \in Reviewers, RemoveDriver(c) PROVE OnboardingRows'
<1> DEFINE me == desks[c]
           goes == {v \in DOMAIN me.saw : me.saw[v] # "REMOVED"}
           Removed(v) == IF v \in goes THEN "REMOVED" ELSE vehicles[v]
           Noted(v) == IF v \in goes
                       THEN Append(vehicleEvents[v], [from |-> WasAt(me.saw[v]), to |-> "REMOVED"])
                       ELSE vehicleEvents[v]
<1>1. /\ me \in DeskStates /\ me.at = "save" /\ me.of = "removal"
      /\ desks' = [desks EXCEPT ![c] = AtHome]
      /\ UNCHANGED <<documents, uploads, turns, overruled>>
      /\ vehicles' = [v \in DOMAIN vehicles |-> Removed(v)]
      /\ vehicleEvents' = [v \in DOMAIN vehicleEvents |-> Noted(v)]
    BY DEF RemoveDriver, OnboardingRows
<1>2. me.saw \in Seq(VehicleStatus)
    BY <1>1 DEF DeskStates, AtHome
<1>3. /\ Len(vehicles) \in Nat /\ Len(vehicleEvents) = Len(vehicles)
      /\ DOMAIN vehicles = 1 .. Len(vehicles) /\ DOMAIN vehicleEvents = 1 .. Len(vehicles)
    BY DEF OnboardingRows
<1>4. \A v \in DOMAIN vehicles : Removed(v) \in VehicleStatus
    BY DEF OnboardingRows, VehicleStatus
<1>5. \A v \in DOMAIN vehicleEvents : Noted(v) \in Seq(VehicleEvent)
    <2> SUFFICES ASSUME NEW v \in DOMAIN vehicleEvents PROVE Noted(v) \in Seq(VehicleEvent)
        OBVIOUS
    <2>1. vehicleEvents[v] \in Seq(VehicleEvent)
        BY <1>3, ElementOfSeq DEF OnboardingRows
    <2>2. CASE v \in goes
        <3>1. me.saw[v] \in VehicleStatus
            BY <1>2, <2>2
        <3>2. [from |-> WasAt(me.saw[v]), to |-> "REMOVED"] \in VehicleEvent
            BY <3>1 DEF VehicleEvent, VehicleStatus, WasAt
        <3> QED
            BY <2>1, <2>2, <3>2, AppendProperties
    <2> QED
        BY <2>1, <2>2
<1> HIDE DEF Removed, Noted
<1>6. vehicles' \in [1 .. Len(vehicles) -> VehicleStatus]
    BY <1>1, <1>3, <1>4
<1>7. vehicleEvents' \in [1 .. Len(vehicles) -> Seq(VehicleEvent)]
    BY <1>1, <1>3, <1>5
<1>8. vehicles' \in Seq(VehicleStatus) /\ vehicleEvents' \in Seq(Seq(VehicleEvent))
    BY <1>3, <1>6, <1>7, SeqDef
<1>9. Len(vehicles') = Len(vehicles) /\ Len(vehicleEvents') = Len(vehicles')
    BY <1>3, <1>6, <1>7, <1>8, LenProperties
<1>10. driver' \in DriverRow /\ Len(vehicles) <= MaxVehicles
    BY DEF RemoveDriver, OnboardingRows, DriverRow
<1>11. Len(vehicles') <= MaxVehicles /\ Len(vehicles) <= Len(vehicles')
    BY <1>3, <1>9, <1>10
<1> QED
    BY <1>1, <1>8, <1>9, <1>10, <1>11, VehiclesSaved

(* Every step leaves rows of the tables.                                   *)
LEMMA OnboardingStep ==
    OnboardingRows /\ [OnboardingNext]_onboardingVars => OnboardingRows'
<1> SUFFICES ASSUME OnboardingRows, [OnboardingNext]_onboardingVars PROVE OnboardingRows'
    OBVIOUS
<1>1. CASE UNCHANGED onboardingVars
    BY <1>1 DEF onboardingVars, OnboardingRows, DeskStates, UploadStates
<1> QED
    BY <1>1, UploadStepOK, InsertOK, PaperAgesOK, BeginOK, DeskStepOK, MoveVehicleOK,
       AddVehicleOK, RemoveDriverOK DEF OnboardingNext

(* Every paper, vehicle and driver has a status of its enum, and every     *)
(* event of the history two, whatever the desk and the uploads overlap.    *)
THEOREM OnboardingTyped == OnboardingSpec => []OnboardingTypeOK
BY OnboardingInitOK, OnboardingStep, OnboardingRowsTyped, PTL DEF OnboardingSpec

-----------------------------------------------------------------------------
(* The history of a vehicle.                                               *)

(* The desk sends one request at a time. With two, a move saved from a     *)
(* copy the other has overtaken writes an event that starts nowhere        *)
(* (transition reads, then update and insert).                             *)
OneDesk == \A c, d \in Reviewers : c = d

(* What a request loaded is what the rows still hold.                      *)
FreshCopies == \A c \in Reviewers :
    /\ desks[c].at \in {"check", "save"} /\ desks[c].of = "vehicle" =>
          desks[c].saw = vehicles[desks[c].vehicle]
    /\ desks[c].at = "save" /\ desks[c].of = "removal" => desks[c].saw = vehicles

(* RecordRows that lead from the creation of a vehicle to a state.               *)
Chain(events, state) ==
    /\ events # << >> /\ events[1].from = "none"
    /\ \A e \in 2 .. Len(events) : events[e].from = events[e - 1].to
    /\ events[Len(events)].to = state

(* The events of each vehicle lead to the state it is in.                  *)
Histories == \A v \in DOMAIN vehicles : Chain(vehicleEvents[v], vehicles[v])

(* Inductive for a desk that sends one request at a time.                  *)
HistoryIInv == OnboardingRows /\ FreshCopies /\ Histories

(* The row create writes is a history.                                     *)
LEMMA ChainStarts == Chain(<<[from |-> "none", to |-> "PENDING"]>>, "PENDING")
BY DEF Chain

(* A history with a row that starts where it ended is a history.           *)
LEMMA ChainGrows ==
    ASSUME NEW events \in Seq(VehicleEvent), NEW s \in VehicleStatus, NEW to \in VehicleStatus,
           Chain(events, s)
    PROVE  Chain(Append(events, [from |-> s, to |-> to]), to)
<1> DEFINE event == [from |-> s, to |-> to]
           longer == Append(events, event)
<1>1. event \in VehicleEvent /\ event.from = s /\ event.to = to
    BY DEF VehicleEvent
<1> HIDE DEF event
<1>2. /\ Len(events) \in Nat \ {0} /\ Len(longer) = Len(events) + 1
      /\ \A e \in 1 .. Len(events) : longer[e] = events[e]
      /\ longer[Len(events) + 1] = event
    BY <1>1, AppendProperties, EmptySeq DEF Chain
<1>3. longer # << >>
    BY <1>1, AppendProperties
<1> HIDE DEF longer
<1>4. \A e \in 2 .. Len(longer) : longer[e].from = longer[e - 1].to
    <2> SUFFICES ASSUME NEW e \in 2 .. Len(longer) PROVE longer[e].from = longer[e - 1].to
        OBVIOUS
    <2>1. CASE e = Len(events) + 1
        BY <1>1, <1>2, <2>1 DEF Chain
    <2>2. CASE e \in 2 .. Len(events)
        <3>1. e \in 1 .. Len(events) /\ e - 1 \in 1 .. Len(events)
            BY <1>2, <2>2
        <3> QED
            BY <1>2, <2>2, <3>1 DEF Chain
    <2> QED
        BY <1>2, <2>1, <2>2
<1>5. longer[1].from = "none" /\ longer[Len(longer)].to = to
    BY <1>1, <1>2 DEF Chain
<1>6. Chain(longer, to)
    BY <1>3, <1>4, <1>5 DEF Chain
<1> QED
    BY <1>6 DEF longer, event

(* Three steps touch the vehicles and their rows.                          *)
LEMMA VehiclesChange ==
    ASSUME [OnboardingNext]_onboardingVars
    PROVE  \/ UNCHANGED <<vehicles, vehicleEvents>>
           \/ \E c \in Reviewers : MoveVehicle(c) \/ AddVehicle(c) \/ RemoveDriver(c)
BY DEF OnboardingNext, onboardingVars, BeginUpload, Insert, LoadDriver, ReadOwn, ReadVehicle,
       SaveSubmitted, PaperAges, BeginPaper, BeginDriver, BeginVehicle, BeginAdd,
       BeginRemoval, FreeClerk, Check, SavePaper, SaveDriver, ListVehicles

(* Nobody moves a vehicle under the desk.                                  *)
LEMMA CopiesStayFresh ==
    ASSUME OneDesk, HistoryIInv, [OnboardingNext]_onboardingVars PROVE FreshCopies'
<1>1. CASE \E c \in Reviewers : MoveVehicle(c) \/ AddVehicle(c) \/ RemoveDriver(c)
    <2>1. \A c \in Reviewers : desks'[c] = AtHome
        BY <1>1 DEF OneDesk, MoveVehicle, AddVehicle, RemoveDriver, HistoryIInv, OnboardingRows
    <2> QED
        BY <2>1 DEF FreshCopies, AtHome
<1>2. CASE UNCHANGED <<vehicles, vehicleEvents>>
    <2>1. CASE UNCHANGED desks
        BY <1>2, <2>1 DEF HistoryIInv, FreshCopies
    <2>2. ASSUME NEW c \in Reviewers, NEW request, desks' = [desks EXCEPT ![c] = request],
                 /\ request.at \in {"check", "save"} /\ request.of = "vehicle" =>
                       request.saw = vehicles[request.vehicle]
                 /\ request.at = "save" /\ request.of = "removal" => request.saw = vehicles
          PROVE  FreshCopies'
        BY <1>2, <2>2 DEF HistoryIInv, FreshCopies, OnboardingRows
    <2>3. ASSUME NEW c \in Reviewers,
                 \/ \E does \in {"verify", "reject"}, p \in DOMAIN documents :
                        BeginPaper(c, does, p)
                 \/ \E does \in DriverMoves : BeginDriver(c, does)
                 \/ \E does \in VehicleMoves, v \in DOMAIN vehicles : BeginVehicle(c, does, v)
                 \/ BeginAdd(c) \/ BeginRemoval(c)
          PROVE  FreshCopies'
        BY <2>2, <2>3 DEF BeginPaper, BeginDriver, BeginVehicle, BeginAdd, BeginRemoval,
           FreeClerk
    <2>4. ASSUME NEW c \in Reviewers, SavePaper(c) \/ SaveDriver(c) \/ ListVehicles(c)
          PROVE  FreshCopies'
        BY <2>2, <2>4 DEF SavePaper, SaveDriver, ListVehicles, AtHome
    <2>5. ASSUME NEW c \in Reviewers, Check(c) PROVE FreshCopies'
        <3> DEFINE request == IF Checklist(desks[c]) THEN [desks[c] EXCEPT !.at = "save"]
                              ELSE AtHome
        <3>1. desks' = [desks EXCEPT ![c] = request]
            BY <2>5 DEF Check
        <3>2. desks[c] \in DeskStates /\ desks[c].at = "check"
            BY <2>5 DEF Check, HistoryIInv, OnboardingRows
        <3>3. desks[c].of \in {"driver", "vehicle"}
            BY <3>2 DEF DeskStates, AtHome
        <3>4. CASE ~Checklist(desks[c])
            BY <2>2, <3>1, <3>4 DEF AtHome
        <3>5. CASE Checklist(desks[c])
            <4>1. request = [desks[c] EXCEPT !.at = "save"]
                BY <3>5
            <4>2. request.of = desks[c].of /\ request.of \in {"driver", "vehicle"}
                BY <3>2, <3>3, <4>1 DEF DeskStates, AtHome
            <4>3. request.of = "vehicle" =>
                      request.saw = desks[c].saw /\ request.vehicle = desks[c].vehicle
                BY <3>2, <4>1 DEF DeskStates, AtHome
            <4>4. request.of = "vehicle" => request.saw = vehicles[request.vehicle]
                BY <3>2, <4>2, <4>3 DEF HistoryIInv, FreshCopies
            <4> HIDE DEF request
            <4> QED
                BY <2>2, <3>1, <4>2, <4>4
        <3> QED
            BY <3>4, <3>5
    <2> QED
        BY <1>1, <2>1, <2>3, <2>4, <2>5 DEF OnboardingNext, onboardingVars, BeginUpload, Insert,
           LoadDriver, ReadOwn, ReadVehicle, SaveSubmitted, PaperAges
<1> QED
    BY <1>1, <1>2, VehiclesChange

(* The move saved from a fresh copy extends the history.                   *)
LEMMA HistoriesKept ==
    ASSUME HistoryIInv, [OnboardingNext]_onboardingVars PROVE Histories'
<1>1. /\ Len(vehicles) \in Nat /\ Len(vehicleEvents) = Len(vehicles)
      /\ DOMAIN vehicles = 1 .. Len(vehicles) /\ DOMAIN vehicleEvents = 1 .. Len(vehicles)
      /\ \A v \in DOMAIN vehicles : /\ vehicles[v] \in VehicleStatus
                                    /\ vehicleEvents[v] \in Seq(VehicleEvent)
    BY ElementOfSeq DEF HistoryIInv, OnboardingRows
<1>2. CASE UNCHANGED <<vehicles, vehicleEvents>>
    BY <1>2 DEF HistoryIInv, Histories
<1>3. ASSUME NEW c \in Reviewers, MoveVehicle(c) PROVE Histories'
    <2> SUFFICES ASSUME ~UNCHANGED <<vehicles, vehicleEvents>> PROVE Histories'
        BY <1>2
    <2>1. PICK v \in DOMAIN vehicles, to \in VehicleStatus :
                 /\ desks[c].at = "save" /\ desks[c].of = "vehicle" /\ desks[c].vehicle = v
                 /\ desks[c].saw \in VehicleStatus
                 /\ vehicles' = [vehicles EXCEPT ![v] = to]
                 /\ vehicleEvents' = [vehicleEvents EXCEPT
                       ![v] = Append(vehicleEvents[v], [from |-> desks[c].saw, to |-> to])]
        <3>1. OnboardingRows
            BY DEF HistoryIInv
        <3> QED
            BY <1>3, <3>1, Moved
    <2>2. desks[c].saw = vehicles[v]
        BY <2>1 DEF HistoryIInv, FreshCopies
    <2>3. Chain(Append(vehicleEvents[v], [from |-> vehicles[v], to |-> to]), to)
        BY <1>1, ChainGrows DEF HistoryIInv, Histories
    <2>4. DOMAIN vehicles' = DOMAIN vehicles
        BY <2>1
    <2>5. \A w \in DOMAIN vehicles : Chain(vehicleEvents'[w], vehicles'[w])
        BY <1>1, <2>1, <2>2, <2>3 DEF HistoryIInv, Histories
    <2> QED
        BY <2>4, <2>5 DEF Histories
<1>4. ASSUME NEW c \in Reviewers, AddVehicle(c) PROVE Histories'
    <2> DEFINE n == Len(vehicles) + 1
    <2>1. /\ vehicles' = Append(vehicles, "PENDING")
          /\ vehicleEvents' = Append(vehicleEvents, <<[from |-> "none", to |-> "PENDING"]>>)
        BY <1>4 DEF AddVehicle
    <2>2. DOMAIN vehicles' = 1 .. n /\ vehicles'[n] = "PENDING"
        BY <2>1 DEF HistoryIInv, OnboardingRows
    <2>3. vehicleEvents'[n] = <<[from |-> "none", to |-> "PENDING"]>>
        BY <1>1, <2>1, AppendProperties DEF HistoryIInv, OnboardingRows
    <2>4. \A v \in 1 .. Len(vehicles) :
              vehicles'[v] = vehicles[v] /\ vehicleEvents'[v] = vehicleEvents[v]
        BY <1>1, <2>1 DEF HistoryIInv, OnboardingRows
    <2>5. \A v \in 1 .. n : Chain(vehicleEvents'[v], vehicles'[v])
        BY <1>1, <2>2, <2>3, <2>4, ChainStarts DEF HistoryIInv, Histories
    <2> QED
        BY <2>2, <2>5 DEF Histories
<1>5. ASSUME NEW c \in Reviewers, RemoveDriver(c) PROVE Histories'
    <2>1. /\ desks[c].saw = vehicles
          /\ DOMAIN vehicles' = DOMAIN vehicles
          /\ \A v \in DOMAIN vehicles :
                 IF vehicles[v] # "REMOVED"
                 THEN /\ vehicles'[v] = "REMOVED"
                      /\ vehicleEvents'[v] = Append(vehicleEvents[v],
                            [from |-> vehicles[v], to |-> "REMOVED"])
                 ELSE vehicles'[v] = vehicles[v] /\ vehicleEvents'[v] = vehicleEvents[v]
        BY <1>1, <1>5 DEF RemoveDriver, WasAt, HistoryIInv, FreshCopies
    <2>2. "REMOVED" \in VehicleStatus
        BY DEF VehicleStatus
    <2>3. \A v \in DOMAIN vehicles :
              Chain(Append(vehicleEvents[v], [from |-> vehicles[v], to |-> "REMOVED"]), "REMOVED")
        BY <1>1, <2>2, ChainGrows DEF HistoryIInv, Histories
    <2>4. \A v \in DOMAIN vehicles : Chain(vehicleEvents'[v], vehicles'[v])
        BY <2>1, <2>3 DEF HistoryIInv, Histories
    <2> QED
        BY <2>1, <2>4 DEF Histories
<1> QED
    BY <1>2, <1>3, <1>4, <1>5, VehiclesChange

(* With one request of the desk at a time, the rows of                     *)
(* vehicle_status_events of every vehicle form a chain from its creation   *)
(* to the status it has, through removals of the driver as well.           *)
THEOREM HistoryAgrees == ASSUME OneDesk PROVE OnboardingSpec => []VehicleHistoryAgrees
<1>1. OnboardingInit => HistoryIInv
    <2> SUFFICES ASSUME OnboardingInit PROVE FreshCopies /\ Histories
        BY OnboardingInitOK DEF HistoryIInv
    <2>1. FreshCopies
        BY DEF OnboardingInit, FreshCopies, AtHome
    <2>2. CASE vehicles = << >>
        BY <2>1, <2>2 DEF Histories
    <2>3. CASE /\ vehicles = <<"PENDING">>
               /\ vehicleEvents = << <<[from |-> "none", to |-> "PENDING"]>> >>
        BY <2>1, <2>3, ChainStarts DEF Histories
    <2> QED
        BY <2>1, <2>2, <2>3 DEF OnboardingInit
<1>2. HistoryIInv /\ [OnboardingNext]_onboardingVars => HistoryIInv'
    BY OnboardingStep, CopiesStayFresh, HistoriesKept DEF HistoryIInv
<1>3. HistoryIInv => VehicleHistoryAgrees
    BY DEF HistoryIInv, Histories, Chain, VehicleHistoryAgrees
<1> QED
    BY <1>1, <1>2, <1>3, PTL DEF OnboardingSpec

-----------------------------------------------------------------------------
(* The complete set.                                                       *)

(* A paper is filed and not refused.                                       *)
OneOf(S) == CHOOSE p \in S : TRUE

(* The paper of a kind that counts is there.                               *)
IsIn(k, o) == Current(k, o) # {} /\ documents[OneOf(Current(k, o))].status # "REJECTED"

(* The complete set: the driver's own papers and those of the first        *)
(* vehicle.                                                                *)
SetIsIn == HandedIn(OwnKinds, 0) /\ (vehicles = << >> \/ HandedIn(VehicleKinds, 1))

(* A driver who should have moved on.                                      *)
Waits == driver.status = "PENDING" /\ ~driver.deleted /\ ~overruled /\ documents # << >>

(* An upload that will move the driver on, if no paper is refused before.  *)
Notices(u) ==
    \/ uploads[u].at \in {"driver", "own", "save"}
    \/ /\ uploads[u].at = "vehicle" /\ uploads[u].complete
       /\ uploads[u].first = 0 \/ HandedIn(VehicleKinds, uploads[u].first)

(* A complete set that the driver waits with is in the hands of an upload. *)
SomeoneNotices == Waits /\ SetIsIn => \E u \in Uploads : Notices(u)

(* Inductive, with any number of uploads and requests of the desk.         *)
NoticeIInv == OnboardingRows /\ SomeoneNotices

(* A set is handed in exactly when each of its kinds has a paper that      *)
(* counts.                                                                 *)
LEMMA HandedInMeans ==
    ASSUME OnboardingRows, NEW kinds, NEW o
    PROVE  HandedIn(kinds, o) <=> \A k \in kinds : IsIn(k, o)
<1> SUFFICES ASSUME NEW k PROVE PaperStatus(k, o) \notin {"missing", "rejected"} <=> IsIn(k, o)
    BY DEF HandedIn
<1>1. CASE Current(k, o) = {}
    BY <1>1 DEF PaperStatus, IsIn
<1>2. CASE Current(k, o) # {}
    <2> DEFINE p == OneOf(Current(k, o))
    <2>1. p \in DOMAIN documents
        BY <1>2 DEF Current, OneOf
    <2>2. documents[p] \in Document
        BY <2>1 DEF OnboardingRows
    <2>3. documents[p].age \in {"fresh", "expiring", "expired"}
        BY <2>2 DEF Document
    <2>4. PaperStatus(k, o) = IF documents[p].status = "REJECTED" THEN "rejected"
               ELSE IF documents[p].status = "UPLOADED" THEN "uploaded"
               ELSE IF documents[p].age # "fresh" THEN documents[p].age ELSE "verified"
        BY <1>2 DEF PaperStatus, OneOf
    <2>5. IsIn(k, o) <=> documents[p].status # "REJECTED"
        BY <1>2 DEF IsIn
    <2>6. documents[p].status \in {"UPLOADED", "VERIFIED", "REJECTED"}
        BY <2>2 DEF Document, PaperStates
    <2> HIDE DEF p
    <2> QED
        BY <2>3, <2>4, <2>5, <2>6
<1> QED
    BY <1>1, <1>2

(* What is handed in depends on the papers alone.                          *)
LEMMA SamePapers ==
    ASSUME OnboardingRows, OnboardingRows', UNCHANGED documents, NEW kinds, NEW o
    PROVE  HandedIn(kinds, o)' <=> HandedIn(kinds, o)
<1>1. \A k : Current(k, o)' = Current(k, o)
    BY DEF Current
<1>2. \A k : IsIn(k, o)' <=> IsIn(k, o)
    BY <1>1 DEF IsIn
<1>3. (HandedIn(kinds, o) <=> \A k \in kinds : IsIn(k, o))'
    BY HandedInMeans, PTL
<1> QED
    BY <1>2, <1>3, HandedInMeans

(* Age takes no paper away, and only the review refuses one.               *)
LEMMA NoPaperComesIn ==
    ASSUME OnboardingRows, OnboardingRows', [OnboardingNext]_onboardingVars,
           ~overruled', \A u \in Uploads : ~Insert(u), NEW kinds, NEW o, HandedIn(kinds, o)'
    PROVE  HandedIn(kinds, o)
<1>1. /\ DOMAIN documents' = DOMAIN documents
      /\ \A p \in DOMAIN documents :
            /\ documents'[p].kind = documents[p].kind /\ documents'[p].of = documents[p].of
            /\ documents'[p].superseded = documents[p].superseded
            /\ documents[p].status = "REJECTED" => documents'[p].status = "REJECTED"
    <2>1. CASE UNCHANGED documents
        BY <2>1
    <2>2. ASSUME NEW p \in DOMAIN documents, PaperAges(p)
          PROVE  /\ DOMAIN documents' = DOMAIN documents
                 /\ \A q \in DOMAIN documents :
                       \/ documents'[q] = documents[q]
                       \/ \E a : documents'[q] = [documents[q] EXCEPT !.age = a]
        BY <2>2 DEF PaperAges
    <2>3. ASSUME NEW p \in DOMAIN documents, PaperAges(p)
          PROVE  /\ DOMAIN documents' = DOMAIN documents
                 /\ \A q \in DOMAIN documents :
                       /\ documents'[q].kind = documents[q].kind
                       /\ documents'[q].of = documents[q].of
                       /\ documents'[q].superseded = documents[q].superseded
                       /\ documents'[q].status = documents[q].status
        <3>1. \A q \in DOMAIN documents : documents[q] \in Document
            BY DEF OnboardingRows
        <3> QED
            BY <2>2, <2>3, <3>1 DEF Document
    <2>4. ASSUME NEW c \in Reviewers, SavePaper(c)
          PROVE  /\ DOMAIN documents' = DOMAIN documents
                 /\ \A q \in DOMAIN documents :
                       /\ documents'[q].kind = documents[q].kind
                       /\ documents'[q].of = documents[q].of
                       /\ documents'[q].superseded = documents[q].superseded
                       /\ documents[q].status = "REJECTED" => documents'[q].status = "REJECTED"
        <3> DEFINE p == desks[c].paper
                   to == IF desks[c].does = "verify" THEN "VERIFIED" ELSE "REJECTED"
        <3>1. /\ documents' = [documents EXCEPT ![p].status = IF to = desks[c].saw THEN @ ELSE to]
              /\ ~(to = "VERIFIED" /\ documents[p].status = "REJECTED")
              /\ to \in {"VERIFIED", "REJECTED"}
            BY <2>4 DEF SavePaper
        <3>2. \A q \in DOMAIN documents : documents[q] \in Document
            BY DEF OnboardingRows
        <3> HIDE DEF p, to
        <3>3. /\ DOMAIN documents' = DOMAIN documents
              /\ \A q \in DOMAIN documents :
                    documents'[q] = IF q = p
                        THEN [documents[q] EXCEPT !.status =
                                IF to = desks[c].saw THEN documents[q].status ELSE to]
                        ELSE documents[q]
            BY <3>1
        <3> QED
            BY <3>1, <3>2, <3>3 DEF Document
    <2>5. \/ UNCHANGED documents
          \/ \E p \in DOMAIN documents : PaperAges(p)
          \/ \E c \in Reviewers : SavePaper(c)
        BY DEF OnboardingNext, onboardingVars, BeginUpload, LoadDriver, ReadOwn, ReadVehicle,
           SaveSubmitted, BeginPaper, BeginDriver, BeginVehicle, BeginAdd, BeginRemoval,
           FreeClerk, Check, SaveDriver, MoveVehicle, AddVehicle, ListVehicles, RemoveDriver
    <2> QED
        BY <2>1, <2>3, <2>4, <2>5
<1>2. \A k : Current(k, o)' = Current(k, o)
    BY <1>1 DEF Current
<1>3. ASSUME NEW k, IsIn(k, o)' PROVE IsIn(k, o)
    <2> DEFINE p == OneOf(Current(k, o))
    <2>1. Current(k, o) # {} /\ documents'[p].status # "REJECTED"
        BY <1>2, <1>3 DEF IsIn
    <2>2. p \in DOMAIN documents
        BY <2>1 DEF Current, OneOf
    <2> QED
        BY <1>1, <2>1, <2>2 DEF IsIn
<1>4. \A k \in kinds : IsIn(k, o)'
    <2>1. (HandedIn(kinds, o) <=> \A k \in kinds : IsIn(k, o))'
        BY HandedInMeans, PTL
    <2> QED
        BY <2>1
<1> QED
    BY <1>3, <1>4, HandedInMeans

(* An upload that notices still does, until it is done.                    *)
LEMMA StillNotices ==
    ASSUME OnboardingRows, OnboardingRows', NEW u \in Uploads, Notices(u),
           uploads'[u] = uploads[u], SetIsIn', Len(vehicles) <= Len(vehicles')
    PROVE  Notices(u)'
<1>1. CASE uploads[u].at \in {"driver", "own", "save"}
    BY <1>1 DEF Notices
<1>2. CASE uploads[u].at = "vehicle"
    <2>1. uploads[u] \in UploadStates
        BY DEF OnboardingRows
    <2>2. uploads[u].first \in {0} \cup ({1} \cap DOMAIN vehicles)
        BY <1>2, <2>1 DEF UploadStates, AtHome
    <2>3. CASE uploads[u].first = 0
        BY <1>2, <2>3 DEF Notices
    <2>4. CASE uploads[u].first = 1
        <3>1. 1 \in 1 .. Len(vehicles)
            BY <2>2, <2>4 DEF OnboardingRows
        <3>2. vehicles' # << >>
            BY <3>1 DEF OnboardingRows
        <3>3. HandedIn(VehicleKinds, 1)'
            BY <3>2 DEF SetIsIn
        <3>4. HandedIn(VehicleKinds, uploads[u].first)'
            BY <2>4, <3>3
        <3> QED
            BY <1>2, <3>4 DEF Notices
    <2> QED
        BY <2>2, <2>3, <2>4
<1> QED
    BY <1>1, <1>2 DEF Notices

(* Nobody comes to wait but by an upload.                                  *)
LEMMA WaitedBefore ==
    ASSUME OnboardingRows, [OnboardingNext]_onboardingVars, \A u \in Uploads : ~Insert(u), Waits'
    PROVE  Waits
<1>1. documents' # << >> => documents # << >>
    <2>1. CASE UNCHANGED documents
        BY <2>1
    <2>2. CASE \/ \E p \in DOMAIN documents : PaperAges(p)
               \/ \E c \in Reviewers : SavePaper(c)
        <3>1. DOMAIN documents' = DOMAIN documents
            BY <2>2 DEF PaperAges, SavePaper
        <3>2. documents = << >> => documents' = documents
            BY <2>2 DEF PaperAges, SavePaper
        <3> QED
            BY <3>2
    <2> QED
        BY <2>1, <2>2 DEF OnboardingNext, onboardingVars, BeginUpload, LoadDriver, ReadOwn,
           ReadVehicle, SaveSubmitted, BeginPaper, BeginDriver, BeginVehicle, BeginAdd,
           BeginRemoval, FreeClerk, Check, SaveDriver, MoveVehicle, AddVehicle, ListVehicles,
           RemoveDriver
<1>2. ASSUME driver.status # "PENDING" \/ driver.deleted \/ overruled PROVE FALSE
    <2>1. CASE UNCHANGED <<driver, overruled>>
        BY <1>2, <2>1 DEF Waits
    <2>2. ASSUME NEW u \in Uploads, SaveSubmitted(u) PROVE FALSE
        BY <2>2 DEF SaveSubmitted, OnboardingRows, DriverRow, Waits
    <2>3. ASSUME NEW c \in Reviewers, SaveDriver(c) PROVE FALSE
        <3>1. desks[c].does \in DriverMoves
            BY <2>3 DEF SaveDriver, OnboardingRows, DeskStates, AtHome
        <3>2. desks[c].does # "reject"
            BY <2>3 DEF SaveDriver, Waits
        <3>3. Becomes[desks[c].does] \in {"APPROVED", "SUSPENDED"}
            BY <3>1, <3>2 DEF DriverMoves, Becomes
        <3> QED
            BY <1>2, <2>3, <3>3 DEF SaveDriver, Waits, OnboardingRows, DriverRow
    <2>4. ASSUME NEW c \in Reviewers, SavePaper(c) \/ RemoveDriver(c) PROVE FALSE
        BY <1>2, <2>4 DEF SavePaper, RemoveDriver, OnboardingRows, DriverRow, Waits
    <2> QED
        BY <2>1, <2>2, <2>3, <2>4 DEF OnboardingNext, onboardingVars, BeginUpload, LoadDriver,
           ReadOwn, ReadVehicle, PaperAges, BeginPaper, BeginDriver, BeginVehicle, BeginAdd,
           BeginRemoval, FreeClerk, Check, MoveVehicle, AddVehicle, ListVehicles
<1> QED
    BY <1>1, <1>2 DEF Waits, OnboardingRows, DriverRow

(* A step that files no paper makes no set complete.                       *)
LEMMA WasInBefore ==
    ASSUME OnboardingRows, OnboardingRows', [OnboardingNext]_onboardingVars,
           \A u \in Uploads : ~Insert(u), Waits', SetIsIn', Len(vehicles) <= Len(vehicles')
    PROVE  SetIsIn
<1>1. HandedIn(OwnKinds, 0)' => HandedIn(OwnKinds, 0)
    BY NoPaperComesIn DEF Waits
<1>2. HandedIn(VehicleKinds, 1)' => HandedIn(VehicleKinds, 1)
    BY NoPaperComesIn DEF Waits
<1>3. vehicles' = << >> => vehicles = << >>
    BY DEF OnboardingRows
<1> QED
    BY <1>1, <1>2, <1>3 DEF SetIsIn

(* The vehicles of a driver only become more.                              *)
LEMMA VehiclesOnlyJoin ==
    ASSUME OnboardingRows, OnboardingRows', [OnboardingNext]_onboardingVars
    PROVE  Len(vehicles) <= Len(vehicles')
<1>1. CASE UNCHANGED vehicles
    BY <1>1 DEF OnboardingRows
<1>2. CASE \E c \in Reviewers : AddVehicle(c)
    BY <1>2, AppendProperties DEF AddVehicle, OnboardingRows, VehicleStatus
<1>3. CASE \E c \in Reviewers : MoveVehicle(c) \/ RemoveDriver(c)
    <2>1. DOMAIN vehicles' = DOMAIN vehicles
        BY <1>3 DEF MoveVehicle, RemoveDriver
    <2> QED
        BY <2>1, LenProperties DEF OnboardingRows
<1> QED
    BY <1>1, <1>2, <1>3, VehiclesChange

(* The one step that can complete the set is an upload that goes on to     *)
(* look.                                                                   *)
LEMMA NoticeKept ==
    ASSUME NoticeIInv, [OnboardingNext]_onboardingVars PROVE SomeoneNotices'
<1>1. OnboardingRows /\ OnboardingRows' /\ Len(vehicles) <= Len(vehicles')
    BY OnboardingStep, VehiclesOnlyJoin DEF NoticeIInv
<1> SUFFICES ASSUME Waits', SetIsIn' PROVE \E u \in Uploads : Notices(u)'
    BY DEF SomeoneNotices
<1>2. ASSUME NEW u \in Uploads, Insert(u) PROVE \E x \in Uploads : Notices(x)'
    <2>1. uploads[u] \in UploadStates /\ uploads[u].at = "insert"
        BY <1>1, <1>2 DEF Insert, OnboardingRows
    <2>2. OwningDriver(uploads[u].of)
        BY <2>1 DEF UploadStates, AtHome, OwningDriver
    <2> DEFINE me == uploads[u]
               filed == Current(me.kind, me.of) = {me.saw} \ {0} /\ Len(documents) < MaxPapers
    <2>3. CASE filed
        <3>1. uploads' = [uploads EXCEPT ![u] = [at |-> "driver"]]
            BY <1>2, <2>2, <2>3 DEF Insert
        <3>2. uploads'[u].at = "driver"
            BY <1>1, <3>1 DEF OnboardingRows
        <3> QED
            BY <3>2 DEF Notices
    <2>4. CASE ~filed
        <3>1. /\ uploads' = [uploads EXCEPT ![u] = AtHome]
              /\ UNCHANGED <<driver, vehicles, documents, overruled>>
            BY <1>2, <2>4 DEF Insert
        <3>2. Waits /\ SetIsIn
            BY <1>1, <3>1, SamePapers DEF Waits, SetIsIn
        <3>3. PICK x \in Uploads : Notices(x)
            BY <3>2 DEF NoticeIInv, SomeoneNotices
        <3>4. x # u
            BY <2>1, <3>3 DEF Notices
        <3>5. uploads'[x] = uploads[x]
            BY <1>1, <3>1, <3>4 DEF OnboardingRows
        <3> QED
            BY <1>1, <3>3, <3>5, StillNotices
    <2> QED
        BY <2>3, <2>4
<1>3. ASSUME \A u \in Uploads : ~Insert(u) PROVE \E x \in Uploads : Notices(x)'
    <2>1. Waits /\ SetIsIn
        BY <1>1, <1>3, WaitedBefore, WasInBefore
    <2>2. PICK x \in Uploads : Notices(x)
        BY <2>1 DEF NoticeIInv, SomeoneNotices
    <2>3. CASE uploads'[x] = uploads[x]
        BY <1>1, <2>2, <2>3, StillNotices
    <2>4. CASE uploads'[x] # uploads[x]
        <3>1. \/ \E k \in Kinds, o \in 0 .. MaxVehicles : BeginUpload(x, k, o)
              \/ LoadDriver(x) \/ ReadOwn(x) \/ ReadVehicle(x) \/ SaveSubmitted(x)
            <4>1. ASSUME NEW u \in Uploads, u # x,
                         \/ \E k \in Kinds, o \in 0 .. MaxVehicles : BeginUpload(u, k, o)
                         \/ LoadDriver(u) \/ ReadOwn(u) \/ ReadVehicle(u) \/ SaveSubmitted(u)
                  PROVE  uploads'[x] = uploads[x]
                BY <1>1, <4>1 DEF BeginUpload, LoadDriver, ReadOwn, ReadVehicle, SaveSubmitted,
                   OnboardingRows
            <4>2. \/ UNCHANGED uploads
                  \/ \E u \in Uploads :
                        \/ \E k \in Kinds, o \in 0 .. MaxVehicles : BeginUpload(u, k, o)
                        \/ LoadDriver(u) \/ ReadOwn(u) \/ ReadVehicle(u) \/ SaveSubmitted(u)
                BY <1>3 DEF OnboardingNext, onboardingVars, PaperAges, BeginPaper, BeginDriver,
                   BeginVehicle, BeginAdd, BeginRemoval, FreeClerk, Check, SavePaper,
                   SaveDriver, MoveVehicle, AddVehicle, ListVehicles, RemoveDriver
            <4> QED
                BY <2>4, <4>1, <4>2
        <3>2. CASE \E k \in Kinds, o \in 0 .. MaxVehicles : BeginUpload(x, k, o)
            BY <2>2, <3>2 DEF BeginUpload, Notices, AtHome
        <3>3. CASE LoadDriver(x)
            <4>1. uploads'[x] = [at |-> "own"]
                BY <1>1, <3>3 DEF LoadDriver, Waits, OnboardingRows
            <4> QED
                BY <4>1 DEF Notices
        <3>4. CASE ReadOwn(x)
            <4>1. /\ UNCHANGED <<vehicles, documents>>
                  /\ ~driver.deleted /\ HandedIn(OwnKinds, 0)
                  /\ vehicles = << >> \/ HandedIn(VehicleKinds, 1)
                BY <2>1, <3>4 DEF ReadOwn, Waits, SetIsIn
            <4>2. uploads' = [uploads EXCEPT ![x] =
                     [at |-> "vehicle", first |-> FirstVehicle, complete |-> HandedIn(OwnKinds, 0)]]
                BY <3>4, <4>1 DEF ReadOwn
            <4>3. uploads'[x] =
                     [at |-> "vehicle", first |-> FirstVehicle, complete |-> HandedIn(OwnKinds, 0)]
                BY <1>1, <4>2 DEF OnboardingRows
            <4>4. /\ uploads'[x].at = "vehicle" /\ uploads'[x].first = FirstVehicle
                  /\ uploads'[x].complete = HandedIn(OwnKinds, 0)
                BY <4>3
            <4>5. uploads'[x].complete
                BY <4>1, <4>4
            <4>6. CASE FirstVehicle = 0
                BY <4>4, <4>5, <4>6 DEF Notices
            <4>7. CASE FirstVehicle # 0
                <5>1. FirstVehicle = 1 /\ HandedIn(VehicleKinds, 1)'
                    BY <1>1, <4>1, <4>7, SamePapers DEF FirstVehicle
                <5>2. HandedIn(VehicleKinds, uploads[x].first)'
                    BY <4>4, <5>1
                <5> QED
                    BY <4>4, <4>5, <5>2 DEF Notices
            <4> QED
                BY <4>6, <4>7
        <3>5. CASE ReadVehicle(x)
            <4>1. uploads'[x] = [at |-> "save"]
                BY <1>1, <2>2, <3>5 DEF ReadVehicle, Notices, OnboardingRows
            <4> QED
                BY <4>1 DEF Notices
        <3>6. CASE SaveSubmitted(x)
            BY <1>1, <3>6 DEF SaveSubmitted, Waits, OnboardingRows, DriverRow
        <3> QED
            BY <3>1, <3>2, <3>3, <3>4, <3>5, <3>6
    <2> QED
        BY <2>3, <2>4
<1> QED
    BY <1>2, <1>3

(* Whatever uploads overlap, when none is under way and no refusal has     *)
(* been overruled, a driver whose set is complete is no longer PENDING     *)
(* (refreshSubmissionState after every insert).                            *)
THEOREM CompleteIsNoticed == OnboardingSpec => []CompleteSetIsNoticed
<1>1. OnboardingInit => NoticeIInv
    BY OnboardingInitOK DEF NoticeIInv, SomeoneNotices, Waits, OnboardingInit
<1>2. NoticeIInv /\ [OnboardingNext]_onboardingVars => NoticeIInv'
    BY OnboardingStep, NoticeKept DEF NoticeIInv
<1>3. NoticeIInv => CompleteSetIsNoticed
    <2>1. (\A u \in Uploads : uploads[u] = AtHome) => \A u \in Uploads : ~Notices(u)
        BY DEF Notices, AtHome
    <2> QED
        BY <2>1 DEF NoticeIInv, SomeoneNotices, Waits, SetIsIn, CompleteSetIsNoticed
<1> QED
    BY <1>1, <1>2, <1>3, PTL DEF OnboardingSpec

-----------------------------------------------------------------------------
(* The profile, the payout and the pictures.                               *)

(* The columns the two screens and the desk can write.                     *)
Columns == TextColumns \cup PayoutColumns \cup PictureColumns

(* What a column may hold.                                                 *)
Column(c) ==
    IF c = "method" THEN {"none", "BANK", "UPI"}
    ELSE IF c \in PictureColumns THEN 0 .. MaxPictures ELSE Words \cup {"none"}

(* A request knows its columns and what it will write to them; only an     *)
(* upload writes a picture, and the payout is the driver's alone to change.*)
WellFormed(e) == editing[e] # NoForm =>
    LET q == editing[e]
    IN  /\ q = [at |-> q.at, writes |-> q.writes] /\ q.at \in {"put", "save"}
        /\ DOMAIN q.writes \subseteq Columns
        /\ \A c \in DOMAIN q.writes : q.writes[c] \in Column(c)
        /\ DOMAIN q.writes \cap PayoutColumns # {} => e \in Screens
        /\ q.at = "put" => /\ DOMAIN q.writes \subseteq PictureColumns
                           /\ \A c \in DOMAIN q.writes : q.writes[c] # 0

(* What is typed, and what each request under way knows.                   *)
RecordRows ==
    /\ fields \in [Columns -> UNION {Column(c) : c \in Columns}]
    /\ \A c \in Columns : fields[c] \in Column(c)
    /\ locked \subseteq {"mobile", "plate"}
    /\ album \subseteq 1 .. MaxPictures
    /\ formsSent \in 0 .. MaxForms /\ pictureCount \in 0 .. MaxPictures
    /\ DOMAIN editing = Editors
    /\ \A e \in Editors : WellFormed(e)

(* The file of a picture is there before the row that names it.            *)
BytesFirst == \A e \in Editors : editing[e] # NoForm /\ editing[e].at = "save" =>
    \A c \in DOMAIN editing[e].writes \cap PictureColumns : editing[e].writes[c] \in album

(* Inductive, with any number of screens and desks.                        *)
RecordsIInv == RecordRows /\ PictureIsThere /\ BytesFirst

(* What the payout columns hold when a request has been saved.             *)
PaidAfter(e, c) == IF c \in DOMAIN editing[e].writes THEN editing[e].writes[c] ELSE fields[c]

(* A payout under way ends as one of the forms, whole: nothing else        *)
(* touches its columns before it lands.                                    *)
WholePayout == \A e \in Editors :
    editing[e] # NoForm /\ DOMAIN editing[e].writes \cap PayoutColumns # {} =>
        \E m \in {"none", "BANK", "UPI"}, w \in Words :
            \A c \in PayoutColumns : PaidAfter(e, c) = Payout(m, w)[c]

(* The driver uses one screen at a time. With two, a payout the other      *)
(* screen has overtaken leaves half of each form.                          *)
OneScreen == \A e, f \in Screens : e = f

(* Inductive for one screen.                                               *)
PayoutIInv == RecordsIInv /\ OneWayToBePaid /\ WholePayout

-----------------------------------------------------------------------------
(* What a form writes is of its columns.                                   *)
LEMMA FormsTyped ==
    ASSUME NEW e \in Editors, NEW form \in IF e \in Screens THEN OwnForms ELSE DeskForms
    PROVE  /\ DOMAIN form \subseteq TextColumns \cup PayoutColumns
           /\ \A c \in DOMAIN form : form[c] \in Column(c)
           /\ DOMAIN form \cap PayoutColumns # {} =>
                 /\ e \in Screens
                 /\ \E m \in {"none", "BANK", "UPI"}, w \in Words : form = Payout(m, w)
<1>1. ASSUME NEW c \in TextColumns, NEW w \in Typed(c), form = Text(c, w)
      PROVE  DOMAIN form = {c} /\ form[c] \in Column(c) /\ c \notin PayoutColumns
    BY <1>1 DEF Text, Typed, Column, TextColumns, PictureColumns, PayoutColumns
<1>2. ASSUME NEW m \in {"none", "BANK", "UPI"}, NEW w \in Words, form = Payout(m, w)
      PROVE  DOMAIN form = PayoutColumns /\ \A c \in DOMAIN form : form[c] \in Column(c)
    BY <1>2 DEF Payout, Column, PictureColumns, PayoutColumns
<1>3. CASE e \in Screens
    <2>1. CASE \E m \in {"none", "BANK", "UPI"}, w \in Words : form = Payout(m, w)
        BY <1>2, <1>3, <2>1
    <2>2. CASE \E c \in {"about", "looks"} : \E w \in Typed(c) : form = Text(c, w)
        BY <1>1, <2>2 DEF TextColumns
    <2> QED
        BY <1>3, <2>1, <2>2 DEF OwnForms
<1>4. CASE e \notin Screens
    <2>1. \E c \in TextColumns : \E w \in Typed(c) : form = Text(c, w)
        BY <1>4 DEF DeskForms
    <2> QED
        BY <1>1, <2>1
<1> QED
    BY <1>3, <1>4

(* The record starts with no pictures and no payout.                       *)
LEMMA RecordsInitOK == RecordsInit => RecordsIInv
BY RecordsAssumption
   DEF RecordsInit, RecordsIInv, RecordRows, WellFormed, PictureIsThere, IsLinked, BytesFirst,
       Columns, Column, TextColumns, PayoutColumns, PictureColumns

(* The type invariant says no more than the rows.                          *)
LEMMA RowsTyped == RecordRows => RecordsTypeOK
BY DEF RecordRows, RecordsTypeOK, WellFormed, Columns, Column, TextColumns, PayoutColumns,
       PictureColumns

(* A form arrives.                                                         *)
LEMMA EditOK == ASSUME RecordsIInv, NEW e \in Editors, Edit(e) PROVE RecordsIInv'
<1>1. PICK form \in IF e \in Screens THEN OwnForms ELSE DeskForms :
          /\ editing[e] = NoForm /\ formsSent < MaxForms
          /\ editing' = [editing EXCEPT ![e] = [at |-> "save", writes |-> Changed(form)]]
          /\ formsSent' = formsSent + 1
    BY DEF Edit, Submit
<1> DEFINE q == [at |-> "save", writes |-> Changed(form)]
<1>2. /\ UNCHANGED <<fields, locked, album, pictureCount>>
      /\ formsSent' \in 0 .. MaxForms
    BY <1>1, RecordsAssumption DEF Edit, RecordsIInv, RecordRows
<1>3. DOMAIN form \subseteq TextColumns \cup PayoutColumns
    BY FormsTyped
<1>4. /\ DOMAIN Changed(form) \subseteq DOMAIN form
      /\ \A c \in DOMAIN Changed(form) : Changed(form)[c] = form[c]
    BY DEF Changed
<1>5. DOMAIN Changed(form) \cap PictureColumns = {}
    BY <1>3, <1>4 DEF TextColumns, PayoutColumns, PictureColumns
<1>6. /\ DOMAIN Changed(form) \subseteq Columns
      /\ \A c \in DOMAIN Changed(form) : Changed(form)[c] \in Column(c)
      /\ DOMAIN Changed(form) \cap PayoutColumns # {} => e \in Screens
    BY <1>3, <1>4, FormsTyped DEF Columns
<1>7. \A x \in Editors : editing'[x] = IF x = e THEN q ELSE editing[x]
    BY <1>1 DEF RecordsIInv, RecordRows
<1>8. WellFormed(e)'
    BY <1>6, <1>7 DEF WellFormed
<1>9. \A x \in Editors : WellFormed(x)'
    BY <1>2, <1>7, <1>8 DEF WellFormed, RecordsIInv, RecordRows
<1>10. RecordRows'
    BY <1>1, <1>2, <1>9 DEF RecordsIInv, RecordRows
<1>11. BytesFirst'
    BY <1>2, <1>5, <1>7 DEF RecordsIInv, BytesFirst
<1> QED
    BY <1>2, <1>10, <1>11 DEF RecordsIInv, PictureIsThere, IsLinked, CanBeRead

(* A picture arrives.                                                      *)
LEMMA UploadOK == ASSUME RecordsIInv, NEW e \in Editors, Upload(e) PROVE RecordsIInv'
<1>1. PICK c \in PictureColumns :
          /\ editing[e] = NoForm /\ formsSent < MaxForms
          /\ editing' = [editing EXCEPT ![e] =
                            [at |-> "put", writes |-> Text(c, pictureCount + 1)]]
          /\ formsSent' = formsSent + 1
    BY DEF Upload, Submit, UploadSteps
<1> DEFINE q == [at |-> "put", writes |-> Text(c, pictureCount + 1)]
<1>2. /\ UNCHANGED <<fields, locked, album>>
      /\ formsSent' \in 0 .. MaxForms
      /\ pictureCount' \in 0 .. MaxPictures /\ pictureCount + 1 \in 1 .. MaxPictures
    BY <1>1, RecordsAssumption DEF Upload, RecordsIInv, RecordRows
<1>3. \A x \in Editors : editing'[x] = IF x = e THEN q ELSE editing[x]
    BY <1>1 DEF RecordsIInv, RecordRows
<1>4. WellFormed(e)'
    <2>1. /\ DOMAIN q.writes = {c} /\ q.writes[c] = pictureCount + 1
          /\ c \in Columns /\ c \notin PayoutColumns
          /\ Column(c) = 0 .. MaxPictures
        BY DEF Text, Columns, Column, PictureColumns, PayoutColumns
    <2>2. pictureCount + 1 \in 0 .. MaxPictures /\ pictureCount + 1 # 0
        BY <1>2
    <2> HIDE DEF q
    <2>3. q = [at |-> "put", writes |-> q.writes] /\ q.at = "put"
        BY DEF q
    <2> QED
        BY <1>3, <2>1, <2>2, <2>3 DEF WellFormed
<1>5. \A x \in Editors : WellFormed(x)'
    BY <1>2, <1>3, <1>4 DEF WellFormed, RecordsIInv, RecordRows
<1>6. RecordRows'
    BY <1>1, <1>2, <1>5 DEF RecordsIInv, RecordRows
<1>7. BytesFirst'
    BY <1>2, <1>3 DEF RecordsIInv, BytesFirst
<1> QED
    BY <1>2, <1>6, <1>7 DEF RecordsIInv, PictureIsThere, IsLinked, CanBeRead

(* The bytes of a picture are stored.                                      *)
LEMMA PutPictureOK == ASSUME RecordsIInv, NEW e \in Editors, PutPicture(e) PROVE RecordsIInv'
<1> DEFINE q == editing[e]
<1>1. /\ q # NoForm /\ q.at = "put" /\ q = [at |-> q.at, writes |-> q.writes]
      /\ DOMAIN q.writes \subseteq PictureColumns
      /\ \A c \in DOMAIN q.writes : q.writes[c] \in Column(c) /\ q.writes[c] # 0
    BY DEF PutPicture, RecordsIInv, RecordRows, WellFormed, NoForm
<1>2. UNCHANGED <<fields, locked, formsSent, pictureCount>>
    BY DEF PutPicture
<1>3. album \subseteq album' /\ album' \subseteq 1 .. MaxPictures
    BY <1>1 DEF PutPicture, RecordsIInv, RecordRows, Column, PictureColumns
<1>4. After(e) = NoForm \/ After(e) = [at |-> "save", writes |-> q.writes]
    BY <1>1 DEF After, UploadSteps
<1>5. \A x \in Editors : editing'[x] = IF x = e THEN After(e) ELSE editing[x]
    BY DEF PutPicture, RecordsIInv, RecordRows
<1>6. WellFormed(e)'
    BY <1>1, <1>4, <1>5 DEF WellFormed, RecordsIInv, RecordRows, NoForm
<1>7. \A x \in Editors : WellFormed(x)'
    BY <1>2, <1>5, <1>6 DEF WellFormed, RecordsIInv, RecordRows
<1>8. RecordRows'
    BY <1>2, <1>3, <1>7 DEF RecordsIInv, RecordRows, PutPicture
<1>9. BytesFirst'
    <2> SUFFICES ASSUME NEW x \in Editors, editing'[x] # NoForm, editing'[x].at = "save",
                        NEW c \in DOMAIN editing'[x].writes \cap PictureColumns
                 PROVE  editing'[x].writes[c] \in album'
        BY DEF BytesFirst
    <2>1. CASE x = e
        BY <1>4, <1>5, <2>1 DEF PutPicture
    <2>2. CASE x # e
        BY <1>3, <1>5, <2>2 DEF RecordsIInv, BytesFirst
    <2> QED
        BY <2>1, <2>2
<1> QED
    BY <1>2, <1>3, <1>8, <1>9 DEF RecordsIInv, PictureIsThere, IsLinked, CanBeRead

(* The row is written.                                                     *)
LEMMA SaveOK == ASSUME RecordsIInv, NEW e \in Editors, Save(e) PROVE RecordsIInv'
<1> DEFINE q == editing[e]
<1>1. /\ q # NoForm /\ q.at = "save"
      /\ \A c \in DOMAIN q.writes : q.writes[c] \in Column(c)
    BY DEF Save, RecordsIInv, RecordRows, WellFormed, NoForm
<1>2. UNCHANGED <<locked, album, formsSent, pictureCount>>
    BY DEF Save
<1>3. \A x \in Editors : editing'[x] = IF x = e THEN NoForm ELSE editing[x]
    BY <1>1 DEF Save, After, UploadSteps, RecordsIInv, RecordRows
<1>4. /\ DOMAIN fields' = Columns
      /\ \A c \in Columns :
            fields'[c] # fields[c] => c \in DOMAIN q.writes /\ fields'[c] = q.writes[c]
    BY DEF Save, AfterSave, RecordsIInv, RecordRows
<1>5. \A c \in Columns : fields'[c] \in Column(c)
    BY <1>1, <1>4 DEF RecordsIInv, RecordRows
<1>6. fields' \in [Columns -> UNION {Column(c) : c \in Columns}]
    <2>1. fields' = [c \in Columns |-> fields'[c]]
        BY DEF Save, AfterSave, RecordsIInv, RecordRows
    <2> QED
        BY <1>5, <2>1
<1>7. \A x \in Editors : WellFormed(x)'
    BY <1>2, <1>3 DEF WellFormed, RecordsIInv, RecordRows
<1>8. RecordRows'
    BY <1>2, <1>5, <1>6, <1>7 DEF RecordsIInv, RecordRows, Save
<1>9. PictureIsThere'
    BY <1>1, <1>2, <1>4 DEF RecordsIInv, PictureIsThere, BytesFirst, IsLinked, CanBeRead,
       Columns
<1>10. BytesFirst'
    BY <1>2, <1>3 DEF RecordsIInv, BytesFirst
<1> QED
    BY <1>8, <1>9, <1>10 DEF RecordsIInv

(* Every step keeps the pictures there.                                    *)
LEMMA RecordsStep == RecordsIInv /\ [RecordsNext]_recordsVars => RecordsIInv'
<1> SUFFICES ASSUME RecordsIInv, [RecordsNext]_recordsVars PROVE RecordsIInv'
    OBVIOUS
<1>1. CASE \E e \in Editors : Edit(e) \/ Upload(e) \/ PutPicture(e) \/ Save(e)
    BY <1>1, EditOK, UploadOK, PutPictureOK, SaveOK
<1>2. ASSUME NEW e \in Editors, EditorCrash(e) PROVE RecordsIInv'
    <2>1. UNCHANGED <<fields, locked, album, formsSent, pictureCount>>
        BY <1>2 DEF EditorCrash
    <2>2. /\ DOMAIN editing' = Editors
          /\ \A x \in Editors : editing'[x] = NoForm \/ editing'[x] = editing[x]
        BY <1>2 DEF EditorCrash, RecordsIInv, RecordRows
    <2>3. \A x \in Editors : WellFormed(x)'
        BY <2>1, <2>2 DEF WellFormed, RecordsIInv, RecordRows
    <2> QED
        BY <2>1, <2>2, <2>3
           DEF RecordsIInv, RecordRows, PictureIsThere, BytesFirst, IsLinked, CanBeRead
<1>3. CASE LeavePending \/ UNCHANGED recordsVars
    <2>1. /\ UNCHANGED <<fields, editing, album, formsSent, pictureCount>>
          /\ locked' \subseteq {"mobile", "plate"}
        BY <1>3 DEF LeavePending, recordsVars, RecordsIInv, RecordRows
    <2>2. \A x \in Editors : WellFormed(x)'
        BY <2>1 DEF WellFormed, RecordsIInv, RecordRows
    <2> QED
        BY <2>1, <2>2
           DEF RecordsIInv, RecordRows, PictureIsThere, BytesFirst, IsLinked, CanBeRead
<1> QED
    BY <1>1, <1>2, <1>3 DEF RecordsNext

(* Whatever edits and uploads overlap, the picture a row names has been    *)
(* stored: the bytes are put before the row is written.                    *)
THEOREM PicturesAreThere == RecordsSpec => [](RecordsTypeOK /\ PictureIsThere)
<1>1. RecordsIInv => RecordsTypeOK /\ PictureIsThere
    BY RowsTyped DEF RecordsIInv
<1> QED
    BY RecordsInitOK, RecordsStep, <1>1, PTL DEF RecordsSpec

-----------------------------------------------------------------------------
(* An edit that changes a payout column puts a whole form there.           *)
LEMMA EditIsWhole ==
    ASSUME RecordsIInv, NEW e \in Editors, Edit(e),
           DOMAIN editing'[e].writes \cap PayoutColumns # {}
    PROVE  \E m \in {"none", "BANK", "UPI"}, w \in Words :
               \A c \in PayoutColumns : PaidAfter(e, c)' = Payout(m, w)[c]
<1>1. PICK form \in IF e \in Screens THEN OwnForms ELSE DeskForms :
          editing' = [editing EXCEPT ![e] = [at |-> "save", writes |-> Changed(form)]]
    BY DEF Edit, Submit
<1>2. editing'[e].writes = Changed(form) /\ UNCHANGED fields
    BY <1>1 DEF Edit, RecordsIInv, RecordRows
<1>3. /\ DOMAIN Changed(form) = {c \in DOMAIN form : form[c] # fields[c]}
      /\ \A c \in DOMAIN Changed(form) : Changed(form)[c] = form[c]
    BY DEF Changed
<1>4. DOMAIN form \cap PayoutColumns # {}
    BY <1>2, <1>3
<1>5. PICK m \in {"none", "BANK", "UPI"}, w \in Words : form = Payout(m, w)
    BY <1>4, FormsTyped
<1>6. DOMAIN Payout(m, w) = PayoutColumns
    BY DEF Payout, PayoutColumns
<1>7. \A c \in PayoutColumns : PaidAfter(e, c)' = Payout(m, w)[c]
    BY <1>2, <1>3, <1>5, <1>6 DEF PaidAfter
<1> QED
    BY <1>7

(* Of one screen, only its own request writes the payout.                  *)
LEMMA OtherPayouts ==
    ASSUME RecordRows, OneScreen, NEW e \in Editors, NEW x \in Editors, x # e,
           editing[x] # NoForm, DOMAIN editing[x].writes \cap PayoutColumns # {},
           editing[e] # NoForm
    PROVE  DOMAIN editing[e].writes \cap PayoutColumns = {}
BY DEF RecordRows, WellFormed, OneScreen

(* A row that holds one whole form passes the check.                       *)
LEMMA WholeIsOneWay ==
    ASSUME NEW m \in {"none", "BANK", "UPI"}, NEW w \in Words, DOMAIN fields = Columns,
           \A c \in PayoutColumns : fields[c] = Payout(m, w)[c]
    PROVE  OneWayToBePaid
BY RecordsAssumption DEF Payout, PayoutColumns, OneWayToBePaid, Revealed, Masked

(* Every step keeps the payout whole.                                      *)
LEMMA PayoutStep ==
    ASSUME OneScreen, PayoutIInv, [RecordsNext]_recordsVars PROVE PayoutIInv'
<1>1. RecordsIInv'
    BY RecordsStep DEF PayoutIInv
<1>2. ASSUME UNCHANGED fields,
             \A x \in Editors : editing'[x] = NoForm \/ editing'[x] = editing[x]
      PROVE  OneWayToBePaid' /\ WholePayout'
    BY <1>2 DEF PayoutIInv, OneWayToBePaid, Revealed, Masked, WholePayout, PaidAfter
<1>3. ASSUME NEW e \in Editors, Edit(e) PROVE OneWayToBePaid' /\ WholePayout'
    <2>1. UNCHANGED fields /\ \A x \in Editors : x # e => editing'[x] = editing[x]
        BY <1>3 DEF Edit, Submit, PayoutIInv, RecordsIInv, RecordRows
    <2>2. WholePayout'
        BY <1>3, <2>1, EditIsWhole DEF PayoutIInv, WholePayout, PaidAfter
    <2> QED
        BY <2>1, <2>2 DEF PayoutIInv, OneWayToBePaid, Revealed, Masked
<1>4. ASSUME NEW e \in Editors, Upload(e) PROVE OneWayToBePaid' /\ WholePayout'
    <2>1. UNCHANGED fields /\ \A x \in Editors : x # e => editing'[x] = editing[x]
        BY <1>4 DEF Upload, Submit, PayoutIInv, RecordsIInv, RecordRows
    <2>2. DOMAIN editing'[e].writes \cap PayoutColumns = {}
        BY <1>4 DEF Upload, Submit, Text, PictureColumns, PayoutColumns, PayoutIInv,
           RecordsIInv, RecordRows
    <2>3. WholePayout'
        BY <2>1, <2>2 DEF PayoutIInv, WholePayout, PaidAfter
    <2> QED
        BY <2>1, <2>3 DEF PayoutIInv, OneWayToBePaid, Revealed, Masked
<1>5. ASSUME NEW e \in Editors, PutPicture(e) PROVE OneWayToBePaid' /\ WholePayout'
    <2>1. /\ editing[e] # NoForm
          /\ editing[e] = [at |-> editing[e].at, writes |-> editing[e].writes]
        BY <1>5 DEF PutPicture, NoForm, PayoutIInv, RecordsIInv, RecordRows, WellFormed
    <2>2. \A x \in Editors : editing'[x] = IF x = e THEN After(e) ELSE editing[x]
        BY <1>5 DEF PutPicture, PayoutIInv, RecordsIInv, RecordRows
    <2>3. After(e) = NoForm \/ After(e).writes = editing[e].writes
        BY <2>1 DEF After
    <2>4. ASSUME NEW x \in Editors, editing'[x] # NoForm,
                 DOMAIN editing'[x].writes \cap PayoutColumns # {}
          PROVE  editing[x] # NoForm /\ editing'[x].writes = editing[x].writes
        BY <2>1, <2>2, <2>3, <2>4
    <2>5. UNCHANGED fields
        BY <1>5 DEF PutPicture
    <2>6. WholePayout'
        BY <2>4, <2>5 DEF PayoutIInv, WholePayout, PaidAfter
    <2> QED
        BY <2>5, <2>6 DEF PayoutIInv, OneWayToBePaid, Revealed, Masked
<1>6. ASSUME NEW e \in Editors, Save(e) PROVE OneWayToBePaid' /\ WholePayout'
    <2>1. /\ editing[e] # NoForm /\ editing[e].at = "save"
          /\ \A x \in Editors : editing'[x] = IF x = e THEN NoForm ELSE editing[x]
        BY <1>6 DEF Save, After, UploadSteps, NoForm, PayoutIInv, RecordsIInv, RecordRows
    <2>2. DOMAIN fields = Columns /\ DOMAIN fields' = Columns
        BY <1>1 DEF PayoutIInv, RecordsIInv, RecordRows
    <2>3. \/ \A c \in Columns : fields'[c] = fields[c]
          \/ \A c \in Columns : fields'[c] = PaidAfter(e, c)
        BY <1>6, <2>2 DEF Save, AfterSave, PaidAfter
    <2>4. PayoutColumns \subseteq Columns
        BY DEF Columns
    <2>5. CASE /\ DOMAIN editing[e].writes \cap PayoutColumns # {}
               /\ \A c \in Columns : fields'[c] = PaidAfter(e, c)
        <3>1. PICK m \in {"none", "BANK", "UPI"}, w \in Words :
                  \A c \in PayoutColumns : PaidAfter(e, c) = Payout(m, w)[c]
            BY <2>1, <2>5 DEF PayoutIInv, WholePayout
        <3>2. \A c \in PayoutColumns : fields'[c] = Payout(m, w)[c]
            BY <2>4, <2>5, <3>1
        <3>3. OneWayToBePaid'
            BY <2>2, <3>2, RecordsAssumption
               DEF Payout, PayoutColumns, OneWayToBePaid, Revealed, Masked
        <3>4. \A x \in Editors : x # e /\ editing[x] # NoForm =>
                  DOMAIN editing[x].writes \cap PayoutColumns = {}
            BY <2>1, <2>5, OtherPayouts DEF PayoutIInv, RecordsIInv
        <3> QED
            BY <2>1, <3>3, <3>4 DEF WholePayout
    <2>6. CASE ~(/\ DOMAIN editing[e].writes \cap PayoutColumns # {}
                 /\ \A c \in Columns : fields'[c] = PaidAfter(e, c))
        <3>1. \A c \in PayoutColumns : fields'[c] = fields[c]
            BY <2>3, <2>4, <2>6 DEF PaidAfter
        <3>2. OneWayToBePaid'
            BY <3>1, <2>2 DEF PayoutIInv, PayoutColumns, OneWayToBePaid, Revealed, Masked
        <3> QED
            BY <2>1, <3>1, <3>2 DEF PayoutIInv, WholePayout, PaidAfter
    <2> QED
        BY <2>5, <2>6
<1>7. ASSUME NEW e \in Editors, EditorCrash(e) PROVE OneWayToBePaid' /\ WholePayout'
    <2>1. UNCHANGED fields /\ \A x \in Editors : editing'[x] = NoForm \/ editing'[x] = editing[x]
        BY <1>7 DEF EditorCrash, PayoutIInv, RecordsIInv, RecordRows
    <2> QED
        BY <1>2, <2>1
<1>8. CASE LeavePending \/ UNCHANGED recordsVars
    <2>1. UNCHANGED <<fields, editing>>
        BY <1>8 DEF LeavePending, recordsVars
    <2>2. OneWayToBePaid' /\ WholePayout'
        BY <1>2, <2>1
    <2> QED
        BY <1>1, <2>2 DEF PayoutIInv
<1> QED
    BY <1>1, <1>3, <1>4, <1>5, <1>6, <1>7, <1>8 DEF RecordsNext, PayoutIInv

(* With one screen at a time, an account or a UPI id in the row is the one *)
(* the payout shows and reveals, whatever the desk and the pictures write  *)
(* to the same row meanwhile (updateMyPayout).                             *)
THEOREM OneWay == ASSUME OneScreen PROVE RecordsSpec => []OneWayToBePaid
<1>1. RecordsInit => PayoutIInv
    BY RecordsInitOK, RecordsAssumption
       DEF RecordsInit, PayoutIInv, OneWayToBePaid, Revealed, Masked, WholePayout,
           TextColumns, PayoutColumns, PictureColumns
<1>2. PayoutIInv /\ [RecordsNext]_recordsVars => PayoutIInv'
    BY PayoutStep
<1>3. PayoutIInv => OneWayToBePaid
    BY DEF PayoutIInv
<1> QED
    BY <1>1, <1>2, <1>3, PTL DEF RecordsSpec
-----------------------------------------------------------------------------
(* The checks of a wrap (BrandingProofs).                                  *)

(* The premise of the second theorem: an app that waits for an answer.     *)
Patient == PatientDriver = TRUE

(* A request of operations for a check.                                    *)
AskRow == [at : {"find", "insert"}, of : Wraps]

(* A request of a driver about a check.                                    *)
PhoneRow ==
    [at : {"find", "save", "status", "angles", "send"}, proof : 1 .. MaxProofs,
     angle : Angles, saw : ProofStatus, found : BOOLEAN]

(* Every row, and every copy of a row a request holds, is of the table.    *)
ProofRows ==
    /\ assignment \in [Wraps -> {"INSTALLING", "ACTIVE", "ENDED"}]
    /\ proofs \in Seq(Proof) /\ Len(proofs) <= MaxProofs
    /\ asks \in [Askers -> {AtRest} \cup AskRow]
    /\ phones \in [Phones -> {AtRest} \cup PhoneRow]
    /\ \A p \in Phones : phones[p] # AtRest => phones[p].proof \in DOMAIN proofs

(* A driver's one request is about a check that has not been sent, and has *)
(* counted its photos when it is about to send it; what was sent has all   *)
(* its photos.                                                             *)
PublishedIInv ==
    /\ \A p, q \in Phones :
          /\ phones[p] # AtRest /\ phones[q] # AtRest
          /\ proofs[phones[p].proof].of = proofs[phones[q].proof].of
          => p = q
    /\ \A p \in Phones : phones[p] # AtRest =>
          /\ proofs[phones[p].proof].status \notin Sent
          /\ phones[p].at = "send" => MissingAngles(phones[p].proof) = {}
    /\ \A i \in DOMAIN proofs : proofs[i].status = "SUBMITTED" => MissingAngles(i) = {}

-----------------------------------------------------------------------------
(* Nobody at rest is at work.                                              *)
LEMMA RestIsNoRow == AtRest \notin AskRow /\ AtRest \notin PhoneRow
BY DEF AtRest, AskRow, PhoneRow

(* That is the type invariant.                                             *)
LEMMA RowsAreTyped == ProofRows => ProofsTypeOK
BY DEF ProofRows, ProofsTypeOK, AskRow, PhoneRow

(* No check has been asked for.                                            *)
LEMMA ProofsInitOK == ProofsInit => ProofRows /\ OneOpenProof /\ PublishedIInv
<1>1. ASSUME ProofsInit PROVE proofs \in Seq(Proof) /\ Len(proofs) = 0 /\ DOMAIN proofs = {}
    BY <1>1, EmptySeq DEF ProofsInit
<1> QED
    BY <1>1, BrandingProofsAssumption
    DEF ProofsInit, ProofRows, OneOpenProof, PublishedIInv

(* What a step does to the checks: nothing; one more, the assignment's     *)
(* only open one; or one of them changed.                                  *)
OneMore(w) ==
    /\ OpenOf(w) = {} /\ Len(proofs) < MaxProofs /\ UNCHANGED phones
    /\ proofs' = Append(proofs, NewProof(w))

(* One check is another, of the same assignment.                           *)
OneChanged(i, row) ==
    /\ row \in Proof /\ row.of = proofs[i].of
    /\ proofs' = [proofs EXCEPT ![i] = row]

(* A check that is changed stays the same assignment's, is opened again    *)
(* only where no other is open, and loses no photo.                        *)
LEMMA ChangedProof ==
    ASSUME ProofRows, NEW i \in DOMAIN proofs, NEW row, OneChanged(i, row)
    PROVE  /\ proofs' \in Seq(Proof) /\ Len(proofs') = Len(proofs)
           /\ DOMAIN proofs' = DOMAIN proofs /\ proofs'[i] = row
           /\ \A j \in DOMAIN proofs : j # i => proofs'[j] = proofs[j]
           /\ \A j \in DOMAIN proofs : proofs'[j].of = proofs[j].of
BY ExceptSeq DEF ProofRows, OneChanged

(* The unique index lets a check open where no other one of the assignment *)
(* is.                                                                     *)
LEMMA ChangedStaysOne ==
    ASSUME ProofRows, OneOpenProof, NEW i \in DOMAIN proofs, NEW row, OneChanged(i, row),
           row.status \in OPEN_PROOF => proofs[i].status \in OPEN_PROOF \/ MayOpen(row.of, i)
    PROVE  OneOpenProof'
<1>1. /\ DOMAIN proofs' = DOMAIN proofs /\ proofs'[i] = row
      /\ \A j \in DOMAIN proofs : j # i => proofs'[j] = proofs[j]
    BY ChangedProof
<1>2. row.of = proofs[i].of
    BY DEF OneChanged
<1>3. ASSUME NEW j \in DOMAIN proofs, j # i, row.of = proofs[j].of,
             row.status \in OPEN_PROOF, proofs[j].status \in OPEN_PROOF
      PROVE  FALSE
    BY <1>2, <1>3 DEF OneOpenProof, MayOpen, OpenOf
<1>4. ASSUME NEW j \in DOMAIN proofs', NEW k \in DOMAIN proofs', j # k,
             proofs'[j].of = proofs'[k].of,
             proofs'[j].status \in OPEN_PROOF, proofs'[k].status \in OPEN_PROOF
      PROVE  FALSE
    <2>1. CASE j = i
        BY <1>1, <1>3, <1>4, <2>1
    <2>2. CASE k = i
        BY <1>1, <1>3, <1>4, <2>2
    <2>3. CASE j # i /\ k # i
        BY <1>1, <1>4, <2>3 DEF OneOpenProof
    <2> QED
        BY <2>1, <2>2, <2>3
<1> QED
    BY <1>4 DEF OneOpenProof
-----------------------------------------------------------------------------
(* One step of a driver's request.                                         *)
LEMMA PhoneMoved ==
    ASSUME ProofRows, NEW p \in Phones, phones[p] # AtRest,
           NEW row, row = AtRest \/ (row \in PhoneRow /\ row.proof = phones[p].proof),
           phones' = [phones EXCEPT ![p] = row]
    PROVE  /\ phones' \in [Phones -> {AtRest} \cup PhoneRow]
           /\ phones'[p] = row /\ \A q \in Phones : q # p => phones'[q] = phones[q]
BY DEF ProofRows

(* What the steps of a request make of the check it is about.              *)
LEMMA PhoneStep ==
    ASSUME ProofRows, NEW p \in Phones, PhoneSteps(p)
    PROVE  /\ phones[p] # AtRest /\ phones[p] \in PhoneRow /\ phones[p].proof \in DOMAIN proofs
           /\ UNCHANGED <<assignment, asks>>
           /\ \E row :
                 /\ row = AtRest \/ (row \in PhoneRow /\ row.proof = phones[p].proof)
                 /\ phones[p].at \in {"status", "send"} => row = AtRest
                 /\ phones' = [phones EXCEPT ![p] = row]
                 /\ row # AtRest /\ row.at = "send" =>
                       MissingAngles(phones[p].proof) = {} /\ UNCHANGED proofs
<1>1. phones[p].at \in {"find", "save", "status", "angles", "send"}
    BY DEF PhoneSteps, FindPhoto, SavePhoto, StartProgress, CheckAngles, Publish
<1>2. phones[p] # AtRest
    BY <1>1 DEF AtRest
<1>3. phones[p] \in PhoneRow /\ phones[p].proof \in DOMAIN proofs
    BY <1>2 DEF ProofRows
<1>4. UNCHANGED <<assignment, asks>>
    BY DEF PhoneSteps, FindPhoto, SavePhoto, StartProgress, CheckAngles, Publish
<1>5. CASE FindPhoto(p)
    <2>1. PICK row : row = [phones[p] EXCEPT !.at = "save",
               !.found = proofs[phones[p].proof].photos[phones[p].angle] # 0]
        OBVIOUS
    <2>2. phones' = [phones EXCEPT ![p] = row]
        BY <1>5, <2>1 DEF FindPhoto
    <2>3. row \in PhoneRow /\ row.proof = phones[p].proof /\ row.at = "save"
        BY <1>3, <2>1 DEF PhoneRow
    <2> QED
        BY <1>2, <1>3, <1>4, <1>5, <2>2, <2>3 DEF FindPhoto
<1>6. ASSUME NEW step \in {"status", "send"}, Moves(p, step),
             step = "send" => MissingAngles(phones[p].proof) = {} /\ UNCHANGED proofs
      PROVE  \E row :
                 /\ row \in PhoneRow /\ row.proof = phones[p].proof
                 /\ phones' = [phones EXCEPT ![p] = row]
                 /\ row # AtRest /\ row.at = "send" =>
                       MissingAngles(phones[p].proof) = {} /\ UNCHANGED proofs
    <2>1. PICK row : row = [phones[p] EXCEPT !.at = step]
        OBVIOUS
    <2>2. phones' = [phones EXCEPT ![p] = row]
        BY <1>6, <2>1 DEF Moves
    <2>3. row \in PhoneRow /\ row.proof = phones[p].proof /\ row.at = step
        BY <1>3, <2>1 DEF PhoneRow
    <2> QED
        BY <1>6, <2>2, <2>3
<1>7. CASE Done(p)
    BY <1>2, <1>3, <1>4, <1>7 DEF Done
<1>8. CASE SavePhoto(p)
    BY <1>2, <1>3, <1>4, <1>6, <1>7, <1>8 DEF SavePhoto
<1>9. CASE CheckAngles(p)
    BY <1>2, <1>3, <1>4, <1>6, <1>7, <1>9 DEF CheckAngles
<1>10. CASE StartProgress(p) \/ Publish(p)
    BY <1>7, <1>10 DEF StartProgress, Publish
<1> QED
    BY <1>5, <1>8, <1>9, <1>10 DEF PhoneSteps

(* What the steps of a driver write: the check they are about.             *)
LEMMA PhoneWrites ==
    ASSUME ProofRows, NEW p \in Phones, PhoneSteps(p), proofs' # proofs
    PROVE  \E i, row :
               /\ i = phones[p].proof /\ OneChanged(i, row)
               /\ \A a \in Angles : row.photos[a] = 0 => proofs[i].photos[a] = 0
               /\ \/ row.status = proofs[i].status /\ phones[p].at = "save"
                  \/ row.status = "IN_PROGRESS" /\ MayOpen(row.of, i) /\ phones[p].at = "status"
                  \/ row.status = "SUBMITTED" /\ phones[p].at = "send"
                        /\ row.photos = proofs[i].photos
<1>1. PICK i : i = phones[p].proof
    OBVIOUS
<1>2. /\ phones[p] \in PhoneRow /\ i \in DOMAIN proofs
    BY <1>1, PhoneStep
<1>3. proofs[i] \in Proof /\ phones[p].angle \in Angles
    BY <1>2, ElementOfSeq DEF ProofRows, PhoneRow
<1>4. CASE SavePhoto(p)
    <2>1. PICK angle \in Angles : angle = phones[p].angle
        BY <1>3
    <2>2. PICK n : n = proofs[i].photos[angle] + 1
        OBVIOUS
    <2>3. /\ phones[p].at = "save" /\ proofs[i].photos[angle] < MaxTakes
          /\ proofs' = [proofs EXCEPT ![i].photos[angle] = n]
        BY <1>1, <1>4, <2>1, <2>2 DEF SavePhoto
    <2>4. proofs[i].photos \in [Angles -> 0 .. MaxTakes] /\ MaxTakes \in Nat
        BY <1>3, BrandingProofsAssumption DEF Proof
    <2>5. n \in 0 .. MaxTakes /\ n # 0
        BY <2>2, <2>3, <2>4
    <2>6. PICK photos : photos = [proofs[i].photos EXCEPT ![angle] = n]
        OBVIOUS
    <2>7. photos \in [Angles -> 0 .. MaxTakes]
          /\ \A a \in Angles : photos[a] = 0 => proofs[i].photos[a] = 0
        BY <2>4, <2>5, <2>6
    <2>8. PICK row : row = [proofs[i] EXCEPT !.photos = photos]
        OBVIOUS
    <2>9. /\ row \in Proof /\ row.of = proofs[i].of /\ row.status = proofs[i].status
          /\ row.photos = photos
        BY <1>3, <2>7, <2>8 DEF Proof
    <2>10. proofs' = [proofs EXCEPT ![i] = row]
        BY <2>3, <2>6, <2>8
    <2> QED
        BY <1>1, <2>3, <2>7, <2>9, <2>10 DEF OneChanged
<1>5. ASSUME NEW status \in ProofStatus, proofs' = [proofs EXCEPT ![i].status = status]
      PROVE  \E row : /\ OneChanged(i, row) /\ row.status = status
                      /\ row.photos = proofs[i].photos
    <2>1. PICK row : row = [proofs[i] EXCEPT !.status = status]
        OBVIOUS
    <2>2. /\ row \in Proof /\ row.of = proofs[i].of /\ row.status = status
          /\ row.photos = proofs[i].photos
        BY <1>3, <2>1 DEF Proof
    <2> QED
        BY <1>5, <2>1, <2>2 DEF OneChanged
<1>6. CASE StartProgress(p)
    <2>1. /\ phones[p].at = "status" /\ MayOpen(proofs[i].of, i)
          /\ proofs' = [proofs EXCEPT ![i].status = "IN_PROGRESS"]
        BY <1>1, <1>6 DEF StartProgress
    <2>2. PICK row : /\ OneChanged(i, row) /\ row.status = "IN_PROGRESS"
                     /\ row.photos = proofs[i].photos
        BY <1>5, <2>1 DEF ProofStatus
    <2>3. MayOpen(row.of, i)
        BY <2>1, <2>2 DEF OneChanged
    <2> QED
        BY <1>1, <2>1, <2>2, <2>3
<1>7. CASE Publish(p)
    <2>1. /\ phones[p].at = "send" /\ proofs' = [proofs EXCEPT ![i].status = "SUBMITTED"]
        BY <1>1, <1>7 DEF Publish
    <2>2. PICK row : /\ OneChanged(i, row) /\ row.status = "SUBMITTED"
                     /\ row.photos = proofs[i].photos
        BY <1>5, <2>1 DEF ProofStatus
    <2> QED
        BY <1>1, <2>1, <2>2
<1> QED
    BY <1>4, <1>6, <1>7 DEF PhoneSteps, FindPhoto, CheckAngles

-----------------------------------------------------------------------------
(* The steps of the back office and of time, and a request that begins.    *)
LEMMA AskStepOK ==
    ASSUME ProofRows, OneOpenProof, NEW q \in Askers,
           \/ FindOpenProof(q)
           \/ \E w \in Wraps : AskPhotos(q, w) \/ GoOnTheRoad(q, w)
    PROVE  ProofRows' /\ UNCHANGED <<proofs, phones>>
<1>1. UNCHANGED <<proofs, phones>>
    BY DEF FindOpenProof, AskPhotos, GoOnTheRoad
<1>2. ASSUME NEW w \in Wraps, AskPhotos(q, w) \/ GoOnTheRoad(q, w)
      PROVE  ProofRows'
    <2>1. [at |-> "find", of |-> w] \in AskRow
        BY DEF AskRow
    <2>2. asks' \in [Askers -> {AtRest} \cup AskRow]
        BY <1>2, <2>1 DEF AskPhotos, GoOnTheRoad, ProofRows
    <2> QED
        BY <1>1, <1>2, <2>2 DEF AskPhotos, GoOnTheRoad, ProofRows
<1>3. CASE FindOpenProof(q)
    <2>1. asks[q] \in AskRow
        BY <1>3 DEF FindOpenProof, ProofRows, AtRest
    <2>2. [asks[q] EXCEPT !.at = "insert"] \in AskRow
        BY <2>1 DEF AskRow
    <2>3. asks' \in [Askers -> {AtRest} \cup AskRow]
        BY <1>3, <2>2 DEF FindOpenProof, ProofRows
    <2> QED
        BY <1>1, <1>3, <2>3 DEF FindOpenProof, ProofRows
<1> QED
    BY <1>1, <1>2, <1>3

(* A check is asked for where none is open.                                *)
LEMMA InsertStep ==
    ASSUME ProofRows, NEW q \in Askers, InsertProof(q)
    PROVE  /\ UNCHANGED <<assignment, phones>>
           /\ asks' \in [Askers -> {AtRest} \cup AskRow]
           /\ UNCHANGED proofs \/ \E w \in Wraps : OneMore(w)
<1>1. asks[q] \in AskRow
    BY DEF InsertProof, ProofRows, AtRest
<1>2. 0 \notin DOMAIN proofs
    BY LenProperties DEF ProofRows
<1> QED
    BY <1>1, <1>2 DEF InsertProof, ProofRows, OneMore, MayOpen, OpenOf, AskRow

(* That leaves one open.                                                   *)
LEMMA OneMoreProof ==
    ASSUME ProofRows, NEW w \in Wraps, OneMore(w)
    PROVE  /\ proofs' \in Seq(Proof) /\ Len(proofs') = Len(proofs) + 1
           /\ Len(proofs) + 1 \notin DOMAIN proofs
           /\ DOMAIN proofs' = DOMAIN proofs \cup {Len(proofs) + 1}
           /\ proofs'[Len(proofs) + 1] = NewProof(w)
           /\ \A i \in DOMAIN proofs : proofs'[i] = proofs[i]
<1>1. NewProof(w) \in Proof
    BY BrandingProofsAssumption DEF NewProof, Proof, ProofStatus
<1> QED
    BY <1>1, AppendProperties DEF ProofRows, OneMore

(* A driver begins.                                                        *)
LEMMA BeginPhone ==
    ASSUME ProofRows, NEW p \in Phones, NEW i \in DOMAIN proofs,
           BeginSubmit(p, i) \/ \E angle \in Angles : TakePhoto(p, i, angle)
    PROVE  /\ UNCHANGED <<assignment, proofs, asks>>
           /\ phones[p] = AtRest /\ proofs[i].status \notin Sent
           /\ PatientDriver => NoneBusy(proofs[i].of)
           /\ \E row \in PhoneRow : /\ row.proof = i /\ row.at # "send"
                                    /\ phones' = [phones EXCEPT ![p] = row]
<1>1. PICK step \in {"find", "angles"}, angle \in Angles : LoadProof(p, i, step, angle)
    BY DEF BeginSubmit, TakePhoto
<1>2. PICK row : row = [at |-> step, proof |-> i, angle |-> angle, saw |-> proofs[i].status,
                        found |-> FALSE]
    OBVIOUS
<1>3. proofs[i].status \in ProofStatus
    <2>1. proofs[i] \in Proof
        BY ElementOfSeq DEF ProofRows
    <2> QED
        BY <2>1 DEF Proof
<1>4. i \in 1 .. MaxProofs
    BY LenProperties, BrandingProofsAssumption DEF ProofRows
<1>5. row \in PhoneRow /\ row.proof = i /\ row.at = step
    BY <1>2, <1>3, <1>4 DEF PhoneRow
<1> QED
    BY <1>1, <1>2, <1>5 DEF LoadProof

(* A wrap leaves the road, or a check falls due.                           *)
LEMMA TimeStep ==
    ASSUME ProofRows,
           \/ \E w \in Wraps : LeaveTheRoad(w)
           \/ \E i \in DOMAIN proofs : ComesDue(i)
    PROVE  /\ UNCHANGED <<asks, phones>>
           /\ assignment' \in [Wraps -> {"INSTALLING", "ACTIVE", "ENDED"}]
           /\ \/ UNCHANGED proofs
              \/ \E i \in DOMAIN proofs, row \in Proof :
                    /\ OneChanged(i, row) /\ row.status = proofs[i].status
                    /\ row.photos = proofs[i].photos
<1>1. ASSUME NEW w \in Wraps, LeaveTheRoad(w)
      PROVE  /\ UNCHANGED <<asks, phones, proofs>>
             /\ assignment' \in [Wraps -> {"INSTALLING", "ACTIVE", "ENDED"}]
    BY <1>1 DEF LeaveTheRoad, ProofRows
<1>2. ASSUME NEW i \in DOMAIN proofs, ComesDue(i)
      PROVE  /\ UNCHANGED <<assignment, asks, phones>>
             /\ \E row \in Proof :
                    /\ OneChanged(i, row) /\ row.status = proofs[i].status
                    /\ row.photos = proofs[i].photos
    <2>1. PICK row : row = [proofs[i] EXCEPT !.overdue = TRUE]
        OBVIOUS
    <2>2. proofs[i] \in Proof
        BY ElementOfSeq DEF ProofRows
    <2>3. /\ row \in Proof /\ row.of = proofs[i].of /\ row.status = proofs[i].status
          /\ row.photos = proofs[i].photos
        BY <2>1, <2>2 DEF Proof
    <2> QED
        BY <1>2, <2>1, <2>3 DEF ComesDue, OneChanged
<1> QED
    BY <1>1, <1>2 DEF ProofRows

-----------------------------------------------------------------------------
(* Every step keeps one open check.                                        *)
LEMMA OneOpenStep ==
    ASSUME ProofRows, OneOpenProof, ProofsNext
    PROVE  ProofRows' /\ OneOpenProof'
<1>1. ASSUME UNCHANGED proofs PROVE OneOpenProof'
    BY <1>1 DEF OneOpenProof
<1>2. ASSUME NEW q \in Askers,
             \/ FindOpenProof(q)
             \/ \E w \in Wraps : AskPhotos(q, w) \/ GoOnTheRoad(q, w)
      PROVE  ProofRows' /\ OneOpenProof'
    BY <1>1, <1>2, AskStepOK
<1>3. ASSUME NEW q \in Askers, InsertProof(q) PROVE ProofRows' /\ OneOpenProof'
    <2>1. /\ UNCHANGED <<assignment, phones>>
          /\ asks' \in [Askers -> {AtRest} \cup AskRow]
        BY <1>3, InsertStep
    <2>2. CASE UNCHANGED proofs
        BY <1>1, <2>1, <2>2 DEF ProofRows
    <2>3. ASSUME NEW w \in Wraps, OneMore(w) PROVE ProofRows' /\ OneOpenProof'
        <3>1. PICK n : n = Len(proofs) + 1
            OBVIOUS
        <3>2. /\ proofs' \in Seq(Proof) /\ Len(proofs') = n /\ n \notin DOMAIN proofs
              /\ DOMAIN proofs' = DOMAIN proofs \cup {n}
              /\ proofs'[n] = NewProof(w)
              /\ \A i \in DOMAIN proofs : proofs'[i] = proofs[i]
            BY <2>3, <3>1, OneMoreProof
        <3>3. Len(proofs') <= MaxProofs
            BY <2>3, <3>1, <3>2, BrandingProofsAssumption DEF OneMore, ProofRows
        <3>4. ProofRows'
            BY <2>1, <3>2, <3>3 DEF ProofRows
        <3>5. \A i \in DOMAIN proofs : ~(proofs[i].of = w /\ proofs[i].status \in OPEN_PROOF)
            BY <2>3 DEF OneMore, OpenOf
        <3>6. NewProof(w).of = w
            BY DEF NewProof
        <3> QED
            BY <3>2, <3>4, <3>5, <3>6 DEF OneOpenProof
    <2> QED
        BY <1>3, <2>2, <2>3, InsertStep
<1>4. ASSUME \/ \E w \in Wraps : LeaveTheRoad(w)
             \/ \E i \in DOMAIN proofs : ComesDue(i)
      PROVE  ProofRows' /\ OneOpenProof'
    <2>1. /\ UNCHANGED <<asks, phones>>
          /\ assignment' \in [Wraps -> {"INSTALLING", "ACTIVE", "ENDED"}]
          /\ \/ UNCHANGED proofs
             \/ \E i \in DOMAIN proofs, row \in Proof :
                   /\ OneChanged(i, row) /\ row.status = proofs[i].status
                   /\ row.photos = proofs[i].photos
        BY <1>4, TimeStep
    <2>2. CASE UNCHANGED proofs
        BY <1>1, <2>1, <2>2 DEF ProofRows
    <2>3. ASSUME NEW i \in DOMAIN proofs, NEW row \in Proof, OneChanged(i, row),
                 row.status = proofs[i].status
          PROVE  ProofRows' /\ OneOpenProof'
        <3>1. OneOpenProof'
            BY <2>3, ChangedStaysOne
        <3>2. proofs' \in Seq(Proof) /\ Len(proofs') = Len(proofs)
              /\ DOMAIN proofs' = DOMAIN proofs
            BY <2>3, ChangedProof
        <3> QED
            BY <2>1, <3>1, <3>2 DEF ProofRows
    <2> QED
        BY <2>1, <2>2, <2>3
<1>5. ASSUME NEW p \in Phones, NEW i \in DOMAIN proofs,
             BeginSubmit(p, i) \/ \E angle \in Angles : TakePhoto(p, i, angle)
      PROVE  ProofRows' /\ OneOpenProof'
    <2>1. UNCHANGED <<assignment, proofs, asks>>
        BY <1>5, BeginPhone
    <2>2. PICK row \in PhoneRow : row.proof = i /\ phones' = [phones EXCEPT ![p] = row]
        BY <1>5, BeginPhone
    <2> QED
        BY <1>1, <2>1, <2>2 DEF ProofRows
<1>6. ASSUME NEW p \in Phones, PhoneSteps(p) PROVE ProofRows' /\ OneOpenProof'
    <2>1. /\ phones[p] # AtRest /\ phones[p].proof \in DOMAIN proofs
          /\ UNCHANGED <<assignment, asks>>
        BY <1>6, PhoneStep
    <2>2. /\ phones' \in [Phones -> {AtRest} \cup PhoneRow]
          /\ \A q \in Phones : phones'[q] # AtRest => phones'[q].proof \in DOMAIN proofs
        <3>1. PICK row : /\ row = AtRest \/ (row \in PhoneRow /\ row.proof = phones[p].proof)
                         /\ phones[p].at \in {"status", "send"} => row = AtRest
                         /\ phones' = [phones EXCEPT ![p] = row]
            BY <1>6, PhoneStep
        <3>2. /\ phones' \in [Phones -> {AtRest} \cup PhoneRow]
              /\ phones'[p] = row /\ \A q \in Phones : q # p => phones'[q] = phones[q]
            BY <2>1, <3>1, PhoneMoved
        <3> QED
            BY <2>1, <3>1, <3>2 DEF ProofRows
    <2>3. CASE UNCHANGED proofs
        BY <1>1, <2>1, <2>2, <2>3 DEF ProofRows
    <2>4. CASE proofs' # proofs
        <3>1. PICK i, row :
                  /\ i = phones[p].proof /\ OneChanged(i, row)
                  /\ \A a \in Angles : row.photos[a] = 0 => proofs[i].photos[a] = 0
                  /\ \/ row.status = proofs[i].status /\ phones[p].at = "save"
                     \/ row.status = "IN_PROGRESS" /\ MayOpen(row.of, i) /\ phones[p].at = "status"
                     \/ row.status = "SUBMITTED" /\ phones[p].at = "send"
                           /\ row.photos = proofs[i].photos
            BY <1>6, <2>4, PhoneWrites
        <3>2. row.status \in OPEN_PROOF => proofs[i].status \in OPEN_PROOF \/ MayOpen(row.of, i)
            BY <3>1 DEF OPEN_PROOF
        <3>3. OneOpenProof'
            BY <2>1, <3>1, <3>2, ChangedStaysOne
        <3>4. proofs' \in Seq(Proof) /\ Len(proofs') = Len(proofs)
              /\ DOMAIN proofs' = DOMAIN proofs
            BY <2>1, <3>1, ChangedProof
        <3> QED
            BY <2>1, <2>2, <3>3, <3>4 DEF ProofRows
    <2> QED
        BY <2>3, <2>4
<1> QED
    BY <1>2, <1>3, <1>4, <1>5, <1>6 DEF ProofsNext

(* Whether or not what was asked for is worked on.                         *)
LEMMA OneOpenUnforced ==
    ProofsInit /\ [][ProofsNext]_proofsVars => [](ProofsTypeOK /\ OneOpenProof)
<1>1. ProofRows /\ OneOpenProof /\ [ProofsNext]_proofsVars => (ProofRows /\ OneOpenProof)'
    BY OneOpenStep DEF proofsVars, ProofRows, OneOpenProof
<1> QED
    BY <1>1, ProofsInitOK, RowsAreTyped, PTL

(* No assignment has two open checks, however many requests for one        *)
(* overlap: requestIfNone looks first and inserts later, and               *)
(* ux_branding_proofs_open refuses what the look did not see.              *)
THEOREM OneOpen == ProofsSpec => [](ProofsTypeOK /\ OneOpenProof)
BY OneOpenUnforced, PTL DEF ProofsSpec
-----------------------------------------------------------------------------
(* What a step does to the checks of a patient driver: a sent one keeps    *)
(* its status and its photos.                                              *)
Stays ==
    \A i \in DOMAIN proofs : proofs[i].status = "SUBMITTED" =>
        /\ MissingAngles(i) = {}
        /\ proofs'[i].status = "SUBMITTED" /\ proofs'[i].photos = proofs[i].photos

(* Nobody is at work on a check that is added, or that time changes.       *)
LEMMA QuietStep ==
    ASSUME ProofRows, PublishedIInv, UNCHANGED phones, DOMAIN proofs \subseteq DOMAIN proofs',
           \A i \in DOMAIN proofs :
               /\ proofs'[i].of = proofs[i].of /\ proofs'[i].status = proofs[i].status
               /\ proofs'[i].photos = proofs[i].photos,
           \A i \in DOMAIN proofs' \ DOMAIN proofs : proofs'[i].status = "REQUESTED"
    PROVE  PublishedIInv' /\ Stays
<1>1. \A i \in DOMAIN proofs : MissingAngles(i)' = MissingAngles(i)
    BY DEF MissingAngles
<1>2. ASSUME NEW p \in Phones, phones[p] # AtRest PROVE phones[p].proof \in DOMAIN proofs
    BY <1>2 DEF ProofRows
<1>3. Stays
    BY DEF PublishedIInv, Stays
<1>4. ASSUME NEW i \in DOMAIN proofs', proofs'[i].status = "SUBMITTED"
      PROVE  MissingAngles(i)' = {}
    BY <1>1, <1>4 DEF PublishedIInv
<1>5. ASSUME NEW p \in Phones, phones[p] # AtRest
      PROVE  /\ proofs'[phones[p].proof].status \notin Sent
             /\ phones[p].at = "send" => MissingAngles(phones[p].proof)' = {}
    BY <1>1, <1>2, <1>5 DEF PublishedIInv
<1>6. ASSUME NEW p \in Phones, NEW q \in Phones, phones[p] # AtRest, phones[q] # AtRest,
             proofs'[phones[p].proof].of = proofs'[phones[q].proof].of
      PROVE  p = q
    BY <1>2, <1>6 DEF PublishedIInv
<1> QED
    BY <1>3, <1>4, <1>5, <1>6 DEF PublishedIInv

(* Every step leaves a sent check its photos.                              *)
LEMMA PublishedStep ==
    ASSUME Patient, ProofRows, PublishedIInv, ProofsNext
    PROVE  PublishedIInv' /\ Stays
<1>1. ASSUME UNCHANGED <<proofs, phones>> PROVE PublishedIInv' /\ Stays
    BY <1>1, QuietStep
<1>2. ASSUME NEW q \in Askers,
             \/ FindOpenProof(q)
             \/ \E w \in Wraps : AskPhotos(q, w) \/ GoOnTheRoad(q, w)
      PROVE  PublishedIInv' /\ Stays
    BY <1>1, <1>2 DEF FindOpenProof, AskPhotos, GoOnTheRoad
<1>3. ASSUME NEW q \in Askers, InsertProof(q) PROVE PublishedIInv' /\ Stays
    <2>1. ASSUME NEW w \in Wraps, OneMore(w) PROVE PublishedIInv' /\ Stays
        <3>1. PICK n : n = Len(proofs) + 1
            OBVIOUS
        <3>2. /\ DOMAIN proofs' = DOMAIN proofs \cup {n} /\ proofs'[n] = NewProof(w)
              /\ \A i \in DOMAIN proofs : proofs'[i] = proofs[i]
            BY <2>1, <3>1, OneMoreProof
        <3>3. NewProof(w).status = "REQUESTED"
            BY DEF NewProof
        <3>4. UNCHANGED phones
            BY <2>1 DEF OneMore
        <3> QED
            BY <3>2, <3>3, <3>4, QuietStep
    <2> QED
        BY <1>1, <1>3, <2>1, InsertStep
<1>4. ASSUME \/ \E w \in Wraps : LeaveTheRoad(w)
             \/ \E i \in DOMAIN proofs : ComesDue(i)
      PROVE  PublishedIInv' /\ Stays
    <2>1. ASSUME NEW i \in DOMAIN proofs, NEW row \in Proof, OneChanged(i, row),
                 row.status = proofs[i].status, row.photos = proofs[i].photos
          PROVE  /\ DOMAIN proofs' = DOMAIN proofs
                 /\ \A j \in DOMAIN proofs :
                       /\ proofs'[j].of = proofs[j].of /\ proofs'[j].status = proofs[j].status
                       /\ proofs'[j].photos = proofs[j].photos
        BY <2>1, ChangedProof
    <2>2. UNCHANGED phones
        BY <1>4, TimeStep
    <2> QED
        BY <1>1, <1>4, <2>1, <2>2, TimeStep, QuietStep
<1>5. ASSUME NEW p \in Phones, NEW i \in DOMAIN proofs,
             BeginSubmit(p, i) \/ \E angle \in Angles : TakePhoto(p, i, angle)
      PROVE  PublishedIInv' /\ Stays
    <2>1. UNCHANGED proofs /\ proofs[i].status \notin Sent /\ NoneBusy(proofs[i].of)
        BY <1>5, BeginPhone DEF Patient
    <2>2. PICK row \in PhoneRow : /\ row.proof = i /\ row.at # "send"
                                  /\ phones' = [phones EXCEPT ![p] = row]
        BY <1>5, BeginPhone
    <2>3. /\ phones'[p] = row /\ \A q \in Phones : q # p => phones'[q] = phones[q]
        BY <2>2 DEF ProofRows
    <2>4. Stays
        BY <2>1 DEF PublishedIInv, Stays
    <2>5. \A j : MissingAngles(j)' = MissingAngles(j)
        BY <2>1 DEF MissingAngles
    <2>6. ASSUME NEW q \in Phones, phones'[q] # AtRest
          PROVE  /\ proofs'[phones'[q].proof].status \notin Sent
                 /\ phones'[q].at = "send" => MissingAngles(phones[q].proof)' = {}
        <3>1. CASE q = p
            BY <2>1, <2>2, <2>3, <3>1
        <3>2. CASE q # p
            BY <2>1, <2>3, <2>5, <2>6, <3>2 DEF PublishedIInv
        <3> QED
            BY <3>1, <3>2
    <2>7. \A q \in Phones : q # p /\ phones'[q] # AtRest =>
              proofs[phones[q].proof].of # proofs[i].of
        BY <2>1, <2>3 DEF NoneBusy
    <2>8. ASSUME NEW q \in Phones, NEW r \in Phones, phones'[q] # AtRest, phones'[r] # AtRest,
                 proofs'[phones'[q].proof].of = proofs'[phones'[r].proof].of
          PROVE  q = r
        BY <2>1, <2>2, <2>3, <2>7, <2>8 DEF PublishedIInv
    <2>9. \A j \in DOMAIN proofs' : proofs'[j].status = "SUBMITTED" => MissingAngles(j)' = {}
        BY <2>1, <2>5 DEF PublishedIInv
    <2> QED
        BY <2>4, <2>6, <2>8, <2>9 DEF PublishedIInv
<1>6. ASSUME NEW p \in Phones, PhoneSteps(p) PROVE PublishedIInv' /\ Stays
    <2>1. PICK i : i = phones[p].proof
        OBVIOUS
    <2>2. /\ phones[p] # AtRest /\ i \in DOMAIN proofs /\ proofs[i].status \notin Sent
        BY <1>6, <2>1, PhoneStep DEF PublishedIInv
    <2>3. PICK row : /\ row = AtRest \/ (row \in PhoneRow /\ row.proof = i)
                     /\ phones[p].at \in {"status", "send"} => row = AtRest
                     /\ phones' = [phones EXCEPT ![p] = row]
                     /\ row # AtRest /\ row.at = "send" =>
                            MissingAngles(i) = {} /\ UNCHANGED proofs
        BY <1>6, <2>1, PhoneStep
    <2>4. /\ phones'[p] = row /\ \A q \in Phones : q # p => phones'[q] = phones[q]
        BY <2>3 DEF ProofRows
    <2>5. /\ DOMAIN proofs' = DOMAIN proofs
          /\ \A j \in DOMAIN proofs : j # i => proofs'[j] = proofs[j]
          /\ \A j \in DOMAIN proofs : proofs'[j].of = proofs[j].of
          /\ MissingAngles(i) = {} => MissingAngles(i)' = {}
          /\ proofs'[i].status \in Sent => row = AtRest
          /\ proofs'[i].status = "SUBMITTED" => MissingAngles(i)' = {}
        <3>1. CASE UNCHANGED proofs
            <4>1. MissingAngles(i)' = MissingAngles(i)
                BY <3>1 DEF MissingAngles
            <4> QED
                BY <2>2, <3>1, <4>1 DEF Sent
        <3>2. CASE proofs' # proofs
            <4>1. PICK n : n = phones[p].at
                OBVIOUS
            <4>2. PICK check :
                      /\ OneChanged(i, check)
                      /\ \A a \in Angles : check.photos[a] = 0 => proofs[i].photos[a] = 0
                      /\ \/ check.status = proofs[i].status
                         \/ check.status = "IN_PROGRESS"
                         \/ check.status = "SUBMITTED" /\ n = "send"
                BY <1>6, <2>1, <3>2, <4>1, PhoneWrites
            <4>3. /\ DOMAIN proofs' = DOMAIN proofs /\ proofs'[i] = check
                  /\ \A j \in DOMAIN proofs : j # i => proofs'[j] = proofs[j]
                  /\ \A j \in DOMAIN proofs : proofs'[j].of = proofs[j].of
                BY <2>2, <4>2, ChangedProof
            <4>4. MissingAngles(i) = {} => MissingAngles(i)' = {}
                BY <4>2, <4>3 DEF MissingAngles
            <4>5. proofs'[i].status \in Sent => n = "send"
                BY <2>2, <4>2, <4>3 DEF Sent
            <4>6. n = "send" => row = AtRest /\ MissingAngles(i) = {}
                BY <2>1, <2>2, <2>3, <4>1 DEF PublishedIInv
            <4> QED
                BY <4>3, <4>4, <4>5, <4>6 DEF Sent
        <3> QED
            BY <3>1, <3>2
    <2>6. Stays
        BY <2>2, <2>5 DEF PublishedIInv, Stays, Sent
    <2>7. \A j \in DOMAIN proofs : j # i => MissingAngles(j)' = MissingAngles(j)
        BY <2>5 DEF MissingAngles
    <2>8. ASSUME NEW q \in Phones, q # p, phones[q] # AtRest
          PROVE  phones[q].proof \in DOMAIN proofs /\ phones[q].proof # i
        BY <2>1, <2>2, <2>8 DEF PublishedIInv, ProofRows
    <2>9. ASSUME NEW q \in Phones, phones'[q] # AtRest
          PROVE  /\ proofs'[phones'[q].proof].status \notin Sent
                 /\ phones'[q].at = "send" => MissingAngles(phones[q].proof)' = {}
        <3>1. CASE q = p
            <4>1. row \in PhoneRow /\ row.proof = i
                BY <2>3, <2>4, <2>9, <3>1
            <4>2. row.at = "send" => MissingAngles(i)' = {}
                BY <2>3, <2>4, <2>5, <2>9, <3>1
            <4>3. proofs'[i].status \notin Sent
                BY <2>4, <2>5, <2>9, <3>1
            <4> QED
                BY <2>4, <3>1, <4>1, <4>2, <4>3
        <3>2. CASE q # p
            <4>1. /\ phones[q].proof \in DOMAIN proofs /\ phones[q].proof # i
                  /\ phones'[q] = phones[q] /\ phones[q] # AtRest
                BY <2>4, <2>8, <2>9, <3>2
            <4> QED
                BY <2>5, <2>7, <4>1 DEF PublishedIInv
        <3> QED
            BY <3>1, <3>2
    <2>10. \A q \in Phones : phones'[q] # AtRest =>
               /\ phones[q] # AtRest /\ phones'[q].proof = phones[q].proof
               /\ phones[q].proof \in DOMAIN proofs
        BY <2>1, <2>2, <2>3, <2>4 DEF ProofRows
    <2>11. ASSUME NEW q \in Phones, NEW r \in Phones, phones'[q] # AtRest, phones'[r] # AtRest,
                  proofs'[phones'[q].proof].of = proofs'[phones'[r].proof].of
           PROVE  q = r
        BY <2>5, <2>10, <2>11 DEF PublishedIInv
    <2>12. \A j \in DOMAIN proofs' : proofs'[j].status = "SUBMITTED" => MissingAngles(j)' = {}
        BY <2>5, <2>7 DEF PublishedIInv
    <2> QED
        BY <2>6, <2>9, <2>11, <2>12 DEF PublishedIInv
<1> QED
    BY <1>2, <1>3, <1>4, <1>5, <1>6 DEF ProofsNext

(* Whether or not the driver does what the app shows.                      *)
LEMMA PublishedUnforced ==
    ASSUME Patient PROVE ProofsInit /\ [][ProofsNext]_proofsVars => PublishedStays
<1>1. ProofRows /\ OneOpenProof /\ PublishedIInv /\ [ProofsNext]_proofsVars
          => (ProofRows /\ OneOpenProof /\ PublishedIInv)'
    <2>1. CASE ProofsNext
        BY <2>1, OneOpenStep, PublishedStep
    <2>2. CASE UNCHANGED proofsVars
        BY <2>2 DEF proofsVars, ProofRows, OneOpenProof, PublishedIInv, MissingAngles
    <2> QED
        BY <2>1, <2>2
<1>2. ProofRows /\ PublishedIInv /\ [ProofsNext]_proofsVars => [Stays]_proofs
    BY PublishedStep DEF proofsVars
<1> QED
    BY <1>1, <1>2, ProofsInitOK, PTL DEF PublishedStays, Stays

(* With an app that waits for an answer before it sends the next request:  *)
(* a check that has been sent keeps its status and its photos, and has one *)
(* of every angle.                                                         *)
THEOREM PublishedIsFinal == ASSUME Patient PROVE ProofsSpec => PublishedStays
BY PublishedUnforced, PTL DEF ProofsSpec
=============================================================================
