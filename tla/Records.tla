------------------------------ MODULE Records ------------------------------
(***************************************************************************)
(* The rows people edit by hand: a driver (drivers.service.ts, by the      *)
(* driver's own portal and by operations), the driver's vehicle, and an    *)
(* advertiser (advertisers.service.ts).                                    *)
(*                                                                         *)
(* Every editor does the same: load the row, check it, change the copy,    *)
(* save. A save writes only the columns where the copy changed, so what a  *)
(* request will write is settled when it loads the row and lands later, on *)
(* whatever the row holds by then. A request sits on one screen of the     *)
(* driver or on one desk of the back office, and each waits for its answer *)
(* before the next. The three rows are kept as one function, since no      *)
(* request touches two. A mobile or a plate that somebody else has is      *)
(* refused before anything changes; audit rows are left out.               *)
(***************************************************************************)
EXTENDS Integers, FiniteSets

CONSTANTS
    Screens,        \* the driver's own: the phone, the web portal
    Desks,          \* people of the back office
    Words,          \* what may be typed into a column
    MaxForms,       \* bound: the forms sent
    MaxPictures     \* bound: the pictures uploaded

ASSUME RecordsAssumption ==
    /\ Screens \cap Desks = {}
    /\ "none" \notin Words
    /\ MaxForms \in Nat /\ MaxPictures \in Nat

(* Columns that only hold text: `about` stands for the name, the address   *)
(* and the pin of the driver, `looks` for what describes the vehicle,      *)
(* `company` for the advertiser's names, tax numbers and billing address.  *)
TextColumns == {"about", "mobile", "looks", "plate", "company"}

(* `account` stands for the three columns of a bank account.               *)
PayoutColumns == {"method", "account", "upi"}

(* A picture is the number of its key, 0 where there is none.              *)
PictureColumns == {"photo", "image"}

VARIABLES
    fields,         \* column -> its value
    locked,         \* the columns whose row has left PENDING
    editing,        \* editor -> the request under way
    album,          \* the pictures the object store holds
    formsSent,
    pictureCount

recordsVars == <<fields, locked, editing, album, formsSent, pictureCount>>

Editors == Screens \cup Desks

NoForm == [at |-> "idle"]

RecordsTypeOK ==
    /\ DOMAIN fields = TextColumns \cup PayoutColumns \cup PictureColumns
    /\ \A c \in TextColumns \cup {"account", "upi"} : fields[c] \in Words \cup {"none"}
    /\ fields.method \in {"none", "BANK", "UPI"}
    /\ \A c \in PictureColumns : fields[c] \in 0..MaxPictures
    /\ locked \subseteq {"mobile", "plate"}
    /\ \A e \in Editors : editing[e] = NoForm \/ editing[e].at \in {"put", "save"}
    /\ album \subseteq 1..MaxPictures
    /\ formsSent \in 0..MaxForms
    /\ pictureCount \in 0..MaxPictures

RecordsInit ==
    /\ fields = [c \in TextColumns \cup PayoutColumns \cup PictureColumns |->
                    IF c \in PictureColumns THEN 0 ELSE "none"]
    /\ locked = {}
    /\ editing = [e \in Editors |-> NoForm]
    /\ album = {}
    /\ formsSent = 0
    /\ pictureCount = 0

-----------------------------------------------------------------------------
(* The forms, each the columns it sets.                                    *)

Text(column, word) == [c \in {column} |-> word]

(* A null clears an optional column.                                       *)
Typed(c) == IF c \in {"mobile", "plate"} THEN Words ELSE Words \cup {"none"}

(* Faulty: the details of the other method stay.                           *)
PayoutKept(method, word) ==
    IF method = "BANK" THEN [method |-> "BANK", account |-> word]
    ELSE IF method = "UPI" THEN [method |-> "UPI", upi |-> word]
    ELSE [method |-> "none"]

(* applyPayout: "cleared wholesale before each write".                     *)
Payout(method, word) ==
    [method |-> method,
     account |-> IF method = "BANK" THEN word ELSE "none",
     upi |-> IF method = "UPI" THEN word ELSE "none"]

(* updatePortalProfile and updatePortalVehicle. Mobile, plate and status   *)
(* are not the driver's to change.                                         *)
OwnForms ==
    (UNION {{Text(c, w) : w \in Typed(c)} : c \in {"about", "looks"}})
        \cup {Payout(m, w) : m \in {"none", "BANK", "UPI"}, w \in Words}

(* updateDriverProfile, updateVehicle and updateAdvertiser.                *)
DeskForms == UNION {{Text(c, w) : w \in Typed(c)} : c \in TextColumns}

(* What the save of a form will write: the columns where it differs from   *)
(* the row as it was loaded.                                               *)
Changed(form) ==
    [c \in {c \in DOMAIN form : form[c] # fields[c]} |-> form[c]]

-----------------------------------------------------------------------------
Submit(e, form, step) ==
    /\ editing[e] = NoForm
    /\ formsSent < MaxForms
    /\ editing' = [editing EXCEPT ![e] = [at |-> step, writes |-> form]]
    /\ formsSent' = formsSent + 1

(* A mobile is corrected while the driver is PENDING, anything of a        *)
(* vehicle while the vehicle is. The driver's own forms are always open.   *)
Frozen(e) ==
    IF e \in Desks /\ "plate" \in locked THEN locked \cup {"looks"} ELSE locked

(* The checks read the loaded copy.                                        *)
Edit(e) ==
    /\ \E form \in IF e \in Screens THEN OwnForms ELSE DeskForms :
        LET writes == Changed(form)
        IN  /\ DOMAIN writes # {}
            /\ DOMAIN writes \cap Frozen(e) = {}
            /\ Submit(e, writes, "save")
    /\ UNCHANGED <<fields, locked, album, pictureCount>>

(* Faulty: the row is saved, then the file is stored.                      *)
RowFirst == <<"save", "put">>

(* uploadPortalPhoto and uploadVehiclePhoto: the bytes, then the row.      *)
UploadSteps == <<"put", "save">>

(* The key is new each time, and the picture it replaces stays.            *)
Upload(e) ==
    /\ e \in Screens
    /\ pictureCount < MaxPictures
    /\ pictureCount' = pictureCount + 1
    /\ \E c \in PictureColumns : Submit(e, Text(c, pictureCount + 1), UploadSteps[1])
    /\ UNCHANGED <<fields, locked, album>>

IsUpload(e) == DOMAIN editing[e].writes \cap PictureColumns # {}

(* What a request does after its step: an upload has two.                  *)
After(e) ==
    IF IsUpload(e) /\ editing[e].at = UploadSteps[1]
    THEN [editing[e] EXCEPT !.at = UploadSteps[2]]
    ELSE NoForm

PutPicture(e) ==
    /\ editing[e].at = "put"
    /\ album' = album \cup {editing[e].writes[c] : c \in DOMAIN editing[e].writes}
    /\ editing' = [editing EXCEPT ![e] = After(e)]
    /\ UNCHANGED <<fields, locked, formsSent, pictureCount>>

(* drivers_payout_complete, a CHECK of the table.                          *)
PayoutComplete(row) ==
    /\ row.method = "BANK" => row.account # "none"
    /\ row.method = "UPI" => row.upi # "none"

AfterSave(e) ==
    [c \in DOMAIN fields |->
        IF c \in DOMAIN editing[e].writes THEN editing[e].writes[c] ELSE fields[c]]

(* save(): a write the table refuses changes nothing.                      *)
Save(e) ==
    /\ editing[e].at = "save"
    /\ fields' = IF PayoutComplete(AfterSave(e)) THEN AfterSave(e) ELSE fields
    /\ editing' = [editing EXCEPT ![e] = After(e)]
    /\ UNCHANGED <<locked, album, formsSent, pictureCount>>

(* The driver or the vehicle is reviewed (Onboarding).                     *)
LeavePending ==
    /\ \E c \in {"mobile", "plate"} \ locked : locked' = locked \cup {c}
    /\ UNCHANGED <<fields, editing, album, formsSent, pictureCount>>

(* The API dies under a request.                                           *)
EditorCrash(e) ==
    /\ editing[e] # NoForm
    /\ editing' = [editing EXCEPT ![e] = NoForm]
    /\ UNCHANGED <<fields, locked, album, formsSent, pictureCount>>

RecordsNext ==
    \/ \E e \in Editors :
        Edit(e) \/ Upload(e) \/ PutPicture(e) \/ Save(e) \/ EditorCrash(e)
    \/ LeavePending

RecordsSpec == RecordsInit /\ [][RecordsNext]_recordsVars

-----------------------------------------------------------------------------
(* What is shown of the rows.                                              *)

(* photoUrl in portalProfile and portalVehicleView.                        *)
IsLinked(c) == fields[c] # 0

(* readPortalPhoto and vehiclePhotoBytes.                                  *)
CanBeRead(c) == fields[c] \in album

(* maskPayout in portalProfile: the method the driver is shown.            *)
Masked ==
    IF fields.method = "BANK" /\ fields.account # "none" THEN "BANK"
    ELSE IF fields.method = "UPI" /\ fields.upi # "none" THEN "UPI" ELSE "none"

(* revealPayout: the details, when asked for.                              *)
Revealed ==
    IF fields.method = "BANK" /\ fields.account # "none" THEN <<"BANK", fields.account>>
    ELSE IF fields.method = "UPI" /\ fields.upi # "none" THEN <<"UPI", fields.upi>>
    ELSE << >>

-----------------------------------------------------------------------------
(* A picture the profile or the vehicle links to can be read: whatever     *)
(* dies under an upload, the row names no file the store lacks.            *)
PictureIsThere == \A c \in PictureColumns : IsLinked(c) => CanBeRead(c)

(* "Switching from a bank account to a UPI id cannot leave the old account *)
(* behind for a payout run to find": with one screen, an account or a UPI  *)
(* id in the row is the one that is revealed, and the method chosen is the *)
(* one shown, whatever else is saved to the row meanwhile. With two        *)
(* screens, a save computed before the switch brings an account back.      *)
OneWayToBePaid ==
    /\ fields.account # "none" => Revealed = <<"BANK", fields.account>>
    /\ fields.upi # "none" => Revealed = <<"UPI", fields.upi>>
    /\ fields.method = Masked
=============================================================================
