--------------------------- MODULE BrandingProofs ---------------------------
(***************************************************************************)
(* The wrap photos a driver takes during a campaign, and the hold on his   *)
(* earnings that an overdue check of them is: brandingProofs.service.ts.   *)
(*                                                                         *)
(* No handler runs in a transaction. Each step of a request is one of its  *)
(* statements, and an update goes by primary key from the copy that the    *)
(* first of them loaded.                                                   *)
(***************************************************************************)
EXTENDS Integers, Sequences

CONSTANTS
    Wraps,          \* the assignments, each with its own driver
    Angles,         \* requiredBrandingAngles of the campaign's vehicle type
    Askers,         \* requests of the back office that can be under way at once
    Phones,         \* requests of the drivers that can be under way at once
    PatientDriver,  \* TRUE: a driver's app waits for an answer before it asks again
    MaxProofs,      \* checks opened in a behaviour
    MaxTakes        \* photos taken of one angle

ASSUME BrandingProofsAssumption ==
    /\ PatientDriver \in BOOLEAN
    /\ MaxProofs \in Nat /\ MaxTakes \in Nat \ {0}

VARIABLES
    assignment, \* [Wraps -> campaign_vehicles.status, as far as it matters here]
    proofs,     \* branding_proofs with their photos, in the order of requested_at
    asks,       \* [Askers -> a call of requestProof]
    phones      \* [Phones -> a call of uploadPhoto or submitProof]

proofsVars == <<assignment, proofs, asks, phones>>

ProofStatus == {"REQUESTED", "IN_PROGRESS", "SUBMITTED", "APPROVED", "REJECTED"}

OPEN_PROOF == {"REQUESTED", "IN_PROGRESS", "REJECTED"}

(* A photo is the number of its take; 0 where there is none.               *)
Proof == [of : Wraps, status : ProofStatus, photos : [Angles -> 0 .. MaxTakes],
          overdue : BOOLEAN]

AtRest == [at |-> "rest"]

ProofsTypeOK ==
    /\ assignment \in [Wraps -> {"INSTALLING", "ACTIVE", "ENDED"}]
    /\ proofs \in Seq(Proof) /\ Len(proofs) <= MaxProofs
    /\ \A q \in Askers :
          asks[q] \in {AtRest} \cup [at : {"find", "insert"}, of : Wraps]
    /\ \A p \in Phones :
          phones[p] \in {AtRest} \cup
              [at : {"find", "save", "status", "angles", "send"}, proof : 1 .. MaxProofs,
               angle : Angles, saw : ProofStatus, found : BOOLEAN]

ProofsInit ==
    /\ assignment = [w \in Wraps |-> "INSTALLING"]
    /\ proofs = << >>
    /\ asks = [q \in Askers |-> AtRest]
    /\ phones = [p \in Phones |-> AtRest]

-----------------------------------------------------------------------------
OpenOf(w) == {i \in DOMAIN proofs : proofs[i].of = w /\ proofs[i].status \in OPEN_PROOF}

(* ux_branding_proofs_open: one open check for an assignment.              *)
MayOpen(w, i) == OpenOf(w) \subseteq {i}

(* requestProof, for the back office and through startForDriver: only a    *)
(* live assignment is asked for photos.                                    *)
AskPhotos(q, w) ==
    /\ asks[q] = AtRest
    /\ assignment[w] = "ACTIVE"
    /\ asks' = [asks EXCEPT ![q] = [at |-> "find", of |-> w]]
    /\ UNCHANGED <<assignment, proofs, phones>>

(* A vehicle goes on the road, and requestIfNone opens its first check.    *)
GoOnTheRoad(q, w) ==
    /\ asks[q] = AtRest
    /\ assignment[w] = "INSTALLING"
    /\ assignment' = [assignment EXCEPT ![w] = "ACTIVE"]
    /\ asks' = [asks EXCEPT ![q] = [at |-> "find", of |-> w]]
    /\ UNCHANGED <<proofs, phones>>

FindOpenProof(q) ==
    /\ asks[q].at = "find"
    /\ asks' = [asks EXCEPT ![q] =
           IF OpenOf(@.of) = {} THEN [@ EXCEPT !.at = "insert"] ELSE AtRest]
    /\ UNCHANGED <<assignment, proofs, phones>>

NewProof(w) == [of |-> w, status |-> "REQUESTED", photos |-> [a \in Angles |-> 0],
                overdue |-> FALSE]

InsertProof(q) ==
    /\ asks[q].at = "insert"
    /\ Len(proofs) < MaxProofs
    /\ proofs' = IF MayOpen(asks[q].of, 0) THEN Append(proofs, NewProof(asks[q].of)) ELSE proofs
    /\ asks' = [asks EXCEPT ![q] = AtRest]
    /\ UNCHANGED <<assignment, phones>>

LeaveTheRoad(w) ==
    /\ assignment[w] = "ACTIVE"
    /\ assignment' = [assignment EXCEPT ![w] = "ENDED"]
    /\ UNCHANGED <<proofs, asks, phones>>

(* DUE_HOURS have gone by.                                                 *)
ComesDue(i) ==
    /\ ~proofs[i].overdue
    /\ proofs' = [proofs EXCEPT ![i].overdue = TRUE]
    /\ UNCHANGED <<assignment, asks, phones>>

-----------------------------------------------------------------------------
(* Faulty: a check is closed by its review.                                *)
ClosedByReview == {"APPROVED"}

(* uploadPhoto and submitProof refuse a check that has been sent.          *)
Sent == {"SUBMITTED", "APPROVED"}

NoneBusy(w) == \A p \in Phones : phones[p] # AtRest => proofs[phones[p].proof].of # w

(* loadOwnedProof, and the refusal of a check that has been sent.          *)
LoadProof(p, i, step, angle) ==
    /\ phones[p] = AtRest
    /\ PatientDriver => NoneBusy(proofs[i].of)
    /\ proofs[i].status \notin Sent
    /\ phones' = [phones EXCEPT ![p] =
           [at |-> step, proof |-> i, angle |-> angle, saw |-> proofs[i].status,
            found |-> FALSE]]
    /\ UNCHANGED <<assignment, proofs, asks>>

TakePhoto(p, i, angle) == proofs[i].photos[angle] < MaxTakes /\ LoadProof(p, i, "find", angle)

Moves(p, step) == phones' = [phones EXCEPT ![p].at = step]

Done(p) == phones' = [phones EXCEPT ![p] = AtRest]

(* The file is in the store by now: put comes before the photo's row.      *)
FindPhoto(p) ==
    /\ phones[p].at = "find"
    /\ phones' = [phones EXCEPT ![p].at = "save",
           ![p].found = proofs[phones[p].proof].photos[phones[p].angle] # 0]
    /\ UNCHANGED <<assignment, proofs, asks>>

(* One photo for a check and an angle: a second insert is refused.         *)
SavePhoto(p) ==
    LET i == phones[p].proof
        angle == phones[p].angle
    IN  /\ phones[p].at = "save"
        /\ proofs[i].photos[angle] < MaxTakes
        /\ IF phones[p].found = (proofs[i].photos[angle] # 0)
           THEN /\ proofs' = [proofs EXCEPT ![i].photos[angle] = @ + 1]
                /\ IF phones[p].saw \in {"REQUESTED", "REJECTED"}
                   THEN Moves(p, "status")
                   ELSE Done(p)
           ELSE Done(p) /\ UNCHANGED proofs
        /\ UNCHANGED <<assignment, asks>>

StartProgress(p) ==
    LET i == phones[p].proof
    IN  /\ phones[p].at = "status"
        /\ proofs' = IF MayOpen(proofs[i].of, i)
                     THEN [proofs EXCEPT ![i].status = "IN_PROGRESS"]
                     ELSE proofs
        /\ Done(p)
        /\ UNCHANGED <<assignment, asks>>

BeginSubmit(p, i) == \E angle \in Angles : LoadProof(p, i, "angles", angle)

MissingAngles(i) == {a \in Angles : proofs[i].photos[a] = 0}

CheckAngles(p) ==
    /\ phones[p].at = "angles"
    /\ IF MissingAngles(phones[p].proof) = {} THEN Moves(p, "send") ELSE Done(p)
    /\ UNCHANGED <<assignment, proofs, asks>>

Publish(p) ==
    /\ phones[p].at = "send"
    /\ proofs' = [proofs EXCEPT ![phones[p].proof].status = "SUBMITTED"]
    /\ Done(p)
    /\ UNCHANGED <<assignment, asks>>

PhoneSteps(p) ==
    FindPhoto(p) \/ SavePhoto(p) \/ StartProgress(p) \/ CheckAngles(p) \/ Publish(p)

ProofsNext ==
    \/ \E q \in Askers :
          \/ \E w \in Wraps : AskPhotos(q, w) \/ GoOnTheRoad(q, w)
          \/ FindOpenProof(q)
          \/ InsertProof(q)
    \/ \E w \in Wraps : LeaveTheRoad(w)
    \/ \E i \in DOMAIN proofs : ComesDue(i)
    \/ \E p \in Phones :
          \/ \E i \in DOMAIN proofs :
                BeginSubmit(p, i) \/ \E angle \in Angles : TakePhoto(p, i, angle)
          \/ PhoneSteps(p)

-----------------------------------------------------------------------------
(* What earningHold answers for a live assignment.                         *)
Held(w) ==
    assignment[w] = "ACTIVE" /\
    \E i \in OpenOf(w) : proofs[i].status = "REJECTED" \/ proofs[i].overdue

Shown(w) == {i \in DOMAIN proofs :
    proofs[i].of = w /\ proofs[i].status \in OPEN_PROOF \cup {"SUBMITTED"}}

(* Faulty: the oldest check instead of the newest.                         *)
OldestProof(w) == {i \in Shown(w) : \A j \in Shown(w) : i <= j}

(* currentForDriver: the check the driver's app shows, if any.             *)
CurrentProof(w) == {i \in Shown(w) : \A j \in Shown(w) : j <= i}

(* A driver does what the screen asks: the missing photos, then send.      *)
Obeys(w) ==
    /\ assignment[w] = "ACTIVE"
    /\ \E p \in Phones, i \in CurrentProof(w) :
          \/ \E angle \in MissingAngles(i) : TakePhoto(p, i, angle)
          \/ MissingAngles(i) = {} /\ BeginSubmit(p, i)

ProofsFairness ==
    /\ \A p \in Phones : WF_proofsVars(PhoneSteps(p))
    /\ \A w \in Wraps : SF_proofsVars(Obeys(w))

ProofsSpec == ProofsInit /\ [][ProofsNext]_proofsVars /\ ProofsFairness

-----------------------------------------------------------------------------
(* An assignment never has two open checks, however the back office, the   *)
(* activation and the driver ask for one, so the one row earningHold finds *)
(* is the only one that could hold the earnings.                           *)
OneOpenProof == \A i, j \in DOMAIN proofs :
    proofs[i].of = proofs[j].of /\ {proofs[i].status, proofs[j].status} \subseteq OPEN_PROOF
        => i = j

(* "Submitted photos are published and no longer open": what the           *)
(* advertiser is shown is complete, and neither its photos nor its status  *)
(* change any more. False of a driver who is not patient: an upload that   *)
(* loaded its check before the submission reopens it afterwards.           *)
PublishedStays ==
    [][\A i \in DOMAIN proofs :
         proofs[i].status = "SUBMITTED" =>
            /\ MissingAngles(i) = {}
            /\ proofs'[i].status = "SUBMITTED" /\ proofs'[i].photos = proofs[i].photos]_proofs

(* A driver whose earnings are held gets them back by doing what his app   *)
(* asks of him: the check it shows is the one that holds them.             *)
HoldIsReleased == \A w \in Wraps : Held(w) ~> ~Held(w)
=============================================================================
