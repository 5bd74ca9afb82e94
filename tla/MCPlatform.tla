----------------------------- MODULE MCPlatform -----------------------------
(***************************************************************************)
(* The components around the ledger, each on its small instance. They meet *)
(* in the database alone, and the tables one writes and another reads are  *)
(* inputs of the reader's model, so a behaviour follows one of them, the   *)
(* one `focus` names, while the others rest.                               *)
(***************************************************************************)
EXTENDS Trips, Figures, BrandingProofs, Accounts, Onboarding, Commerce, Reports,
        Records, NewAccounts, Doors

VARIABLE focus

(* The premises of the theorems of Trips are so of this instance.          *)
ASSUME TripsPremises == DrivenInOrder /\ StartsApart /\ PhoneInOrder

TheShiftDriver == <<"d", "d", "e">>
TheShiftCampaign == <<"c", "k", "c">>
TheShiftVehicle == <<"v", "v", "w">>
TheHopShift == <<1, 1, 1, 2, 3>>
TheHopStart == <<0, 9, 16, 30, 41>>
TheHopEnd == <<6, 12, 20, 33, 44>>
Prime(n) == [zone |-> "PRIME", km |-> n]
TheHopParts ==
    << <<Prime(1), [zone |-> "NETWORK", km |-> 2]>>, <<Prime(1)>>,
       <<Prime(1), [zone |-> "SECONDARY", km |-> 1]>>, <<Prime(1)>>, <<Prime(1)>> >>

TheCellOf == <<1, 1>>
TheHourOf == <<1, 2>>

TheAudiences == {"admin", "advertiser", "driver"}

Price(p, s) == [z \in Zones |-> IF z = "prime" THEN p ELSE s]
TheCards == {Price(1, 1), Price(3, 0)}
TheDefaultCard == Price(2, 1)
TheRequested == {Price(0, 1), Price(1, 2), Price(2, 1)}

ThePartDay == <<1, 2>>
ThePartKm == <<1, 1>>
ThePartAudience == <<1, 2>>
Period(first, last) == [from |-> first, to |-> last]
ThePeriods == {Period(1, 2), Period(2, 1), Period(0, 2)}

platformVars ==
    <<tripsVars, figuresVars, proofsVars, accountsVars, onboardingVars, commerceVars,
      reportsVars, recordsVars, newAccountsVars, doorsVars, focus>>

PlatformTypeOK ==
    /\ TripsTypeOK /\ FiguresTypeOK /\ ProofsTypeOK /\ AccountsTypeOK
    /\ OnboardingTypeOK /\ CommerceTypeOK /\ ReportsTypeOK /\ RecordsTypeOK
    /\ NewAccountsTypeOK /\ DoorsTypeOK

PlatformInit ==
    /\ TripsInit /\ FiguresInit /\ ProofsInit /\ AccountsInit
    /\ OnboardingInit /\ CommerceInit /\ ReportsInit /\ RecordsInit
    /\ NewAccountsInit /\ DoorsInit
    /\ focus \in {"trips", "figures", "proofs", "accounts", "onboarding", "commerce",
                  "reports", "records", "newAccounts", "doors"}
    /\ focus # "accounts" => audience = "driver"
    /\ focus # "onboarding" => vehicles = << >>

OnTrips ==
    /\ focus = "trips" /\ TripsNext
    /\ UNCHANGED <<figuresVars, proofsVars, accountsVars, onboardingVars, commerceVars,
                   reportsVars, recordsVars, newAccountsVars, doorsVars, focus>>
OnFigures ==
    /\ focus = "figures" /\ FiguresNext
    /\ UNCHANGED <<tripsVars, proofsVars, accountsVars, onboardingVars, commerceVars,
                   reportsVars, recordsVars, newAccountsVars, doorsVars, focus>>
OnProofs ==
    /\ focus = "proofs" /\ ProofsNext
    /\ UNCHANGED <<tripsVars, figuresVars, accountsVars, onboardingVars, commerceVars,
                   reportsVars, recordsVars, newAccountsVars, doorsVars, focus>>
OnAccounts ==
    /\ focus = "accounts" /\ AccountsNext
    /\ UNCHANGED <<tripsVars, figuresVars, proofsVars, onboardingVars, commerceVars,
                   reportsVars, recordsVars, newAccountsVars, doorsVars, focus>>
OnOnboarding ==
    /\ focus = "onboarding" /\ OnboardingNext
    /\ UNCHANGED <<tripsVars, figuresVars, proofsVars, accountsVars, commerceVars,
                   reportsVars, recordsVars, newAccountsVars, doorsVars, focus>>
OnCommerce ==
    /\ focus = "commerce" /\ CommerceNext
    /\ UNCHANGED <<tripsVars, figuresVars, proofsVars, accountsVars, onboardingVars,
                   reportsVars, recordsVars, newAccountsVars, doorsVars, focus>>
OnReports ==
    /\ focus = "reports" /\ ReportsNext
    /\ UNCHANGED <<tripsVars, figuresVars, proofsVars, accountsVars, onboardingVars,
                   commerceVars, recordsVars, newAccountsVars, doorsVars, focus>>
OnRecords ==
    /\ focus = "records" /\ RecordsNext
    /\ UNCHANGED <<tripsVars, figuresVars, proofsVars, accountsVars, onboardingVars,
                   commerceVars, reportsVars, newAccountsVars, doorsVars, focus>>
OnNewAccounts ==
    /\ focus = "newAccounts" /\ NewAccountsNext
    /\ UNCHANGED <<tripsVars, figuresVars, proofsVars, accountsVars, onboardingVars,
                   commerceVars, reportsVars, recordsVars, doorsVars, focus>>
OnDoors ==
    /\ focus = "doors" /\ DoorsNext
    /\ UNCHANGED <<tripsVars, figuresVars, proofsVars, accountsVars, onboardingVars,
                   commerceVars, reportsVars, recordsVars, newAccountsVars, focus>>

PlatformNext ==
    \/ OnTrips \/ OnFigures \/ OnProofs \/ OnAccounts \/ OnOnboarding
    \/ OnCommerce \/ OnReports \/ OnRecords \/ OnNewAccounts \/ OnDoors

PlatformSpec == PlatformInit /\ [][PlatformNext]_platformVars

LinksAlike == Permutations(Links)
=============================================================================
