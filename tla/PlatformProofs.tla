--------------------------- MODULE PlatformProofs ---------------------------
(***************************************************************************)
(* The components beside each other: a behaviour of MCPlatform is one of   *)
(* each of them, so that what is proved of a component holds of the        *)
(* platform, for all values of the constants. It is what the run of        *)
(* MCPlatform checks on one instance.                                      *)
(***************************************************************************)
EXTENDS MCPlatform, TripsProofs, FiguresProofs, OnboardingProofs, AccountsProofs

(* A step of the platform is a step of one component, or of none.          *)
LEMMA EachStep ==
    ASSUME [PlatformNext]_platformVars
    PROVE  /\ [TripsNext]_tripsVars
           /\ [FiguresNext]_figuresVars
           /\ [ProofsNext]_proofsVars
           /\ [AccountsNext]_accountsVars
           /\ [OnboardingNext]_onboardingVars
           /\ [CommerceNext]_commerceVars
           /\ [ReportsNext]_reportsVars
           /\ [RecordsNext]_recordsVars
           /\ [NewAccountsNext]_newAccountsVars
           /\ [DoorsNext]_doorsVars
<1>1. CASE UNCHANGED platformVars
    BY <1>1 DEF platformVars
<1>2. CASE OnTrips
    BY <1>2 DEF OnTrips
<1>3. CASE OnFigures
    BY <1>3 DEF OnFigures
<1>4. CASE OnProofs
    BY <1>4 DEF OnProofs
<1>5. CASE OnAccounts
    BY <1>5 DEF OnAccounts
<1>6. CASE OnOnboarding
    BY <1>6 DEF OnOnboarding
<1>7. CASE OnCommerce
    BY <1>7 DEF OnCommerce
<1>8. CASE OnReports
    BY <1>8 DEF OnReports
<1>9. CASE OnRecords
    BY <1>9 DEF OnRecords
<1>10. CASE OnNewAccounts
    BY <1>10 DEF OnNewAccounts
<1>11. CASE OnDoors
    BY <1>11 DEF OnDoors
<1> QED
    BY <1>1, <1>2, <1>3, <1>4, <1>5, <1>6, <1>7, <1>8, <1>9, <1>10, <1>11
       DEF PlatformNext

(* So a behaviour of the platform is one of each component, whose theorems *)
(* are then about the platform: no step of one writes rows of another.     *)
THEOREM PlatformIsEach ==
    PlatformSpec =>
        /\ TripsInit /\ [][TripsNext]_tripsVars
        /\ FiguresInit /\ [][FiguresNext]_figuresVars
        /\ ProofsInit /\ [][ProofsNext]_proofsVars
        /\ AccountsInit /\ [][AccountsNext]_accountsVars
        /\ OnboardingInit /\ [][OnboardingNext]_onboardingVars
        /\ CommerceInit /\ [][CommerceNext]_commerceVars
        /\ ReportsInit /\ [][ReportsNext]_reportsVars
        /\ RecordsInit /\ [][RecordsNext]_recordsVars
        /\ NewAccountsInit /\ [][NewAccountsNext]_newAccountsVars
        /\ DoorsInit /\ [][DoorsNext]_doorsVars
<1>1. PlatformInit =>
          /\ TripsInit /\ FiguresInit /\ ProofsInit /\ AccountsInit /\ OnboardingInit
          /\ CommerceInit /\ ReportsInit /\ RecordsInit /\ NewAccountsInit /\ DoorsInit
    BY DEF PlatformInit
<1>2. [PlatformNext]_platformVars =>
          /\ [TripsNext]_tripsVars
          /\ [FiguresNext]_figuresVars
          /\ [ProofsNext]_proofsVars
          /\ [AccountsNext]_accountsVars
          /\ [OnboardingNext]_onboardingVars
          /\ [CommerceNext]_commerceVars
          /\ [ReportsNext]_reportsVars
          /\ [RecordsNext]_recordsVars
          /\ [NewAccountsNext]_newAccountsVars
          /\ [DoorsNext]_doorsVars
    BY EachStep
<1> QED
    BY <1>1, <1>2, PTL DEF PlatformSpec

(* Every component of the platform keeps its rows, and every copy a        *)
(* request holds, of their types: with phones that drive and upload in     *)
(* order, and one sign-in of an account at a time, which bounds the wrong  *)
(* passwords counted.                                                      *)
THEOREM PlatformTyped ==
    ASSUME DrivenInOrder, StartsApart, PhoneInOrder = TRUE, OneTab
    PROVE  PlatformSpec => []PlatformTypeOK
<1>1. TripsSpec => []TripsTypeOK
    BY TripsTyped
<1>2. FiguresInit /\ [][FiguresNext]_figuresVars => []FiguresTypeOK
    BY WholeUnforced, PTL
<1>3. ProofsInit /\ [][ProofsNext]_proofsVars => []ProofsTypeOK
    BY OneOpenUnforced, PTL
<1>4. AccountsSpec => []AccountsTypeOK
    BY SignInEarned, PTL
<1>5. OnboardingSpec => []OnboardingTypeOK
    BY OnboardingTyped
<1>6. CommerceSpec => []CommerceTypeOK
    BY CommerceTyped
<1>7. ReportsSpec => []ReportsTypeOK
    BY ReportsAreWhole, PTL
<1>8. RecordsSpec => []RecordsTypeOK
    BY PicturesAreThere, PTL
<1>9. NewAccountsSpec => []NewAccountsTypeOK
    BY WholeForms, PTL
<1>10. DoorsSpec => []DoorsTypeOK
    BY DoorsLetInAlike, PTL
<1>11. /\ TripsTypeOK /\ FiguresTypeOK /\ ProofsTypeOK /\ AccountsTypeOK
       /\ OnboardingTypeOK /\ CommerceTypeOK /\ ReportsTypeOK /\ RecordsTypeOK
       /\ NewAccountsTypeOK /\ DoorsTypeOK
       => PlatformTypeOK
    BY DEF PlatformTypeOK
<1> QED
    BY <1>1, <1>2, <1>3, <1>4, <1>5, <1>6, <1>7, <1>8, <1>9, <1>10, <1>11,
       PlatformIsEach, PTL
    DEF TripsSpec, AccountsSpec, OnboardingSpec, CommerceSpec, ReportsSpec, RecordsSpec,
        NewAccountsSpec, DoorsSpec

(* Whatever overlaps, in every component: the screens add up, no billed    *)
(* kilometre is without its figure in an answer, a complete set of papers  *)
(* is noticed, a listed report is whole, a picture's file is there, a form *)
(* leaves all its rows or none, the guards agree, and a figure is final.   *)
THEOREM PlatformKeeps ==
    PlatformSpec =>
        /\ []ScreensAddUp /\ []AnswerIsComplete /\ []CompleteSetIsNoticed
        /\ []ListedReportIsWhole /\ []PictureIsThere /\ []OnboardedWhole /\ []DoorsAgree
        /\ FigureIsFinal
<1>1. TripsSpec => []ScreensAddUp
    BY LedgerAddsUp
<1>2. FiguresInit /\ [][FiguresNext]_figuresVars => []AnswerIsComplete
    BY WholeUnforced, PTL
<1>3. FiguresInit /\ [][FiguresNext]_figuresVars => FigureIsFinal
    BY StaysUnforced
<1>4. OnboardingSpec => []CompleteSetIsNoticed
    BY CompleteIsNoticed
<1>5. ReportsSpec => []ListedReportIsWhole
    BY ReportsAreWhole, PTL
<1>6. RecordsSpec => []PictureIsThere
    BY PicturesAreThere, PTL
<1>7. NewAccountsSpec => []OnboardedWhole
    BY WholeForms, PTL
<1>8. DoorsSpec => []DoorsAgree
    BY DoorsLetInAlike, PTL
<1> QED
    BY <1>1, <1>2, <1>3, <1>4, <1>5, <1>6, <1>7, <1>8, PlatformIsEach, PTL
    DEF TripsSpec, OnboardingSpec, ReportsSpec, RecordsSpec, NewAccountsSpec, DoorsSpec

(* With phones that keep their order and requests that come one at a time  *)
(* where two are known to break it: rows open their drives, feeds show     *)
(* every trip, links, sign-ins and tokens work, the history of a vehicle   *)
(* and the payout agree with the rows, the budget is at the campaign's     *)
(* rates, its warning comes once, and what was published stays.            *)
THEOREM PlatformKeepsInTurn ==
    ASSUME DrivenInOrder, StartsApart, PhoneInOrder = TRUE, Patient,
           OneClerk, OneTab, OneDesk, OneScreen, OneBuyer, OneOpening
    PROVE  PlatformSpec =>
               /\ []RowOpensItsDrive /\ []FeedShowsEveryTripOnce
               /\ []OneLinkWorks /\ []SignInIsEarned /\ []RefreshTokenWorks
               /\ []VehicleHistoryAgrees /\ []OneWayToBePaid
               /\ []BudgetAtItsRates /\ []WarnedOnce /\ PublishedStays
<1>1. TripsSpec => []RowOpensItsDrive
    BY RowsOpenTheirDrives
<1>2. TripsSpec => []FeedShowsEveryTripOnce
    BY FeedShowsAll
<1>3. AccountsSpec => []OneLinkWorks
    BY LinkWorks
<1>4. AccountsSpec => []SignInIsEarned
    BY SignInEarned, PTL
<1>5. AccountsSpec => []RefreshTokenWorks
    BY TokenWorks
<1>6. OnboardingSpec => []VehicleHistoryAgrees
    BY HistoryAgrees
<1>7. RecordsSpec => []OneWayToBePaid
    BY OneWay
<1>8. CommerceSpec => []BudgetAtItsRates
    BY BudgetHolds
<1>9. CommerceSpec => []WarnedOnce
    BY WarnsOnce
<1>10. ProofsInit /\ [][ProofsNext]_proofsVars => PublishedStays
    BY PublishedUnforced
<1> QED
    BY <1>1, <1>2, <1>3, <1>4, <1>5, <1>6, <1>7, <1>8, <1>9, <1>10, PlatformIsEach, PTL
    DEF TripsSpec, AccountsSpec, OnboardingSpec, RecordsSpec, CommerceSpec
=============================================================================
