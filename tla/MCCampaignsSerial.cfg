SPECIFICATION Spec
CONSTANTS
    CampaignIds = {c, d}
    Vehicles = {v}
    x = x
    y = y
    Users = {x, y}
    CreatedBy <- CreatedByX
    RequestedIds <- Everything
    Requests = {r1}
    Nobody = Nobody
    Serial = TRUE
    LiveWorkOnly = TRUE
    MayCrash = FALSE
CHECK_DEADLOCK FALSE
SYMMETRY Alike
INVARIANTS
    OneLivePerVehicle
    FinishedHoldsNothing
    OnTheRoadIsLaunched
    ScreensAgree
    EveryWrapHasAScreen
PROPERTIES
    FinishedIsFinal
    NoCampaignVanishes
