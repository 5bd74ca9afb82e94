SPECIFICATION RacesSpec
CONSTANTS
    Fixes <- ShortFixes
    RecordedAt <- ShortRecordedAt
    Place <- ShortPlace
    AccuracyM <- ShortAccuracyM
    Mock = {}
    RoadStart = 0
    RoadEnd = 6
    ZoneAt <- MCZoneAt
    Rate <- MCRate
    EligibleAccuracyM = 50
    RejectAccuracyM = 100
    MaxBridgeSeconds = 25
    MaxPlausible = 1
    Calls = {c1, c2}
    SerialPhone = FALSE
    MaxBatch = 2
    CampaignIds = {c}
    Vehicles = {v}
    x = x
    y = y
    Users = {x, y}
    CreatedBy <- CreatedByX
    RequestedIds <- Everything
    Requests = {r1, r2}
    Nobody = Nobody
    Serial = FALSE
    LiveWorkOnly = FALSE
    MayCrash = TRUE
CHECK_DEADLOCK FALSE
SYMMETRY EveryoneAlike
INVARIANTS
    SeparationOfDuties
    AssignedWasApproved
    PairConsumed
