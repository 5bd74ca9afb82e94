SPECIFICATION Spec
CONSTANTS
    CampaignIds = {c}
    Vehicles = {v}
    x = x
    y = y
    Users = {x, y}
    CreatedBy <- CreatedByX
    RequestedIds <- Everything
    Requests = {r1}
    Nobody = Nobody
    Serial = TRUE
    LiveWorkOnly = TRUE
    MayCrash = FALSE
CHECK_DEADLOCK FALSE
PROPERTY EvidenceIsNoGate
