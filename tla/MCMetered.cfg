SPECIFICATION MeteredSpec
CONSTANTS
    Fixes <- ShortFixes
    RecordedAt <- ShortRecordedAt
    Place <- ShortPlace
    AccuracyM <- ShortAccuracyM
    Mock = {}
    RoadStart = 0
    RoadEnd = 6
    ZoneAt <- MCZoneAt
    Rate <- MCRate
    EligibleAccuracyM = 50
    RejectAccuracyM = 100
    MaxBridgeSeconds = 25
    MaxPlausible = 1
    Calls = {c1, c2}
    SerialPhone = TRUE
    MaxBatch = 2
INVARIANT PausedIsNotBilled
