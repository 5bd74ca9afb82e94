SPECIFICATION IngestSpec
CONSTANTS
    Fixes <- ShortFixes
    RecordedAt <- ShortRecordedAt
    Place <- ShortPlace
    AccuracyM <- ShortAccuracyM
    Mock = {}
    RoadStart = 0
    RoadEnd = 6
    ZoneAt <- MCZoneAt
    Rate <- MCRate
    EligibleAccuracyM = 50
    RejectAccuracyM = 100
    MaxBridgeSeconds = 25
    MaxPlausible = 1
    Calls = {c1, c2}
    SerialPhone = FALSE
    MaxBatch = 3
SYMMETRY CallsAlike
INVARIANT NothingTwice
